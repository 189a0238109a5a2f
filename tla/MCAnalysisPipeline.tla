------------------------ MODULE MCAnalysisPipeline ------------------------
EXTENDS AnalysisPipeline, TLC

\* Every Analysis of the instance compares one CV with one JobOffer.
CONSTANTS c1, o1
MCCvOf == [a \in Analyses |-> c1]
MCOfferOf == [a \in Analyses |-> o1]

Symmetry == Permutations(MsgIds) \cup Permutations(Analyses) \cup Permutations(Workers)
=============================================================================
