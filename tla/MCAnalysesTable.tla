-------------------------- MODULE MCAnalysesTable --------------------------
EXTENDS AnalysesTable

\* A tie, a missing date and two CVs.
MCPostedAt == <<2, 0, 2, 1>>
MCCvLabel == <<"dev", "dev", "lead", "lead">>
============================================================================
