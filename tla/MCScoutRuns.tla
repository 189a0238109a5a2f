---------------------------- MODULE MCScoutRuns ----------------------------
EXTENDS ScoutRuns, TLC

Symmetry ==
  Permutations(Scouts) \cup Permutations(Sites) \cup Permutations(Runs) \cup Permutations(Workers)
=============================================================================
