SPECIFICATION Spec
CONSTANTS
  Used = {1}
  Elsewhere = {"replace", "delete"}
  MaxCvs = 3
  MaxEditions = 3
  MaxAsks = 2
  MaxClicks = 2
  MaxLapses = 1
CHECK_DEADLOCK FALSE
INVARIANTS TypeOK ChainsWhole FormIsOfItsCv EditShowsSaved
\* What the code says and does not hold: each is violated, checked alone.
\* with Elsewhere = {"default", "replace", "save"} and MaxEditions = 4
\* INVARIANT OneDefault
\* INVARIANT DefaultIsCurrent
\* INVARIANT ConfirmIsOfItsCv
\* PROPERTY NoRenditionLost
