SPECIFICATION Spec
CONSTANTS
  Providers = {p1, p2}
  KeysAtFirst = {p1}
  ActiveAtFirst = {p2, none}
  Keyed = {p1, p2}
  InEnvironment = {p2}
  None = none
  Texts = {"x", "y"}
  MaxRequests = 2
  MaxGestures = 2
  MaxLosses = 1
CHECK_DEADLOCK FALSE
INVARIANTS TypeOK OneActive FailureIsOfLast TableSettles
\* What the code says and does not hold: each is violated, checked alone.
\* INVARIANT OnlyWhatChanged
\* INVARIANT ActiveRuns
