SPECIFICATION Spec
CONSTANTS
  Analyses = {1, 2, 3}
  Contested = {3}
  Opening <- MCOpening
  PageSizes = {1, 2}
  MaxClicks = 4
  MaxElsewhere = 2
  MaxLosses = 1
CHECK_DEADLOCK FALSE
INVARIANTS TypeOK OneApplication AppliedDated ListCatchesUp
PROPERTIES BulkTellsFailures
\* What the code says and does not hold: each is violated, checked alone.
\* with Contested = {2, 3}
\* INVARIANT AppliedOnce
\* INVARIANT StatusIsLatestEvent
\* PROPERTY StepsThroughList
