SPECIFICATION Spec
CONSTANTS
  Initial = 3
  MaxAnalyses = 4
  PostedAt <- MCPostedAt
  CvLabel <- MCCvLabel
  PageSizes = {1, 2}
  MaxClicks = 4
  MaxLosses = 1
CHECK_DEADLOCK FALSE
INVARIANTS TypeOK PageHasRows ListCatchesUp
PROPERTIES StepShowsItsRow SuivantSkipsNothing ReloadKeepsTable
\* What the code says and does not hold: each is violated, checked alone.
\* INVARIANT PanelOnItsPage
