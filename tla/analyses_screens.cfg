SPECIFICATION SpecParts
CONSTANTS
  Analyses = {1, 2, 3}
  Contested = {3}
  Opening <- MCOpening
  PageSizes = {1, 2}
  MaxClicks = 4
  MaxElsewhere = 2
  MaxLosses = 1
  Initial = 3
  MaxAnalyses = 4
  PostedAt <- MCPostedAt
  CvLabel <- MCCvLabel
  PanelAnalyses = {a1, a2}
  Types = {letter, cv}
  Quota = 2
  MaxDocs = 3
  MaxRuns = 2
CHECK_DEADLOCK FALSE
INVARIANTS OneApplication AppliedDated CachesCatchUp ListKnowsDocuments
PROPERTIES BulkTellsFailures StepShowsItsRow SuivantSkipsNothing EndIsShown
