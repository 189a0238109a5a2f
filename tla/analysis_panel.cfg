SPECIFICATION FairSpec
CONSTANTS
  Analyses = {a1, a2}
  Types = {letter, cv}
  Quota = 2
  MaxDocs = 3
  MaxRuns = 2
  MaxClicks = 4
  MaxLosses = 1
CHECK_DEADLOCK FALSE
INVARIANTS TypeOK ListKnowsDocuments
PROPERTIES OtherSlotKept ConfirmNotSnatched EndIsShown
\* What the code says and does not hold: each is violated, checked alone.
\* INVARIANT OnePerType
\* INVARIANT OwnDocument
\* PROPERTY EveryRunIsWatched
