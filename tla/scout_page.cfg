SPECIFICATION FairSpec
CONSTANTS
  s1 = s1
  s2 = s2
  Scouts <- MCScouts
  Openings <- MCOpenings
  ActiveCap = 1
  MaxRuns = 2
  MaxHours = 1
  MaxClicks = 3
  MaxFaults = 1
CHECK_DEADLOCK FALSE
INVARIANTS TypeOK RepairFailureIsOwn
PROPERTIES RefusedOnlyWhenStale WorkShownEnds
\* What the code says and does not hold: each is violated, checked alone.
\* with MaxRuns = 3
\* INVARIANT NoIdleGap
\* INVARIANT OncePerHour
