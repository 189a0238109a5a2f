SPECIFICATION FairSpec
CONSTANTS
  MaxRows = 2
  MaxRuns = 3
  MaxWorkers = 1
  MaxFaults = 1
  MaxVisits = 2
CHECK_DEADLOCK FALSE
INVARIANT TypeOK
INVARIANT ConversionHasItsFile
INVARIANT OrphansAccounted
INVARIANT OutcomeIsAfterStart
PROPERTY SpinnerEnds
\* What the code says and does not hold: each is violated, checked alone.
\* INVARIANT FailureMeansStored
\* INVARIANT FollowedConversionExists
\* INVARIANT OutcomeIsOfThisAttempt
