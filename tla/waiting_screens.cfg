SPECIFICATION SpecParts
CONSTANTS
  s1 = s1
  s2 = s2
  Scouts <- MCScouts
  Openings <- MCOpenings
  ActiveCap = 1
  MaxScoutRuns = 2
  MaxHours = 1
  MaxClicks = 2
  MaxScoutFaults = 1
  MaxRows = 2
  MaxRuns = 2
  MaxWorkers = 1
  MaxFaults = 1
  MaxVisits = 2
CHECK_DEADLOCK FALSE
INVARIANTS RepairFailureIsOwn ConversionHasItsFile OrphansAccounted OutcomeIsAfterStart
PROPERTIES RefusedOnlyWhenStale WorkShownEnds SpinnerEnds
