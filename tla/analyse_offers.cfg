SPECIFICATION FairSpec
CONSTANTS
  Offers = {o1, o2}
  Quota = 2
  MaxClicks = 3
  MaxJobs = 2
  MaxFaults = 1
CHECK_DEADLOCK FALSE
INVARIANT OneAnalysisPerOffer
PROPERTIES OpensWhatWasAsked WaitingEnds
