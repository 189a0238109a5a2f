SPECIFICATION Spec
CONSTANTS
  Offers = {o1, o2}
  Quota = 2
  MaxClicks = 3
  MaxJobs = 2
  MaxFaults = 1
CHECK_DEADLOCK FALSE
INVARIANTS BatchFollowedToItsEnd
\* INVARIANT QuotaHeld is violated here too.
\* PROPERTY WaitingOpensItsOffer is violated here too.
