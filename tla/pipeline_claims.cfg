SPECIFICATION Spec
CONSTANTS
  c1 = c1
  o1 = o1
  Analyses = {a1}
  CVs = {c1}
  Offers = {o1}
  CvOf <- MCCvOf
  OfferOf <- MCOfferOf
  Workers = {w1}
  Requests = {r1}
  MsgIds = {m1,m2}
  BatchSize = 2
  MaxLosses = 0
  Faults = {"reconvert"}
CHECK_DEADLOCK FALSE
PROPERTY CompletedIsKept
\* What the code says and does not hold: each is violated, checked alone.
\* PROPERTY FailedIsKept
\* INVARIANT FailedCountIsCurrent
\* INVARIANT FailedHasReason
