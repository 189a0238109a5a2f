SPECIFICATION FairSpec
CONSTANTS
  c1 = c1
  o1 = o1
  Analyses = {a1}
  CVs = {c1}
  Offers = {o1}
  CvOf <- MCCvOf
  OfferOf <- MCOfferOf
  Workers = {w1}
  Requests = {r1}
  MsgIds = {m1,m2}
  BatchSize = 2
  MaxLosses = 1
  Faults = {"worker_crash", "provider"}
CHECK_DEADLOCK FALSE
PROPERTY ImplementsLifecycle
