SPECIFICATION RequeueingSpec
CONSTANTS
  c1 = c1
  o1 = o1
  Analyses = {a1}
  CVs = {c1}
  Offers = {o1}
  CvOf <- MCCvOf
  OfferOf <- MCOfferOf
  Workers = {w1}
  Requests = {r1}
  MsgIds = {m1,m2}
  BatchSize = 2
  MaxLosses = 2
  Faults = {"worker_crash", "broker_restart", "send_failure", "s3", "provider"}
CHECK_DEADLOCK FALSE
PROPERTY EventuallyTerminal
