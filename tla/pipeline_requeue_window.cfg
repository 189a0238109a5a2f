SPECIFICATION Spec
CONSTANTS
  c1 = c1
  o1 = o1
  Analyses = {a1}
  CVs = {c1}
  Offers = {o1}
  CvOf <- MCCvOf
  OfferOf <- MCOfferOf
  Workers = {}
  Requests = {r1,r2}
  MsgIds = {m1,m2,m3}
  BatchSize = 2
  MaxLosses = 0
  Faults = {}
CHECK_DEADLOCK FALSE
PROPERTY RequeueOncePerWindow
