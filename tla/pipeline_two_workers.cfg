SPECIFICATION Spec
CONSTANTS
  c1 = c1
  o1 = o1
  Analyses = {a1}
  CVs = {c1}
  Offers = {o1}
  CvOf <- MCCvOf
  OfferOf <- MCOfferOf
  Workers = {w1,w2}
  Requests = {r1}
  MsgIds = {m1,m2}
  BatchSize = 1
  MaxLosses = 0
  Faults = {"expiry", "reconvert"}
CHECK_DEADLOCK FALSE
SYMMETRY Symmetry
INVARIANTS CompletedHasResult CompletedInv
