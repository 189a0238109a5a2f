SPECIFICATION Spec
CONSTANTS
  c1 = c1
  o1 = o1
  Analyses = {a1,a2}
  CVs = {c1}
  Offers = {o1}
  CvOf <- MCCvOf
  OfferOf <- MCOfferOf
  Workers = {w1}
  Requests = {r1}
  MsgIds = {m1,m2}
  BatchSize = 2
  MaxLosses = 1
  Faults = {"worker_crash"}
CHECK_DEADLOCK FALSE
SYMMETRY Symmetry
INVARIANTS TypeOK NothingStranded CompletedHasNoError
PROPERTY CompletedIsKept
