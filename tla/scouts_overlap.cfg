SPECIFICATION Spec
CONSTANTS
  Scouts = {s1}
  Sites = {k1}
  Runs = {r1,r2}
  Workers = {w1,w2}
  Requests = {q1}
  BatchSize = 2
  MaxDays = 1
  MaxLosses = 0
  Faults = {}
  Edits = {}
CHECK_DEADLOCK FALSE
INVARIANT NoOverlap
