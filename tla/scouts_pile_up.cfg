SPECIFICATION Spec
CONSTANTS
  Scouts = {s1,s2}
  Sites = {k1}
  Runs = {r1,r2,r3}
  Workers = {w1}
  Requests = {}
  BatchSize = 1
  MaxDays = 1
  MaxLosses = 0
  Faults = {}
  Edits = {}
CHECK_DEADLOCK FALSE
INVARIANT NoPileUp
