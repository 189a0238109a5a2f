SPECIFICATION Spec
CONSTANTS
  Scouts = {s1}
  Sites = {k1}
  Runs = {r1,r2,r3}
  Workers = {w1}
  Requests = {q1}
  BatchSize = 3
  MaxDays = 2
  MaxLosses = 0
  Faults = {}
  Edits = {"ACTIVE","PAUSED"}
CHECK_DEADLOCK FALSE
SYMMETRY Symmetry
INVARIANT OneRunPerDay
