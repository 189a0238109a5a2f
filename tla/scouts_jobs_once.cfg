SPECIFICATION Spec
CONSTANTS
  Scouts = {s1}
  Sites = {k1}
  Runs = {r1,r2}
  Workers = {w1}
  Requests = {}
  BatchSize = 2
  MaxDays = 1
  MaxLosses = 1
  Faults = {"worker_crash"}
  Edits = {}
CHECK_DEADLOCK FALSE
INVARIANT OneJobPerSite
