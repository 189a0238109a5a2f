SPECIFICATION Spec
CONSTANTS
  Scouts = {s1}
  Sites = {k1}
  Runs = {r1,r2}
  Workers = {w1}
  Requests = {q1}
  BatchSize = 3
  MaxDays = 1
  MaxLosses = 1
  Faults = {"worker_crash","broker_restart","send_failure"}
  Edits = {"ACTIVE","PAUSED","ARCHIVED"}
CHECK_DEADLOCK FALSE
SYMMETRY Symmetry
INVARIANTS TypeOK NoOverlap CompletedRunIsCovered
