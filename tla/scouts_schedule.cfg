SPECIFICATION FairSpec
CONSTANTS
  Scouts = {s1}
  Sites = {k1,k2}
  Runs = {r1,r2,r3}
  Workers = {w1}
  Requests = {}
  BatchSize = 3
  MaxDays = 1
  MaxLosses = 1
  Faults = {"worker_crash","broker_restart","send_failure"}
  Edits = {"ARCHIVED"}
CHECK_DEADLOCK FALSE
PROPERTY ScheduleHonoured
