CONSTANTS
  Objects = {a, b}
  Tasks = {t1, t2}
  Absent = Absent
  NoTask = NoTask
  InitRows = {a}
  Deleted = {a}
  Resaved = {}
  InitQty = 2
  Ops = {"touch", "spawn", "transfer", "ensure"}
  Faults = {"batch", "reload", "single", "load"}
  Retries = 1
  MaxVer = 3
  MaxFailures = 1
  MaxCrashes = 1
SPECIFICATION FairSpec
CHECK_DEADLOCK FALSE
INVARIANTS TypeOK ReloadIdentical
PROPERTIES WritesBehind EventuallySaved
