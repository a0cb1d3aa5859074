CONSTANTS
  Objects = {a, b, c}
  Tasks = {t1}
  Absent = Absent
  NoTask = NoTask
  InitRows = {a, b}
  Deleted = {}
  Resaved = {b}
  InitQty = 2
  Ops = {"split", "merge", "persist_all"}
  Faults = {"batch", "reload", "single"}
  Retries = 1
  MaxVer = 4
  MaxFailures = 1
  MaxCrashes = 0
SPECIFICATION Spec
CHECK_DEADLOCK FALSE
INVARIANTS OnlyErrorsForget
PROPERTIES GoodsNeverLost
