CONSTANTS
  Dirs = {"in", "out"}
  Aliases <- Spoken
  Loops <- Maze
  Scatter <- Scattered
  Hash = 2
  Burden = 1
  Me = 1
  Start <- World
  Home = 2
  Wanted = {"none"}
  Codes = {"a"}
  Edited = {4}
  MaxEdits = 2
  MaxFaults = 1
  MaxId = 8
SPECIFICATION Spec
CHECK_DEADLOCK FALSE
INVARIANTS TypeOK UnsavedIsMarked
PROPERTIES WaysKept LocksHold
