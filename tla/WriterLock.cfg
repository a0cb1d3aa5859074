CONSTANTS
  Procs = {p1, p2, p3, p4}
  Disabled = {p4}
  Inodes = {f1, f2, f3, f4}
  NoFile = NoFile
  NoProc = NoProc
SPECIFICATION Spec
SYMMETRY Symmetry
INVARIANTS ExclusiveUntilExit FreshUntilExit LeftoverNeverBlocks
