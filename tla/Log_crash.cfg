SPECIFICATION Spec
CONSTANTS
  Procs = {p1, p2, p3}
  Blocks = {b1, b2, b3, b4, b5}
  MAXOPBLOCKS = 3
  LOGSIZE = 6
  NLog = 6
  OpBlocks = 2
  MaxOps = 3
  MaxCrashes = 2
SYMMETRY LogSymmetry
INVARIANTS WithinBounds QuiescentCommit SleepersAreBlocked
PROPERTIES ImplementsAtomicDisk
CHECK_DEADLOCK FALSE
