CONSTANTS
  NPROC = 2
  NWINDOW = 4
  NPAGES = 4
  Lens = {1}
  FlagSets = {{"ANONYMOUS"}}
  MaxCalls = 4
  Excess = 0
  Data = {"a"}
  Cached = {1, 2, 3, 4}
SPECIFICATION Spec
PROPERTY ForkCopies
CHECK_DEADLOCK FALSE
