CONSTANTS
  NPROC = 3
  NWINDOW = 4
  NPAGES = 3
  Lens = {1, 2}
  FlagSets = {{"SHARED"}, {"FIXED", "ANONYMOUS", "GROWSUP"}}
  MaxCalls = 5
  Excess = 1
  Data = {"a"}
  Cached = {1}
SPECIFICATION Spec
INVARIANT PagesAccounted
INVARIANT OnlyTornAreFreeAndMapped
INVARIANT OnlySharedArePlural
INVARIANT MappingsSound
CHECK_DEADLOCK FALSE
