CONSTANTS
  Procs = {p, q}
  NINODES = 5
  Names = {"a", "b"}
  Paths <- MCPaths
  Trees <- MCTrees
  Homes = {3}
  MaxCalls = 3
SPECIFICATION Spec
PROPERTY LastPutFrees
CHECK_DEADLOCK FALSE
