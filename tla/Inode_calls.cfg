CONSTANTS
  Procs = {p, q}
  NINODES = 5
  Names = {"a", "b"}
  Paths <- MCPaths
  Trees <- MCTrees
  Homes = {3}
  MaxCalls = 3
SPECIFICATION Spec
SYMMETRY Symmetry
INVARIANT RefsSound
INVARIANT LinksSound
INVARIANT StopsExcused
PROPERTY FreedUnused
CHECK_DEADLOCK FALSE
