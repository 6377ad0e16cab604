SPECIFICATION WfsSpec
CONSTANTS
  Paths <- DistinctNames
  Offsets = {0, 2}
  Bytes = {7}
  Instances <- BothDisks
INVARIANTS WfsTypeOK LookupFollowsTree NoAliases ListedNamesExist
PROPERTIES ImplementsTree
CHECK_DEADLOCK FALSE
