CONSTANTS
  Processes = {{p, r}, {q}}
  Blocks = {b1, b2, b3, b4}
  NBUF = 3
  Data = {x, y}
  MaxDirty = 3
  None = None
SPECIFICATION Spec
SYMMETRY Symmetry
INVARIANT CacheSound
INVARIANT OneBufferPerBlock
INVARIANT LockHolds
INVARIANT DriverSound
