CONSTANTS
  Procs = {1, 2, 3}
  First = 1
  PIPESIZE = 2
  WRAP = 4
  Byte <- MCByte
  Strings <- MCStrings
  Sizes = {1, 3}
  MaxKilled = 1
SPECIFICATION Spec
INVARIANT EndsSound
 
PROPERTY ImplementsChannel
CHECK_DEADLOCK FALSE
