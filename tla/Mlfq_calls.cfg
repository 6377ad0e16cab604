SPECIFICATION Spec
CONSTANTS
  NPROC = 3
  GapTicks = TRUE
  Instances <- AllCalls
INVARIANTS Consistent SleepIsExact SleepersHaveWakers
