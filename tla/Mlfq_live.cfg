SPECIFICATION FairSpec
CONSTANTS
  NPROC = 3
  GapTicks = FALSE
  Instances <- LiveInstances
PROPERTIES NoStarvation KilledExits
