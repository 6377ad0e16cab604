CONSTANTS
  NPIDS = 3
  Lengths = {1, 2, 3}
  MaxJobs = 2
SPECIFICATION Spec
INVARIANT TablesSound
INVARIANT NeverWaitsInVain
INVARIANT PromptSound
PROPERTY ShellReturns
CHECK_DEADLOCK FALSE
