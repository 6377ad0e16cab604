SPECIFICATION FairSpec
CONSTANTS
  Listeners = {l1}
  Workers = {w1, w2}
  Fds = {f1, f2, f3}
  MaxQueueSize = 2
  Requests <- MCRequests
  MaxPriority = 2
  MaxConns = 3
  MaxSpurious = 1
  None = None
INVARIANTS TypeOK NoCrossTalk OnlyGetJobLeaks WorkConserving ClosedIsAccounted
PROPERTIES ImplementsService QueuedIsServed
CHECK_DEADLOCK FALSE
