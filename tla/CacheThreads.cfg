\* Two threads of one process.
SPECIFICATION Spec
CONSTANTS
  loop = loop
  worker1 = worker1
  worker2 = worker2
  Threads = {loop, worker1}
  Foreign = FALSE
  None = None
  MaxVersion = 2
  MaxCalls = 4
CHECK_DEADLOCK FALSE
INVARIANT CacheIsTrue
