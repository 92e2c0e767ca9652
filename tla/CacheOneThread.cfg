\* One thread in this process, another process that writes.
SPECIFICATION Spec
CONSTANTS
  loop = loop
  worker1 = worker1
  worker2 = worker2
  Threads = {loop}
  Foreign = TRUE
  None = None
  MaxVersion = 4
  MaxCalls = 8
CHECK_DEADLOCK FALSE
INVARIANT CacheIsTrue
PROPERTY AnswersAreCurrent
