\* Two paths, two contents, two devices, two connections.
SPECIFICATION Spec
CONSTANTS
  d1 = d1
  d2 = d2
  cal1 = cal1
  cal2 = cal2
  b1 = b1
  b2 = b2
  k1 = k1
  k2 = k2
  Paths = {cal1, cal2}
  Bodies = {b1, b2}
  Devices = {d1, d2}
  Triggers <- MCTriggers
  Conns = {k1, k2}
  Absent = Absent
  MaxOps = 4
  MaxTime = 1
  Lifetime = 1
  Asked = {1}
SYMMETRY MCSymmetry
CHECK_DEADLOCK FALSE
INVARIANTS PromisesAreKept GoneIsGone
PROPERTIES ConditionalWritesHold EveryoneIsTold
