\* Reports extend the index while a worker, the event loop and the scan fill it.
SPECIFICATION FairSpec
CONSTANTS
  q1 = q1
  q2 = q2
  worker1 = worker1
  scanner = scanner
  b1 = b1
  b2 = b2
  uid = uid
  summary = summary
  Queries = {q1, q2}
  Writers = {worker1}
  Scanner = scanner
  Names <- MCNames
  Bodies = {b1, b2}
  Absent = Absent
  Keys = {uid, summary}
  Has <- MCHas
  EagerKeys = {uid}
  Threshold = 0
  MaxOps = 2
CHECK_DEADLOCK FALSE
INVARIANTS IndexIsComplete QueriesAreRightUnlessRaced
PROPERTY EveryMemberIsIndexed
