\* Reports extend the index while the scan fills it.
SPECIFICATION Spec
CONSTANTS
  q1 = q1
  q2 = q2
  worker1 = worker1
  scanner = scanner
  b1 = b1
  b2 = b2
  uid = uid
  summary = summary
  Queries = {q1}
  Writers = {}
  Scanner = scanner
  Names <- MCNames
  Bodies = {b1, b2}
  Absent = Absent
  Keys = {uid, summary}
  Has <- MCHas
  EagerKeys = {uid}
  Threshold = 0
  MaxOps = 3
CHECK_DEADLOCK FALSE
INVARIANT QueriesAreRight
