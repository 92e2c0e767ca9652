\* One thread does everything: the preconditions of the docstrings hold.
SPECIFICATION Spec
CONSTANTS
  b1 = b1
  b2 = b2
  b3 = b3
  u1 = u1
  u2 = u2
  loop = loop
  worker1 = worker1
  worker2 = worker2
  importer = importer
  Loops = {loop}
  Workers = {loop}
  Names <- MCNames
  Bodies = {b1, b2, b3}
  Uids = {u1, u2}
  UidOf <- MCUidOf
  NoUid = NoUid
  Absent = Absent
  Torn = Torn
  Free = Free
  Stale = Stale
  RequireUniqueUids = TRUE
  MaxOps = 5
CHECK_DEADLOCK FALSE
INVARIANTS UidsUnique
PROPERTIES InvalidETagIsTrue KeepsStrictPromise
