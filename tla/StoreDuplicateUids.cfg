\* Two threads pass the UID check together.
SPECIFICATION Spec
CONSTANTS
  b1 = b1
  b2 = b2
  b3 = b3
  u1 = u1
  u2 = u2
  loop = loop
  worker1 = worker1
  worker2 = worker2
  importer = importer
  Loops = {loop}
  Workers = {worker1}
  Names <- MCNames
  Bodies = {b1, b2, b3}
  Uids = {u1, u2}
  UidOf <- MCUidOf
  NoUid = NoUid
  Absent = Absent
  Torn = Torn
  Free = Free
  Stale = Stale
  RequireUniqueUids = TRUE
  MaxOps = 4
CHECK_DEADLOCK FALSE
INVARIANT UidsUnique
