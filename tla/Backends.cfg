\* The three stores, two names, three contents with two UIDs and two sizes.
SPECIFICATION StoresSpec
CONSTANTS
  a = a
  b = b
  b1 = b1
  b2 = b2
  b3 = b3
  u1 = u1
  u2 = u2
  me = me
  Kinds = {"bare", "vdir", "memory"}
  Names = {a, b}
  Bodies = {b1, b2, b3}
  Uids = {u1, u2}
  UidOf <- MCUidOf
  SizeOf <- MCSizeOf
  Caller = me
  Absent = Absent
  MaxOps = 5
  MaxTime = 2
CHECK_DEADLOCK FALSE
INVARIANTS UidsUnique ReadsAreTrue
PROPERTIES KeepsContract RefusalsAreJust
