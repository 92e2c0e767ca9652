\* Two threads, of one process or of two, and every fault.  The UID scan only reads: other runs have it.
SPECIFICATION FairSpec
CONSTANTS
  b1 = b1
  b2 = b2
  b3 = b3
  u1 = u1
  u2 = u2
  loop = loop
  worker1 = worker1
  worker2 = worker2
  importer = importer
  Loops = {loop, importer}
  Workers = {importer}
  Names <- MCNames
  Bodies = {b1, b3}
  Uids = {u1, u2}
  UidOf <- MCUidOf
  NoUid = NoUid
  Absent = Absent
  Torn = Torn
  Free = Free
  Stale = Stale
  RequireUniqueUids = FALSE
  MaxOps = 4
CHECK_DEADLOCK FALSE
INVARIANTS TypeOK HeadMatchesIndex WorktreeMatchesIndex CrashLosesOneMember
PROPERTIES OneMemberPerCommit KeepsPromise LockIsReleased CallsReturn
