\* Two MOVE or COPY requests beside PUTs and DELETEs, over two collections.
SPECIFICATION Spec
CONSTANTS
  r1 = r1
  r2 = r2
  w1 = w1
  work = work
  home = home
  n1 = n1
  n2 = n2
  b1 = b1
  b2 = b2
  b3 = b3
  u1 = u1
  Requests = {r1, r2}
  Puts = {w1}
  Collections = {work, home}
  Names = {n1, n2}
  Bodies = {b1, b2, b3}
  UidOf <- MCUidOf
  NoUid = NoUid
  Absent = Absent
  Nobody = Nobody
  MaxOps = 2
SYMMETRY MCSymmetry
CHECK_DEADLOCK FALSE
INVARIANTS ContentSurvives SuccessIsTrue OverwriteIsAsked
PROPERTY TakesWhatItCopied
