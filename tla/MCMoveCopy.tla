----------------------------- MODULE MCMoveCopy -----------------------------
(* Small instances of MoveCopy for TLC. *)
EXTENDS MoveCopy, TLC

CONSTANTS r1, r2, w1, work, home, n1, n2, b1, b2, b3, u1

\* b1 and b2 are two versions of one event, b3 has no UID.
MCUidOf == [b \in Bodies |-> IF b = b3 THEN NoUid ELSE u1]

\* Every property is a safety property, and nothing tells these apart.
MCSymmetry ==
  Permutations(Requests) \cup Permutations(Collections) \cup Permutations(Names)
    \cup Permutations({b1, b2})
=============================================================================
