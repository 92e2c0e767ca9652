--------------------------- MODULE MCTreeGitStore ---------------------------
(* Small instances of TreeGitStore for TLC. *)
EXTENDS TreeGitStore

CONSTANTS b1, b2, b3, u1, u2, loop, worker1, worker2, importer

\* b1 and b2 are two versions of one event, b3 is another event.
MCUidOf == [b \in Bodies |-> IF b = b3 THEN u2 ELSE u1]
MCNames == {1, 2}
=============================================================================
