-------------------------- MODULE MCTreeIndexCache --------------------------
(* Small instances of TreeIndexCache for TLC. *)
EXTENDS TreeIndexCache
CONSTANTS loop, worker1, worker2
=============================================================================
