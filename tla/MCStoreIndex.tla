---------------------------- MODULE MCStoreIndex ----------------------------
(* Small instances of StoreIndex for TLC. *)
EXTENDS StoreIndex

CONSTANTS q1, q2, worker1, scanner, b1, b2, uid, summary

\* Every event has a UID, only b1 has a summary.
MCHas == [k \in Keys |-> IF k = summary THEN Bodies \cap {b1} ELSE Bodies]
MCNames == {1, 2}
=============================================================================
