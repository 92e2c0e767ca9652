-------------------------- MODULE MCSyncCollection --------------------------
(* Small instances of SyncCollection for TLC. *)
EXTENDS SyncCollection

CONSTANTS phone, laptop, b1, b2

\* Two members, and a metadata file between them.
MCNames == {1, 2, 3}
MCMetadata == {2}
=============================================================================
