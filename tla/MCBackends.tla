----------------------------- MODULE MCBackends -----------------------------
(* A small instance of Backends: b1 and b2 are versions of one event.        *)
EXTENDS Backends, TLC

CONSTANTS a, b, b1, b2, b3, u1, u2, me

MCUidOf == [x \in Bodies |-> IF x = b3 THEN u2 ELSE u1]
MCSizeOf == [x \in Bodies |-> IF x = b2 THEN 2 ELSE 1]
=============================================================================
