------------------------------- MODULE MCDav -------------------------------
(* A small instance of Dav: one device wants to hear of everything, the other *)
(* of contents only.                                                          *)
EXTENDS Dav, TLC

CONSTANTS d1, d2, cal1, cal2, b1, b2, k1, k2

MCTriggers == [d \in Devices |-> IF d = d1 THEN {"content", "property"} ELSE {"content"}]
MCSymmetry == Permutations(Paths) \cup Permutations(Bodies) \cup Permutations(Conns)
=============================================================================
