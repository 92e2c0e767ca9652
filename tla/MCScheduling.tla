---------------------------- MODULE MCScheduling ----------------------------
(* A small instance of Scheduling for TLC. *)
EXTENDS Scheduling, TLC

CONSTANTS c1, c2, boss, ann, bob, rem

MCSymmetry == Permutations(Calls) \cup Permutations(Local)
MCImports == {{ann, bob}}
=============================================================================
