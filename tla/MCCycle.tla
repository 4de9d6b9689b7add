------------------------------- MODULE MCCycle -------------------------------
(* Instances of Cycle for TLC. *)
EXTENDS Cycle, TLC
Symmetric == Permutations(Movies)
=============================================================================
