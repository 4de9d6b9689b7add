------------------------------ MODULE MCOrphans ------------------------------
(* Instances of Orphans for TLC. *)
EXTENDS Orphans
=============================================================================
