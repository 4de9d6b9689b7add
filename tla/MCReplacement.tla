--------------------------- MODULE MCReplacement ---------------------------
(* Instances of Replacement for TLC: up to three downloads of one movie,   *)
(* two extensions; downloads d1 and d3 have the extension of the original. *)
EXTENDS Replacement, TLC

CONSTANTS d1, d2, d3, mkv, mp4

MCExtOf == [d \in Downloads |-> IF d = d2 THEN mp4 ELSE mkv]
=============================================================================
