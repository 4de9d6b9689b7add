-------------------------- MODULE MCStoragePolicy --------------------------
(* Instances of StoragePolicy for TLC.  Paths 1 and 2 are library files on *)
(* the NAS, 3 is a folder both recycle into; c1 and c2 place replacements, *)
(* c3 moves a backup, c4 deletes a file and c5 works on local files only.  *)
EXTENDS StoragePolicy, TLC

CONSTANTS c1, c2, c3, c4, c5

MCKeysOf ==
  [c \in Calls |-> CASE c = c1 -> {1, 3}
                     [] c = c2 -> {2, 3}
                     [] c = c3 -> {1, 2}
                     [] c = c4 -> {2}
                     [] OTHER  -> {3}]
MCSize == [c \in Calls |-> IF c = c3 THEN 1 ELSE 2]
(* c1 and c2 place replacements of different movies, c3 moves a backup of  *)
(* another, c4 moves the file of the first elsewhere.  The volume of both  *)
(* replacements is allowed but not their number, and the backup does not   *)
(* fit beside the first.                                                   *)
MCVolume == [c \in Calls |-> CASE c = c1 -> 2 [] c = c2 -> 1 [] OTHER -> 3]
MCApart ==
  [c \in Calls |-> CASE c = c1 -> {2}
                     [] c = c2 -> {3}
                     [] c = c3 -> {4}
                     [] OTHER  -> {1, 2}]
=============================================================================
