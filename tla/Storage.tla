------------------------------ MODULE Storage ------------------------------
(***************************************************************************)
(* What one call of the storage layer (backend/core/storage.py) does to    *)
(* the files of a movie.  Every filesystem change of Slimarr goes through  *)
(* move_path and remove_path: each checks the NAS policy, works in a       *)
(* thread under the locks of its paths, and either completes or raises.    *)
(* A call is one step here: the locks make it so for its own paths.  The   *)
(* locks, the concurrency limit and the budgets are StoragePolicy's; of    *)
(* the policy this module keeps the cooldown after a failure.              *)
(*                                                                         *)
(* A file is either absent, a complete film, or what an interrupted copy   *)
(* left.  A path is a triple, so that the library file with one extension, *)
(* its numbered ".slimarr-old" backups, its name in the recycling bin and  *)
(* the staging folder of a download are different keys of one function.    *)
(***************************************************************************)
EXTENDS Integers

CONSTANTS
  Downloads,       \* ids of the downloads of one movie
  Exts,            \* file extensions (".mkv", ".mp4")
  BackupNames,     \* suffixes n of "<target>.slimarr-old.n"; bounds the backups
  Orig,            \* the film the library holds at first
  NoFile, Partial, \* no file; a truncated file left by an interrupted copy
  LibraryOnNas,    \* the library lies under files.nas_path_prefixes
  CrossDevice,     \* staging and recycling bin are on another device
  MaxFaults        \* bound: storage faults the environment may inject

ASSUME StorageAssumption ==
  /\ BackupNames \subseteq Nat
  /\ Orig \notin Downloads /\ Orig # NoFile /\ Orig # Partial
  /\ NoFile \notin Downloads /\ Partial \notin Downloads /\ NoFile # Partial
  /\ LibraryOnNas \in BOOLEAN /\ CrossDevice \in BOOLEAN
  /\ MaxFaults \in Nat

VARIABLES
  fs,              \* what each path holds
  cooldown,        \* _nas_cooldown_until lies in the future
  faults           \* storage faults injected so far

Lib(e)    == <<"lib", e, 0>>
Bak(e, n) == <<"bak", e, n>>
Bin(e)    == <<"bin", e, 0>>
Stage(d)  == <<"stage", d, 0>>

Path == {Lib(e) : e \in Exts} \cup {Bin(e) : e \in Exts}
          \cup {Bak(e, n) : e \in Exts, n \in BackupNames}
          \cup {Stage(d) : d \in Downloads}

Content == {Orig, NoFile, Partial} \cup Downloads
Complete(c) == c \notin {NoFile, Partial}

(* Staging and bin against library: the pairs a move has to copy between.  *)
Crosses(src, dst) == CrossDevice /\ (src[1] \in {"stage"} \/ dst[1] = "bin")

(* An adverse choice of the environment, of which there are MaxFaults.     *)
Fault == faults < MaxFaults /\ faults' = faults + 1

(***************************************************************************)
(* The policy scope entered by a call that touches the NAS refuses while   *)
(* the cooldown runs; a refusal is not itself a failure that starts one.   *)
(* Every library path touches the NAS when the library is on it.           *)
(***************************************************************************)
Cooling == LibraryOnNas /\ cooldown
StartCooldown == cooldown' = LibraryOnNas

(* A copy to the NAS refuses an existing target; a rename or a plain copy  *)
(* overwrites it.  A missing source raises on every route.                 *)
Impossible(src, dst) ==
  \/ fs[src] = NoFile
  \/ LibraryOnNas /\ Crosses(src, dst) /\ fs[dst] # NoFile

MoveOk(src, dst) ==
  /\ ~Cooling
  /\ ~Impossible(src, dst)
  /\ fs' = [fs EXCEPT ![dst] = fs[src], ![src] = NoFile]
  /\ UNCHANGED <<cooldown, faults>>

(* What a failed call can leave: nothing changed, both copies (the source  *)
(* was copied but could not be unlinked), or, for a plain copy between     *)
(* devices, a truncated target.  The NAS copy writes to a ".part" file and *)
(* renames it, so it never leaves a truncated target.                      *)
LeftBehind(src, dst) ==
  {fs, [fs EXCEPT ![dst] = fs[src]]} \cup
  (IF Crosses(src, dst) /\ ~LibraryOnNas
   THEN {[fs EXCEPT ![dst] = Partial]} ELSE {})

MoveFails(src, dst) ==
  \/ /\ Cooling
     /\ UNCHANGED <<fs, cooldown, faults>>
  \/ /\ ~Cooling /\ Impossible(src, dst)
     /\ StartCooldown
     /\ UNCHANGED <<fs, faults>>
  \/ /\ ~Cooling /\ ~Impossible(src, dst)
     /\ Fault
     /\ \/ fs' \in LeftBehind(src, dst) /\ StartCooldown
        \/ UNCHANGED <<fs, cooldown>>    \* refused by a limit or a budget

(* remove_path; staging is a local folder and never meets the NAS policy.  *)
RemoveOk(p) ==
  /\ p[1] = "stage" \/ ~Cooling
  /\ fs' = [fs EXCEPT ![p] = NoFile]
  /\ UNCHANGED <<cooldown, faults>>

RemoveFails(p) ==
  /\ UNCHANGED fs
  /\ \/ p[1] # "stage" /\ Cooling /\ UNCHANGED <<cooldown, faults>>
     \/ /\ p[1] = "stage" \/ ~Cooling
        /\ Fault
        /\ IF p[1] = "stage" THEN UNCHANGED cooldown ELSE StartCooldown

(* time.monotonic() passes _nas_cooldown_until.                            *)
CooldownExpires ==
  /\ cooldown
  /\ cooldown' = FALSE
  /\ UNCHANGED <<fs, faults>>

TypeOKStorage ==
  /\ fs \in [Path -> Content]
  /\ cooldown \in BOOLEAN
  /\ faults \in 0..MaxFaults
=============================================================================
