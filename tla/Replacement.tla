---------------------------- MODULE Replacement ----------------------------
(***************************************************************************)
(* replace_file (backend/core/replacer.py): a finished download takes the  *)
(* place of a movie's library file.  The original goes to the recycling    *)
(* bin, or is set aside as a backup, the new file is moved in, the backup  *)
(* is dropped, the database is updated; on a failed placement the backup   *)
(* is moved back.  Before and after each risky step a recovery record is   *)
(* committed.                                                              *)
(*                                                                         *)
(* Each download is a process; a step ends where the code awaits a storage *)
(* call or a commit.  Interrupt is a process death at such a point: the    *)
(* application stops, the job is cancelled, or an exception nothing in     *)
(* replace_file catches leaves it.                                         *)
(***************************************************************************)
EXTENDS Storage

CONSTANTS
  ExtOf,           \* ExtOf[d]: extension of the video file in download d
  LibraryExt,      \* extension of the file the library holds at first
  None,            \* a column that is NULL
  BinChoices,      \* whether files.recycling_bin is set: one or both
  Serialised,      \* callers run one replacement of the movie at a time
  OriginalMissing, \* the library file has vanished before the first download
  PurgeBin,        \* the bin is emptied by hand or by age
  MaxInterrupts    \* bound: deaths of a replacement

ASSUME ReplacementAssumption ==
  /\ ExtOf \in [Downloads -> Exts]
  /\ LibraryExt \in Exts
  /\ None \notin Exts /\ None \notin BackupNames
  /\ BinChoices \subseteq BOOLEAN /\ BinChoices # {}
  /\ Serialised \in BOOLEAN /\ OriginalMissing \in BOOLEAN
  /\ PurgeBin \in BOOLEAN
  /\ MaxInterrupts \in Nat

VARIABLES
  movie,           \* movies row: extension of file_path, and status
  dl,              \* downloads.status
  rec,             \* replacement_recovery row of each download
  pc,              \* where the run of replace_file stands
  job,             \* its local variables
  interrupts       \* interruptions so far

vars == <<fs, cooldown, faults, movie, dl, rec, pc, job, interrupts>>
storageVars == <<fs, cooldown, faults>>

Running == {"load", "preflight", "recycle", "recycle_move", "backup",
            "backup_move", "check_dir", "place", "unplaced", "settle",
            "fail_dl", "placed", "drop_old", "commit", "complete",
            "cleanup", "give_up"}
Halted == {"idle", "done", "lost"}

Target(d) == Lib(ExtOf[d])
Original(d) == Lib(job[d].src)          \* mapped_path

Goto(d, l) == pc' = [pc EXCEPT ![d] = l]
Mark(d, s) == rec' = [rec EXCEPT ![d].status = s]

Init ==
  /\ fs = [p \in Path |-> IF p = Lib(LibraryExt) /\ ~OriginalMissing
                          THEN Orig ELSE NoFile]
  /\ cooldown = FALSE
  /\ faults = 0
  /\ movie = [ext |-> LibraryExt, status |-> "pending"]
  /\ dl = [d \in Downloads |-> "none"]
  /\ rec = [d \in Downloads |->
              [status |-> "none", recycle |-> None, backup |-> None]]
  /\ pc = [d \in Downloads |-> "idle"]
  /\ job = [d \in Downloads |->
              [src |-> LibraryExt, recycled |-> FALSE, backup |-> None]]
  /\ interrupts = 0

(* The workflow hands a completed download over.                           *)
Arrive(d) ==
  /\ pc[d] = "idle"
  /\ Serialised => \A x \in Downloads : pc[x] \notin Running
  /\ fs' = [fs EXCEPT ![Stage(d)] = d]
  /\ dl' = [dl EXCEPT ![d] = "completed"]
  /\ movie' = [movie EXCEPT !.status = "downloading"]
  /\ Goto(d, "load")
  /\ UNCHANGED <<cooldown, faults, rec, job, interrupts>>

(***************************************************************************)
(* Checks that change nothing: the staging folder is there and holds a     *)
(* video file that is not empty; the target passes its preflight.  If      *)
(* automation.dry_run was set since the download was sent, nothing is      *)
(* replaced, and the workflow takes that for a failure.                    *)
(***************************************************************************)
Load(d) ==
  /\ pc[d] = "load"
  /\ \/ /\ job' = [job EXCEPT ![d].src = movie.ext]
        /\ Goto(d, "preflight")
     \/ UNCHANGED job /\ Goto(d, "give_up")
  /\ UNCHANGED <<storageVars, movie, dl, rec, interrupts>>

Preflight(d) ==
  /\ pc[d] = "preflight"
  /\ Mark(d, "running")
  /\ \E bin \in BinChoices : Goto(d, IF bin THEN "recycle" ELSE "backup")
  /\ UNCHANGED <<storageVars, movie, dl, job, interrupts>>

Reject(d) ==
  /\ pc[d] \in {"load", "preflight"}
  /\ Fault
  /\ Goto(d, "fail_dl")
  /\ UNCHANGED <<fs, cooldown, movie, dl, rec, job, interrupts>>

(***************************************************************************)
(* The original goes to the recycling bin.  A refused or failed recycling  *)
(* is not an error: the backup takes over.                                 *)
(***************************************************************************)
RecycleBlocked(d) ==
  /\ pc[d] = "recycle"
  /\ Fault
  /\ Goto(d, "backup")
  /\ UNCHANGED <<fs, cooldown, movie, dl, rec, job, interrupts>>

(* Mutant: the path in the bin is not recorded before the move.            *)
MarkRecycleUnrecorded(d) ==
  /\ pc[d] = "recycle"
  /\ Goto(d, "recycle_move")
  /\ UNCHANGED <<storageVars, movie, dl, rec, job, interrupts>>

MarkRecycle(d) ==
  /\ pc[d] = "recycle"
  /\ rec' = [rec EXCEPT ![d].recycle = job[d].src]
  /\ Goto(d, "recycle_move")
  /\ UNCHANGED <<storageVars, movie, dl, job, interrupts>>

(* Mutant: a recycling that failed is tried again, without a limit.        *)
RecycleForever(d) ==
  /\ pc[d] = "recycle_move"
  /\ \/ /\ MoveOk(Original(d), Bin(job[d].src))
        /\ job' = [job EXCEPT ![d].recycled = TRUE]
        /\ Goto(d, "check_dir")
     \/ /\ MoveFails(Original(d), Bin(job[d].src))
        /\ Goto(d, "recycle")
        /\ UNCHANGED job
  /\ UNCHANGED <<movie, dl, rec, interrupts>>

Recycle(d) ==
  /\ pc[d] = "recycle_move"
  /\ \/ /\ MoveOk(Original(d), Bin(job[d].src))
        /\ job' = [job EXCEPT ![d].recycled = TRUE]
        /\ Goto(d, "check_dir")
     \/ /\ MoveFails(Original(d), Bin(job[d].src))
        /\ Goto(d, "backup")
        /\ UNCHANGED job
  /\ UNCHANGED <<movie, dl, rec, interrupts>>

(***************************************************************************)
(* A file at the target that was not recycled is set aside under the first *)
(* free backup name.                                                       *)
(***************************************************************************)
FreeBackup(e, n) ==
  /\ fs[Bak(e, n)] = NoFile
  /\ \A m \in BackupNames : m < n => fs[Bak(e, m)] # NoFile

MarkBackup(d) ==
  /\ pc[d] = "backup"
  /\ fs[Target(d)] # NoFile
  /\ \E n \in BackupNames :
       /\ FreeBackup(ExtOf[d], n)
       /\ rec' = [rec EXCEPT ![d].backup = n]
       /\ job' = [job EXCEPT ![d].backup = n]
  /\ Goto(d, "backup_move")
  /\ UNCHANGED <<storageVars, movie, dl, interrupts>>

NoBackup(d) ==
  /\ pc[d] = "backup"
  /\ fs[Target(d)] = NoFile
  /\ Goto(d, "check_dir")
  /\ UNCHANGED <<storageVars, movie, dl, rec, job, interrupts>>

Backup(d) ==
  /\ pc[d] = "backup_move"
  /\ LET bak == Bak(ExtOf[d], job[d].backup) IN
     \/ /\ MoveOk(Target(d), bak)
        /\ Goto(d, "check_dir")
        /\ UNCHANGED rec
     \/ /\ MoveFails(Target(d), bak)
        /\ Mark(d, "failed")
        /\ Goto(d, "fail_dl")
  /\ UNCHANGED <<movie, dl, job, interrupts>>

(***************************************************************************)
(* The target directory and its free space are looked at again.            *)
(***************************************************************************)
CheckDir(d) ==
  /\ pc[d] = "check_dir"
  /\ Goto(d, "place")
  /\ UNCHANGED <<storageVars, movie, dl, rec, job, interrupts>>

DirMissing(d) ==
  /\ pc[d] = "check_dir"
  /\ Fault
  /\ Mark(d, IF job[d].recycled \/ job[d].backup # None
             THEN "recovery_required" ELSE "failed")
  /\ Goto(d, "fail_dl")
  /\ UNCHANGED <<fs, cooldown, movie, dl, job, interrupts>>

NoSpace(d) ==
  /\ pc[d] = "check_dir"
  /\ job[d].backup = None /\ fs[Target(d)] = NoFile
  /\ Fault
  /\ Mark(d, IF job[d].recycled THEN "recovery_required" ELSE "failed")
  /\ Goto(d, "fail_dl")
  /\ UNCHANGED <<fs, cooldown, movie, dl, job, interrupts>>

Place(d) ==
  /\ pc[d] = "place"
  /\ \/ MoveOk(Stage(d), Target(d)) /\ Goto(d, "placed")
     \/ MoveFails(Stage(d), Target(d)) /\ Goto(d, "unplaced")
  /\ UNCHANGED <<movie, dl, rec, job, interrupts>>

(***************************************************************************)
(* After a failed placement the backup is moved back if the target is      *)
(* free; when that fails too, the record is marked for recovery.  In every *)
(* case the record gets its last status in SettleFailure.                  *)
(***************************************************************************)
CanRestore(d) ==
  /\ job[d].backup # None
  /\ fs[Bak(ExtOf[d], job[d].backup)] # NoFile
  /\ fs[Target(d)] = NoFile

Restore(d) ==
  /\ pc[d] = "unplaced"
  /\ CanRestore(d)
  /\ LET bak == Bak(ExtOf[d], job[d].backup) IN
     \/ MoveOk(bak, Target(d)) /\ UNCHANGED rec
     \/ MoveFails(bak, Target(d)) /\ Mark(d, "recovery_required")
  /\ Goto(d, "settle")
  /\ UNCHANGED <<movie, dl, job, interrupts>>

NoRestore(d) ==
  /\ pc[d] = "unplaced"
  /\ ~CanRestore(d)
  /\ Goto(d, "settle")
  /\ UNCHANGED <<storageVars, movie, dl, rec, job, interrupts>>

(* Mutant: a recycled original is forgotten when the placement fails.      *)
SettleFailureQuietly(d) ==
  /\ pc[d] = "settle"
  /\ Mark(d, "failed")
  /\ Goto(d, "fail_dl")
  /\ UNCHANGED <<storageVars, movie, dl, job, interrupts>>

SettleFailure(d) ==
  /\ pc[d] = "settle"
  /\ Mark(d, IF job[d].recycled THEN "recovery_required" ELSE "failed")
  /\ Goto(d, "fail_dl")
  /\ UNCHANGED <<storageVars, movie, dl, job, interrupts>>

FailDownload(d) ==
  /\ pc[d] = "fail_dl"
  /\ dl' = [dl EXCEPT ![d] = "failed"]
  /\ Goto(d, "cleanup")
  /\ UNCHANGED <<storageVars, movie, rec, job, interrupts>>

(***************************************************************************)
(* After a successful placement the backup is dropped, and an original     *)
(* with another extension that was not recycled; neither may fail it.      *)
(***************************************************************************)
DropBackup(d) ==
  /\ pc[d] = "placed"
  /\ IF job[d].backup # None /\ fs[Bak(ExtOf[d], job[d].backup)] # NoFile
     THEN LET bak == Bak(ExtOf[d], job[d].backup) IN
          RemoveOk(bak) \/ RemoveFails(bak)
     ELSE UNCHANGED storageVars
  /\ Goto(d, "drop_old")
  /\ UNCHANGED <<movie, dl, rec, job, interrupts>>

(* Mutant: the comparison of the original's name with the target's is gone. *)
DropOldAlways(d) ==
  /\ pc[d] = "drop_old"
  /\ IF ~job[d].recycled /\ fs[Original(d)] # NoFile
     THEN RemoveOk(Original(d)) \/ RemoveFails(Original(d))
     ELSE UNCHANGED storageVars
  /\ Goto(d, "commit")
  /\ UNCHANGED <<movie, dl, rec, job, interrupts>>

DropOld(d) ==
  /\ pc[d] = "drop_old"
  /\ IF /\ ~job[d].recycled
        /\ job[d].src # ExtOf[d]
        /\ fs[Original(d)] # NoFile
     THEN RemoveOk(Original(d)) \/ RemoveFails(Original(d))
     ELSE UNCHANGED storageVars
  /\ Goto(d, "commit")
  /\ UNCHANGED <<movie, dl, rec, job, interrupts>>

(* Mutant: the movie keeps the path of the file it had before.             *)
CommitOldPath(d) ==
  /\ pc[d] = "commit"
  /\ movie' = [movie EXCEPT !.status = "improved"]
  /\ dl' = [dl EXCEPT ![d] = "replaced"]
  /\ Goto(d, "complete")
  /\ UNCHANGED <<storageVars, rec, job, interrupts>>

(* os.path.getsize raises if the new file has gone; nothing catches it.    *)
Commit(d) ==
  /\ pc[d] = "commit"
  /\ IF fs[Target(d)] # NoFile
     THEN /\ movie' = [ext |-> ExtOf[d], status |-> "improved"]
          /\ dl' = [dl EXCEPT ![d] = "replaced"]
          /\ Goto(d, "complete")
     ELSE Goto(d, "lost") /\ UNCHANGED <<movie, dl>>
  /\ UNCHANGED <<storageVars, rec, job, interrupts>>

MarkCompleted(d) ==
  /\ pc[d] = "complete"
  /\ Mark(d, "completed")
  /\ Goto(d, "cleanup")
  /\ UNCHANGED <<storageVars, movie, dl, job, interrupts>>

(* The staging folder goes whatever the outcome was; the workflow then     *)
(* marks the movie of a failed replacement.                                *)
Cleanup(d) ==
  /\ pc[d] = "cleanup"
  /\ RemoveOk(Stage(d)) \/ RemoveFails(Stage(d))
  /\ Goto(d, IF dl[d] = "replaced" THEN "done" ELSE "give_up")
  /\ UNCHANGED <<movie, dl, rec, job, interrupts>>

GiveUp(d) ==
  /\ pc[d] = "give_up"
  /\ movie' = [movie EXCEPT !.status = "failed"]
  /\ Goto(d, "done")
  /\ UNCHANGED <<storageVars, dl, rec, job, interrupts>>

Step(d) ==
  \/ Load(d) \/ Preflight(d) \/ Reject(d)
  \/ RecycleBlocked(d) \/ MarkRecycle(d) \/ Recycle(d)
  \/ MarkBackup(d) \/ NoBackup(d) \/ Backup(d)
  \/ CheckDir(d) \/ DirMissing(d) \/ NoSpace(d)
  \/ Place(d) \/ Restore(d) \/ NoRestore(d) \/ SettleFailure(d)
  \/ FailDownload(d) \/ DropBackup(d) \/ DropOld(d)
  \/ Commit(d) \/ MarkCompleted(d) \/ Cleanup(d) \/ GiveUp(d)

(* The process dies; no start-up path looks at a download that is          *)
(* "completed", so nothing takes it up again.                              *)
Interrupt(d) ==
  /\ pc[d] \in Running
  /\ interrupts < MaxInterrupts
  /\ interrupts' = interrupts + 1
  /\ Goto(d, "lost")
  /\ UNCHANGED <<storageVars, movie, dl, rec, job>>

(* A rename keeps the modification time of a film, so any recycled file    *)
(* may be old enough; emptying by hand asks nothing.                       *)
Purge ==
  /\ PurgeBin
  /\ \E e \in Exts :
       /\ fs[Bin(e)] # NoFile
       /\ fs' = [fs EXCEPT ![Bin(e)] = NoFile]
  /\ UNCHANGED <<cooldown, faults, movie, dl, rec, pc, job, interrupts>>

Cool ==
  /\ CooldownExpires
  /\ UNCHANGED <<movie, dl, rec, pc, job, interrupts>>

Finished ==
  /\ \A d \in Downloads : pc[d] \in {"done", "lost"}
  /\ UNCHANGED vars

Next ==
  \/ \E d \in Downloads : Arrive(d) \/ Step(d) \/ Interrupt(d)
  \/ Purge \/ Cool \/ Finished

(* asyncio runs every task that is ready, and a thread that copies a file  *)
(* ends; downloads need not arrive and nothing has to fail.                *)
Fairness == \A d \in Downloads : WF_vars(Step(d))

Spec == Init /\ [][Next]_vars /\ Fairness
-----------------------------------------------------------------------------
(***************************************************************************)
(* Properties.                                                             *)
(***************************************************************************)

RecordStatus == {"none", "running", "completed", "failed",
                 "recovery_required"}
MovieRow == [ext : Exts,
             status : {"pending", "downloading", "improved", "failed"}]
RecordRow == [status : RecordStatus, recycle : Exts \cup {None},
              backup : BackupNames \cup {None}]
Locals == [src : Exts, recycled : BOOLEAN, backup : BackupNames \cup {None}]

(* Every variable keeps the shape the code gives it.                       *)
TypeOK ==
  /\ TypeOKStorage
  /\ movie \in MovieRow
  /\ dl \in [Downloads -> {"none", "completed", "replaced", "failed"}]
  /\ rec \in [Downloads -> RecordRow]
  /\ pc \in [Downloads -> Running \cup Halted]
  /\ job \in [Downloads -> Locals]
  /\ interrupts \in 0..MaxInterrupts

AtRest == \A d \in Downloads : pc[d] \notin Running
InLibrary == \E e \in Exts : Complete(fs[Lib(e)])
HasCopy == \E p \in Path : p[1] # "stage" /\ Complete(fs[p])

(* The recovery record of d names a path where a complete film lies.       *)
RecordLocates(d) ==
  \/ rec[d].recycle # None /\ Complete(fs[Bin(rec[d].recycle)])
  \/ rec[d].backup # None /\ Complete(fs[Bak(ExtOf[d], rec[d].backup)])

(* Write-ahead: at every moment, also in the middle of a replacement and   *)
(* after its death, the library holds a complete film or the recycle_path  *)
(* or fallback_backup_path of some committed record leads to one           *)
(* (_mark_replacement_recovery is called before each risky move).          *)
AlwaysLocated == InLibrary \/ \E d \in Downloads : RecordLocates(d)

(* No step of replace_file destroys the last complete copy of the film     *)
(* outside the staging folders: only emptying the recycling bin can.       *)
LastCopyOnlyPurged == [][HasCopy /\ ~HasCopy' => Purge]_vars

(* When nothing runs and the library has lost the film, the listing of     *)
(* active recovery records (api/system.py, replacement_recovery) shows one *)
(* that leads to a complete copy.                                          *)
StrandedIsVisible ==
  AtRest /\ ~InLibrary =>
    \E d \in Downloads :
      /\ rec[d].status \in {"running", "recovery_required"}
      /\ RecordLocates(d)

(* A movie row that says "improved" names a file that is in the library    *)
(* and is the film of a download that counts as replaced.                  *)
ImprovedIsInstalled ==
  movie.status = "improved" =>
    /\ fs[Lib(movie.ext)] \in Downloads
    /\ dl[fs[Lib(movie.ext)]] = "replaced"

(* With nothing going wrong, every replacement that ran succeeded, unless  *)
(* it was a dry run, and it left one version of the film in the library,   *)
(* no backup and no staging folder.                                        *)
CleanRunLeavesOneFile ==
  faults = 0 /\ interrupts = 0 /\ AtRest =>
    /\ \A d \in Downloads : pc[d] = "done" => dl[d] # "failed"
    /\ \A e \in Exts : fs[Lib(e)] # NoFile => e = movie.ext
    /\ \A e \in Exts, n \in BackupNames : fs[Bak(e, n)] = NoFile
    /\ \A d \in Downloads : dl[d] # "completed" => fs[Stage(d)] = NoFile

(* The two together: what the rows say of a replacement is so on the disk. *)
OutcomesSound == ImprovedIsInstalled /\ CleanRunLeavesOneFile

(* No replacement fails unless something went wrong; in particular one     *)
(* whose original has vanished is placed ("Proceeding with placement       *)
(* only", says its log line).                                              *)
NoFailureWithoutFault ==
  faults = 0 /\ interrupts = 0 => \A d \in Downloads : dl[d] # "failed"

(* While a record asks for recovery, what it points at is still there, or  *)
(* the library has the film again.                                         *)
RecoveryStaysPossible ==
  AtRest /\ ~InLibrary =>
    \A d \in Downloads :
      rec[d].status = "recovery_required" => RecordLocates(d)

(* So on local disks: one fault, wherever it strikes and also together     *)
(* with a death, does not hide the film.                                   *)
OneFaultIsVisible == faults <= 1 => StrandedIsVisible

(* Nor does it spoil what a record asks to recover.                        *)
OneFaultIsRepairable == faults <= 1 => RecoveryStaysPossible

(* The two together: after one fault the person who reads the recovery     *)
(* page finds the film (replace_file, api/system.py).                      *)
OneFaultIsSurvived == OneFaultIsVisible /\ OneFaultIsRepairable

(* A replacement that started ends, by itself or by its death.             *)
ReplacementEnds ==
  \A d \in Downloads : pc[d] = "load" ~> pc[d] \in {"done", "lost"}
=============================================================================
