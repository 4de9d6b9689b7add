-------------------------- MODULE ReplacementProofs --------------------------
(***************************************************************************)
(* What holds of replace_file for every set of downloads, extensions and   *)
(* backup names and for any number of faults and interruptions.            *)
(***************************************************************************)
EXTENDS Replacement, TLAPS

(***************************************************************************)
(* The settings.  In both, replacements run one at a time and no move can  *)
(* leave a truncated target (staging, bin and library share a device, or   *)
(* the library is a configured NAS).  In the second, moreover, nobody      *)
(* empties the bin and the original is there at first.                     *)
(***************************************************************************)
WholeSetting ==
  /\ Serialised
  /\ LibraryOnNas \/ ~CrossDevice

Setting ==
  /\ WholeSetting
  /\ ~PurgeBin
  /\ ~OriginalMissing

NoTruncated == \A p \in Path : fs[p] # Partial

OneAtATime ==
  \A x, y \in Downloads :
    pc[x] \in Running /\ pc[y] \in Running => x = y

(* What the record of a run says at the points where the run relies on it. *)
Recorded(d) ==
  /\ pc[d] \in {"idle", "load", "preflight", "recycle"} =>
       rec[d].recycle = None
  /\ pc[d] = "recycle_move" => rec[d].recycle = job[d].src
  /\ job[d].backup # None => rec[d].backup = job[d].backup
  /\ pc[d] = "backup_move" => job[d].backup # None
  /\ pc[d] \in {"placed", "drop_old"} => fs[Target(d)] # NoFile

RunInv ==
  /\ WholeSetting
  /\ TypeOK
  /\ NoTruncated
  /\ OneAtATime
  /\ \A d \in Downloads : Recorded(d)

IInv ==
  /\ Setting
  /\ TypeOK
  /\ NoTruncated
  /\ OneAtATime
  /\ AlwaysLocated
  /\ \A d \in Downloads : Recorded(d)
-----------------------------------------------------------------------------
(***************************************************************************)
(* Paths and storage calls.  Later proofs cite these facts and leave the   *)
(* path operators closed.                                                  *)
(***************************************************************************)

(* The four kinds of path are paths, and different ones never coincide.    *)
LEMMA Paths ==
  /\ \A e \in Exts : Lib(e) \in Path /\ Bin(e) \in Path
  /\ \A e \in Exts, n \in BackupNames : Bak(e, n) \in Path
  /\ \A d \in Downloads : Stage(d) \in Path
  /\ \A e, f : Lib(e) = Lib(f) => e = f
  /\ \A e, f : Lib(e) # Bin(f)
  /\ \A e, f, n : Lib(e) # Bak(f, n)
  /\ \A e, f, n : Bin(e) # Bak(f, n)
  /\ \A e, d : Lib(e) # Stage(d) /\ Bin(e) # Stage(d)
  /\ \A e, d, n : Bak(e, n) # Stage(d)
BY DEF Path, Lib, Bin, Bak, Stage

(* A move keeps the types, wherever it goes.                               *)
LEMMA MoveType ==
  ASSUME NEW src \in Path, NEW dst,
         TypeOKStorage, MoveOk(src, dst) \/ MoveFails(src, dst)
  PROVE  TypeOKStorage'
<1> USE StorageAssumption DEF TypeOKStorage, Content
<1>1. CASE MoveOk(src, dst)
  BY <1>1 DEF MoveOk
<1>2. CASE MoveFails(src, dst)
  <2>1. fs' = fs \/ fs' \in LeftBehind(src, dst)
    BY <1>2 DEF MoveFails
  <2>2. fs' \in [Path -> Content]
    BY <2>1 DEF LeftBehind
  <2>3. cooldown' \in BOOLEAN /\ faults' \in 0..MaxFaults
    BY <1>2 DEF MoveFails, StartCooldown, Fault
  <2> QED
    BY <2>2, <2>3
<1> QED
  BY <1>1, <1>2

(* A move that succeeds carries a film from src to dst.                    *)
LEMMA MoveOkEffect ==
  ASSUME NEW src \in Path, NEW dst \in Path, src # dst,
         TypeOKStorage, MoveOk(src, dst)
  PROVE  /\ fs[src] # NoFile
         /\ fs'[dst] = fs[src] /\ fs'[src] = NoFile
         /\ \A p \in Path : p # src /\ p # dst => fs'[p] = fs[p]
         /\ UNCHANGED <<cooldown, faults>>
BY DEF MoveOk, TypeOKStorage, Impossible

(* A move that fails leaves every path but dst alone, whatever it leaves.  *)
LEMMA MoveFailsEffect ==
  ASSUME NEW src \in Path, NEW dst \in Path,
         TypeOKStorage, MoveFails(src, dst)
  PROVE  /\ \A p \in Path : p # dst => fs'[p] = fs[p]
         /\ fs'[dst] # fs[dst] =>
              /\ fs[src] # NoFile
              /\ fs'[dst] # fs[src] =>
                   fs'[dst] = Partial /\ CrossDevice /\ ~LibraryOnNas
<1>1. CASE fs' = fs
  BY <1>1
<1>2. CASE fs' \in LeftBehind(src, dst) /\ ~Impossible(src, dst)
  <2>1. fs[src] # NoFile
    BY <1>2 DEF Impossible
  <2>2. \/ fs' = fs
        \/ fs' = [fs EXCEPT ![dst] = fs[src]]
        \/ /\ fs' = [fs EXCEPT ![dst] = Partial]
           /\ CrossDevice /\ ~LibraryOnNas
    BY <1>2 DEF LeftBehind, Crosses
  <2> QED
    BY <2>1, <2>2 DEF TypeOKStorage
<1> QED
  BY <1>1, <1>2 DEF MoveFails

(* Removing a path, successfully or not, leaves the others alone.          *)
LEMMA RemoveEffect ==
  ASSUME NEW p \in Path, TypeOKStorage, RemoveOk(p) \/ RemoveFails(p)
  PROVE  /\ TypeOKStorage'
         /\ \A q \in Path : q # p => fs'[q] = fs[q]
         /\ fs'[p] \in {fs[p], NoFile}
<1> USE StorageAssumption DEF TypeOKStorage
<1>1. CASE RemoveOk(p)
  BY <1>1 DEF RemoveOk, Content
<1>2. CASE RemoveFails(p)
  BY <1>2 DEF RemoveFails, StartCooldown, Fault
<1> QED
  BY <1>1, <1>2

(***************************************************************************)
(* Type correctness.                                                       *)
(***************************************************************************)

(* The paths a run works on are paths, and so is its backup, once it has   *)
(* one.                                                                    *)
LEMMA RunPaths ==
  ASSUME TypeOK, NEW d \in Downloads
  PROVE  /\ Original(d) \in Path /\ Bin(job[d].src) \in Path
         /\ Target(d) \in Path /\ Stage(d) \in Path
         /\ job[d].backup # None => Bak(ExtOf[d], job[d].backup) \in Path
<1>1. job[d].src \in Exts /\ ExtOf[d] \in Exts
      /\ (job[d].backup # None => job[d].backup \in BackupNames)
  BY ReplacementAssumption DEF TypeOK, Locals
<1> QED
  BY <1>1, Paths DEF Original, Target

(* A new status keeps the record a record.                                 *)
LEMMA MarkType ==
  ASSUME rec \in [Downloads -> RecordRow], NEW d \in Downloads,
         NEW s \in RecordStatus, Mark(d, s)
  PROVE  rec' \in [Downloads -> RecordRow]
<1>1. [rec[d] EXCEPT !.status = s] \in RecordRow
  BY DEF RecordRow
<1> QED
  BY <1>1 DEF Mark

(* Every variable keeps the shape the code gives it.                       *)
THEOREM TypeCorrect == Spec => []TypeOK
<1>1. Init => TypeOK
  <2> SUFFICES ASSUME Init PROVE TypeOK
    OBVIOUS
  <2> USE StorageAssumption, ReplacementAssumption DEF Init
  <2>1. TypeOKStorage
    <3>1. fs \in [Path -> Content]
      BY DEF Content
    <3>2. cooldown \in BOOLEAN
      OBVIOUS
    <3>3. faults \in 0..MaxFaults
      OBVIOUS
    <3> QED
      BY <3>1, <3>2, <3>3 DEF TypeOKStorage
  <2>2. movie \in MovieRow /\ job \in [Downloads -> Locals]
    BY DEF MovieRow, Locals
  <2>3. rec \in [Downloads -> RecordRow]
    BY DEF RecordRow, RecordStatus
  <2> QED
    <3>1. pc \in [Downloads -> Running \cup Halted]
      BY DEF Halted
    <3>2. dl \in [Downloads -> {"none", "completed", "replaced", "failed"}]
      OBVIOUS
    <3>3. interrupts \in 0..MaxInterrupts
      OBVIOUS
    <3> QED
      BY <2>1, <2>2, <2>3, <3>1, <3>2, <3>3 DEF TypeOK
<1>2. TypeOK /\ [Next]_vars => TypeOK'
  <2> SUFFICES ASSUME TypeOK, [Next]_vars
               PROVE  TypeOK'
    OBVIOUS
  <2> USE StorageAssumption, ReplacementAssumption
      DEF TypeOK, Goto, RecordStatus, Running, Halted, storageVars
  <2>1. ASSUME NEW d \in Downloads, Arrive(d)
       PROVE  TypeOK'
    BY <2>1 DEF Arrive, MovieRow, TypeOKStorage, Content
  <2>2. ASSUME NEW d \in Downloads, Load(d)
       PROVE  TypeOK'
    <3>1. UNCHANGED <<fs, cooldown, faults, movie, dl, rec, interrupts>>
      BY <2>2 DEF Load
    <3>2. pc' \in [Downloads -> Running \cup Halted]
      BY <2>2 DEF Load
    <3>3. job' \in [Downloads -> Locals]
      BY <2>2 DEF Load, MovieRow, Locals
    <3> QED
      BY <3>1, <3>2, <3>3 DEF TypeOKStorage
  <2>3. ASSUME NEW d \in Downloads, Preflight(d)
       PROVE  TypeOK'
    BY <2>3, MarkType DEF Preflight, TypeOKStorage
  <2>4. ASSUME NEW d \in Downloads, Reject(d)
       PROVE  TypeOK'
    BY <2>4 DEF Reject, Fault, TypeOKStorage
  <2>5. ASSUME NEW d \in Downloads, RecycleBlocked(d)
       PROVE  TypeOK'
    BY <2>5 DEF RecycleBlocked, Fault, TypeOKStorage
  <2>6. ASSUME NEW d \in Downloads, MarkRecycle(d)
       PROVE  TypeOK'
    BY <2>6 DEF MarkRecycle, RecordRow, Locals, TypeOKStorage
  <2>7. ASSUME NEW d \in Downloads, MarkBackup(d)
       PROVE  TypeOK'
    <3> PICK n \in BackupNames :
               /\ rec' = [rec EXCEPT ![d].backup = n]
               /\ job' = [job EXCEPT ![d].backup = n]
      BY <2>7 DEF MarkBackup
    <3>1. [rec[d] EXCEPT !.backup = n] \in RecordRow
      BY DEF RecordRow
    <3>2. [job[d] EXCEPT !.backup = n] \in Locals
      BY DEF Locals
    <3> QED
      BY <2>7, <3>1, <3>2 DEF MarkBackup, TypeOKStorage
  <2>8. ASSUME NEW d \in Downloads, NoBackup(d)
       PROVE  TypeOK'
    BY <2>8 DEF NoBackup, TypeOKStorage
  <2>9. ASSUME NEW d \in Downloads, CheckDir(d)
       PROVE  TypeOK'
    BY <2>9 DEF CheckDir, TypeOKStorage
  <2>10. ASSUME NEW d \in Downloads, DirMissing(d)
       PROVE  TypeOK'
    BY <2>10, MarkType DEF DirMissing, Fault, TypeOKStorage
  <2>11. ASSUME NEW d \in Downloads, NoSpace(d)
       PROVE  TypeOK'
    BY <2>11, MarkType DEF NoSpace, Fault, TypeOKStorage
  <2>12. ASSUME NEW d \in Downloads, NoRestore(d)
       PROVE  TypeOK'
    BY <2>12 DEF NoRestore, TypeOKStorage
  <2>13. ASSUME NEW d \in Downloads, SettleFailure(d)
       PROVE  TypeOK'
    BY <2>13, MarkType DEF SettleFailure, TypeOKStorage
  <2>14. ASSUME NEW d \in Downloads, FailDownload(d)
       PROVE  TypeOK'
    BY <2>14 DEF FailDownload, TypeOKStorage
  <2>15. ASSUME NEW d \in Downloads, Commit(d)
       PROVE  TypeOK'
    BY <2>15 DEF Commit, MovieRow, TypeOKStorage
  <2>16. ASSUME NEW d \in Downloads, MarkCompleted(d)
       PROVE  TypeOK'
    BY <2>16, MarkType DEF MarkCompleted, TypeOKStorage
  <2>17. ASSUME NEW d \in Downloads, GiveUp(d)
       PROVE  TypeOK'
    BY <2>17 DEF GiveUp, MovieRow, TypeOKStorage
  <2>18. ASSUME NEW d \in Downloads, Recycle(d)
       PROVE  TypeOK'
    <3>1. TypeOKStorage'
      BY <2>18, RunPaths, MoveType DEF Recycle
    <3>2. [job[d] EXCEPT !.recycled = TRUE] \in Locals
      BY DEF Locals
    <3>3. job' \in [Downloads -> Locals]
      BY <2>18, <3>2 DEF Recycle
    <3>4. pc' \in [Downloads -> Running \cup Halted]
      BY <2>18 DEF Recycle
    <3> QED
      BY <2>18, <3>1, <3>3, <3>4 DEF Recycle
  <2>19. ASSUME NEW d \in Downloads, Backup(d)
       PROVE  TypeOK'
    <3>1. TypeOKStorage'
      BY <2>19, RunPaths, MoveType DEF Backup
    <3> QED
      BY <2>19, <3>1, MarkType DEF Backup
  <2>20. ASSUME NEW d \in Downloads, Place(d)
       PROVE  TypeOK'
    <3>1. TypeOKStorage'
      BY <2>20, RunPaths, MoveType DEF Place
    <3> QED
      BY <2>20, <3>1 DEF Place
  <2>21. ASSUME NEW d \in Downloads, Restore(d)
       PROVE  TypeOK'
    <3>1. TypeOKStorage'
      BY <2>21, RunPaths, MoveType DEF Restore, CanRestore
    <3> QED
      BY <2>21, <3>1, MarkType DEF Restore
  <2>22. ASSUME NEW d \in Downloads, DropBackup(d)
       PROVE  TypeOK'
    <3>1. TypeOKStorage'
      BY <2>22, RunPaths, RemoveEffect DEF DropBackup, TypeOKStorage
    <3> QED
      BY <2>22, <3>1 DEF DropBackup
  <2>23. ASSUME NEW d \in Downloads, DropOld(d)
       PROVE  TypeOK'
    <3>1. TypeOKStorage'
      BY <2>23, RunPaths, RemoveEffect DEF DropOld, TypeOKStorage
    <3> QED
      BY <2>23, <3>1 DEF DropOld
  <2>24. ASSUME NEW d \in Downloads, Cleanup(d)
       PROVE  TypeOK'
    <3>1. TypeOKStorage'
      BY <2>24, RunPaths, RemoveEffect DEF Cleanup, TypeOKStorage
    <3> QED
      BY <2>24, <3>1 DEF Cleanup
  <2>25. ASSUME NEW d \in Downloads, Interrupt(d)
       PROVE  TypeOK'
    BY <2>25 DEF Interrupt, TypeOKStorage
  <2>26. CASE Purge
    BY <2>26 DEF Purge, TypeOKStorage, Content
  <2>27. CASE Cool
    BY <2>27 DEF Cool, CooldownExpires, TypeOKStorage
  <2>28. CASE UNCHANGED vars
    BY <2>28 DEF vars, TypeOKStorage
  <2> QED
    BY <2>1, <2>2, <2>3, <2>4, <2>5, <2>6, <2>7, <2>8, <2>9, <2>10, <2>11, <2>12, <2>13, <2>14, <2>15, <2>16, <2>17, <2>18, <2>19, <2>20, <2>21, <2>22, <2>23, <2>24, <2>25, <2>26, <2>27, <2>28 DEF Next, Step, Finished
<1> QED
  BY <1>1, <1>2, PTL DEF Spec
-----------------------------------------------------------------------------
(***************************************************************************)
(* The film is always located.                                             *)
(***************************************************************************)

(* A step of d belongs to a running replacement and touches the locals,    *)
(* the record and the program counter of no other.                         *)
LEMMA StepIsOwn ==
  ASSUME TypeOK, NEW d \in Downloads, Step(d)
  PROVE  /\ pc[d] \in Running
         /\ \A x \in Downloads : x # d =>
              pc'[x] = pc[x] /\ job'[x] = job[x] /\ rec'[x] = rec[x]
<1> USE DEF TypeOK, Goto, Mark, Running
<1>1. CASE Load(d) \/ Preflight(d) \/ Reject(d) \/ RecycleBlocked(d) \/ MarkRecycle(d) \/ Recycle(d)
  BY <1>1 DEF Load, Preflight, Reject, RecycleBlocked, MarkRecycle, Recycle
<1>2. CASE MarkBackup(d) \/ NoBackup(d) \/ Backup(d) \/ CheckDir(d) \/ DirMissing(d) \/ NoSpace(d)
  BY <1>2 DEF MarkBackup, NoBackup, Backup, CheckDir, DirMissing, NoSpace
<1>3. CASE Place(d) \/ Restore(d) \/ NoRestore(d) \/ SettleFailure(d) \/ FailDownload(d)
  BY <1>3 DEF Place, Restore, NoRestore, SettleFailure, FailDownload
<1>4. CASE DropBackup(d) \/ DropOld(d) \/ Commit(d) \/ MarkCompleted(d) \/ Cleanup(d) \/ GiveUp(d)
  BY <1>4 DEF DropBackup, DropOld, Commit, MarkCompleted, Cleanup, GiveUp
<1> QED
  BY <1>1, <1>2, <1>3, <1>4 DEF Step

(* One replacement at a time stays so: only Arrive starts one.             *)
LEMMA OneAtATimeStep ==
  ASSUME Serialised, TypeOK, OneAtATime, [Next]_vars
  PROVE  OneAtATime'
<1>1. ASSUME NEW d \in Downloads, Arrive(d)
      PROVE  OneAtATime'
  BY <1>1 DEF Arrive, Goto, OneAtATime, TypeOK
<1>2. ASSUME NEW d \in Downloads, Step(d)
      PROVE  OneAtATime'
  BY <1>2, StepIsOwn DEF OneAtATime
<1>3. ASSUME NEW d \in Downloads, Interrupt(d)
      PROVE  OneAtATime'
  BY <1>3 DEF Interrupt, Goto, OneAtATime, TypeOK, Running
<1>4. CASE UNCHANGED pc
  BY <1>4 DEF OneAtATime
<1> QED
  BY <1>1, <1>2, <1>3, <1>4 DEF Next, Purge, Cool, Finished, vars

(* In the setting, no storage call leaves a truncated file.                *)
LEMMA NoTruncatedMove ==
  ASSUME WholeSetting, TypeOKStorage, NoTruncated, NEW src \in Path, NEW dst \in Path,
         src # dst, MoveOk(src, dst) \/ MoveFails(src, dst)
  PROVE  NoTruncated'
<1>1. CASE MoveOk(src, dst)
  BY <1>1, MoveOkEffect, StorageAssumption DEF NoTruncated
<1>2. CASE MoveFails(src, dst)
  BY <1>2, MoveFailsEffect DEF NoTruncated, WholeSetting
<1> QED
  BY <1>1, <1>2

(* Nor does a removal, which leaves nothing at all or what was there.      *)
LEMMA NoTruncatedRemove ==
  ASSUME TypeOKStorage, NoTruncated, NEW p \in Path,
         RemoveOk(p) \/ RemoveFails(p)
  PROVE  NoTruncated'
BY RemoveEffect, StorageAssumption DEF NoTruncated

(* The two ends of each move are different paths.                          *)
LEMMA Ends ==
  ASSUME TypeOK, NEW d \in Downloads
  PROVE  /\ Original(d) # Bin(job[d].src)
         /\ Stage(d) # Target(d)
         /\ Bak(ExtOf[d], job[d].backup) # Target(d)
BY Paths DEF Original, Target

(* So no step of the replacements leaves one.                              *)
LEMMA NoTruncatedStep ==
  ASSUME WholeSetting, TypeOK, NoTruncated,
         \A d \in Downloads : Recorded(d), [Next]_vars
  PROVE  NoTruncated'
<1> USE DEF TypeOK
<1>1. ASSUME NEW d \in Downloads, Arrive(d)
      PROVE  NoTruncated'
  BY <1>1, RunPaths, StorageAssumption DEF Arrive, NoTruncated, TypeOKStorage
<1>2. ASSUME NEW d \in Downloads, Recycle(d)
      PROVE  NoTruncated'
  BY <1>2, RunPaths, Ends, NoTruncatedMove DEF Recycle
<1>3. ASSUME NEW d \in Downloads, Backup(d)
      PROVE  NoTruncated'
  BY <1>3, RunPaths, Ends, NoTruncatedMove DEF Backup, Recorded
<1>4. ASSUME NEW d \in Downloads, Place(d)
      PROVE  NoTruncated'
  BY <1>4, RunPaths, Ends, NoTruncatedMove DEF Place
<1>5. ASSUME NEW d \in Downloads, Restore(d)
      PROVE  NoTruncated'
  BY <1>5, RunPaths, Ends, NoTruncatedMove DEF Restore, CanRestore
<1>6. ASSUME NEW d \in Downloads, DropBackup(d)
      PROVE  NoTruncated'
  BY <1>6, RunPaths, NoTruncatedRemove
  DEF DropBackup, storageVars, NoTruncated
<1>7. ASSUME NEW d \in Downloads, DropOld(d)
      PROVE  NoTruncated'
  BY <1>7, RunPaths, NoTruncatedRemove DEF DropOld, storageVars, NoTruncated
<1>8. ASSUME NEW d \in Downloads, Cleanup(d)
      PROVE  NoTruncated'
  BY <1>8, RunPaths, NoTruncatedRemove DEF Cleanup
<1>9. CASE UNCHANGED fs
  BY <1>9 DEF NoTruncated
<1>10. CASE Purge
  BY <1>10, StorageAssumption DEF Purge, NoTruncated, TypeOKStorage
<1>11. ASSUME NEW d \in Downloads, Step(d),
              ~Recycle(d), ~Backup(d), ~Place(d), ~Restore(d),
              ~DropBackup(d), ~DropOld(d), ~Cleanup(d)
       PROVE  UNCHANGED fs
  BY <1>11 DEF Step, storageVars, Load, Preflight, Reject, RecycleBlocked,
       MarkRecycle, MarkBackup, NoBackup, CheckDir, DirMissing, NoSpace,
       NoRestore, SettleFailure, FailDownload, Commit, MarkCompleted, GiveUp
<1> QED
  BY <1>1, <1>2, <1>3, <1>4, <1>5, <1>6, <1>7, <1>8, <1>9, <1>10, <1>11
  DEF Next, Interrupt, Cool, CooldownExpires, Finished, vars, storageVars

(***************************************************************************)
(* What the record says of a run, preserved by each of its steps.          *)
(***************************************************************************)

(* The steps of d that neither touch files nor start relying on anything.  *)
LEMMA RecordedOwn ==
  ASSUME TypeOK, NoTruncated, NEW d \in Downloads, Recorded(d), Step(d)
  PROVE  Recorded(d)'
<1> USE ReplacementAssumption DEF TypeOK, Recorded, Goto, Mark, RecordRow, Locals
<1>1. CASE Load(d) \/ Preflight(d) \/ Reject(d) \/ RecycleBlocked(d)
           \/ MarkRecycle(d)
  BY <1>1 DEF Load, Preflight, Reject, RecycleBlocked, MarkRecycle
<1>2. CASE MarkBackup(d) \/ NoBackup(d) \/ CheckDir(d) \/ DirMissing(d)
           \/ NoSpace(d)
  BY <1>2 DEF MarkBackup, NoBackup, CheckDir, DirMissing, NoSpace
<1>3. CASE NoRestore(d) \/ SettleFailure(d) \/ FailDownload(d) \/ Commit(d)
           \/ MarkCompleted(d) \/ GiveUp(d)
  BY <1>3 DEF NoRestore, SettleFailure, FailDownload, Commit, MarkCompleted,
              GiveUp
<1>4. CASE Recycle(d) \/ Backup(d) \/ Restore(d) \/ DropOld(d) \/ Cleanup(d)
  BY <1>4 DEF Recycle, Backup, Restore, DropOld, Cleanup
<1>5. CASE Place(d)
  <2>1. MoveOk(Stage(d), Target(d)) => fs'[Target(d)] # NoFile
    BY RunPaths, Ends, MoveOkEffect
  <2> QED
    BY <1>5, <2>1 DEF Place
<1>6. CASE DropBackup(d)
  BY <1>6, RunPaths, Ends, RemoveEffect DEF DropBackup, storageVars, Target
<1> QED
  BY <1>1, <1>2, <1>3, <1>4, <1>5, <1>6 DEF Step

(* Every step keeps what every run relies on: its own steps establish it,  *)
(* and no other replacement runs that could disturb it.                    *)
LEMMA RecordedStep ==
  ASSUME WholeSetting, TypeOK, NoTruncated, OneAtATime,
         \A d \in Downloads : Recorded(d), [Next]_vars
  PROVE  \A d \in Downloads : Recorded(d)'
<1> SUFFICES ASSUME NEW x \in Downloads
             PROVE  Recorded(x)'
  OBVIOUS
<1>1. ASSUME NEW d \in Downloads, Step(d)
      PROVE  Recorded(x)'
  <2>1. CASE x = d
    BY <1>1, <2>1, RecordedOwn
  <2>2. CASE x # d
    <3>1. pc[x] \notin Running
      BY <1>1, <2>2, StepIsOwn DEF OneAtATime
    <3> QED
      BY <1>1, <2>2, <3>1, StepIsOwn DEF Recorded, Running
  <2> QED
    BY <2>1, <2>2
<1>2. ASSUME NEW d \in Downloads, Arrive(d)
      PROVE  Recorded(x)'
  <2>1. pc[x] \notin Running /\ pc[d] = "idle"
    BY <1>2 DEF Arrive, WholeSetting, OneAtATime
  <2> QED
    BY <1>2, <2>1 DEF Arrive, Goto, Recorded, TypeOK, Running
<1>3. ASSUME NEW d \in Downloads, Interrupt(d)
      PROVE  Recorded(x)'
  BY <1>3 DEF Interrupt, Goto, Recorded, TypeOK, storageVars
<1>4. CASE Purge
  <2>1. fs'[Target(x)] = fs[Target(x)]
    BY <1>4, RunPaths, Paths DEF Purge, TypeOK, TypeOKStorage, Target
  <2> QED
    BY <1>4, <2>1 DEF Purge, Recorded, Target
<1>5. CASE Cool \/ UNCHANGED vars
  BY <1>5 DEF Cool, CooldownExpires, vars, Recorded
<1> QED
  BY <1>1, <1>2, <1>3, <1>4, <1>5 DEF Next, Finished

(***************************************************************************)
(* The location of the film.                                               *)
(***************************************************************************)

(* It is not lost by a step that leaves library, bin, backups and the      *)
(* paths in the records alone.                                             *)
LEMMA LocatedKept ==
  ASSUME TypeOK, AlwaysLocated,
         \A e \in Exts : fs'[Lib(e)] = fs[Lib(e)] /\ fs'[Bin(e)] = fs[Bin(e)],
         \A e \in Exts, n \in BackupNames : fs'[Bak(e, n)] = fs[Bak(e, n)],
         \A x \in Downloads : /\ rec'[x].recycle = rec[x].recycle
                              /\ rec'[x].backup = rec[x].backup
  PROVE  AlwaysLocated'
<1>1. CASE InLibrary
  BY <1>1 DEF AlwaysLocated, InLibrary
<1>2. ASSUME NEW x \in Downloads, RecordLocates(x)
      PROVE  RecordLocates(x)'
  <2>1. /\ rec[x].recycle # None => rec[x].recycle \in Exts
        /\ rec[x].backup # None => rec[x].backup \in BackupNames
        /\ ExtOf[x] \in Exts
    BY ReplacementAssumption DEF TypeOK, RecordRow
  <2> QED
    BY <1>2, <2>1 DEF RecordLocates
<1> QED
  BY <1>1, <1>2 DEF AlwaysLocated

(* A film in the library is enough.                                        *)
LEMMA LibraryLocates ==
  ASSUME NEW e \in Exts, fs'[Lib(e)] # NoFile, fs'[Lib(e)] # Partial
  PROVE  AlwaysLocated'
BY DEF AlwaysLocated, InLibrary, Complete

(* The steps that touch no file keep the film located: the two that write  *)
(* a path into the record find the film in the library, or the record had  *)
(* no path yet.                                                            *)
LEMMA LocatedMark ==
  ASSUME Setting, TypeOK, NoTruncated, AlwaysLocated,
         NEW d \in Downloads, Recorded(d), MarkRecycle(d) \/ MarkBackup(d)
  PROVE  AlwaysLocated'
<1>1. CASE MarkRecycle(d)
  <2>1. rec[d].recycle = None
    BY <1>1 DEF MarkRecycle, Recorded
  <2>2. /\ \A x \in Downloads : rec'[x].backup = rec[x].backup
        /\ \A x \in Downloads : x # d => rec'[x].recycle = rec[x].recycle
        /\ UNCHANGED fs
    BY <1>1 DEF MarkRecycle, TypeOK, RecordRow, storageVars
  <2>3. CASE InLibrary
    BY <2>2, <2>3 DEF AlwaysLocated, InLibrary
  <2>4. ASSUME NEW x \in Downloads, RecordLocates(x)
        PROVE  RecordLocates(x)'
    BY <2>1, <2>2, <2>4 DEF RecordLocates
  <2> QED
    BY <2>3, <2>4 DEF AlwaysLocated
<1>2. CASE MarkBackup(d)
  BY <1>2, RunPaths, LibraryLocates, ReplacementAssumption
  DEF MarkBackup, storageVars, Target, NoTruncated
<1> QED
  BY <1>1, <1>2

(* A move out of the library puts the film where the record says; a move   *)
(* into the library puts it there; a failed one leaves its source.         *)
LEMMA LocatedMove ==
  ASSUME Setting, TypeOK, NoTruncated, AlwaysLocated,
         NEW d \in Downloads, Recorded(d),
         Recycle(d) \/ Backup(d) \/ Place(d) \/ Restore(d)
  PROVE  AlwaysLocated'
<1> DEFINE bak == Bak(ExtOf[d], job[d].backup)
<1>0. /\ job[d].src \in Exts /\ ExtOf[d] \in Exts
      /\ job[d].backup # None => job[d].backup \in BackupNames
      /\ TypeOKStorage
  BY ReplacementAssumption DEF TypeOK, Locals
<1>1. CASE Recycle(d)
  <2>1. UNCHANGED rec /\ rec[d].recycle = job[d].src
    BY <1>1 DEF Recycle, Recorded
  <2>2. CASE MoveOk(Original(d), Bin(job[d].src))
    <3>1. fs'[Bin(job[d].src)] # NoFile /\ fs'[Bin(job[d].src)] # Partial
      BY <2>2, <1>0, RunPaths, Ends, MoveOkEffect DEF NoTruncated
    <3>2. RecordLocates(d)'
      BY <2>1, <3>1, <1>0, ReplacementAssumption DEF RecordLocates, Complete
    <3> QED
      BY <3>2 DEF AlwaysLocated
  <2>3. CASE MoveFails(Original(d), Bin(job[d].src))
    <3>1. CASE fs' = fs
      BY <2>1, <3>1, LocatedKept
    <3>2. CASE fs' # fs
      <4>1. /\ fs'[Original(d)] = fs[Original(d)]
            /\ fs'[Bin(job[d].src)] # fs[Bin(job[d].src)] =>
                 fs[Original(d)] # NoFile
        BY <2>3, <1>0, RunPaths, Ends, MoveFailsEffect
      <4>2. CASE fs'[Bin(job[d].src)] # fs[Bin(job[d].src)]
        BY <4>1, <4>2, <1>0, RunPaths, LibraryLocates
        DEF NoTruncated, Original
      <4>3. CASE fs'[Bin(job[d].src)] = fs[Bin(job[d].src)]
        BY <2>1, <2>3, <4>3, <1>0, RunPaths, Paths, MoveFailsEffect, LocatedKept
      <4> QED
        BY <4>2, <4>3
    <3> QED
      BY <3>1, <3>2
  <2> QED
    BY <1>1, <2>2, <2>3 DEF Recycle
<1>2. CASE Backup(d)
  <2>1. /\ job[d].backup # None
        /\ rec[d].backup = job[d].backup
        /\ \A x \in Downloads : /\ rec'[x].recycle = rec[x].recycle
                                /\ rec'[x].backup = rec[x].backup
    BY <1>2 DEF Backup, Recorded, Mark, TypeOK, RecordRow
  <2>2. CASE MoveOk(Target(d), bak)
    <3>1. fs'[bak] # NoFile /\ fs'[bak] # Partial
      BY <2>1, <2>2, <1>0, RunPaths, Ends, MoveOkEffect DEF NoTruncated
    <3>2. RecordLocates(d)'
      BY <2>1, <3>1 DEF RecordLocates, Complete
    <3> QED
      BY <3>2 DEF AlwaysLocated
  <2>3. CASE MoveFails(Target(d), bak)
    <3>1. /\ fs'[Target(d)] = fs[Target(d)]
          /\ fs'[bak] # fs[bak] => fs[Target(d)] # NoFile
      BY <2>1, <2>3, <1>0, RunPaths, Ends, MoveFailsEffect
    <3>2. CASE fs'[bak] # fs[bak]
      BY <3>1, <3>2, <1>0, RunPaths, LibraryLocates DEF NoTruncated, Target
    <3>3. CASE fs'[bak] = fs[bak]
      BY <2>1, <2>3, <3>3, <1>0, RunPaths, Paths, MoveFailsEffect, LocatedKept
    <3> QED
      BY <3>2, <3>3
  <2> QED
    BY <1>2, <2>2, <2>3 DEF Backup
<1>3. ASSUME NEW src \in Path, src # Target(d),
             \A e \in Exts : src # Lib(e) /\ src # Bin(e),
             MoveOk(src, Target(d)) \/ MoveFails(src, Target(d)),
             \A x \in Downloads : /\ rec'[x].recycle = rec[x].recycle
                                  /\ rec'[x].backup = rec[x].backup
      PROVE  AlwaysLocated'
  <2>1. CASE MoveOk(src, Target(d))
    BY <1>3, <2>1, <1>0, RunPaths, MoveOkEffect, LibraryLocates
    DEF NoTruncated, Target
  <2>2. CASE MoveFails(src, Target(d))
    <3>1. fs'[Target(d)] # fs[Target(d)] =>
            fs'[Target(d)] # NoFile /\ fs'[Target(d)] # Partial
      BY <1>3, <2>2, <1>0, RunPaths, MoveFailsEffect
      DEF NoTruncated, Setting, WholeSetting
    <3>2. CASE fs'[Target(d)] # fs[Target(d)]
      BY <3>1, <3>2, <1>0, LibraryLocates DEF Target
    <3>3. CASE fs'[Target(d)] = fs[Target(d)]
      <4>1. \A p \in Path : fs'[p] = fs[p]
        BY <1>3, <2>2, <3>3, <1>0, RunPaths, MoveFailsEffect
      <4> QED
        BY <1>3, <4>1, Paths, LocatedKept
    <3> QED
      BY <3>2, <3>3
  <2> QED
    BY <1>3, <2>1, <2>2
<1>4. CASE Place(d)
  BY <1>3, <1>4, RunPaths, Ends, Paths DEF Place
<1>5. CASE Restore(d)
  <2>1. \A x \in Downloads : /\ rec'[x].recycle = rec[x].recycle
                             /\ rec'[x].backup = rec[x].backup
    BY <1>5 DEF Restore, Mark, TypeOK, RecordRow
  <2> QED
    BY <1>3, <1>5, <2>1, RunPaths, Ends, Paths DEF Restore, CanRestore
<1> QED
  BY <1>1, <1>2, <1>4, <1>5

(* What is dropped after a placement is not the file just placed.          *)
LEMMA TargetKept ==
  ASSUME TypeOK, NEW d \in Downloads, DropBackup(d) \/ DropOld(d)
  PROVE  fs'[Target(d)] = fs[Target(d)]
<1>1. TypeOKStorage /\ Target(d) \in Path
  BY RunPaths DEF TypeOK
<1>2. CASE DropBackup(d)
  BY <1>1, <1>2, RunPaths, Ends, RemoveEffect DEF DropBackup, storageVars
<1>3. CASE DropOld(d)
  BY <1>1, <1>3, RunPaths, Paths, RemoveEffect
  DEF DropOld, storageVars, Original, Target
<1> QED
  BY <1>2, <1>3

(* So the removals keep the film located.                                  *)
LEMMA LocatedDrop ==
  ASSUME TypeOK, NoTruncated, AlwaysLocated, NEW d \in Downloads, Recorded(d),
         DropBackup(d) \/ DropOld(d)
  PROVE  AlwaysLocated'
<1>1. /\ ExtOf[d] \in Exts /\ TypeOKStorage
      /\ fs[Target(d)] # NoFile /\ Target(d) \in Path
  BY ReplacementAssumption, RunPaths
  DEF TypeOK, Recorded, DropBackup, DropOld
<1> QED
  BY <1>1, TargetKept, LibraryLocates DEF NoTruncated, Target

(* Every other step leaves the paths outside the staging folders, and the  *)
(* paths in the records, alone.                                            *)
LEMMA LocatedStep ==
  ASSUME IInv, [Next]_vars
  PROVE  AlwaysLocated'
<1> USE DEF IInv
<1>1. ASSUME NEW d \in Downloads, Arrive(d)
      PROVE  AlwaysLocated'
  BY <1>1, Paths, LocatedKept DEF Arrive, TypeOK, TypeOKStorage
<1>2. ASSUME NEW d \in Downloads,
             MarkRecycle(d) \/ MarkBackup(d)
      PROVE  AlwaysLocated'
  BY <1>2, LocatedMark
<1>3. ASSUME NEW d \in Downloads,
             Recycle(d) \/ Backup(d) \/ Place(d) \/ Restore(d)
      PROVE  AlwaysLocated'
  BY <1>3, LocatedMove
<1>4. ASSUME NEW d \in Downloads, DropBackup(d) \/ DropOld(d)
      PROVE  AlwaysLocated'
  BY <1>4, LocatedDrop
<1>5. ASSUME NEW d \in Downloads, Cleanup(d)
      PROVE  AlwaysLocated'
  <2>1. \A q \in Path : q # Stage(d) => fs'[q] = fs[q]
    BY <1>5, RunPaths, RemoveEffect DEF Cleanup, TypeOK
  <2> QED
    BY <1>5, <2>1, Paths, LocatedKept DEF Cleanup
<1>6. ASSUME NEW d \in Downloads,
             \/ Load(d) \/ Preflight(d) \/ Reject(d) \/ RecycleBlocked(d)
             \/ NoBackup(d) \/ CheckDir(d) \/ DirMissing(d) \/ NoSpace(d)
             \/ NoRestore(d) \/ SettleFailure(d) \/ FailDownload(d)
             \/ Commit(d) \/ MarkCompleted(d) \/ GiveUp(d)
      PROVE  AlwaysLocated'
  <2>1. UNCHANGED fs
    BY <1>6 DEF Load, Preflight, Reject, RecycleBlocked, NoBackup, CheckDir,
       DirMissing, NoSpace, NoRestore, SettleFailure, FailDownload, Commit,
       MarkCompleted, GiveUp, storageVars
  <2>2. \/ UNCHANGED rec
        \/ \E st \in RecordStatus : Mark(d, st)
    BY <1>6 DEF Load, Preflight, Reject, RecycleBlocked, NoBackup, CheckDir,
       DirMissing, NoSpace, NoRestore, SettleFailure, FailDownload, Commit,
       MarkCompleted, GiveUp, RecordStatus
  <2>3. \A x \in Downloads : /\ rec'[x].recycle = rec[x].recycle
                             /\ rec'[x].backup = rec[x].backup
    BY <2>2 DEF Mark, TypeOK, RecordRow
  <2> QED
    BY <2>1, <2>3, LocatedKept
<1>7. ASSUME NEW d \in Downloads, Interrupt(d)
      PROVE  AlwaysLocated'
  BY <1>7, LocatedKept DEF Interrupt, storageVars
<1>8. CASE Purge
  BY <1>8 DEF Purge, Setting
<1>9. CASE Cool \/ UNCHANGED vars
  BY <1>9, LocatedKept DEF Cool, CooldownExpires, vars
<1> QED
  BY <1>1, <1>2, <1>3, <1>4, <1>5, <1>6, <1>7, <1>8, <1>9
  DEF Next, Step, Finished

(* The invariant holds initially: the original lies in the library.        *)
LEMMA IInvInit == Init /\ Setting /\ TypeOK => IInv
<1> SUFFICES ASSUME Init, Setting, TypeOK
             PROVE  IInv
  OBVIOUS
<1>1. NoTruncated
  BY StorageAssumption DEF Init, NoTruncated
<1>2. OneAtATime
  BY DEF Init, OneAtATime, Running
<1>3. fs[Lib(LibraryExt)] = Orig
  BY ReplacementAssumption, Paths DEF Init, Setting
<1>4. AlwaysLocated
  BY <1>3, StorageAssumption, ReplacementAssumption
  DEF AlwaysLocated, InLibrary, Complete
<1>5. \A d \in Downloads : Recorded(d)
  BY DEF Init, Recorded
<1> QED
  BY <1>1, <1>2, <1>4, <1>5 DEF IInv

(* RunInv is inductive: each conjunct rests on some of the others.         *)
LEMMA RunInductive == WholeSetting /\ Spec => []RunInv
<1>1. Init /\ WholeSetting /\ TypeOK => RunInv
  BY StorageAssumption
  DEF Init, RunInv, NoTruncated, OneAtATime, Running, Recorded
<1>2. RunInv /\ TypeOK' /\ [Next]_vars => RunInv'
  <2> SUFFICES ASSUME RunInv, TypeOK', [Next]_vars
               PROVE  RunInv'
    OBVIOUS
  <2>1. OneAtATime'
    BY OneAtATimeStep DEF RunInv, WholeSetting
  <2>2. NoTruncated'
    BY NoTruncatedStep DEF RunInv
  <2>3. \A d \in Downloads : Recorded(d)'
    BY RecordedStep DEF RunInv
  <2> QED
    BY <2>1, <2>2, <2>3 DEF RunInv, WholeSetting
<1> QED
  BY <1>1, <1>2, TypeCorrect, PTL DEF Spec

(* So is IInv, which adds that the film is located.                        *)
LEMMA Inductive == Setting /\ Spec => []IInv
<1>1. Init /\ Setting /\ TypeOK => IInv
  BY IInvInit
<1>2. IInv /\ RunInv' /\ [Next]_vars => IInv'
  BY LocatedStep DEF IInv, RunInv, Setting, WholeSetting
<1>3. Setting => WholeSetting
  BY DEF Setting
<1>4. RunInv => TypeOK
  BY DEF RunInv
<1> QED
  BY <1>1, <1>2, <1>3, <1>4, RunInductive, PTL DEF Spec

(* Write-ahead: in the setting above, whatever faults and interruptions    *)
(* occur and at whatever point, the library holds a complete film or a     *)
(* committed recovery record leads to one.                                 *)
THEOREM Located == Setting /\ Spec => []AlwaysLocated
<1>1. IInv => AlwaysLocated
  BY DEF IInv
<1> QED
  BY <1>1, Inductive, PTL

(* The only path that may lose a complete film in a step is q.             *)
KeptBut(q) ==
  \A p \in Path : p # q /\ Complete(fs[p]) => Complete(fs'[p])

(* A move that succeeds empties its source, one that fails nothing.        *)
LEMMA MoveKeeps ==
  ASSUME WholeSetting, TypeOKStorage, NoTruncated,
         NEW src \in Path, NEW dst \in Path, src # dst,
         MoveOk(src, dst) \/ MoveFails(src, dst)
  PROVE  /\ KeptBut(src)
         /\ MoveFails(src, dst) /\ Complete(fs[src]) => Complete(fs'[src])
<1>1. CASE MoveOk(src, dst)
  <2>1. KeptBut(src)
    BY <1>1, MoveOkEffect DEF KeptBut, Complete, NoTruncated
  <2>2. ~MoveFails(src, dst) \/ fs'[src] = fs[src]
    BY MoveFailsEffect
  <2> QED
    BY <2>1, <2>2
<1>2. CASE MoveFails(src, dst)
  <2>1. /\ \A p \in Path : p # dst => fs'[p] = fs[p]
        /\ fs'[dst] # fs[dst] => fs[src] # NoFile /\ fs'[dst] = fs[src]
    BY <1>2, MoveFailsEffect DEF WholeSetting
  <2> QED
    BY <2>1 DEF KeptBut, Complete, NoTruncated
<1> QED
  BY <1>1, <1>2

(* Whoever empties the bin meanwhile, no other step destroys the last      *)
(* complete copy outside the staging folders.                              *)
LEMMA CopyStep ==
  ASSUME RunInv, [Next]_vars, HasCopy
  PROVE  HasCopy' \/ Purge
<1> USE DEF RunInv
<1>0. TypeOKStorage
  BY DEF TypeOK
<1> PICK p \in Path : p[1] # "stage" /\ Complete(fs[p])
  BY DEF HasCopy
<1>1. CASE fs'[p] = fs[p]
  BY <1>1 DEF HasCopy
<1>2. ASSUME NEW src \in Path, NEW dst \in Path, src # dst, dst[1] # "stage",
             MoveOk(src, dst) \/ MoveFails(src, dst)
      PROVE  HasCopy'
  <2>1. CASE Complete(fs'[p])
    BY <2>1 DEF HasCopy
  <2>2. CASE ~Complete(fs'[p])
    <3>1. p = src /\ MoveOk(src, dst)
      BY <1>0, <1>2, <2>2, MoveKeeps DEF KeptBut
    <3>2. Complete(fs'[dst])
      BY <1>0, <1>2, <3>1, MoveOkEffect
    <3> QED
      BY <1>2, <3>2 DEF HasCopy
  <2> QED
    BY <2>1, <2>2
<1>3. ASSUME NEW d \in Downloads, Recycle(d) \/ Backup(d) \/ Place(d)
                                  \/ Restore(d)
      PROVE  HasCopy'
  <2>1. /\ Bin(job[d].src)[1] # "stage" /\ Target(d)[1] # "stage"
        /\ Bak(ExtOf[d], job[d].backup)[1] # "stage"
    BY DEF Bin, Bak, Lib, Target
  <2>2. Backup(d) => job[d].backup # None
    BY DEF Backup, Recorded
  <2> QED
    BY <1>2, <1>3, <2>1, <2>2, RunPaths, Ends
    DEF Recycle, Backup, Place, Restore, CanRestore
<1>4. ASSUME NEW d \in Downloads, DropBackup(d) \/ DropOld(d)
      PROVE  HasCopy'
  <2>1. fs[Target(d)] # NoFile /\ Target(d) \in Path
    BY <1>4, RunPaths DEF DropBackup, DropOld, Recorded
  <2>2. Complete(fs'[Target(d)])
    BY <1>4, <2>1, TargetKept DEF Complete, NoTruncated
  <2>3. Target(d)[1] # "stage"
    BY DEF Target, Lib
  <2> QED
    BY <2>1, <2>2, <2>3 DEF HasCopy
<1>5. ASSUME NEW d \in Downloads, Cleanup(d) \/ Arrive(d)
      PROVE  HasCopy' \/ Purge
  <2>1. p # Stage(d)
    BY DEF Stage
  <2>2. CASE Cleanup(d)
    BY <1>0, <1>1, <2>1, <2>2, RunPaths, RemoveEffect DEF Cleanup
  <2>3. CASE Arrive(d)
    BY <1>0, <1>1, <2>1, <2>3 DEF Arrive, TypeOKStorage
  <2> QED
    BY <1>5, <2>2, <2>3
<1>6. ASSUME NEW d \in Downloads, Step(d),
             ~Recycle(d), ~Backup(d), ~Place(d), ~Restore(d),
             ~DropBackup(d), ~DropOld(d), ~Cleanup(d)
      PROVE  UNCHANGED fs
  BY <1>6 DEF Step, storageVars, Load, Preflight, Reject, RecycleBlocked,
       MarkRecycle, MarkBackup, NoBackup, CheckDir, DirMissing, NoSpace,
       NoRestore, SettleFailure, FailDownload, Commit, MarkCompleted, GiveUp
<1> QED
  BY <1>1, <1>3, <1>4, <1>5, <1>6
  DEF Next, Interrupt, Cool, CooldownExpires, Finished, vars, storageVars

(* Also when the bin is emptied or the original was missing: the last      *)
(* complete copy outside the staging folders goes only by a purge.         *)
THEOREM LastCopyKept == WholeSetting /\ Spec => LastCopyOnlyPurged
<1>1. RunInv /\ [Next]_vars => [HasCopy /\ ~HasCopy' => Purge]_vars
  BY CopyStep
<1> QED
  BY <1>1, RunInductive, PTL DEF Spec, LastCopyOnlyPurged
-----------------------------------------------------------------------------
(***************************************************************************)
(* An improved movie names an installed film.                              *)
(***************************************************************************)
Before == {"load", "preflight", "recycle", "recycle_move", "backup",
           "backup_move", "check_dir", "place"}
After == {"placed", "drop_old", "commit"}

(* The film that a run carries from its staging folder to the library.     *)
Carried(d) ==
  /\ pc[d] \in Before => fs[Stage(d)] = d
  /\ pc[d] \in After => fs[Target(d)] = d
  /\ pc[d] = "complete" => dl[d] = "replaced"

(* While the movie is improved, a run that is under way has succeeded.     *)
Succeeded(d) ==
  /\ pc[d] \in Running => pc[d] \in {"complete", "cleanup"}
  /\ pc[d] = "cleanup" => dl[d] = "replaced"

OutcomeInv ==
  /\ Serialised
  /\ TypeOK
  /\ OneAtATime
  /\ \A d \in Downloads : Carried(d)
  /\ ImprovedIsInstalled
  /\ movie.status = "improved" => \A d \in Downloads : Succeeded(d)

(* What a move does to any path it may touch: it leaves there what was     *)
(* there, nothing, a truncated file, or what its source held.              *)
LEMMA MoveApart ==
  ASSUME NEW src \in Path, NEW dst \in Path, src # dst, TypeOKStorage,
         MoveOk(src, dst) \/ MoveFails(src, dst)
  PROVE  \A p \in Path : p # src /\ p # dst => fs'[p] = fs[p]
BY MoveOkEffect, MoveFailsEffect

(* A run keeps hold of its film.                                           *)
LEMMA CarriedOwn ==
  ASSUME TypeOK, NEW d \in Downloads, Carried(d), Step(d)
  PROVE  Carried(d)'
<1> USE DEF TypeOK, Carried, Goto, Before, After
<1>1. CASE Load(d) \/ Preflight(d) \/ Reject(d) \/ RecycleBlocked(d)
           \/ MarkRecycle(d) \/ MarkBackup(d) \/ NoBackup(d)
  BY <1>1 DEF Load, Preflight, Reject, RecycleBlocked, MarkRecycle,
              MarkBackup, NoBackup, storageVars
<1>2. CASE CheckDir(d) \/ DirMissing(d) \/ NoSpace(d) \/ NoRestore(d)
           \/ SettleFailure(d) \/ FailDownload(d) \/ MarkCompleted(d)
           \/ GiveUp(d)
  BY <1>2 DEF CheckDir, DirMissing, NoSpace, NoRestore, SettleFailure,
              FailDownload, MarkCompleted, GiveUp, storageVars
<1>3. CASE Recycle(d)
  <2>1. /\ Original(d) # Stage(d) /\ Bin(job[d].src) # Stage(d)
        /\ pc[d] = "recycle_move" /\ pc'[d] \in {"check_dir", "backup"}
    BY <1>3, Paths DEF Recycle, Original
  <2>2. fs'[Stage(d)] = fs[Stage(d)]
    BY <1>3, <2>1, RunPaths, Ends, MoveApart DEF Recycle
  <2> QED
    BY <2>1, <2>2
<1>4. CASE Backup(d)
  <2>1. pc[d] = "backup_move" /\ pc'[d] \in {"check_dir", "fail_dl"}
    BY <1>4 DEF Backup
  <2>2. ASSUME pc'[d] = "check_dir"
        PROVE  fs'[Stage(d)] = fs[Stage(d)]
    BY <1>4, <2>2, Paths DEF Backup, MoveOk, TypeOKStorage, Target
  <2> QED
    BY <2>1, <2>2
<1>5. CASE Place(d)
  <2>1. pc[d] = "place" /\ pc'[d] \in {"placed", "unplaced"}
    BY <1>5 DEF Place
  <2>2. ASSUME pc'[d] = "placed"
        PROVE  fs'[Target(d)] = d
    BY <1>5, <2>1, <2>2, RunPaths, Ends, MoveOkEffect DEF Place
  <2> QED
    BY <2>1, <2>2 DEF Target
<1>6. CASE Restore(d) \/ Cleanup(d)
  BY <1>6 DEF Restore, Cleanup
<1>7. CASE DropBackup(d)
  BY <1>7, RunPaths, Ends, RemoveEffect DEF DropBackup, storageVars, Target
<1>8. CASE DropOld(d)
  BY <1>8, RunPaths, Paths, RemoveEffect
  DEF DropOld, storageVars, Original, Target
<1>9. CASE Commit(d)
  BY <1>9 DEF Commit
<1> QED
  BY <1>1, <1>2, <1>3, <1>4, <1>5, <1>6, <1>7, <1>8, <1>9 DEF Step

(* The films of the others stay where they are: they are not under way.    *)
LEMMA CarriedStep ==
  ASSUME OutcomeInv, [Next]_vars
  PROVE  \A d \in Downloads : Carried(d)'
<1> SUFFICES ASSUME NEW x \in Downloads
             PROVE  Carried(x)'
  OBVIOUS
<1> USE DEF OutcomeInv
<1>0. Running \cap Halted = {} /\ Before \subseteq Running
      /\ After \subseteq Running /\ "complete" \in Running
  BY DEF Running, Halted, Before, After
<1>1. ASSUME NEW d \in Downloads, Step(d)
      PROVE  Carried(x)'
  <2>1. CASE x = d
    BY <1>1, <2>1, CarriedOwn
  <2>2. CASE x # d
    <3>1. pc[x] \notin Running /\ pc'[x] = pc[x]
      BY <1>1, <2>2, StepIsOwn DEF OneAtATime
    <3> QED
      BY <1>0, <3>1 DEF Carried
  <2> QED
    BY <2>1, <2>2
<1>2. ASSUME NEW d \in Downloads, Arrive(d)
      PROVE  Carried(x)'
  <2>1. /\ fs'[Stage(d)] = d
        /\ pc' = [pc EXCEPT ![d] = "load"]
        /\ pc[x] \notin Running
    BY <1>2, RunPaths DEF Arrive, Goto, TypeOK, TypeOKStorage
  <2>2. CASE x = d
    BY <2>1, <2>2 DEF Carried, TypeOK, Before, After
  <2>3. CASE x # d
    BY <1>0, <2>1, <2>3 DEF Carried, TypeOK
  <2> QED
    BY <2>2, <2>3
<1>3. ASSUME NEW d \in Downloads, Interrupt(d)
      PROVE  Carried(x)'
  <2>1. pc' = [pc EXCEPT ![d] = "lost"] /\ fs' = fs /\ dl' = dl
    BY <1>3 DEF Interrupt, Goto, storageVars
  <2>2. CASE x = d
    BY <2>1, <2>2 DEF Carried, TypeOK, Before, After
  <2>3. CASE x # d
    BY <2>1, <2>3 DEF Carried, TypeOK, Target
  <2> QED
    BY <2>2, <2>3
<1>4. CASE Purge
  <2>1. \A d \in Downloads : fs'[Stage(d)] = fs[Stage(d)]
                             /\ fs'[Target(d)] = fs[Target(d)]
    BY <1>4, RunPaths, Paths DEF Purge, TypeOK, TypeOKStorage, Target
  <2> QED
    BY <1>4, <2>1 DEF Purge, Carried, Target
<1>5. CASE Cool \/ UNCHANGED vars
  BY <1>5 DEF Cool, CooldownExpires, vars, Carried, Target
<1> QED
  BY <1>1, <1>2, <1>3, <1>4, <1>5 DEF Next, Finished

(* A step that leaves the row and the library alone leaves the film of an  *)
(* improved movie installed, unless it takes back that it was replaced.    *)
LEMMA InstalledKept ==
  ASSUME TypeOK, ImprovedIsInstalled, UNCHANGED <<movie, dl>>,
         \A e \in Exts : fs'[Lib(e)] = fs[Lib(e)]
  PROVE  ImprovedIsInstalled'
BY DEF TypeOK, MovieRow, ImprovedIsInstalled

(* The movie becomes improved in Commit, and stays so until the next       *)
(* download arrives.                                                       *)
LEMMA ImprovedStep ==
  ASSUME OutcomeInv, [Next]_vars
  PROVE  /\ ImprovedIsInstalled'
         /\ movie'.status = "improved" => \A d \in Downloads : Succeeded(d)'
<1> USE DEF OutcomeInv
<1>0. Running \cap Halted = {} /\ \A d \in Downloads : pc[d] \in Running \cup Halted
  BY DEF Running, Halted, TypeOK
<1>1. ASSUME NEW d \in Downloads, Arrive(d)
      PROVE  movie'.status # "improved"
  BY <1>1 DEF Arrive, TypeOK, MovieRow
<1>2. ASSUME NEW d \in Downloads, Step(d), movie.status = "improved"
      PROVE  /\ ImprovedIsInstalled'
             /\ \A x \in Downloads : Succeeded(x)'
  <2>1. pc[d] \in {"complete", "cleanup"} /\ Succeeded(d) /\ Carried(d)
    BY <1>2, StepIsOwn DEF Succeeded
  <2>2. MarkCompleted(d) \/ Cleanup(d)
    BY <1>2, <2>1 DEF Step, Load, Preflight, Reject, RecycleBlocked,
       MarkRecycle, Recycle, MarkBackup, NoBackup, Backup, CheckDir,
       DirMissing, NoSpace, Place, Restore, NoRestore, SettleFailure,
       FailDownload, DropBackup, DropOld, Commit, GiveUp
  <2>3. UNCHANGED <<movie, dl>>
    BY <2>2 DEF MarkCompleted, Cleanup
  <2>4. \A e \in Exts : fs'[Lib(e)] = fs[Lib(e)]
    <3>1. CASE MarkCompleted(d)
      BY <3>1 DEF MarkCompleted, storageVars
    <3>2. CASE Cleanup(d)
      BY <3>2, RunPaths, Paths, RemoveEffect DEF Cleanup, TypeOK
    <3> QED
      BY <2>2, <3>1, <3>2
  <2>5. Succeeded(d)'
    <3>1. dl[d] = "replaced" /\ pc'[d] \in {"cleanup", "done"}
      BY <2>1, <2>2 DEF Succeeded, Carried, MarkCompleted, Cleanup, Goto, TypeOK
    <3> QED
      BY <2>3, <3>1 DEF Succeeded, Running
  <2>6. ASSUME NEW x \in Downloads, x # d
        PROVE  Succeeded(x)'
    BY <1>2, <2>3, <2>6, StepIsOwn DEF Succeeded
  <2> QED
    BY <1>2, <2>3, <2>4, <2>5, <2>6, InstalledKept
<1>3. ASSUME NEW d \in Downloads, Step(d), movie.status # "improved",
             movie'.status = "improved"
      PROVE  /\ ImprovedIsInstalled'
             /\ \A x \in Downloads : Succeeded(x)'
  <2>1. Commit(d) /\ fs[Target(d)] # NoFile
    BY <1>3 DEF Step, Load, Preflight, Reject, RecycleBlocked,
       MarkRecycle, Recycle, MarkBackup, NoBackup, Backup, CheckDir,
       DirMissing, NoSpace, Place, Restore, NoRestore, SettleFailure,
       FailDownload, DropBackup, DropOld, Commit, GiveUp, MarkCompleted,
       Cleanup, TypeOK, MovieRow
  <2>2. /\ pc[d] = "commit" /\ fs[Target(d)] = d /\ fs' = fs
        /\ movie' = [ext |-> ExtOf[d], status |-> "improved"]
        /\ dl' = [dl EXCEPT ![d] = "replaced"]
        /\ pc'[d] = "complete"
    BY <2>1 DEF Commit, Carried, After, Goto, storageVars, TypeOK
  <2>3. ImprovedIsInstalled'
    BY <2>2 DEF ImprovedIsInstalled, Target, TypeOK
  <2>4. ASSUME NEW x \in Downloads
        PROVE  Succeeded(x)'
    <3>1. CASE x = d
      BY <2>2, <3>1 DEF Succeeded
    <3>2. CASE x # d
      <4>1. pc[x] \notin Running /\ pc'[x] = pc[x]
        BY <1>3, <3>2, StepIsOwn DEF OneAtATime
      <4> QED
        BY <4>1 DEF Succeeded, Running
    <3> QED
      BY <3>1, <3>2
  <2> QED
    BY <2>3, <2>4
<1>4. ASSUME NEW d \in Downloads, Interrupt(d)
      PROVE  /\ ImprovedIsInstalled'
             /\ movie'.status = "improved" => \A x \in Downloads : Succeeded(x)'
  <2>1. UNCHANGED <<movie, dl, fs>> /\ pc' = [pc EXCEPT ![d] = "lost"]
    BY <1>4 DEF Interrupt, Goto, storageVars
  <2>2. ImprovedIsInstalled'
    BY <2>1, InstalledKept
  <2> QED
    BY <2>1, <2>2 DEF Succeeded, TypeOK, Running
<1>5. CASE Purge
  <2>1. \A e \in Exts : fs'[Lib(e)] = fs[Lib(e)]
    BY <1>5, Paths DEF Purge, TypeOK, TypeOKStorage
  <2> QED
    BY <1>5, <2>1, InstalledKept DEF Purge, Succeeded
<1>6. CASE Cool \/ UNCHANGED vars
  BY <1>6, InstalledKept DEF Cool, CooldownExpires, vars, Succeeded
<1>7. movie'.status # "improved" => ImprovedIsInstalled'
  BY DEF ImprovedIsInstalled
<1> QED
  BY <1>1, <1>2, <1>3, <1>4, <1>5, <1>6, <1>7 DEF Next, Finished

(* OutcomeInv is inductive.                                                *)
LEMMA OutcomeInductive == Serialised /\ Spec => []OutcomeInv
<1>1. Init /\ Serialised /\ TypeOK => OutcomeInv
  BY DEF Init, OutcomeInv, OneAtATime, Running, Carried, Before, After,
         ImprovedIsInstalled
<1>2. OutcomeInv /\ TypeOK' /\ [Next]_vars => OutcomeInv'
  BY OneAtATimeStep, CarriedStep, ImprovedStep DEF OutcomeInv
<1> QED
  BY <1>1, <1>2, TypeCorrect, PTL DEF Spec

(* Whatever fails, however often a run dies, wherever the library lies and *)
(* whoever empties the bin: a movie row that says "improved" names a file  *)
(* that is there and is the film of a download that counts as replaced,    *)
(* provided that replacements of the movie run one at a time.              *)
THEOREM ImprovementInstalled == Serialised /\ Spec => []ImprovedIsInstalled
<1>1. OutcomeInv => ImprovedIsInstalled
  BY DEF OutcomeInv
<1> QED
  BY <1>1, OutcomeInductive, PTL
-----------------------------------------------------------------------------
(***************************************************************************)
(* With nothing going wrong, one version of the film is left.              *)
(***************************************************************************)

(* The setting: replacements run one at a time, and a library on the NAS   *)
(* shares a device with staging and bin and still holds the original.      *)
(* Otherwise a move is refused, the refusal starts the cooldown, and the   *)
(* cooldown lets later calls fail although nothing went wrong outside.     *)
CalmSetting ==
  /\ Serialised
  /\ LibraryOnNas => ~CrossDevice /\ ~OriginalMissing

Undisturbed == faults = 0 /\ interrupts = 0

(* The library holds at most one version, with extension e; and it does,   *)
(* unless the original had vanished.                                       *)
Sole(e) ==
  /\ \A f \in Exts : fs[Lib(f)] # NoFile => f = e
  /\ OriginalMissing \/ fs[Lib(e)] # NoFile

Picked == {"preflight", "recycle", "recycle_move", "backup", "backup_move"}
Emptied == {"idle", "placed", "drop_old", "commit", "complete", "cleanup"}

(* What a run that meets no obstacle finds at each point.                  *)
Tidied(d) ==
  /\ pc[d] \in {"idle", "load"} \cup (Picked \ {"backup_move"}) =>
       job[d].backup = None
  /\ pc[d] \in {"idle", "load"} \cup Picked => ~job[d].recycled
  /\ pc[d] \in {"load", "give_up"} => Sole(movie.ext) /\ dl[d] = "completed"
  /\ pc[d] \in Picked => Sole(job[d].src)
  /\ pc[d] = "backup_move" => fs[Target(d)] # NoFile /\ job[d].backup # None
  /\ pc[d] \in {"check_dir", "place"} =>
       \A f \in Exts : fs[Lib(f)] # NoFile =>
         f = job[d].src /\ f # ExtOf[d] /\ ~job[d].recycled
  /\ pc[d] \in {"placed", "drop_old"} =>
       \A f \in Exts : fs[Lib(f)] # NoFile =>
         f = ExtOf[d] \/ (f = job[d].src /\ ~job[d].recycled)
  /\ pc[d] = "commit" => Sole(ExtOf[d])
  /\ pc[d] \in {"complete", "cleanup"} => Sole(movie.ext)
  /\ pc[d] \in Emptied => fs[Stage(d)] = NoFile
  /\ pc[d] = "cleanup" => dl[d] = "replaced"
  /\ pc[d] = "done" =>
       dl[d] = "completed" \/ (dl[d] = "replaced" /\ fs[Stage(d)] = NoFile)
  /\ pc[d] \notin {"unplaced", "settle", "fail_dl", "lost"}

(* Only the run that made a backup leaves one, until it has placed its     *)
(* film.                                                                   *)
OwnBackup(d, e, n) ==
  /\ pc[d] \in {"check_dir", "place", "placed"}
  /\ ExtOf[d] = e /\ job[d].backup = n

BackupsOwned ==
  \A e \in Exts, n \in BackupNames :
    fs[Bak(e, n)] # NoFile => \E d \in Downloads : OwnBackup(d, e, n)

Tidy ==
  /\ ~Cooling
  /\ AtRest => Sole(movie.ext)
  /\ BackupsOwned
  /\ \A d \in Downloads : Tidied(d)

CalmInv ==
  /\ CalmSetting
  /\ OutcomeInv
  /\ Undisturbed => Tidy

(* A step counts at most one fault and no death.                           *)
LEMMA FaultsCounted ==
  ASSUME NEW d \in Downloads, Step(d)
  PROVE  faults' \in {faults, faults + 1} /\ interrupts' = interrupts
<1> USE DEF storageVars
<1>1. ASSUME NEW src, NEW dst, MoveOk(src, dst) \/ MoveFails(src, dst)
      PROVE  faults' \in {faults, faults + 1}
  BY <1>1 DEF MoveOk, MoveFails, Fault
<1>2. ASSUME NEW p, RemoveOk(p) \/ RemoveFails(p)
      PROVE  faults' \in {faults, faults + 1}
  BY <1>2 DEF RemoveOk, RemoveFails, Fault
<1>3. CASE Load(d) \/ Preflight(d) \/ Reject(d) \/ RecycleBlocked(d)
           \/ MarkRecycle(d) \/ MarkBackup(d) \/ NoBackup(d)
  BY <1>3 DEF Load, Preflight, Reject, RecycleBlocked, MarkRecycle,
              MarkBackup, NoBackup, Fault
<1>4. CASE CheckDir(d) \/ DirMissing(d) \/ NoSpace(d) \/ NoRestore(d)
           \/ SettleFailure(d) \/ FailDownload(d) \/ Commit(d)
           \/ MarkCompleted(d) \/ GiveUp(d)
  BY <1>4 DEF CheckDir, DirMissing, NoSpace, NoRestore, SettleFailure,
              FailDownload, Commit, MarkCompleted, GiveUp, Fault
<1>5. CASE Recycle(d) \/ Backup(d) \/ Place(d) \/ Restore(d)
  BY <1>1, <1>5 DEF Recycle, Backup, Place, Restore
<1>6. CASE DropBackup(d) \/ DropOld(d) \/ Cleanup(d)
  BY <1>2, <1>6 DEF DropBackup, DropOld, Cleanup
<1> QED
  BY <1>3, <1>4, <1>5, <1>6 DEF Step

(* Nothing goes wrong that did not already before.                         *)
LEMMA UndisturbedBefore ==
  ASSUME TypeOK, [Next]_vars, Undisturbed'
  PROVE  Undisturbed
<1> USE DEF Undisturbed
<1>0. faults \in Nat /\ interrupts \in Nat
  BY StorageAssumption, ReplacementAssumption DEF TypeOK, TypeOKStorage
<1>1. ASSUME NEW d \in Downloads, Arrive(d) \/ Interrupt(d)
      PROVE  faults' = faults /\ interrupts' \in {interrupts, interrupts + 1}
  BY <1>1 DEF Arrive, Interrupt, storageVars
<1>2. CASE Purge \/ Cool \/ UNCHANGED vars
  BY <1>2 DEF Purge, Cool, CooldownExpires, vars
<1> QED
  BY <1>0, <1>1, <1>2, FaultsCounted DEF Next, Finished

(* A move of a film that is there succeeds.                                *)
LEMMA CalmMove ==
  ASSUME CalmSetting, Undisturbed, Undisturbed', ~Cooling,
         NEW src, NEW dst, MoveFails(src, dst)
  PROVE  fs[src] = NoFile /\ UNCHANGED fs
BY DEF MoveFails, Impossible, Crosses, Fault, Undisturbed, CalmSetting

(* So does every removal.                                                  *)
LEMMA CalmRemove ==
  ASSUME Undisturbed, Undisturbed', ~Cooling, NEW p, RemoveFails(p)
  PROVE  FALSE
BY DEF RemoveFails, Fault, Undisturbed

(* A step of d leaves the staging folders and the status of the other      *)
(* downloads alone.                                                        *)
LEMMA OthersStage ==
  ASSUME TypeOK, NEW d \in Downloads, Step(d), Tidied(d),
         NEW x \in Downloads, x # d
  PROVE  fs'[Stage(x)] = fs[Stage(x)] /\ dl'[x] = dl[x]
<1> USE DEF TypeOK, storageVars
<1>0. Stage(x) # Stage(d) /\ Stage(x) \in Path
  BY Paths DEF Stage
<1>1. CASE Load(d) \/ Preflight(d) \/ Reject(d) \/ RecycleBlocked(d)
           \/ MarkRecycle(d) \/ MarkBackup(d) \/ NoBackup(d)
  BY <1>1 DEF Load, Preflight, Reject, RecycleBlocked, MarkRecycle,
              MarkBackup, NoBackup
<1>2. CASE CheckDir(d) \/ DirMissing(d) \/ NoSpace(d) \/ NoRestore(d)
           \/ SettleFailure(d) \/ FailDownload(d) \/ Commit(d)
           \/ MarkCompleted(d) \/ GiveUp(d)
  BY <1>2 DEF CheckDir, DirMissing, NoSpace, NoRestore, SettleFailure,
              FailDownload, Commit, MarkCompleted, GiveUp
<1>3. CASE Recycle(d)
  BY <1>0, <1>3, RunPaths, Ends, Paths, MoveApart DEF Recycle, Original
<1>4. CASE Backup(d)
  <2>1. job[d].backup # None
    BY <1>4 DEF Backup, Tidied
  <2>2. Stage(x) # Target(d) /\ Stage(x) # Bak(ExtOf[d], job[d].backup)
    BY Paths DEF Target
  <2> QED
    BY <1>0, <1>4, <2>1, <2>2, RunPaths, Ends, MoveApart DEF Backup
<1>5. CASE Place(d)
  BY <1>0, <1>5, RunPaths, Ends, Paths, MoveApart DEF Place, Target
<1>6. CASE Restore(d)
  BY <1>0, <1>6, RunPaths, Ends, Paths, MoveApart
  DEF Restore, CanRestore, Target
<1>7. CASE DropBackup(d)
  BY <1>0, <1>7, RunPaths, Paths, RemoveEffect DEF DropBackup
<1>8. CASE DropOld(d)
  BY <1>0, <1>8, RunPaths, Paths, RemoveEffect DEF DropOld, Original
<1>9. CASE Cleanup(d)
  BY <1>0, <1>9, RunPaths, RemoveEffect DEF Cleanup
<1> QED
  BY <1>1, <1>2, <1>3, <1>4, <1>5, <1>6, <1>7, <1>8, <1>9 DEF Step

(* While d runs, every backup is its own.                                  *)
Mine(d) ==
  \A e \in Exts, n \in BackupNames :
    fs[Bak(e, n)] # NoFile => OwnBackup(d, e, n)

(* What has to be shown of a step of d.                                    *)
StaysTidy(d) ==
  /\ ~Cooling'
  /\ Tidied(d)'
  /\ Mine(d)'
  /\ pc'[d] \notin Running => Sole(movie.ext)'

(* The steps that leave the files alone.                                   *)
LEMMA TidyQuiet ==
  ASSUME CalmSetting, TypeOK, Undisturbed, Undisturbed', ~Cooling,
         NEW d \in Downloads, Carried(d), Tidied(d), Mine(d),
         \/ Load(d) \/ Preflight(d) \/ Reject(d) \/ RecycleBlocked(d)
         \/ MarkRecycle(d) \/ MarkBackup(d) \/ NoBackup(d)
         \/ CheckDir(d) \/ DirMissing(d) \/ NoSpace(d)
         \/ NoRestore(d) \/ SettleFailure(d) \/ FailDownload(d)
         \/ Commit(d) \/ MarkCompleted(d) \/ GiveUp(d)
  PROVE  StaysTidy(d)
<1>1. /\ UNCHANGED <<fs, cooldown>> /\ pc[d] \in Running
      /\ pc'[d] \notin Running => Sole(movie.ext)'
      /\ Mine(d)'
  <2> USE DEF TypeOK, Goto, storageVars, Undisturbed, Running, Mine, OwnBackup
  <2>1. CASE Load(d) \/ Preflight(d) \/ Reject(d) \/ RecycleBlocked(d)
             \/ MarkRecycle(d) \/ MarkBackup(d) \/ NoBackup(d)
    BY <2>1 DEF Load, Preflight, Reject, RecycleBlocked, MarkRecycle,
                MarkBackup, NoBackup, Fault
  <2>2. CASE CheckDir(d) \/ DirMissing(d) \/ NoSpace(d)
             \/ MarkCompleted(d)
    BY <2>2 DEF CheckDir, DirMissing, NoSpace, MarkCompleted, Fault
  <2>3. CASE Commit(d)
    <3>1. fs[Target(d)] # NoFile
      BY <2>3, StorageAssumption DEF Commit, Carried, After
    <3> QED
      BY <2>3, <3>1 DEF Commit
  <2>4. CASE NoRestore(d) \/ SettleFailure(d) \/ FailDownload(d)
    BY <2>4 DEF NoRestore, SettleFailure, FailDownload, Tidied
  <2>5. CASE GiveUp(d)
    BY <2>5 DEF GiveUp, Tidied, Sole
  <2> QED
    BY <2>1, <2>2, <2>3, <2>4, <2>5
<1>2. Tidied(d)'
  <2> USE DEF TypeOK, Locals, Goto, Picked, Emptied, Sole, Target
  <2>1. CASE Preflight(d) \/ MarkRecycle(d)
    BY <1>1, <2>1 DEF Preflight, MarkRecycle, Tidied
  <2>9. CASE Load(d) /\ pc'[d] = "preflight"
    BY <1>1, <2>9 DEF Load, Tidied
  <2>10. CASE Load(d) /\ pc'[d] = "give_up"
    BY <1>1, <2>10 DEF Load, Tidied
  <2>11. Load(d) => pc'[d] \in {"preflight", "give_up"}
    BY DEF Load
  <2>2. CASE MarkBackup(d)
    <3>1. PICK n \in BackupNames : job' = [job EXCEPT ![d].backup = n]
      BY <2>2 DEF MarkBackup
    <3> QED
      BY <1>1, <2>2, <3>1, ReplacementAssumption DEF MarkBackup, Tidied
  <2>3. CASE NoBackup(d)
    BY <1>1, <2>3 DEF NoBackup, Tidied
  <2>4. CASE CheckDir(d)
    BY <1>1, <2>4 DEF CheckDir, Tidied
  <2>5. CASE Commit(d)
    <3>1. fs[Target(d)] # NoFile
      BY <2>5, StorageAssumption DEF Commit, Carried, After
    <3> QED
      BY <1>1, <2>5, <3>1 DEF Commit, Tidied
  <2>6. CASE MarkCompleted(d)
    BY <1>1, <2>6 DEF MarkCompleted, Tidied, Carried
  <2>7. CASE Reject(d) \/ RecycleBlocked(d) \/ DirMissing(d) \/ NoSpace(d)
    BY <2>7 DEF Reject, RecycleBlocked, DirMissing, NoSpace, Fault, Undisturbed
  <2>8. CASE NoRestore(d) \/ SettleFailure(d) \/ FailDownload(d)
    BY <2>8 DEF NoRestore, SettleFailure, FailDownload, Tidied
  <2>12. CASE GiveUp(d)
    BY <1>1, <2>12 DEF GiveUp, Tidied
  <2> QED
    BY <2>1, <2>2, <2>3, <2>4, <2>5, <2>6, <2>7, <2>8, <2>9, <2>10, <2>11, <2>12
<1> QED
  BY <1>1, <1>2 DEF StaysTidy, Cooling

(* The moves: the original out of the library, the new film into it.       *)
LEMMA TidyMove ==
  ASSUME CalmSetting, TypeOK, Undisturbed, Undisturbed', ~Cooling,
         NEW d \in Downloads, Carried(d), Tidied(d), Mine(d),
         Recycle(d) \/ Backup(d) \/ Place(d) \/ Restore(d)
  PROVE  StaysTidy(d)
<1>0. /\ job[d].src \in Exts /\ ExtOf[d] \in Exts /\ d # NoFile
      /\ TypeOKStorage
      /\ pc'[d] \in Running
  BY ReplacementAssumption, StorageAssumption
  DEF TypeOK, Locals, Recycle, Backup, Place, Restore, Goto, Running
<1>1. CASE Recycle(d)
  <2>1. /\ pc[d] = "recycle_move" /\ Sole(job[d].src)
        /\ job[d].backup = None /\ ~job[d].recycled
        /\ \A e \in Exts, n \in BackupNames : fs[Bak(e, n)] = NoFile
    BY <1>1 DEF Recycle, Tidied, Picked, Mine, OwnBackup
  <2>2. CASE MoveOk(Original(d), Bin(job[d].src))
    <3>1. /\ fs'[Original(d)] = NoFile
          /\ \A p \in Path : p # Original(d) /\ p # Bin(job[d].src) =>
               fs'[p] = fs[p]
          /\ UNCHANGED cooldown
      BY <1>0, <2>2, RunPaths, Ends, MoveOkEffect
    <3>2. /\ \A f \in Exts : fs'[Lib(f)] = NoFile
          /\ \A e \in Exts, n \in BackupNames : fs'[Bak(e, n)] = NoFile
      BY <1>0, <2>1, <3>1, Paths DEF Original, Sole
    <3>3. pc'[d] = "check_dir"
      BY <1>1, <2>2, <2>1 DEF Recycle, MoveOk, MoveFails, Impossible, Goto,
         TypeOK, Undisturbed, Fault
    <3> QED
      BY <1>0, <3>1, <3>2, <3>3 DEF StaysTidy, Tidied, Mine, Cooling,
         Picked, Emptied
  <2>3. CASE MoveFails(Original(d), Bin(job[d].src)) /\ pc'[d] = "backup"
    <3>1. fs[Original(d)] = NoFile /\ UNCHANGED fs /\ ~LibraryOnNas
      BY <1>0, <2>1, <2>3, CalmMove DEF CalmSetting, Sole, Original
    <3>2. UNCHANGED job
      BY <1>1, <2>3 DEF Recycle, Goto, TypeOK
    <3> QED
      BY <1>0, <2>1, <2>3, <3>1, <3>2
      DEF StaysTidy, Tidied, Mine, Cooling, Picked, Emptied, Sole
  <2> QED
    BY <1>1, <2>2, <2>3 DEF Recycle, Goto, TypeOK
<1>2. CASE Backup(d)
  <2> DEFINE bak == Bak(ExtOf[d], job[d].backup)
  <2>1. /\ pc[d] = "backup_move" /\ Sole(job[d].src)
        /\ ~job[d].recycled
        /\ fs[Target(d)] # NoFile /\ job[d].backup # None
        /\ \A e \in Exts, n \in BackupNames : fs[Bak(e, n)] = NoFile
    BY <1>2 DEF Backup, Tidied, Picked, Mine, OwnBackup
  <2>2. /\ MoveOk(Target(d), bak)
        /\ pc'[d] = "check_dir" /\ UNCHANGED job
    BY <1>2, <2>1, CalmMove DEF Backup, Goto, TypeOK
  <2>3. /\ fs'[Target(d)] = NoFile
        /\ \A p \in Path : p # Target(d) /\ p # bak => fs'[p] = fs[p]
        /\ UNCHANGED cooldown
    BY <1>0, <2>1, <2>2, RunPaths, Ends, MoveOkEffect
  <2>4. \A f \in Exts : fs'[Lib(f)] = NoFile
    BY <1>0, <2>1, <2>3, Paths DEF Target, Sole
  <2>5. \A e \in Exts, n \in BackupNames :
          fs'[Bak(e, n)] # NoFile => e = ExtOf[d] /\ n = job[d].backup
    <3>1. \A e, n : Bak(e, n) = bak => e = ExtOf[d] /\ n = job[d].backup
      BY DEF Bak
    <3> QED
      BY <2>1, <2>3, <3>1, Paths DEF Target
  <2> QED
    BY <1>0, <2>2, <2>3, <2>4, <2>5
    DEF StaysTidy, Tidied, Mine, OwnBackup, Cooling, Picked, Emptied
<1>3. CASE Place(d)
  <2>1. /\ pc[d] = "place" /\ fs[Stage(d)] = d
        /\ \A f \in Exts : fs[Lib(f)] # NoFile =>
             f = job[d].src /\ f # ExtOf[d] /\ ~job[d].recycled
    BY <1>3 DEF Place, Tidied, Carried, Before
  <2>2. MoveOk(Stage(d), Target(d)) /\ pc'[d] = "placed" /\ UNCHANGED job
    BY <1>0, <1>3, <2>1, CalmMove DEF Place, Goto, TypeOK
  <2>3. /\ fs'[Stage(d)] = NoFile
        /\ \A p \in Path : p # Stage(d) /\ p # Target(d) => fs'[p] = fs[p]
        /\ UNCHANGED cooldown
    BY <1>0, <2>2, RunPaths, Ends, MoveOkEffect
  <2>4. \A f \in Exts : fs'[Lib(f)] # NoFile =>
          f = ExtOf[d] \/ (f = job[d].src /\ ~job[d].recycled)
    BY <2>1, <2>3, Paths DEF Target
  <2>5. Mine(d)'
    <3>1. \A e \in Exts, n \in BackupNames : fs'[Bak(e, n)] = fs[Bak(e, n)]
      BY <2>3, Paths DEF Target
    <3> QED
      BY <2>1, <2>2, <3>1 DEF Mine, OwnBackup
  <2> QED
    BY <1>0, <2>2, <2>3, <2>4, <2>5
    DEF StaysTidy, Tidied, Cooling, Picked, Emptied
<1>4. CASE Restore(d)
  BY <1>4 DEF Restore, Tidied
<1> QED
  BY <1>1, <1>2, <1>3, <1>4

(* The removals: the backup, the replaced file, the staging folder.        *)
LEMMA TidyRemove ==
  ASSUME CalmSetting, TypeOK, Undisturbed, Undisturbed', ~Cooling,
         NEW d \in Downloads, Carried(d), Tidied(d), Mine(d),
         DropBackup(d) \/ DropOld(d) \/ Cleanup(d)
  PROVE  StaysTidy(d)
<1>0. /\ job[d].src \in Exts /\ ExtOf[d] \in Exts /\ d # NoFile
      /\ TypeOKStorage
      /\ UNCHANGED <<movie, dl, job>>
  BY ReplacementAssumption, StorageAssumption
  DEF TypeOK, Locals, DropBackup, DropOld, Cleanup
<1>1. ASSUME NEW p \in Path, RemoveOk(p) \/ RemoveFails(p)
      PROVE  /\ fs'[p] = NoFile
             /\ \A q \in Path : q # p => fs'[q] = fs[q]
             /\ UNCHANGED cooldown
  BY <1>0, <1>1, CalmRemove DEF RemoveOk, TypeOKStorage
<1>2. CASE DropBackup(d)
  <2> DEFINE bak == Bak(ExtOf[d], job[d].backup)
  <2>1. /\ pc[d] = "placed" /\ pc'[d] = "drop_old"
        /\ fs[Stage(d)] = NoFile
        /\ \A f \in Exts : fs[Lib(f)] # NoFile =>
             f = ExtOf[d] \/ (f = job[d].src /\ ~job[d].recycled)
    BY <1>2 DEF DropBackup, Tidied, Emptied, Goto, TypeOK
  <2>2. CASE job[d].backup # None /\ fs[bak] # NoFile
    <3>1. bak \in Path /\ fs'[bak] = NoFile
      BY <1>1, <1>2, <2>2, RunPaths DEF DropBackup
    <3>2. (\A q \in Path : q # bak => fs'[q] = fs[q]) /\ UNCHANGED cooldown
      BY <1>1, <1>2, <2>2, RunPaths DEF DropBackup
    <3>3. \A e \in Exts, n \in BackupNames : fs'[Bak(e, n)] = NoFile
      BY <3>1, <3>2, Paths DEF Mine, OwnBackup
    <3>4. \A f \in Exts : fs'[Lib(f)] = fs[Lib(f)]
      BY <3>2, Paths
    <3>5. fs'[Stage(d)] = NoFile
      BY <2>1, <3>2, Paths
    <3> QED
      BY <1>0, <2>1, <3>2, <3>3, <3>4, <3>5
      DEF StaysTidy, Tidied, Mine, Cooling, Picked, Emptied, Running
  <2>3. CASE ~(job[d].backup # None /\ fs[bak] # NoFile)
    <3>1. UNCHANGED <<fs, cooldown>>
      BY <1>2, <2>3 DEF DropBackup, storageVars
    <3>2. \A e \in Exts, n \in BackupNames : fs[Bak(e, n)] = NoFile
      BY <2>3, ReplacementAssumption DEF Mine, OwnBackup
    <3> QED
      BY <1>0, <2>1, <3>1, <3>2
      DEF StaysTidy, Tidied, Mine, Cooling, Picked, Emptied, Running
  <2> QED
    BY <2>2, <2>3
<1>3. CASE DropOld(d)
  <2>1. /\ pc[d] = "drop_old" /\ pc'[d] = "commit"
        /\ fs[Stage(d)] = NoFile /\ fs[Target(d)] = d
        /\ \A f \in Exts : fs[Lib(f)] # NoFile =>
             f = ExtOf[d] \/ (f = job[d].src /\ ~job[d].recycled)
        /\ \A e \in Exts, n \in BackupNames : fs[Bak(e, n)] = NoFile
    BY <1>3 DEF DropOld, Tidied, Carried, After, Emptied, Goto, TypeOK, Mine,
       OwnBackup
  <2>2. CASE ~job[d].recycled /\ job[d].src # ExtOf[d] /\ fs[Original(d)] # NoFile
    <3>1. fs'[Original(d)] = NoFile
      BY <1>1, <1>3, <2>2, RunPaths DEF DropOld
    <3>2. /\ \A q \in Path : q # Original(d) => fs'[q] = fs[q]
          /\ UNCHANGED cooldown
      BY <1>1, <1>3, <2>2, RunPaths DEF DropOld
    <3>3. \A e \in Exts, n \in BackupNames : fs'[Bak(e, n)] = NoFile
      BY <2>1, <3>2, Paths DEF Original
    <3>4. fs'[Stage(d)] = NoFile
      BY <2>1, <3>2, Paths DEF Original
    <3>5. Sole(ExtOf[d])'
      BY <1>0, <2>1, <2>2, <3>1, <3>2, Paths DEF Original, Target, Sole
    <3> QED
      BY <1>0, <2>1, <3>2, <3>3, <3>4, <3>5
      DEF StaysTidy, Tidied, Mine, Cooling, Picked, Emptied, Running
  <2>3. CASE ~(~job[d].recycled /\ job[d].src # ExtOf[d] /\ fs[Original(d)] # NoFile)
    <3>1. UNCHANGED <<fs, cooldown>>
      BY <1>3, <2>3 DEF DropOld, storageVars
    <3>2. Sole(ExtOf[d])'
      BY <1>0, <2>1, <2>3, <3>1 DEF Original, Target, Sole
    <3> QED
      BY <1>0, <2>1, <3>1, <3>2
      DEF StaysTidy, Tidied, Mine, Cooling, Picked, Emptied, Running
  <2> QED
    BY <2>2, <2>3
<1>4. CASE Cleanup(d)
  <2>1. /\ pc[d] = "cleanup" /\ pc'[d] = "done" /\ dl[d] = "replaced"
        /\ Sole(movie.ext)
        /\ \A e \in Exts, n \in BackupNames : fs[Bak(e, n)] = NoFile
    BY <1>4 DEF Cleanup, Tidied, Goto, TypeOK, Mine, OwnBackup
  <2>2. /\ fs'[Stage(d)] = NoFile
        /\ \A q \in Path : q # Stage(d) => fs'[q] = fs[q]
        /\ UNCHANGED cooldown
    BY <1>1, <1>4, RunPaths DEF Cleanup
  <2>3. \A e \in Exts, n \in BackupNames : fs'[Bak(e, n)] = NoFile
    BY <2>1, <2>2, Paths
  <2>4. Sole(movie.ext)'
    BY <1>0, <2>1, <2>2, Paths DEF Sole, TypeOK, MovieRow
  <2> QED
    BY <1>0, <2>1, <2>2, <2>3, <2>4
    DEF StaysTidy, Tidied, Mine, Cooling, Picked, Emptied
<1> QED
  BY <1>2, <1>3, <1>4

(* A step that touches nothing of x but perhaps its deletable neighbours   *)
(* leaves a run that is not under way as tidy as it was.                   *)
LEMMA TidiedIdle ==
  ASSUME NEW x \in Downloads, pc[x] \notin Running, Tidied(x),
         pc'[x] = pc[x], job'[x] = job[x], dl'[x] = dl[x],
         fs'[Stage(x)] = fs[Stage(x)]
  PROVE  Tidied(x)'
BY DEF Tidied, Running, Picked, Emptied

(* Every step keeps the files tidy while nothing goes wrong.               *)
LEMMA TidyStep ==
  ASSUME CalmSetting, OutcomeInv, OutcomeInv', Undisturbed, Undisturbed',
         Tidy, [Next]_vars
  PROVE  Tidy'
<1> USE DEF OutcomeInv
<1>0. /\ Running \cap Halted = {}
      /\ \A d \in Downloads : pc[d] \in Running \cup Halted
  BY DEF Running, Halted, TypeOK
<1>1. ASSUME NEW d \in Downloads, Step(d)
      PROVE  Tidy'
  <2>1. /\ pc[d] \in Running
        /\ \A x \in Downloads : x # d => pc[x] \notin Running
    BY <1>1, StepIsOwn DEF OneAtATime
  <2>2. Mine(d)
    BY <2>1 DEF Tidy, BackupsOwned, Mine, OwnBackup, Running
  <2>3. StaysTidy(d)
    BY <1>1, <2>2, TidyQuiet, TidyMove, TidyRemove DEF Step, Tidy
  <2>4. \A x \in Downloads : Tidied(x)'
    <3> SUFFICES ASSUME NEW x \in Downloads, x # d
                 PROVE  Tidied(x)'
      BY <2>3 DEF StaysTidy
    <3>1. pc'[x] = pc[x] /\ job'[x] = job[x]
      BY <1>1, StepIsOwn
    <3>2. fs'[Stage(x)] = fs[Stage(x)] /\ dl'[x] = dl[x]
      BY <1>1, OthersStage DEF Tidy
    <3> QED
      BY <2>1, <3>1, <3>2, TidiedIdle DEF Tidy
  <2>5. BackupsOwned'
    BY <2>3 DEF StaysTidy, Mine, BackupsOwned
  <2>6. AtRest' => Sole(movie.ext)'
    BY <2>3 DEF StaysTidy, AtRest
  <2> QED
    BY <2>3, <2>4, <2>5, <2>6 DEF StaysTidy, Tidy
<1>2. ASSUME NEW d \in Downloads, Arrive(d)
      PROVE  Tidy'
  <2>1. /\ pc[d] = "idle" /\ pc' = [pc EXCEPT ![d] = "load"]
        /\ fs' = [fs EXCEPT ![Stage(d)] = d]
        /\ dl' = [dl EXCEPT ![d] = "completed"]
        /\ movie'.ext = movie.ext /\ movie.ext \in Exts
        /\ UNCHANGED <<cooldown, job>>
        /\ AtRest
    BY <1>2 DEF Arrive, Goto, AtRest, TypeOK, MovieRow, CalmSetting
  <2>2. /\ \A e \in Exts : fs'[Lib(e)] = fs[Lib(e)]
        /\ \A e \in Exts, n \in BackupNames : fs'[Bak(e, n)] = fs[Bak(e, n)]
        /\ \A x \in Downloads : x # d => fs'[Stage(x)] = fs[Stage(x)]
    BY <2>1, Paths DEF TypeOK, TypeOKStorage, Stage
  <2>3. Sole(movie.ext)'
    BY <2>1, <2>2 DEF Tidy, Sole
  <2>4. Tidied(d)'
    BY <2>1, <2>3 DEF Tidy, Tidied, Picked, Emptied, TypeOK
  <2>5. ASSUME NEW x \in Downloads, x # d
        PROVE  Tidied(x)'
    BY <2>1, <2>2, <2>5, TidiedIdle DEF Tidy, AtRest, TypeOK
  <2>6. BackupsOwned'
    <3> SUFFICES ASSUME NEW e \in Exts, NEW n \in BackupNames
                 PROVE  fs'[Bak(e, n)] = NoFile
      BY DEF BackupsOwned
    <3> QED
      BY <2>1, <2>2 DEF Tidy, BackupsOwned, OwnBackup, AtRest, Running
  <2> QED
    BY <2>1, <2>3, <2>4, <2>5, <2>6 DEF Tidy, Cooling
<1>3. ASSUME NEW d \in Downloads, Interrupt(d)
      PROVE  FALSE
  BY <1>3 DEF Interrupt, Undisturbed
<1>4. CASE Purge
  <2>1. /\ \A e \in Exts : fs'[Lib(e)] = fs[Lib(e)]
        /\ \A e \in Exts, n \in BackupNames : fs'[Bak(e, n)] = fs[Bak(e, n)]
        /\ \A x \in Downloads : fs'[Stage(x)] = fs[Stage(x)]
    BY <1>4, Paths DEF Purge, TypeOK, TypeOKStorage
  <2>2. UNCHANGED <<cooldown, movie, pc, job, dl>>
    BY <1>4 DEF Purge
  <2>3. ASSUME NEW e \in Exts
        PROVE  Sole(e)' <=> Sole(e)
    BY <2>1, <2>3 DEF Sole
  <2>4. \A x \in Downloads : Tidied(x)'
    <3> SUFFICES ASSUME NEW x \in Downloads
                 PROVE  Tidied(x)'
      OBVIOUS
    <3>1. /\ movie.ext \in Exts /\ job[x].src \in Exts /\ ExtOf[x] \in Exts
          /\ movie'.ext = movie.ext /\ job'[x].src = job[x].src
      BY <2>2, ReplacementAssumption DEF TypeOK, MovieRow, Locals
    <3>2. /\ Sole(movie.ext)' <=> Sole(movie.ext)
          /\ Sole(job[x].src)' <=> Sole(job[x].src)
          /\ Sole(ExtOf[x])' <=> Sole(ExtOf[x])
      BY <2>1, <2>2, <3>1 DEF Sole
    <3> QED
      BY <2>1, <2>2, <3>1, <3>2 DEF Tidy, Tidied, Target
  <2>5. BackupsOwned'
    BY <2>1, <2>2 DEF Tidy, BackupsOwned, OwnBackup
  <2>6. AtRest' => Sole(movie.ext)'
    BY <2>1, <2>2 DEF Tidy, AtRest, Sole, TypeOK, MovieRow
  <2> QED
    BY <2>2, <2>4, <2>5, <2>6 DEF Tidy, Cooling
<1>5. CASE Cool \/ UNCHANGED vars
  <2>1. UNCHANGED <<fs, movie, pc, job, dl>> /\ ~Cooling'
    BY <1>5 DEF Cool, CooldownExpires, vars, Tidy, Cooling
  <2>2. \A x \in Downloads : Tidied(x)'
    BY <2>1 DEF Tidy, Tidied, Target, Sole
  <2> QED
    BY <2>1, <2>2 DEF Tidy, BackupsOwned, OwnBackup, AtRest, Sole
<1> QED
  BY <1>1, <1>2, <1>3, <1>4, <1>5 DEF Next, Finished

(* CalmInv is inductive, with OutcomeInv beside it.                        *)
LEMMA CalmInductive == CalmSetting /\ Spec => []CalmInv
<1>1. Init /\ CalmSetting /\ OutcomeInv => CalmInv
  <2> SUFFICES ASSUME Init, CalmSetting, OutcomeInv
               PROVE  CalmInv
    OBVIOUS
  <2>1. \A p \in Path : p # Lib(LibraryExt) => fs[p] = NoFile
    BY DEF Init
  <2>2. /\ \A e \in Exts, n \in BackupNames : fs[Bak(e, n)] = NoFile
        /\ \A d \in Downloads : fs[Stage(d)] = NoFile
        /\ \A f \in Exts : f # LibraryExt => fs[Lib(f)] = NoFile
    BY <2>1, Paths
  <2>3. Sole(movie.ext)
    <3>1. ~OriginalMissing => fs[Lib(LibraryExt)] # NoFile
      BY ReplacementAssumption, StorageAssumption, Paths DEF Init
    <3> QED
      BY <2>2, <3>1 DEF Init, Sole
  <2>4. \A d \in Downloads : Tidied(d)
    BY <2>2 DEF Init, Tidied, Picked, Emptied
  <2> QED
    BY <2>2, <2>3, <2>4 DEF CalmInv, Tidy, BackupsOwned, Cooling, Init
<1>2. CalmInv /\ OutcomeInv' /\ [Next]_vars => CalmInv'
  BY UndisturbedBefore, TidyStep DEF CalmInv, CalmSetting, OutcomeInv
<1>3. CalmSetting => Serialised
  BY DEF CalmSetting
<1> QED
  BY <1>1, <1>2, <1>3, OutcomeInductive, PTL DEF Spec

(* What the rows say of a replacement is so on the disk: an improved movie *)
(* names an installed film; and where nothing went wrong, every run that   *)
(* ended succeeded or was dry, and left one version of the film, no backup *)
(* and no staging folder but a dry one's, for any number of downloads in a *)
(* row and whatever their extensions.                                      *)
THEOREM OutcomesAreSound == CalmSetting /\ Spec => []OutcomesSound
<1>1. CalmInv => OutcomesSound
  <2> SUFFICES ASSUME CalmInv
               PROVE  OutcomesSound
    OBVIOUS
  <2>1. ASSUME Undisturbed, AtRest
        PROVE  /\ \A d \in Downloads : pc[d] = "done" => dl[d] # "failed"
               /\ \A e \in Exts : fs[Lib(e)] # NoFile => e = movie.ext
               /\ \A e \in Exts, n \in BackupNames : fs[Bak(e, n)] = NoFile
               /\ \A d \in Downloads : dl[d] # "completed" => fs[Stage(d)] = NoFile
    <3>1. /\ Sole(movie.ext) /\ BackupsOwned
          /\ \A d \in Downloads : Tidied(d)
      BY <2>1 DEF CalmInv, Tidy
    <3>2. ASSUME NEW d \in Downloads
          PROVE  /\ pc[d] = "done" => dl[d] # "failed"
                 /\ dl[d] # "completed" => fs[Stage(d)] = NoFile
      <4>1. pc[d] \in {"idle", "done"}
        BY <2>1, <3>1 DEF AtRest, Tidied, CalmInv, OutcomeInv, TypeOK, Halted
      <4> QED
        BY <3>1, <4>1 DEF Tidied, Emptied
    <3>3. \A e \in Exts, n \in BackupNames : fs[Bak(e, n)] = NoFile
      BY <2>1, <3>1 DEF BackupsOwned, OwnBackup, AtRest, Running
    <3> QED
      BY <3>1, <3>2, <3>3 DEF Sole
  <2> QED
    BY <2>1 DEF OutcomesSound, CleanRunLeavesOneFile, CalmInv, OutcomeInv,
       Undisturbed
<1> QED
  BY <1>1, CalmInductive, PTL
-----------------------------------------------------------------------------
(***************************************************************************)
(* One fault is survived.                                                  *)
(***************************************************************************)

(* The setting: that of the beginning, on local disks.  On a NAS a fault   *)
(* starts the cooldown, which makes the restore fail too.                  *)
LocalSetting == Setting /\ ~LibraryOnNas

(* What the recovery page lists, and where it finds a film.                *)
BinHeld(x) ==
  rec[x].recycle # None /\ Complete(fs[Bin(rec[x].recycle)])
BakHeld(x) ==
  rec[x].backup # None /\ Complete(fs[Bak(ExtOf[x], rec[x].backup)])
Visible(x) ==
  /\ rec[x].status \in {"running", "recovery_required"}
  /\ RecordLocates(x)
Shown == InLibrary \/ \E x \in Downloads : Visible(x)
ShownWithout(d) ==
  InLibrary \/ \E x \in Downloads : x # d /\ Visible(x)
Repairable ==
  \A x \in Downloads :
    rec[x].status = "recovery_required" => RecordLocates(x)

Early == {"load", "preflight", "recycle", "recycle_move", "backup",
          "backup_move"}
Moved == {"check_dir", "place", "unplaced"}

(* Where the film is while d runs: still where it was, or where the run    *)
(* itself put it and recorded it, or in the library again.                 *)
SafeAt(d) ==
  /\ pc[d] \in Early => ShownWithout(d)
  /\ pc[d] \in Moved =>
       \/ job[d].recycled /\ BinHeld(d)
       \/ ~job[d].recycled /\ job[d].backup # None /\ BakHeld(d)
       \/ ~job[d].recycled /\ job[d].backup = None /\ ShownWithout(d)
  /\ pc[d] = "settle" =>
       /\ rec[d].status = "running"
       /\ IF job[d].recycled THEN BinHeld(d) ELSE ShownWithout(d)
  /\ pc[d] = "unplaced" => faults # 0
  /\ pc[d] \in {"placed", "drop_old", "commit", "complete"} =>
       Complete(fs[Target(d)])

(* The status of its record and its locals agree with the point reached.   *)
InStep(d) ==
  /\ pc[d] \in {"idle", "load", "preflight"} => rec[d].status = "none"
  /\ pc[d] \in (Early \ {"load", "preflight"}) \cup Moved
                 \cup {"placed", "drop_old", "commit", "complete"} =>
       rec[d].status = "running"
  /\ pc[d] \in {"idle"} \cup Early => ~job[d].recycled
  /\ pc[d] \in ({"idle"} \cup Early) \ {"backup_move"} => job[d].backup = None

(* No record that asks for recovery relies on the backup of this run.      *)
Owned(d) ==
  pc[d] \in {"backup_move", "placed"} \cup Moved /\ job[d].backup # None =>
    \A x \in Downloads :
      /\ x # d
      /\ rec[x].status = "recovery_required"
      /\ rec[x].backup = job[d].backup
      /\ ExtOf[x] = ExtOf[d]
      => BinHeld(x)

Survived ==
  /\ Shown
  /\ Repairable
  /\ \A d \in Downloads : SafeAt(d) /\ Owned(d)

SurvivalInv ==
  /\ LocalSetting
  /\ IInv
  /\ OutcomeInv
  /\ \A d \in Downloads : InStep(d)
  /\ faults <= 1 => Survived

(* A move of a film that is there fails only by a fault.                   *)
LEMMA LocalFault ==
  ASSUME LocalSetting, NEW src, NEW dst, fs[src] # NoFile,
         MoveFails(src, dst)
  PROVE  faults' = faults + 1
BY DEF LocalSetting, MoveFails, Cooling, Impossible, Fault

(* What the others' records lead to survives a step that empties neither   *)
(* a name in the bin nor a backup; and so does the film's visibility, if   *)
(* it empties nothing in the library.                                      *)
LEMMA OthersKept ==
  ASSUME TypeOK, Repairable, NEW d \in Downloads, NEW q, KeptBut(q),
         \A x \in Downloads : x # d => rec'[x] = rec[x],
         \A e \in Exts : q # Bin(e),
         \A e \in Exts, n \in BackupNames : q # Bak(e, n)
  PROVE  /\ \A x \in Downloads : x # d =>
              /\ Visible(x) => Visible(x)'
              /\ BinHeld(x) => BinHeld(x)'
              /\ rec'[x].status = "recovery_required" => RecordLocates(x)'
         /\ (\A e \in Exts : q # Lib(e)) /\ InLibrary => InLibrary'
         /\ (\A e \in Exts : q # Lib(e)) /\ ShownWithout(d) =>
              ShownWithout(d)'
<1>1. ASSUME NEW x \in Downloads, x # d
      PROVE  /\ BinHeld(x) => BinHeld(x)'
             /\ BakHeld(x) => BakHeld(x)'
  <2>1. /\ rec[x].recycle # None => rec[x].recycle \in Exts
        /\ rec[x].backup # None => rec[x].backup \in BackupNames
        /\ ExtOf[x] \in Exts
    BY ReplacementAssumption DEF TypeOK, RecordRow
  <2> QED
    BY <1>1, <2>1, Paths DEF BinHeld, BakHeld, KeptBut
<1>2. ASSUME NEW x \in Downloads
      PROVE  /\ RecordLocates(x) <=> BinHeld(x) \/ BakHeld(x)
             /\ RecordLocates(x)' <=> BinHeld(x)' \/ BakHeld(x)'
  BY DEF RecordLocates, BinHeld, BakHeld
<1>3. (\A e \in Exts : q # Lib(e)) /\ InLibrary => InLibrary'
  BY Paths DEF InLibrary, KeptBut
<1> QED
  BY <1>1, <1>2, <1>3 DEF Visible, Repairable, ShownWithout

(* The record of d itself.                                                 *)
LEMMA OwnKept ==
  ASSUME TypeOK, NEW d \in Downloads, NEW q, KeptBut(q),
         rec'[d].recycle = rec[d].recycle, rec'[d].backup = rec[d].backup,
         \A e \in Exts : q # Bin(e)
  PROVE  /\ BinHeld(d) => BinHeld(d)'
         /\ (\A e \in Exts, n \in BackupNames : q # Bak(e, n)) =>
              (BakHeld(d) => BakHeld(d)')
<1>1. /\ rec[d].recycle # None => rec[d].recycle \in Exts
      /\ rec[d].backup # None => rec[d].backup \in BackupNames
      /\ ExtOf[d] \in Exts
  BY ReplacementAssumption DEF TypeOK, RecordRow
<1> QED
  BY <1>1, Paths DEF BinHeld, BakHeld, KeptBut

(* The status and the locals of a run follow its steps.                    *)
LEMMA InStepStep ==
  ASSUME Setting, TypeOK, OneAtATime, \A d \in Downloads : InStep(d),
         [Next]_vars
  PROVE  \A d \in Downloads : InStep(d)'
<1> SUFFICES ASSUME NEW x \in Downloads
             PROVE  InStep(x)'
  OBVIOUS
<1>1. ASSUME NEW d \in Downloads, Step(d)
      PROVE  InStep(x)'
  <2>1. CASE x = d
    <3> USE <2>1 DEF TypeOK, RecordRow, Locals, InStep, Goto, Mark, Early, Moved
    <3>1. CASE Load(d) \/ Preflight(d) \/ Reject(d) \/ RecycleBlocked(d)
               \/ MarkRecycle(d) \/ MarkBackup(d) \/ NoBackup(d)
      BY <3>1 DEF Load, Preflight, Reject, RecycleBlocked, MarkRecycle,
                  MarkBackup, NoBackup
    <3>2. CASE CheckDir(d) \/ DirMissing(d) \/ NoSpace(d) \/ NoRestore(d)
               \/ SettleFailure(d) \/ FailDownload(d) \/ Commit(d)
               \/ MarkCompleted(d) \/ GiveUp(d)
      BY <3>2 DEF CheckDir, DirMissing, NoSpace, NoRestore, SettleFailure,
                  FailDownload, Commit, MarkCompleted, GiveUp
    <3>3. CASE Recycle(d) \/ Backup(d) \/ Place(d) \/ Restore(d)
      BY <3>3 DEF Recycle, Backup, Place, Restore
    <3>4. CASE DropBackup(d) \/ DropOld(d) \/ Cleanup(d)
      BY <3>4 DEF DropBackup, DropOld, Cleanup
    <3> QED
      BY <1>1, <3>1, <3>2, <3>3, <3>4 DEF Step
  <2>2. CASE x # d
    BY <1>1, <2>2, StepIsOwn DEF InStep
  <2> QED
    BY <2>1, <2>2
<1>2. ASSUME NEW d \in Downloads, Arrive(d)
      PROVE  InStep(x)'
  BY <1>2 DEF Arrive, Goto, InStep, TypeOK, Early, Moved
<1>3. ASSUME NEW d \in Downloads, Interrupt(d)
      PROVE  InStep(x)'
  BY <1>3 DEF Interrupt, Goto, InStep, TypeOK, Early, Moved
<1>4. CASE Purge \/ Cool \/ UNCHANGED vars
  BY <1>4 DEF Purge, Cool, vars, InStep
<1> QED
  BY <1>1, <1>2, <1>3, <1>4 DEF Next, Finished

(* What has to be shown of a step of d.                                    *)
StaysSafe(d) ==
  /\ Shown'
  /\ \A x \in Downloads : x # d /\ rec'[x].status = "recovery_required" =>
       RecordLocates(x)'
  /\ rec'[d].status = "recovery_required" => RecordLocates(d)'
  /\ SafeAt(d)'
  /\ Owned(d)'

(* The film may be shown by another record, or by that of d.               *)
LEMMA ShownBy ==
  ASSUME NEW d \in Downloads
  PROVE  /\ InLibrary' => ShownWithout(d)'
         /\ ShownWithout(d)' => Shown'
         /\ rec'[d].status \in {"running", "recovery_required"}
              /\ (BinHeld(d)' \/ BakHeld(d)') => Shown'
BY DEF ShownWithout, Shown, Visible, RecordLocates, BinHeld, BakHeld

(* A step of d that touches no file leaves all this as it was.             *)
LEMMA OthersUnmoved ==
  ASSUME TypeOK, Repairable, NEW d \in Downloads, Step(d), UNCHANGED fs
  PROVE  /\ \A x \in Downloads : x # d =>
              /\ BinHeld(x)' <=> BinHeld(x)
              /\ rec'[x].status = "recovery_required" => RecordLocates(x)'
         /\ InLibrary' <=> InLibrary
         /\ ShownWithout(d)' <=> ShownWithout(d)
         /\ Complete(fs[Target(d)])' <=> Complete(fs[Target(d)])
<1>1. \A x \in Downloads : x # d => rec'[x] = rec[x]
  BY StepIsOwn
<1>2. \A x \in Downloads : x # d =>
        /\ Visible(x)' <=> Visible(x)
        /\ RecordLocates(x)' <=> RecordLocates(x)
        /\ BinHeld(x)' <=> BinHeld(x)
  BY <1>1 DEF Visible, RecordLocates, BinHeld
<1> QED
  BY <1>1, <1>2 DEF InLibrary, ShownWithout, Target, Repairable

(* The steps that leave the files alone and the film where it was.         *)
LEMMA SafeQuiet ==
  ASSUME SurvivalInv, Survived, NEW d \in Downloads, TypeOK', faults' <= 1,
         \/ Load(d) \/ Preflight(d) \/ Reject(d) \/ RecycleBlocked(d)
         \/ MarkRecycle(d) \/ NoBackup(d) \/ CheckDir(d)
         \/ NoRestore(d) \/ FailDownload(d) \/ GiveUp(d)
  PROVE  StaysSafe(d)
<1> USE DEF SurvivalInv, Survived, IInv, LocalSetting, Setting
<1>0. /\ Step(d) /\ UNCHANGED fs
      /\ rec'[d].backup = rec[d].backup
  BY DEF Step, storageVars, Load, Preflight, Reject, RecycleBlocked,
     MarkRecycle, NoBackup, CheckDir, NoRestore, FailDownload, GiveUp, Mark,
     TypeOK, RecordRow
<1>1. \A x \in Downloads : x # d => rec'[x] = rec[x]
  BY <1>0, StepIsOwn
<1>2. /\ \A x \in Downloads : x # d => (BinHeld(x)' <=> BinHeld(x))
      /\ InLibrary' <=> InLibrary
      /\ ShownWithout(d)' <=> ShownWithout(d)
      /\ Complete(fs[Target(d)])' <=> Complete(fs[Target(d)])
  BY <1>0, OthersUnmoved
<1>3. \A x \in Downloads : x # d /\ rec'[x].status = "recovery_required" =>
        RecordLocates(x)'
  BY <1>0, OthersUnmoved
<1>4. BakHeld(d)' <=> BakHeld(d)
  BY <1>0 DEF BakHeld
<1> USE DEF TypeOK, RecordRow, Locals, Goto, Mark, Early, Moved, storageVars
<1>5. CASE Load(d) \/ Preflight(d) \/ Reject(d) \/ RecycleBlocked(d)
           \/ MarkRecycle(d)
  <2>1. /\ pc[d] \in Early \ {"backup_move"} /\ ShownWithout(d)
        /\ pc'[d] \in (Early \ {"backup_move"}) \cup {"fail_dl", "give_up"}
        /\ rec'[d].status \in {"none", "running"}
    BY <1>5 DEF Load, Preflight, Reject, RecycleBlocked, MarkRecycle, InStep,
       SafeAt
  <2> QED
    BY <1>2, <1>3, <2>1, ShownBy DEF StaysSafe, SafeAt, Owned
<1>6. CASE NoBackup(d)
  <2>1. /\ pc[d] = "backup" /\ pc'[d] = "check_dir" /\ ShownWithout(d)
        /\ rec'[d].status = "running"
        /\ ~job'[d].recycled /\ job'[d].backup = None
    BY <1>6 DEF NoBackup, InStep, SafeAt
  <2> QED
    BY <1>2, <1>3, <2>1, ShownBy DEF StaysSafe, SafeAt, Owned
<1>7. CASE CheckDir(d)
  <2>1. /\ pc[d] = "check_dir" /\ pc'[d] = "place"
        /\ UNCHANGED <<rec, job>> /\ rec[d].status = "running"
    BY <1>7 DEF CheckDir, InStep
  <2>2. BinHeld(d)' <=> BinHeld(d)
    BY <1>0, <2>1 DEF BinHeld
  <2>3. SafeAt(d)' /\ Shown'
    BY <1>2, <1>4, <2>1, <2>2, ShownBy DEF SafeAt
  <2>4. Owned(d)'
    BY <1>1, <1>2, <2>1 DEF Owned
  <2> QED
    BY <1>3, <2>1, <2>3, <2>4 DEF StaysSafe
<1>8. CASE NoRestore(d)
  <2>1. /\ pc[d] = "unplaced" /\ pc'[d] = "settle"
        /\ UNCHANGED <<rec, job>> /\ rec[d].status = "running"
        /\ ~CanRestore(d)
    BY <1>8 DEF NoRestore, InStep
  <2>2. BinHeld(d)' <=> BinHeld(d)
    BY <1>0, <2>1 DEF BinHeld
  <2>3. ASSUME ~job[d].recycled
        PROVE  ShownWithout(d)
    <3>1. CASE job[d].backup = None
      BY <2>1, <2>3, <3>1 DEF SafeAt
    <3>2. CASE job[d].backup # None
      <4>1. rec[d].backup = job[d].backup /\ BakHeld(d)
        BY <2>1, <2>3, <3>2 DEF Recorded, SafeAt
      <4>2. fs[Target(d)] # NoFile /\ Target(d) \in Path /\ ExtOf[d] \in Exts
        BY <2>1, <3>2, <4>1, RunPaths, ReplacementAssumption
        DEF CanRestore, BakHeld, Complete
      <4>3. InLibrary
        BY <4>2 DEF InLibrary, Complete, NoTruncated, Target
      <4> QED
        BY <4>3 DEF ShownWithout
    <3> QED
      BY <3>1, <3>2
  <2>4. job[d].recycled => BinHeld(d)
    BY <2>1 DEF SafeAt
  <2> QED
    BY <1>2, <1>3, <2>1, <2>2, <2>3, <2>4, ShownBy DEF StaysSafe, SafeAt, Owned
<1>9. CASE FailDownload(d) \/ GiveUp(d)
  <2>1. /\ pc'[d] \in {"cleanup", "done"} /\ UNCHANGED rec
    BY <1>9 DEF FailDownload, GiveUp
  <2>2. Shown' /\ (rec'[d].status = "recovery_required" => RecordLocates(d)')
    BY <1>0, <2>1 DEF Shown, Repairable, Visible, RecordLocates, InLibrary
  <2> QED
    BY <1>3, <2>1, <2>2 DEF StaysSafe, SafeAt, Owned
<1> QED
  BY <1>5, <1>6, <1>7, <1>8, <1>9

(* The steps that settle the record, and the ones around the backup and    *)
(* the commit that touch no file.                                          *)
LEMMA SafeMark ==
  ASSUME SurvivalInv, Survived, NEW d \in Downloads, TypeOK', faults' <= 1,
         \/ MarkBackup(d) \/ DirMissing(d) \/ NoSpace(d) \/ SettleFailure(d)
         \/ Commit(d) \/ MarkCompleted(d)
  PROVE  StaysSafe(d)
<1> USE DEF SurvivalInv, Survived, IInv, LocalSetting, Setting
<1>0. /\ Step(d) /\ UNCHANGED fs
  BY DEF Step, storageVars, MarkBackup, DirMissing, NoSpace, SettleFailure,
     Commit, MarkCompleted
<1>1. \A x \in Downloads : x # d => rec'[x] = rec[x]
  BY <1>0, StepIsOwn
<1>2. /\ \A x \in Downloads : x # d => (BinHeld(x)' <=> BinHeld(x))
      /\ InLibrary' <=> InLibrary
      /\ ShownWithout(d)' <=> ShownWithout(d)
      /\ Complete(fs[Target(d)])' <=> Complete(fs[Target(d)])
  BY <1>0, OthersUnmoved
<1>3. \A x \in Downloads : x # d /\ rec'[x].status = "recovery_required" =>
        RecordLocates(x)'
  BY <1>0, OthersUnmoved
<1>4. ExtOf[d] \in Exts
  BY ReplacementAssumption
<1> USE DEF TypeOK, RecordRow, Locals, Goto, Mark, storageVars
<1>5. CASE MarkBackup(d)
  <2> PICK n \in BackupNames :
             /\ FreeBackup(ExtOf[d], n)
             /\ rec' = [rec EXCEPT ![d].backup = n]
             /\ job' = [job EXCEPT ![d].backup = n]
    BY <1>5 DEF MarkBackup
  <2>1. /\ pc[d] = "backup" /\ pc'[d] = "backup_move" /\ ShownWithout(d)
        /\ rec'[d].status = "running" /\ job'[d].backup = n
    BY <1>5 DEF MarkBackup, InStep, SafeAt, Early
  <2>2. ASSUME NEW x \in Downloads, x # d,
               rec'[x].status = "recovery_required",
               rec'[x].backup = n, ExtOf[x] = ExtOf[d]
        PROVE  BinHeld(x)'
    <3>1. rec[x].status = "recovery_required" /\ rec[x].backup = n
      BY <1>1, <2>2
    <3>2. RecordLocates(x)
      BY <3>1 DEF Repairable
    <3>3. ~BakHeld(x)
      BY <2>2, <3>1 DEF BakHeld, FreeBackup, Complete
    <3> QED
      BY <1>2, <2>2, <3>2, <3>3 DEF RecordLocates, BinHeld, BakHeld
  <2>3. Owned(d)'
    BY <2>1, <2>2 DEF Owned
  <2> QED
    BY <1>2, <1>3, <2>1, <2>3, ShownBy DEF StaysSafe, SafeAt, Early, Moved
<1>6. CASE DirMissing(d) \/ NoSpace(d)
  <2>1. /\ pc[d] = "check_dir" /\ pc'[d] = "fail_dl"
        /\ rec[d].status = "running"
        /\ job[d].backup # None => rec[d].backup = job[d].backup
        /\ rec'[d].recycle = rec[d].recycle /\ rec'[d].backup = rec[d].backup
        /\ rec'[d].status = IF job[d].recycled \/ job[d].backup # None
                            THEN "recovery_required" ELSE "failed"
    BY <1>6 DEF DirMissing, NoSpace, InStep, Moved, Recorded
  <2>2. /\ BinHeld(d)' <=> BinHeld(d)
        /\ BakHeld(d)' <=> BakHeld(d)
    BY <1>0, <2>1 DEF BinHeld, BakHeld
  <2>3. IF job[d].recycled \/ job[d].backup # None
        THEN BinHeld(d) \/ BakHeld(d) ELSE ShownWithout(d)
    BY <2>1 DEF SafeAt, Moved
  <2>4. Shown' /\ (rec'[d].status = "recovery_required" => RecordLocates(d)')
    BY <1>2, <2>1, <2>2, <2>3, ShownBy DEF RecordLocates, BinHeld, BakHeld
  <2> QED
    BY <1>3, <2>1, <2>4 DEF StaysSafe, SafeAt, Owned, Early, Moved
<1>7. CASE SettleFailure(d)
  <2>1. /\ pc[d] = "settle" /\ pc'[d] = "fail_dl"
        /\ rec'[d].recycle = rec[d].recycle
        /\ rec'[d].status = IF job[d].recycled
                            THEN "recovery_required" ELSE "failed"
    BY <1>7 DEF SettleFailure
  <2>2. IF job[d].recycled THEN BinHeld(d)' ELSE ShownWithout(d)'
    BY <1>0, <1>2, <2>1 DEF SafeAt, BinHeld
  <2>3. Shown' /\ (rec'[d].status = "recovery_required" => RecordLocates(d)')
    BY <2>1, <2>2, ShownBy DEF RecordLocates, BinHeld
  <2> QED
    BY <1>3, <2>1, <2>3 DEF StaysSafe, SafeAt, Owned, Early, Moved
<1>8. CASE Commit(d) \/ MarkCompleted(d)
  <2>1. /\ pc[d] \in {"commit", "complete"}
        /\ pc'[d] \in {"complete", "cleanup", "lost"}
        /\ rec'[d].status \in {"running", "completed"}
    BY <1>8 DEF Commit, MarkCompleted, InStep
  <2>2. Complete(fs[Target(d)])
    BY <2>1 DEF SafeAt
  <2>3. InLibrary'
    BY <1>2, <1>4, <2>2 DEF InLibrary, Target
  <2> QED
    BY <1>2, <1>3, <2>1, <2>2, <2>3, ShownBy
    DEF StaysSafe, SafeAt, Owned, Early, Moved
<1> QED
  BY <1>5, <1>6, <1>7, <1>8

(* The moves.                                                              *)
LEMMA SafeMove ==
  ASSUME SurvivalInv, Survived, NEW d \in Downloads, IInv', faults' <= 1,
         Recycle(d) \/ Backup(d) \/ Place(d) \/ Restore(d)
  PROVE  StaysSafe(d)
<1> DEFINE bak == Bak(ExtOf[d], job[d].backup)
<1> USE DEF SurvivalInv, Survived, IInv, LocalSetting, Setting
<1>0. Step(d)
  BY DEF Step
<1>1. \A x \in Downloads : x # d => rec'[x] = rec[x]
  BY <1>0, StepIsOwn
<1>2. /\ job[d].src \in Exts /\ ExtOf[d] \in Exts
      /\ job[d].backup # None => job[d].backup \in BackupNames
      /\ TypeOKStorage
  BY ReplacementAssumption DEF TypeOK, Locals
<1> USE DEF TypeOK, RecordRow, Locals, Goto, Mark
<1>3. CASE Recycle(d)
  <2>1. /\ pc[d] = "recycle_move" /\ UNCHANGED rec
        /\ rec[d].recycle = job[d].src /\ rec[d].status = "running"
        /\ job'[d].backup = None /\ ShownWithout(d) /\ ~job[d].recycled
    BY <1>3 DEF Recycle, Recorded, InStep, SafeAt, Early
  <2>2. /\ \A e \in Exts : Original(d) # Bin(e)
        /\ \A e \in Exts, n \in BackupNames : Original(d) # Bak(e, n)
    BY Paths DEF Original
  <2>3. KeptBut(Original(d))
    BY <1>2, <1>3, RunPaths, Ends, MoveKeeps DEF Recycle
  <2>4. \A x \in Downloads : x # d /\ rec'[x].status = "recovery_required" =>
          RecordLocates(x)'
    BY <1>1, <2>2, <2>3, OthersKept
  <2>5. CASE MoveOk(Original(d), Bin(job[d].src)) /\ pc'[d] = "check_dir"
             /\ job'[d].recycled
    <3>1. Complete(fs'[Bin(job[d].src)])
      <4>1. /\ fs'[Bin(job[d].src)] = fs[Original(d)]
            /\ fs[Original(d)] # NoFile /\ Original(d) \in Path
        BY <1>2, <2>5, RunPaths, Ends, MoveOkEffect
      <4> QED
        BY <4>1 DEF Complete, NoTruncated
    <3>2. BinHeld(d)'
      BY <1>2, <2>1, <3>1, ReplacementAssumption DEF BinHeld
    <3> QED
      BY <2>1, <2>4, <2>5, <3>2, ShownBy
      DEF StaysSafe, SafeAt, Owned, Early, Moved
  <2>6. CASE MoveFails(Original(d), Bin(job[d].src)) /\ pc'[d] = "backup"
    <3>1. \A e \in Exts : fs'[Lib(e)] = fs[Lib(e)]
      BY <1>2, <2>6, RunPaths, Paths, MoveFailsEffect
    <3>2. \A x \in Downloads : x # d /\ Visible(x) => Visible(x)'
      BY <1>1, <2>2, <2>3, OthersKept
    <3>3. ShownWithout(d)'
      BY <2>1, <3>1, <3>2 DEF ShownWithout, InLibrary
    <3> QED
      BY <2>1, <2>4, <2>6, <3>3, ShownBy
      DEF StaysSafe, SafeAt, Owned, Early, Moved
  <2> QED
    BY <1>3, <2>5, <2>6 DEF Recycle
<1>4. CASE Backup(d)
  <2>1. /\ pc[d] = "backup_move" /\ UNCHANGED job
        /\ job[d].backup # None /\ rec[d].backup = job[d].backup
        /\ rec[d].status = "running" /\ ShownWithout(d)
        /\ ~job[d].recycled
        /\ rec'[d].recycle = rec[d].recycle /\ rec'[d].backup = rec[d].backup
    BY <1>4 DEF Backup, Recorded, InStep, SafeAt, Early
  <2>2. /\ \A e \in Exts : Target(d) # Bin(e)
        /\ \A e \in Exts, n \in BackupNames : Target(d) # Bak(e, n)
    BY Paths DEF Target
  <2>3. KeptBut(Target(d))
    BY <1>2, <1>4, <2>1, RunPaths, Ends, MoveKeeps DEF Backup
  <2>4. \A x \in Downloads : x # d =>
          /\ rec'[x].status = "recovery_required" => RecordLocates(x)'
          /\ BinHeld(x) => BinHeld(x)'
    BY <1>1, <2>2, <2>3, OthersKept
  <2>5. CASE MoveOk(Target(d), bak) /\ pc'[d] = "check_dir" /\ UNCHANGED rec
    <3>1. Complete(fs'[bak])
      BY <1>2, <2>1, <2>5, RunPaths, Ends, MoveOkEffect
      DEF Complete, NoTruncated
    <3>2. BakHeld(d)'
      BY <2>1, <3>1 DEF BakHeld
    <3>3. Owned(d)'
      BY <1>1, <2>1, <2>4, <2>5 DEF Owned, Moved
    <3> QED
      BY <2>1, <2>4, <2>5, <3>2, <3>3, ShownBy
      DEF StaysSafe, SafeAt, Early, Moved
  <2>6. CASE MoveFails(Target(d), bak) /\ pc'[d] = "fail_dl"
             /\ rec'[d].status = "failed"
    <3>1. \A e \in Exts : fs'[Lib(e)] = fs[Lib(e)]
      BY <1>2, <2>1, <2>6, RunPaths, Paths, MoveFailsEffect
    <3>2. \A x \in Downloads : x # d /\ Visible(x) => Visible(x)'
      BY <1>1, <2>2, <2>3, OthersKept
    <3>3. ShownWithout(d)'
      BY <2>1, <3>1, <3>2 DEF ShownWithout, InLibrary
    <3> QED
      BY <2>4, <2>6, <3>3, ShownBy DEF StaysSafe, SafeAt, Owned, Early, Moved
  <2> QED
    BY <1>4, <2>5, <2>6 DEF Backup
<1>5. CASE Place(d)
  <2>1. /\ pc[d] = "place" /\ UNCHANGED <<rec, job>>
        /\ rec[d].status = "running" /\ fs[Stage(d)] = d
    BY <1>5 DEF Place, InStep, Carried, Before, OutcomeInv, Moved
  <2>2. /\ \A e \in Exts : Stage(d) # Bin(e) /\ Stage(d) # Lib(e)
        /\ \A e \in Exts, n \in BackupNames : Stage(d) # Bak(e, n)
    BY Paths
  <2>3. KeptBut(Stage(d))
    BY <1>2, <1>5, RunPaths, Ends, MoveKeeps DEF Place
  <2>4. \A x \in Downloads : x # d =>
          /\ rec'[x].status = "recovery_required" => RecordLocates(x)'
          /\ BinHeld(x) => BinHeld(x)'
    BY <1>1, <2>2, <2>3, OthersKept
  <2>5. Owned(d)'
    BY <1>1, <2>1, <2>4 DEF Owned, Moved
  <2>6. CASE MoveOk(Stage(d), Target(d)) /\ pc'[d] = "placed"
    <3>1. Complete(fs'[Target(d)])
      BY <1>2, <2>1, <2>6, RunPaths, Ends, MoveOkEffect, StorageAssumption
      DEF Complete
    <3>2. InLibrary'
      BY <1>2, <3>1 DEF InLibrary, Target
    <3> QED
      BY <2>1, <2>4, <2>5, <2>6, <3>1, <3>2, ShownBy
      DEF StaysSafe, SafeAt, Early, Moved, Target
  <2>7. CASE MoveFails(Stage(d), Target(d)) /\ pc'[d] = "unplaced"
    <3>1. faults' = faults + 1 /\ faults' # 0
      BY <2>1, <2>7, <1>2, LocalFault, StorageAssumption DEF TypeOKStorage
    <3>2. /\ BinHeld(d) => BinHeld(d)'
          /\ BakHeld(d) => BakHeld(d)'
          /\ ShownWithout(d) => ShownWithout(d)'
      BY <1>1, <2>1, <2>2, <2>3, OthersKept, OwnKept
    <3>3. SafeAt(d)' /\ Shown'
      BY <2>1, <2>7, <3>1, <3>2, ShownBy DEF SafeAt, Early, Moved
    <3> QED
      BY <2>1, <2>4, <2>5, <3>3 DEF StaysSafe
  <2> QED
    BY <1>5, <2>6, <2>7 DEF Place
<1>6. CASE Restore(d)
  <2>1. /\ pc[d] = "unplaced" /\ pc'[d] = "settle" /\ UNCHANGED job
        /\ rec[d].status = "running" /\ faults # 0
        /\ job[d].backup # None /\ fs[bak] # NoFile
    BY <1>6 DEF Restore, CanRestore, InStep, Moved, SafeAt
  <2>2. CASE MoveOk(bak, Target(d)) /\ UNCHANGED rec
    <3>1. /\ \A p \in Path : p # bak /\ p # Target(d) => fs'[p] = fs[p]
          /\ Complete(fs'[Target(d)])
      BY <1>2, <2>1, <2>2, RunPaths, Ends, MoveOkEffect
      DEF Complete, NoTruncated
    <3>2. InLibrary'
      BY <1>2, <3>1 DEF InLibrary, Target
    <3>3. ASSUME NEW x \in Downloads, BinHeld(x)
          PROVE  BinHeld(x)'
      <4>1. Bin(rec[x].recycle) # bak /\ Bin(rec[x].recycle) # Target(d)
        BY Paths DEF Target
      <4>2. Bin(rec[x].recycle) \in Path
        BY <3>3, Paths DEF BinHeld
      <4> QED
        BY <2>2, <3>1, <3>3, <4>1, <4>2 DEF BinHeld
    <3>4. ASSUME NEW x \in Downloads, x # d,
                 rec'[x].status = "recovery_required"
          PROVE  RecordLocates(x)'
      <4>1. rec[x].status = "recovery_required" /\ RecordLocates(x)
        BY <2>2, <3>4 DEF Repairable
      <4>2. CASE BinHeld(x)
        BY <3>3, <4>2 DEF BinHeld, RecordLocates
      <4>3. CASE ~BinHeld(x)
        <5>1. /\ BakHeld(x) /\ rec[x].backup \in BackupNames
              /\ ExtOf[x] \in Exts
          BY <4>1, <4>3, ReplacementAssumption
          DEF RecordLocates, BinHeld, BakHeld
        <5>2. ~(rec[x].backup = job[d].backup /\ ExtOf[x] = ExtOf[d])
          BY <2>1, <3>4, <4>1, <4>3 DEF Owned, Moved
        <5>3. Bak(ExtOf[x], rec[x].backup) # bak
          BY <5>2 DEF Bak
        <5>4. Bak(ExtOf[x], rec[x].backup) # Target(d)
          BY Paths DEF Target
        <5>5. Bak(ExtOf[x], rec[x].backup) \in Path
          BY <5>1, Paths
        <5> QED
          BY <2>2, <3>1, <5>1, <5>3, <5>4, <5>5 DEF BakHeld, RecordLocates
      <4> QED
        BY <4>2, <4>3
    <3>5. job[d].recycled => BinHeld(d)'
      BY <2>1, <3>3 DEF SafeAt, Moved
    <3> QED
      BY <2>1, <2>2, <3>2, <3>4, <3>5, ShownBy
      DEF StaysSafe, SafeAt, Owned, Early, Moved
  <2>3. CASE MoveFails(bak, Target(d))
    BY <1>2, <2>1, <2>3, LocalFault, StorageAssumption DEF TypeOKStorage
  <2> QED
    BY <1>6, <2>2, <2>3 DEF Restore
<1> QED
  BY <1>3, <1>4, <1>5, <1>6

(* The removals take nothing a record needs: the film is in the library.   *)
LEMMA SafeDrop ==
  ASSUME SurvivalInv, Survived, NEW d \in Downloads, IInv', faults' <= 1,
         DropBackup(d) \/ DropOld(d) \/ Cleanup(d)
  PROVE  StaysSafe(d)
<1> DEFINE bak == Bak(ExtOf[d], job[d].backup)
<1> USE DEF SurvivalInv, Survived, IInv, LocalSetting, Setting
<1>0. Step(d) /\ UNCHANGED <<rec, job>>
  BY DEF Step, DropBackup, DropOld, Cleanup
<1>1. \A x \in Downloads : x # d => rec'[x] = rec[x]
  BY <1>0
<1>2. /\ job[d].src \in Exts /\ ExtOf[d] \in Exts
      /\ job[d].backup # None => job[d].backup \in BackupNames
      /\ TypeOKStorage /\ Target(d) \in Path
  BY ReplacementAssumption, RunPaths DEF TypeOK, Locals
<1>3. CASE DropBackup(d)
  <2>1. /\ pc[d] = "placed" /\ pc'[d] = "drop_old"
        /\ rec[d].status = "running" /\ Complete(fs[Target(d)])
    BY <1>3 DEF DropBackup, TypeOK, Goto, InStep, SafeAt
  <2>2. CASE job[d].backup # None /\ fs[bak] # NoFile
    <3>1. \A p \in Path : p # bak => fs'[p] = fs[p]
      BY <1>2, <1>3, <2>2, RunPaths, RemoveEffect DEF DropBackup
    <3>2. Complete(fs'[Target(d)])
      BY <1>2, <2>1, <3>1, Paths DEF Target
    <3>3. ASSUME NEW x \in Downloads, x # d,
                 rec'[x].status = "recovery_required"
          PROVE  RecordLocates(x)'
      <4>1. rec[x].status = "recovery_required" /\ RecordLocates(x)
        BY <1>0, <3>3 DEF Repairable
      <4>2. CASE BinHeld(x)
        <5>1. Bin(rec[x].recycle) # bak /\ Bin(rec[x].recycle) \in Path
          BY <4>2, Paths DEF BinHeld, TypeOK, RecordRow
        <5> QED
          BY <1>0, <3>1, <4>2, <5>1 DEF BinHeld, RecordLocates
      <4>3. CASE ~BinHeld(x)
        <5>1. /\ BakHeld(x) /\ rec[x].backup \in BackupNames
              /\ ExtOf[x] \in Exts
          BY <4>1, <4>3, ReplacementAssumption
          DEF RecordLocates, BinHeld, BakHeld, TypeOK, RecordRow
        <5>2. ~(rec[x].backup = job[d].backup /\ ExtOf[x] = ExtOf[d])
          BY <2>1, <2>2, <3>3, <4>1, <4>3 DEF Owned
        <5>3. Bak(ExtOf[x], rec[x].backup) # bak
          BY <5>2 DEF Bak
        <5>4. Bak(ExtOf[x], rec[x].backup) \in Path
          BY <5>1, Paths
        <5> QED
          BY <1>0, <3>1, <5>1, <5>3, <5>4 DEF BakHeld, RecordLocates
      <4> QED
        BY <4>2, <4>3
    <3>4. InLibrary'
      BY <1>2, <3>2 DEF InLibrary, Target
    <3> QED
      BY <1>0, <2>1, <3>2, <3>3, <3>4, ShownBy
      DEF StaysSafe, SafeAt, Owned, Early, Moved, Target
  <2>3. CASE ~(job[d].backup # None /\ fs[bak] # NoFile)
    <3>1. UNCHANGED fs
      BY <1>3, <2>3 DEF DropBackup, storageVars
    <3>2. InLibrary' /\ Complete(fs'[Target(d)])
      BY <1>2, <2>1, <3>1 DEF InLibrary, Target
    <3>3. \A x \in Downloads : x # d /\ rec'[x].status = "recovery_required" =>
            RecordLocates(x)'
      BY <1>0, <3>1, OthersUnmoved
    <3> QED
      BY <1>0, <2>1, <3>2, <3>3, ShownBy
      DEF StaysSafe, SafeAt, Owned, Early, Moved, Target
  <2> QED
    BY <2>2, <2>3
<1>4. CASE DropOld(d)
  <2>1. /\ pc[d] = "drop_old" /\ pc'[d] = "commit"
        /\ rec[d].status = "running" /\ Complete(fs[Target(d)])
    BY <1>4 DEF DropOld, TypeOK, Goto, InStep, SafeAt
  <2>2. /\ \A p \in Path : p # Original(d) => fs'[p] = fs[p]
        /\ fs'[Target(d)] = fs[Target(d)]
    BY <1>2, <1>4, RunPaths, Paths, RemoveEffect
    DEF DropOld, storageVars, Original, Target
  <2>3. InLibrary' /\ Complete(fs'[Target(d)])
    BY <1>2, <2>1, <2>2 DEF InLibrary, Target
  <2>4. \A x \in Downloads : x # d /\ rec'[x].status = "recovery_required" =>
          RecordLocates(x)'
    <3>1. KeptBut(Original(d))
      BY <2>2 DEF KeptBut
    <3> QED
      BY <1>1, <3>1, Paths, OthersKept DEF Original
  <2> QED
    BY <1>0, <2>1, <2>3, <2>4, ShownBy
    DEF StaysSafe, SafeAt, Owned, Early, Moved, Target
<1>5. CASE Cleanup(d)
  <2>1. pc'[d] \in {"done", "give_up"}
    BY <1>5 DEF Cleanup, TypeOK, Goto
  <2>2. \A p \in Path : p # Stage(d) => fs'[p] = fs[p]
    BY <1>2, <1>5, RunPaths, RemoveEffect DEF Cleanup
  <2>3. /\ \A e \in Exts : fs'[Lib(e)] = fs[Lib(e)] /\ fs'[Bin(e)] = fs[Bin(e)]
        /\ \A e \in Exts, n \in BackupNames : fs'[Bak(e, n)] = fs[Bak(e, n)]
    BY <2>2, Paths
  <2>4. ASSUME NEW x \in Downloads
        PROVE  RecordLocates(x) => RecordLocates(x)'
    <3>1. /\ rec[x].recycle # None => rec[x].recycle \in Exts
          /\ rec[x].backup # None => rec[x].backup \in BackupNames
          /\ ExtOf[x] \in Exts
      BY ReplacementAssumption DEF TypeOK, RecordRow
    <3> QED
      BY <1>0, <2>3, <3>1 DEF RecordLocates
  <2>5. InLibrary => InLibrary'
    BY <2>3 DEF InLibrary
  <2>6. Shown' /\ Repairable'
    BY <1>0, <2>4, <2>5 DEF Shown, Visible, Repairable
  <2> QED
    BY <1>0, <2>1, <2>6 DEF StaysSafe, SafeAt, Owned, Early, Moved, Repairable
<1> QED
  BY <1>3, <1>4, <1>5

(* What does not run is safe, whatever else happens.                       *)
LEMMA SafeIdle ==
  ASSUME NEW x \in Downloads, pc'[x] \notin Running
  PROVE  SafeAt(x)' /\ Owned(x)'
BY DEF SafeAt, Owned, Early, Moved, Running

(* Every step keeps the film shown and repairable.                         *)
LEMMA SurvivedStep ==
  ASSUME SurvivalInv, IInv', faults' <= 1, [Next]_vars
  PROVE  Survived'
<1> USE DEF SurvivalInv, IInv
<1>0. faults \in Nat /\ faults' \in Nat
  BY StorageAssumption DEF TypeOK, TypeOKStorage
<1>1. ASSUME NEW d \in Downloads, Step(d)
      PROVE  Survived'
  <2>1. faults <= faults'
    BY <1>0, <1>1, FaultsCounted
  <2>2. Survived
    BY <1>0, <2>1
  <2>3. StaysSafe(d)
    BY <1>1, <2>2, SafeQuiet, SafeMark, SafeMove, SafeDrop DEF Step
  <2>4. ASSUME NEW x \in Downloads, x # d
        PROVE  SafeAt(x)' /\ Owned(x)'
    BY <1>1, <2>4, StepIsOwn, SafeIdle DEF OneAtATime
  <2> QED
    BY <2>3, <2>4 DEF StaysSafe, Survived, Repairable
<1>2. ASSUME faults' = faults, UNCHANGED rec,
             \A e \in Exts : /\ fs'[Lib(e)] = fs[Lib(e)]
                             /\ fs'[Bin(e)] = fs[Bin(e)],
             \A e \in Exts, n \in BackupNames : fs'[Bak(e, n)] = fs[Bak(e, n)]
      PROVE  /\ Survived /\ Shown' /\ Repairable'
             /\ \A d \in Downloads : /\ ShownWithout(d) => ShownWithout(d)'
                                     /\ BinHeld(d) <=> BinHeld(d)'
                                     /\ BakHeld(d) <=> BakHeld(d)'
  <2>1. ASSUME NEW x \in Downloads
        PROVE  /\ BinHeld(x) <=> BinHeld(x)'
               /\ BakHeld(x) <=> BakHeld(x)'
    <3>1. /\ rec[x].recycle # None => rec[x].recycle \in Exts
          /\ rec[x].backup # None => rec[x].backup \in BackupNames
          /\ ExtOf[x] \in Exts
      BY ReplacementAssumption DEF TypeOK, RecordRow
    <3> QED
      BY <1>2, <3>1 DEF BinHeld, BakHeld
  <2>2. \A x \in Downloads : /\ RecordLocates(x) => RecordLocates(x)'
                             /\ Visible(x) => Visible(x)'
    BY <1>2, <2>1 DEF RecordLocates, BinHeld, BakHeld, Visible
  <2>3. InLibrary => InLibrary'
    BY <1>2 DEF InLibrary
  <2> QED
    BY <1>2, <2>1, <2>2, <2>3 DEF Survived, Shown, ShownWithout, Repairable
<1>3. ASSUME NEW d \in Downloads, Arrive(d)
      PROVE  Survived'
  <2>1. /\ pc[d] = "idle" /\ pc' = [pc EXCEPT ![d] = "load"]
        /\ fs' = [fs EXCEPT ![Stage(d)] = d]
        /\ UNCHANGED <<faults, rec, job>>
        /\ \A x \in Downloads : pc[x] \notin Running
    BY <1>3 DEF Arrive, Goto, LocalSetting, Setting, WholeSetting
  <2>2. /\ Survived /\ Shown' /\ Repairable'
        /\ ShownWithout(d) => ShownWithout(d)'
    BY <1>2, <2>1, Paths DEF TypeOK, TypeOKStorage
  <2>3. ShownWithout(d)
    BY <2>1, <2>2 DEF Survived, Shown, ShownWithout, Visible, InStep
  <2>4. SafeAt(d)' /\ Owned(d)'
    BY <2>1, <2>2, <2>3 DEF SafeAt, Owned, Moved, TypeOK
  <2>5. ASSUME NEW x \in Downloads, x # d
        PROVE  SafeAt(x)' /\ Owned(x)'
    BY <2>1, <2>5, SafeIdle DEF TypeOK
  <2> QED
    BY <2>2, <2>4, <2>5 DEF Survived
<1>4. ASSUME UNCHANGED <<fs, faults, rec, job>>,
             \A x \in Downloads : pc'[x] = pc[x] \/ pc'[x] = "lost"
      PROVE  Survived'
  <2>1. /\ Survived /\ Shown' /\ Repairable'
        /\ \A d \in Downloads : /\ ShownWithout(d) => ShownWithout(d)'
                                /\ BinHeld(d) <=> BinHeld(d)'
                                /\ BakHeld(d) <=> BakHeld(d)'
    BY <1>2, <1>4
  <2>2. ASSUME NEW x \in Downloads, pc'[x] = pc[x]
        PROVE  SafeAt(x)' /\ Owned(x)'
    <3>1. SafeAt(x) /\ Owned(x)
      BY <2>1 DEF Survived
    <3>2. SafeAt(x)'
      BY <1>4, <2>1, <2>2, <3>1 DEF SafeAt, Target
    <3>3. Owned(x)'
      BY <1>4, <2>1, <2>2, <3>1 DEF Owned
    <3> QED
      BY <3>2, <3>3
  <2>3. ASSUME NEW x \in Downloads, pc'[x] = "lost"
        PROVE  SafeAt(x)' /\ Owned(x)'
    BY <2>3, SafeIdle DEF Running
  <2> QED
    BY <1>4, <2>1, <2>2, <2>3 DEF Survived
<1>5. ASSUME NEW d \in Downloads, Interrupt(d)
      PROVE  Survived'
  BY <1>4, <1>5 DEF Interrupt, Goto, storageVars, TypeOK
<1>6. CASE Purge
  BY <1>6 DEF Purge, LocalSetting, Setting
<1>7. CASE Cool \/ UNCHANGED vars
  BY <1>4, <1>7 DEF Cool, CooldownExpires, vars
<1> QED
  BY <1>1, <1>3, <1>5, <1>6, <1>7 DEF Next, Finished

(* SurvivalInv is inductive, beside the two invariants above.              *)
LEMMA SurvivalInductive == LocalSetting /\ Spec => []SurvivalInv
<1>1. Init /\ LocalSetting /\ IInv /\ OutcomeInv => SurvivalInv
  <2> SUFFICES ASSUME Init, LocalSetting, IInv, OutcomeInv
               PROVE  SurvivalInv
    OBVIOUS
  <2>1. fs[Lib(LibraryExt)] = Orig
    BY ReplacementAssumption, Paths DEF Init, LocalSetting, Setting
  <2>2. Shown
    BY <2>1, StorageAssumption, ReplacementAssumption
    DEF Shown, InLibrary, Complete
  <2>3. \A d \in Downloads : InStep(d) /\ SafeAt(d) /\ Owned(d)
    BY DEF Init, InStep, SafeAt, Owned, Early, Moved
  <2>4. Repairable
    BY DEF Init, Repairable
  <2> QED
    BY <2>2, <2>3, <2>4 DEF SurvivalInv, Survived
<1>2. SurvivalInv /\ IInv' /\ OutcomeInv' /\ [Next]_vars => SurvivalInv'
  BY InStepStep, SurvivedStep DEF SurvivalInv, IInv, LocalSetting, Setting,
     WholeSetting
<1>3. LocalSetting => Setting /\ Serialised
  BY DEF LocalSetting, Setting, WholeSetting
<1> QED
  BY <1>1, <1>2, <1>3, Inductive, OutcomeInductive, PTL DEF Spec

(* On local disks: one storage fault, wherever it strikes, together with   *)
(* any number of deaths at any points, does not hide the film from the     *)
(* recovery page, and leaves what each record asks to recover in place.    *)
THEOREM FaultSurvived == LocalSetting /\ Spec => []OneFaultIsSurvived
<1>1. SurvivalInv => OneFaultIsSurvived
  <2> SUFFICES ASSUME SurvivalInv, faults <= 1
               PROVE  StrandedIsVisible /\ RecoveryStaysPossible
    BY DEF OneFaultIsSurvived, OneFaultIsVisible, OneFaultIsRepairable
  <2>1. Shown /\ Repairable
    BY DEF SurvivalInv, Survived
  <2> QED
    BY <2>1 DEF Shown, Visible, Repairable, StrandedIsVisible,
       RecoveryStaysPossible
<1> QED
  BY <1>1, SurvivalInductive, PTL
=============================================================================
