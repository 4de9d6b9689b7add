-------------------------------- MODULE Jobs --------------------------------
(***************************************************************************)
(* The persistent job runtime (core/jobs.py, api/jobs.py): rows in the     *)
(* database, one asyncio task per job, and the requests that enqueue,      *)
(* cancel and retry.                                                       *)
(*                                                                         *)
(* A database session reads a row, goes on, and commits the columns it     *)
(* changed: the read and the commit are two steps, and whatever another    *)
(* session wrote between them is overwritten only in those columns.  Each  *)
(* action is the code between two awaits.  A session may fail at either    *)
(* step (the database is locked, the disk is full) and then writes nothing.*)
(***************************************************************************)
EXTENDS Naturals, FiniteSets

CONSTANTS
  Jobs,         \* the ids (uuid4) that rows may be given
  Kinds,        \* the job kinds that are asked for
  Clients,      \* the requests that may be served at the same time
  None,         \* no job, no kind
  MaxCancels,   \* bound: cancellations requested in a behaviour
  MaxRestarts,  \* bound: restarts of the process in a behaviour
  MaxFaults     \* bound: sessions that fail in a behaviour

ASSUME BoundsAreNumbers == MaxCancels \in Nat /\ MaxRestarts \in Nat /\ MaxFaults \in Nat
ASSUME NoneIsNothing == None \notin Jobs /\ None \notin Kinds

ACTIVE_JOB_STATUSES   == {"queued", "running", "cancelling"}
TERMINAL_JOB_STATUSES == {"completed", "failed", "cancelled", "recovery_required"}
Statuses == ACTIVE_JOB_STATUSES \cup TERMINAL_JOB_STATUSES \cup {"absent", "purged"}

VARIABLES
  rows,      \* [Jobs -> Row]: the job_records table
  task,      \* [Jobs -> Task]: the coroutine of the job, and where it waits
  client,    \* [Clients -> Request]: what each request is doing
  did,       \* [Jobs -> WorkState]: what the body of the job did (history)
  cancels,   \* cancellations that found their job active so far
  excused,   \* kinds whose exclusion the code gave up (history)
  late,      \* jobs marked for cancellation after their end was written (history)
  unwritten, \* jobs whose handler ended before its commit (history)
  lost,      \* jobs left active by a restart (history)
  restarts,  \* restarts so far
  broken,    \* jobs whose sessions failed before or after the work (history)
  faults     \* sessions that failed so far

vars == <<rows, task, client, did, cancels, excused, late, unwritten, lost, restarts,
          broken, faults>>
history == <<did, cancels, excused, late, unwritten, lost, restarts, broken, faults>>

TaskPlaces ==
  {"none", "new", "loaded", "working", "worked", "finishing", "saved",
   "raised", "failing", "stopped", "cancelling", "done"}
InBody     == {"loaded", "working", "worked", "finishing", "saved"}
InHandler  == {"raised", "failing", "stopped", "cancelling"}
LivePlaces == {"new"} \cup InBody \cup InHandler

Row     == [kind : Kinds \cup {None}, status : Statuses, asked : BOOLEAN]
Task    == [at : TaskPlaces, seen : Statuses, asked : BOOLEAN]
Request == [at : {"idle", "insert", "start", "mark", "interrupt"},
            job : Jobs \cup {None}, kind : Kinds \cup {None}, seen : Statuses]

NoRow  == [kind |-> None, status |-> "absent", asked |-> FALSE]
NoTask == [at |-> "none", seen |-> "absent", asked |-> FALSE]
Idle   == [at |-> "idle", job |-> None, kind |-> None, seen |-> "absent"]

Live(j)     == task[j].at \in LivePlaces
Active(j)   == rows[j].status \in ACTIVE_JOB_STATUSES
Working(j)  == task[j].at = "working"
OfKind(k)   == {j \in Jobs : rows[j].kind = k}

Init ==
  /\ rows = [j \in Jobs |-> NoRow]
  /\ task = [j \in Jobs |-> NoTask]
  /\ client = [c \in Clients |-> Idle]
  /\ did = [j \in Jobs |-> "none"]
  /\ cancels = 0
  /\ excused = {} /\ late = {} /\ unwritten = {} /\ lost = {}
  /\ restarts = 0
  /\ broken = {} /\ faults = 0

-----------------------------------------------------------------------------
(* What a commit leaves in the status column: a session emits the column   *)
(* only when the value differs from the one it loaded.                     *)
Committed(j, seen, new) ==
  IF seen = new THEN rows[j].status ELSE new

(* The task goes on without what it read, or with what it reads now.       *)
Goto(j, at)  == task' = [task EXCEPT ![j] = [NoTask EXCEPT !.at = at]]
Read(j, at)  == task' = [task EXCEPT ![j] =
                  [at |-> at, seen |-> rows[j].status, asked |-> rows[j].asked]]
SetStatus(j, s) ==
  rows' = [rows EXCEPT ![j] = [@ EXCEPT !.status = Committed(j, task[j].seen, s)]]

(* _run_job: the row is read, and left alone unless it waits to run.       *)
LoadJob(j) ==
  /\ task[j].at = "new"
  /\ Read(j, IF rows[j].status \in {"queued", "running"} THEN "loaded" ELSE "done")
  /\ UNCHANGED <<rows, client, history>>

(* _run_job: status "running" is committed, then the work begins.          *)
BeginWork(j) ==
  /\ task[j].at = "loaded"
  /\ SetStatus(j, "running")
  /\ Goto(j, "working")
  /\ did' = [did EXCEPT ![j] = "begun"]
  /\ UNCHANGED <<client, cancels, excused, late, unwritten, lost, restarts, broken, faults>>

(* _execute_job_kind returns, or raises.                                   *)
WorkReturns(j) ==
  /\ Working(j)
  /\ Goto(j, "worked")
  /\ did' = [did EXCEPT ![j] = "finished"]
  /\ UNCHANGED <<rows, client, cancels, excused, late, unwritten, lost, restarts, broken, faults>>

WorkRaises(j) ==
  /\ Working(j)
  /\ Goto(j, "raised")
  /\ did' = [did EXCEPT ![j] = "raised"]
  /\ UNCHANGED <<rows, client, cancels, excused, late, unwritten, lost, restarts, broken, faults>>

(* _run_job: the row is read again, in the body or in either handler.      *)
LoadAgain(j) ==
  /\ \/ task[j].at = "worked"  /\ Read(j, "finishing")
     \/ task[j].at = "raised"  /\ Read(j, "failing")
     \/ task[j].at = "stopped" /\ Read(j, "cancelling")
  /\ UNCHANGED <<rows, client, history>>

(* _run_job: a cancellation seen by that read wins over the result.  The   *)
(* task has not left the try block yet: it waits for the commit.           *)
CommitResult(j) ==
  /\ task[j].at = "finishing"
  /\ SetStatus(j, IF task[j].asked THEN "cancelled" ELSE "completed")
  /\ Goto(j, "saved")
  /\ UNCHANGED <<client, history>>

(* Mutant: the failure is recorded as a completion.                        *)
CommitFailureAsSuccess(j) ==
  /\ task[j].at = "failing"
  /\ SetStatus(j, "completed")
  /\ Goto(j, "done")
  /\ UNCHANGED <<client, history>>

CommitFailure(j) ==
  /\ task[j].at = "failing"
  /\ SetStatus(j, "failed")
  /\ Goto(j, "done")
  /\ UNCHANGED <<client, history>>

CommitCancelled(j) ==
  /\ task[j].at = "cancelling"
  /\ SetStatus(j, "cancelled")
  /\ Goto(j, "done")
  /\ UNCHANGED <<client, history>>

TaskReturns(j) ==
  /\ task[j].at = "saved"
  /\ Goto(j, "done")
  /\ UNCHANGED <<rows, client, history>>

(* _run_job: a session that fails around the work takes the task to the    *)
(* handler of exceptions, as the work itself does when it raises; one that *)
(* fails in a handler ends the task with nothing written.                  *)
SessionFails(j) ==
  /\ faults < MaxFaults
  /\ \/ /\ task[j].at \in {"new", "loaded", "worked", "finishing"}
        /\ Goto(j, "raised")
        /\ broken' = broken \cup {j}
        /\ UNCHANGED unwritten
     \/ /\ task[j].at \in InHandler
        /\ Goto(j, "done")
        /\ unwritten' = unwritten \cup {j}
        /\ UNCHANGED broken
  /\ faults' = faults + 1
  /\ UNCHANGED <<rows, client, did, cancels, excused, late, lost, restarts>>

RunnerStep(j) ==
  \/ LoadJob(j) \/ BeginWork(j) \/ LoadAgain(j) \/ CommitResult(j)
  \/ CommitFailure(j) \/ CommitCancelled(j) \/ TaskReturns(j)

-----------------------------------------------------------------------------
(* Requests.  Free ids not yet promised to a request bound the insertions. *)
Absent == {j \in Jobs : rows[j].status = "absent"}
RoomForJob ==
  Cardinality(Absent) > Cardinality({c \in Clients : client[c].at = "insert"})

WillInsert(c, k) ==
  /\ client[c] = Idle /\ RoomForJob
  /\ client' = [client EXCEPT ![c] = [Idle EXCEPT !.at = "insert", !.kind = k]]
  /\ UNCHANGED <<rows, task, did, cancels, late, unwritten, lost, restarts, broken, faults>>

(* Another request has looked for the kind and not yet inserted its row.   *)
Overlaps(k) == \E c \in Clients : client[c].at = "insert" /\ client[c].kind = k

(* Mutant: only a running job counts as active.                            *)
EnqueueLooksAtRunning(c, k) ==
  /\ \A j \in OfKind(k) : rows[j].status # "running"
  /\ WillInsert(c, k)
  /\ excused' = IF Overlaps(k) THEN excused \cup {k} ELSE excused

(* enqueue_job: no job of the kind is active, so one will be inserted.     *)
(* When one is active the request returns it and nothing changes.          *)
EnqueueLooks(c, k) ==
  /\ \A j \in OfKind(k) : ~Active(j)
  /\ WillInsert(c, k)
  /\ excused' = IF Overlaps(k) THEN excused \cup {k} ELSE excused

(* retry_job: only a settled job is retried, and its copy is inserted      *)
(* without asking what else of the kind is active.                         *)
RetryLooks(c, j) ==
  /\ rows[j].status \in TERMINAL_JOB_STATUSES
  /\ LET k == rows[j].kind IN
       /\ WillInsert(c, k)
       /\ excused' = IF Overlaps(k) \/ \E i \in OfKind(k) : Active(i)
                     THEN excused \cup {k} ELSE excused

(* enqueue_job: the row is committed.                                      *)
InsertJob(c) ==
  /\ client[c].at = "insert"
  /\ LET k == client[c].kind IN
     \E j \in Absent :
       /\ rows' = [rows EXCEPT ![j] =
                     [kind |-> k, status |-> "queued", asked |-> FALSE]]
       /\ client' = [client EXCEPT ![c] = [Idle EXCEPT !.at = "start", !.job = j]]
  /\ UNCHANGED <<task, history>>

(* start_job: a task, unless the job has one that is not done.             *)
StartJob(c) ==
  /\ client[c].at = "start"
  /\ LET j == client[c].job IN
     task' = IF Live(j) THEN task
             ELSE [task EXCEPT ![j] = [NoTask EXCEPT !.at = "new"]]
  /\ client' = [client EXCEPT ![c] = Idle]
  /\ UNCHANGED <<rows, history>>

(* cancel_job: the row is read; a settled job is returned as it is.        *)
CancelLooks(c, j) ==
  /\ client[c] = Idle /\ cancels < MaxCancels
  /\ Active(j)
  /\ client' = [client EXCEPT ![c] =
                  [Idle EXCEPT !.at = "mark", !.job = j, !.seen = rows[j].status]]
  /\ cancels' = cancels + 1
  /\ UNCHANGED <<rows, task, did, excused, late, unwritten, lost, restarts, broken, faults>>

(* cancel_job: the status decided on what was read is committed.           *)
MarkedStatus(seen) == IF seen = "running" THEN "cancelling" ELSE "cancelled"

MarkCancel(c) ==
  /\ client[c].at = "mark"
  /\ LET j == client[c].job
         s == MarkedStatus(client[c].seen)
     IN /\ rows' = [rows EXCEPT ![j] = [@ EXCEPT !.status = s, !.asked = TRUE]]
        /\ excused' = IF ~Active(j) \/ (s = "cancelled" /\ Live(j))
                      THEN excused \cup {rows[j].kind} ELSE excused
        /\ late' = IF ~Active(j) THEN late \cup {j} ELSE late
  /\ client' = [client EXCEPT ![c].at = "interrupt"]
  /\ UNCHANGED <<task, did, cancels, unwritten, lost, restarts, broken, faults>>

(* cancel_job: task.cancel().  The body of _run_job goes to its handler of *)
(* CancelledError; a task that never ran, and a handler that is at work    *)
(* already, end without writing anything.                                  *)
(* Mutant: the work swallows the cancellation.                             *)
AfterInterruptUnlessWorking(at) ==
  IF at = "working" THEN at
  ELSE IF at \in InBody THEN "stopped" ELSE IF at \in LivePlaces THEN "done" ELSE at

AfterInterrupt(at) ==
  IF at \in InBody THEN "stopped" ELSE IF at \in LivePlaces THEN "done" ELSE at

InterruptTask(c) ==
  /\ client[c].at = "interrupt"
  /\ LET j == client[c].job IN
       /\ Goto(j, AfterInterrupt(task[j].at))
       /\ unwritten' = IF task[j].at \in InHandler THEN unwritten \cup {j} ELSE unwritten
  /\ client' = [client EXCEPT ![c] = Idle]
  /\ UNCHANGED <<rows, did, cancels, excused, late, lost, restarts, broken, faults>>

(* The commit of a request fails: it is answered with an error.            *)
RequestFails(c) ==
  /\ client[c].at \in {"insert", "mark"}
  /\ faults < MaxFaults
  /\ client' = [client EXCEPT ![c] = Idle]
  /\ faults' = faults + 1
  /\ UNCHANGED <<rows, task, did, cancels, excused, late, unwritten, lost, restarts, broken>>

ClientStep(c) == InsertJob(c) \/ StartJob(c) \/ MarkCancel(c) \/ InterruptTask(c)

-----------------------------------------------------------------------------
(* The process died, and every task and request with it.  The next one     *)
(* runs recover_stale_jobs before anything else; where that fails, it      *)
(* says so in the log and goes on.                                         *)
(* Mutant: a job that was being cancelled is not recovered.                *)
RecoveredRunning(s) == IF s = "running" THEN "recovery_required" ELSE s

Recovered(s) == IF s \in {"running", "cancelling"} THEN "recovery_required" ELSE s

Restart ==
  /\ restarts < MaxRestarts
  /\ restarts' = restarts + 1
  /\ \/ /\ rows' = [j \in Jobs |-> [rows[j] EXCEPT !.status = Recovered(@)]]
        /\ lost' = lost \cup {j \in Jobs : rows[j].status = "queued"}
        /\ UNCHANGED faults
     \/ /\ faults < MaxFaults
        /\ faults' = faults + 1
        /\ lost' = lost \cup {j \in Jobs : Active(j)}
        /\ UNCHANGED rows
  /\ task' = [j \in Jobs |-> NoTask]
  /\ client' = [c \in Clients |-> Idle]
  /\ UNCHANGED <<did, cancels, excused, late, unwritten, broken>>

(* purge_old_jobs: settled rows older than a day at least; their age is    *)
(* abstracted to their having no task and no request any more.             *)
PurgeJob(j) ==
  /\ rows[j].status \in TERMINAL_JOB_STATUSES
  /\ ~Live(j) /\ \A c \in Clients : client[c].job # j
  /\ rows' = [rows EXCEPT ![j].status = "purged"]
  /\ UNCHANGED <<task, client, history>>

Next ==
  \/ \E j \in Jobs :
       \/ RunnerStep(j) \/ WorkReturns(j) \/ WorkRaises(j) \/ SessionFails(j)
       \/ PurgeJob(j)
  \/ \E c \in Clients :
       \/ ClientStep(c) \/ RequestFails(c)
       \/ \E k \in Kinds : EnqueueLooks(c, k)
       \/ \E j \in Jobs : RetryLooks(c, j) \/ CancelLooks(c, j)
  \/ Restart

(* The event loop runs every coroutine whose database call has returned.   *)
(* The work of a job may last for ever.                                    *)
Fairness ==
  /\ \A j \in Jobs : WF_vars(RunnerStep(j))
  /\ \A c \in Clients : WF_vars(ClientStep(c))

Spec == Init /\ [][Next]_vars /\ Fairness

-----------------------------------------------------------------------------
TypeOK ==
  /\ rows \in [Jobs -> Row]
  /\ task \in [Jobs -> Task]
  /\ client \in [Clients -> Request]
  /\ did \in [Jobs -> {"none", "begun", "finished", "raised"}]
  /\ cancels \in 0..MaxCancels
  /\ excused \subseteq Kinds
  /\ late \subseteq Jobs /\ unwritten \subseteq Jobs /\ lost \subseteq Jobs
  /\ restarts \in 0..MaxRestarts
  /\ broken \subseteq Jobs /\ faults \in 0..MaxFaults

Starting(j) == \E c \in Clients : client[c].at = "start" /\ client[c].job = j
Forsaken(j) == j \in late \cup lost \cup unwritten

(* A kind has one active row and one job at work at most, unless its       *)
(* exclusion was given up: a retry or an overlapping enqueue inserted      *)
(* beside an active row, or a cancellation settled a row whose task was    *)
(* not done (enqueue_job, the singleton check).                            *)
OneWorkPerKind ==
  \A k \in Kinds \ excused : \A i, j \in OfKind(k) :
    i # j => /\ ~(Working(i) /\ Working(j))
             /\ ~(Active(i) /\ Active(j))

(* A row that says active, and so blocks its kind, has a task that will    *)
(* settle it or a request about to start one, across restarts too, except  *)
(* rows left active by a restart, marked after their end, or whose handler *)
(* ended before its commit (_run_job, cancel_job, recover_stale_jobs).     *)
ActiveHasWorker ==
  \A j \in Jobs : Active(j) => Live(j) \/ Starting(j) \/ Forsaken(j)

(* What the row of a job nobody cancelled says once its task is gone is    *)
(* what its work did, or that a restart cut it short.  Where a session     *)
(* failed around the work, the row may say "failed" of work that never     *)
(* began or that finished; and a forsaken row may still say "running".     *)
Told(j) ==
  CASE did[j] = "none"     -> {"queued"}
    [] did[j] = "begun"    -> {"recovery_required"}
    [] did[j] = "finished" -> {"completed", "recovery_required"}
    [] did[j] = "raised"   -> {"failed", "recovery_required"}

RowTellsTheWork ==
  \A j \in Jobs :
    /\ ~rows[j].asked /\ ~Live(j) /\ ~Starting(j)
    /\ rows[j].status \notin {"absent", "purged"}
    => \/ rows[j].status \in Told(j)
       \/ rows[j].status = "failed" /\ j \in broken
       \/ rows[j].status = "running" /\ did[j] # "none" /\ Forsaken(j)

(* The list of jobs can be believed, but for those cases: every row that   *)
(* says active has a worker, and every other tells what the work did (the  *)
(* two above).                                                             *)
RowsHonest == TypeOK /\ ActiveHasWorker /\ RowTellsTheWork

(* A queued job is put to work, and a job whose work is over is settled,   *)
(* whatever is cancelled, unless it was forsaken in one of those three     *)
(* ways (_run_job and its handlers).                                       *)
JobSettles ==
  \A j \in Jobs : rows[j].status = "queued" \/ did[j] \in {"finished", "raised"}
                 ~> Working(j) \/ ~Active(j) \/ Forsaken(j)

(* The task of a job whose cancellation was committed ends, whichever      *)
(* await it is at and however long its work would last (cancel_job).       *)
CancelEndsTheTask ==
  \A j \in Jobs : rows[j].asked ~> ~Live(j)

(* The two together: jobs end, in their rows and in the runtime.           *)
JobsEnd == JobSettles /\ CancelEndsTheTask

(* What the rows report is justified by what the work did.                 *)
Lifecycle == INSTANCE JobLifecycle WITH
  report <- [j \in Jobs |-> rows[j].status],
  work   <- did,
  asked  <- {j \in Jobs : rows[j].asked},
  broken <- broken

(* The runtime implements the lifecycle of JobLifecycle.tla: whatever the  *)
(* order of the sessions' reads and commits, no row reports an end its     *)
(* work did not have, but "failed" where the runtime's own sessions failed.*)
ImplementsLifecycle == Lifecycle!Spec
=============================================================================
