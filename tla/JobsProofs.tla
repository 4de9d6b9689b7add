----------------------------- MODULE JobsProofs -----------------------------
(***************************************************************************)
(* Proofs about Jobs, for any sets of jobs, kinds and requests and any     *)
(* number of cancellations, restarts and failed sessions: the rows are     *)
(* honest, a kind has one work at a time unless its exclusion was given    *)
(* up, and the runtime implements JobLifecycle.                            *)
(***************************************************************************)
EXTENDS Jobs, TLAPS

(* What a row tells, wherever its task is.                                 *)
RowOK(j) ==
  /\ rows[j].status = "absent" =>
       rows[j] = NoRow /\ did[j] = "none" /\ task[j].at = "none"
  /\ rows[j].status # "absent" => rows[j].kind \in Kinds
  /\ rows[j].status \in {"cancelling", "cancelled"} => rows[j].asked
  /\ rows[j].status = "queued" => ~rows[j].asked /\ did[j] = "none"
  /\ rows[j].status \in {"running", "cancelling"} => did[j] # "none"

(* What the place of a task tells of its work and its row.                 *)
WorkOK(j) ==
  /\ task[j].at \in {"new", "loaded"} => did[j] = "none"
  /\ task[j].at = "working" => did[j] = "begun"
  /\ task[j].at \in {"worked", "finishing", "saved"} => did[j] = "finished"
  /\ task[j].at \in {"raised", "failing"} =>
       did[j] = "raised" \/ (j \in broken /\ did[j] \in {"none", "finished"})

PlaceOK(j) ==
  /\ task[j].at \in {"new", "loaded"} => rows[j].status \in {"queued", "cancelled"}
  /\ task[j].at = "loaded" => task[j].seen = "queued"
  /\ task[j].at \in {"working", "worked", "finishing"} =>
       rows[j].status \in {"running", "cancelling", "cancelled"}
  /\ task[j].at \in {"raised", "failing"} =>
       \/ rows[j].status \in {"running", "cancelling", "cancelled"}
       \/ rows[j].status = "queued" /\ j \in broken
  /\ task[j].at \in {"saved", "stopped", "cancelling"} => rows[j].status \notin {"absent", "purged"}
  /\ task[j].at \in {"stopped", "cancelling"} => rows[j].asked
  /\ task[j].at = "finishing" /\ task[j].asked => rows[j].asked
  /\ task[j].at = "failing" => task[j].seen # "failed"

(* A task that will write nothing, because it has read or written that its *)
(* job is settled, is right unless its row was marked after that.          *)
SettledOK(j) ==
  /\ task[j].at \in {"finishing", "cancelling"} /\ task[j].seen = "cancelled" => ~Active(j) \/ j \in late
  /\ task[j].at = "finishing" => task[j].seen # "completed"
  /\ task[j].at = "saved" => ~Active(j) \/ j \in late
  /\ task[j].at = "saved" /\ ~rows[j].asked => rows[j].status = "completed"

(* What a request has read or written.                                     *)
ClientOK(c) ==
  /\ client[c].at = "insert" => client[c].kind \in Kinds
  /\ client[c].at \in {"start", "mark", "interrupt"} =>
       client[c].job \in Jobs /\ rows[client[c].job].status \notin {"absent", "purged"}
  /\ client[c].at = "start" =>
       /\ rows[client[c].job].status \in {"queued", "cancelled"}
       /\ did[client[c].job] = "none" /\ task[client[c].job].at = "none"
  /\ client[c].at = "mark" /\ client[c].seen = "running" => did[client[c].job] # "none"
  /\ client[c].at = "interrupt" => rows[client[c].job].asked

OneStarter ==
  \A c, d \in Clients :
    client[c].at = "start" /\ client[d].at = "start" /\ client[c].job = client[d].job => c = d

(* Where the exclusion of a kind holds, a request that will insert a row   *)
(* has found its kind free, and a job at work is one that says so.         *)
InsertOK(c) ==
  client[c].at = "insert" /\ client[c].kind \notin excused =>
    /\ \A j \in OfKind(client[c].kind) : ~Active(j)
    /\ \A d \in Clients : client[d].at = "insert" /\ client[d].kind = client[c].kind => d = c

WorkActive(j) ==
  task[j].at \in {"loaded", "working"} /\ rows[j].kind \notin excused => Active(j)

OneActive ==
  \A i, j \in Jobs :
    Active(i) /\ Active(j) /\ rows[i].kind = rows[j].kind /\ rows[i].kind \notin excused => i = j

JobsOK    == \A j \in Jobs : RowOK(j) /\ WorkOK(j) /\ PlaceOK(j) /\ SettledOK(j)
ClientsOK == (\A c \in Clients : ClientOK(c)) /\ OneStarter
KindsOK   == (\A c \in Clients : InsertOK(c)) /\ (\A j \in Jobs : WorkActive(j)) /\ OneActive

IInv == TypeOK /\ JobsOK /\ ClientsOK /\ KindsOK /\ ActiveHasWorker /\ RowTellsTheWork

-----------------------------------------------------------------------------
(* The types of what the sessions read and write.                          *)
LEMMA StatusesListed ==
  /\ {"queued", "running", "cancelling", "completed", "failed", "cancelled",
      "recovery_required", "absent", "purged"} = Statuses
  /\ ACTIVE_JOB_STATUSES \subseteq Statuses /\ TERMINAL_JOB_STATUSES \subseteq Statuses
BY DEF Statuses, ACTIVE_JOB_STATUSES, TERMINAL_JOB_STATUSES

(* What may be written into a row.                                         *)
LEMMA RowTypes ==
  /\ \A r \in Row : r.kind \in Kinds \cup {None} /\ r.status \in Statuses /\ r.asked \in BOOLEAN
  /\ \A r \in Row, s \in Statuses : [r EXCEPT !.status = s] \in Row
  /\ \A r \in Row, s \in Statuses : [r EXCEPT !.status = s, !.asked = TRUE] \in Row
  /\ \A k \in Kinds : [kind |-> k, status |-> "queued", asked |-> FALSE] \in Row
BY StatusesListed DEF Row

(* What may be written into a task.                                        *)
LEMMA TaskTypes ==
  /\ \A t \in Task : t.at \in TaskPlaces /\ t.seen \in Statuses /\ t.asked \in BOOLEAN
  /\ \A p \in TaskPlaces : [NoTask EXCEPT !.at = p] \in Task
  /\ \A p \in TaskPlaces, s \in Statuses, a \in BOOLEAN :
       [at |-> p, seen |-> s, asked |-> a] \in Task
  /\ NoTask \in Task
BY StatusesListed DEF Task, NoTask, TaskPlaces

(* What may be written into a request.                                     *)
LEMMA RequestTypes ==
  /\ \A q \in Request : q.job \in Jobs \cup {None} /\ q.kind \in Kinds \cup {None} /\ q.seen \in Statuses
  /\ Idle \in Request
  /\ \A k \in Kinds \cup {None} : [Idle EXCEPT !.at = "insert", !.kind = k] \in Request
  /\ \A j \in Jobs : [Idle EXCEPT !.at = "start", !.job = j] \in Request
  /\ \A j \in Jobs, s \in Statuses : [Idle EXCEPT !.at = "mark", !.job = j, !.seen = s] \in Request
  /\ \A q \in Request : [q EXCEPT !.at = "interrupt"] \in Request
BY StatusesListed DEF Request, Idle

(* A task that goes on is a task.                                          *)
LEMMA GotoType ==
  ASSUME TypeOK, NEW j \in Jobs, NEW p \in TaskPlaces, Goto(j, p)
  PROVE  task' \in [Jobs -> Task]
BY TaskTypes DEF TypeOK, Goto

(* A task that has read its row is a task.                                 *)
LEMMA ReadType ==
  ASSUME TypeOK, NEW j \in Jobs, NEW p \in TaskPlaces, Read(j, p)
  PROVE  task' \in [Jobs -> Task]
BY TaskTypes, RowTypes DEF TypeOK, Read

(* A row whose status was committed is a row.                              *)
LEMMA SetStatusType ==
  ASSUME TypeOK, NEW j \in Jobs, NEW s \in Statuses, SetStatus(j, s)
  PROVE  rows' \in [Jobs -> Row]
BY RowTypes DEF TypeOK, SetStatus, Committed

(* What moving a task changes, and what it leaves.                         *)
LEMMA GotoEffect ==
  ASSUME TypeOK, NEW j \in Jobs, NEW p, Goto(j, p)
  PROVE  /\ task'[j].at = p /\ task'[j].seen = "absent" /\ ~task'[j].asked
         /\ \A i \in Jobs : i # j => task'[i] = task[i]
BY DEF TypeOK, Goto, NoTask

(* What reading the row changes, and what it leaves.                       *)
LEMMA ReadEffect ==
  ASSUME TypeOK, NEW j \in Jobs, NEW p, Read(j, p)
  PROVE  /\ task'[j].at = p /\ task'[j].seen = rows[j].status
         /\ task'[j].asked = rows[j].asked
         /\ \A i \in Jobs : i # j => task'[i] = task[i]
BY DEF TypeOK, Read

(* What committing the status changes, and what it leaves.                 *)
LEMMA SetStatusEffect ==
  ASSUME TypeOK, NEW j \in Jobs, NEW s, SetStatus(j, s)
  PROVE  /\ rows'[j].status = (IF task[j].seen = s THEN rows[j].status ELSE s)
         /\ rows'[j].kind = rows[j].kind /\ rows'[j].asked = rows[j].asked
         /\ \A i \in Jobs : i # j => rows'[i] = rows[i]
BY DEF TypeOK, SetStatus, Committed, Row

JobOK(i) == RowOK(i) /\ WorkOK(i) /\ PlaceOK(i) /\ SettledOK(i)

(* Nothing that is true of a job stops being true of it while its row, its *)
(* task and its work stay as they are.                                     *)
LEMMA UntouchedJob ==
  ASSUME JobsOK, NEW i \in Jobs, rows'[i] = rows[i], task'[i] = task[i],
         did'[i] = did[i], late \subseteq late', broken \subseteq broken'
  PROVE  JobOK(i)'
<1>1. RowOK(i) /\ WorkOK(i) /\ PlaceOK(i) /\ SettledOK(i)
  BY DEF JobsOK
<1>2. RowOK(i)' /\ SettledOK(i)'
  BY <1>1 DEF RowOK, SettledOK, Active, NoRow
<1>3. WorkOK(i)'
  BY <1>1 DEF WorkOK
<1>4. PlaceOK(i)'
  BY <1>1 DEF PlaceOK
<1>. QED
  BY <1>2, <1>3, <1>4 DEF JobOK

(* An interrupted task goes to its handler or ends; no task stays none.    *)
LEMMA AfterInterruptEffect ==
  ASSUME NEW p \in TaskPlaces
  PROVE  /\ AfterInterrupt(p) \in {"stopped", "done", "none"}
         /\ AfterInterrupt(p) = "none" => p = "none"
BY DEF AfterInterrupt, TaskPlaces, LivePlaces, InBody, InHandler

(* Every step preserves the types.                                         *)
LEMMA TypeStep ==
  IInv /\ [Next]_vars => TypeOK'
<1>. SUFFICES ASSUME IInv, [Next]_vars PROVE TypeOK'
  OBVIOUS
<1>. USE DEF IInv, TypeOK, history, TaskPlaces
<1>1. ASSUME NEW j \in Jobs, LoadJob(j) PROVE TypeOK'
  BY ReadType, <1>1 DEF LoadJob
<1>2. ASSUME NEW j \in Jobs, BeginWork(j) PROVE TypeOK'
  BY GotoType, SetStatusType, StatusesListed, <1>2 DEF BeginWork
<1>3. ASSUME NEW j \in Jobs, WorkReturns(j) PROVE TypeOK'
  BY GotoType, <1>3 DEF WorkReturns, Working
<1>4. ASSUME NEW j \in Jobs, WorkRaises(j) PROVE TypeOK'
  BY GotoType, <1>4 DEF WorkRaises, Working
<1>5. ASSUME NEW j \in Jobs, LoadAgain(j) PROVE TypeOK'
  BY ReadType, <1>5 DEF LoadAgain
<1>6. ASSUME NEW j \in Jobs, CommitResult(j) PROVE TypeOK'
  BY GotoType, SetStatusType, StatusesListed, <1>6 DEF CommitResult
<1>7. ASSUME NEW j \in Jobs, CommitFailure(j) PROVE TypeOK'
  BY GotoType, SetStatusType, StatusesListed, <1>7 DEF CommitFailure
<1>8. ASSUME NEW j \in Jobs, CommitCancelled(j) PROVE TypeOK'
  BY GotoType, SetStatusType, StatusesListed, <1>8 DEF CommitCancelled
<1>9. ASSUME NEW j \in Jobs, TaskReturns(j) PROVE TypeOK'
  BY GotoType, <1>9 DEF TaskReturns
<1>10. ASSUME NEW j \in Jobs, PurgeJob(j) PROVE TypeOK'
  BY RowTypes, StatusesListed, <1>10 DEF PurgeJob
<1>11. ASSUME NEW c \in Clients, InsertJob(c) PROVE TypeOK'
  <2>. DEFINE k == client[c].kind
  <2>1. PICK j \in Jobs : /\ rows' = [rows EXCEPT ![j] = [kind |-> k, status |-> "queued", asked |-> FALSE]]
                        /\ client' = [client EXCEPT ![c] = [Idle EXCEPT !.at = "start", !.job = j]]
                        /\ UNCHANGED <<task, history>>
    BY <1>11 DEF InsertJob, Absent
  <2>2. k \in Kinds
    BY <1>11 DEF InsertJob, ClientsOK, ClientOK
  <2>3. [kind |-> k, status |-> "queued", asked |-> FALSE] \in Row
    BY <2>2, RowTypes
  <2>4. [Idle EXCEPT !.at = "start", !.job = j] \in Request
    BY RequestTypes
  <2>. QED
    BY <2>1, <2>3, <2>4
<1>12. ASSUME NEW c \in Clients, StartJob(c) PROVE TypeOK'
  BY TaskTypes, RequestTypes, <1>12 DEF StartJob, ClientsOK, ClientOK, Live,
     LivePlaces
<1>13. ASSUME NEW c \in Clients, MarkCancel(c) PROVE TypeOK'
  <2>. DEFINE j == client[c].job
             s == MarkedStatus(client[c].seen)
  <2>1. j \in Jobs /\ rows[j].kind \in Kinds
    BY <1>13 DEF MarkCancel, ClientsOK, ClientOK, JobsOK, RowOK
  <2>2. s \in Statuses
    BY StatusesListed DEF MarkedStatus
  <2>3. rows' \in [Jobs -> Row]
    BY <1>13, <2>1, <2>2, RowTypes DEF MarkCancel
  <2>4. client' \in [Clients -> Request]
    BY <1>13, RequestTypes DEF MarkCancel
  <2>5. excused' \subseteq Kinds /\ late' \subseteq Jobs
    BY <1>13, <2>1 DEF MarkCancel
  <2>. QED
    BY <1>13, <2>3, <2>4, <2>5 DEF MarkCancel
<1>14. ASSUME NEW c \in Clients, InterruptTask(c) PROVE TypeOK'
  <2>. DEFINE j == client[c].job
  <2>1. j \in Jobs
    BY <1>14 DEF InterruptTask, ClientsOK, ClientOK
  <2>2. AfterInterrupt(task[j].at) \in TaskPlaces
    BY <2>1, TaskTypes DEF AfterInterrupt
  <2>3. task' \in [Jobs -> Task]
    BY <1>14, <2>1, <2>2, GotoType DEF InterruptTask
  <2>. QED
    BY <1>14, <2>1, <2>3, RequestTypes DEF InterruptTask
<1>15. ASSUME NEW c \in Clients, NEW k \in Kinds, EnqueueLooks(c, k) PROVE
   TypeOK'
  BY RequestTypes, RowTypes, <1>15 DEF EnqueueLooks, WillInsert
<1>16. ASSUME NEW c \in Clients, NEW j \in Jobs, RetryLooks(c, j) PROVE TypeOK'
  <2>1. rows[j].kind \in Kinds
    BY <1>16 DEF RetryLooks, JobsOK, RowOK, TERMINAL_JOB_STATUSES
  <2>2. excused' \subseteq Kinds
    BY <1>16, <2>1 DEF RetryLooks
  <2>3. client' \in [Clients -> Request]
    BY <1>16, <2>1, RequestTypes DEF RetryLooks, WillInsert
  <2>. QED
    BY <1>16, <2>2, <2>3 DEF RetryLooks, WillInsert
<1>17. ASSUME NEW c \in Clients, NEW j \in Jobs, CancelLooks(c, j) PROVE
   TypeOK'
  <2>1. cancels' \in 0..MaxCancels
    BY <1>17, BoundsAreNumbers DEF CancelLooks
  <2>2. client' \in [Clients -> Request]
    BY <1>17, RequestTypes, RowTypes DEF CancelLooks
  <2>. QED
    BY <1>17, <2>1, <2>2 DEF CancelLooks
<1>18. CASE Restart
  <2>1. restarts' \in 0..MaxRestarts
    BY <1>18, BoundsAreNumbers DEF Restart
  <2>2. \A j \in Jobs : Recovered(rows[j].status) \in Statuses
    BY RowTypes, StatusesListed DEF Recovered
  <2>6. [j \in Jobs |-> [rows[j] EXCEPT !.status = Recovered(@)]] \in [Jobs -> Row]
    BY <2>2, RowTypes
  <2>3. rows' \in [Jobs -> Row] /\ lost' \subseteq Jobs
    BY <1>18, <2>6 DEF Restart
  <2>5. faults' \in 0..MaxFaults
    BY <1>18, BoundsAreNumbers DEF Restart
  <2>4. task' \in [Jobs -> Task] /\ client' \in [Clients -> Request]
    BY <1>18, TaskTypes, RequestTypes DEF Restart
  <2>. QED
    BY <1>18, <2>1, <2>3, <2>4, <2>5 DEF Restart
<1>19. ASSUME NEW j \in Jobs, SessionFails(j) PROVE TypeOK'
  <2>1. faults' \in 0..MaxFaults
    BY <1>19, BoundsAreNumbers DEF SessionFails
  <2>2. task' \in [Jobs -> Task] /\ broken' \subseteq Jobs /\ unwritten' \subseteq Jobs
    BY <1>19, GotoType DEF SessionFails
  <2>. QED
    BY <1>19, <2>1, <2>2 DEF SessionFails
<1>20. ASSUME NEW c \in Clients, RequestFails(c) PROVE TypeOK'
  <2>1. faults' \in 0..MaxFaults
    BY <1>20, BoundsAreNumbers DEF RequestFails
  <2>. QED
    BY <1>20, <2>1, RequestTypes DEF RequestFails
<1>21. CASE UNCHANGED vars
  BY <1>21 DEF vars
<1>. HIDE DEF IInv, TypeOK, history, TaskPlaces
<1>. QED
  BY <1>1, <1>2, <1>3, <1>4, <1>5, <1>6, <1>7, <1>8, <1>9, <1>10, <1>11,
     <1>12, <1>13, <1>14, <1>15, <1>16, <1>17, <1>18, <1>19, <1>20, <1>21, Zenon DEF Next,
     RunnerStep, ClientStep

(* Every step keeps each row, its task and its work in agreement.          *)
LEMMA JobsStep ==
  IInv /\ [Next]_vars => JobsOK'
<1>. SUFFICES ASSUME IInv, [Next]_vars, NEW i \in Jobs PROVE JobOK(i)'
  BY DEF JobsOK, JobOK
<1>. TypeOK /\ JobsOK /\ ClientsOK
  BY DEF IInv
<1>1. ASSUME NEW j \in Jobs, LoadJob(j) PROVE JobOK(i)'
  <2>. JobOK(j)
    BY DEF JobsOK, JobOK
  <2>1. /\ task[j].at = "new" /\ task'[j].seen = rows[j].status
       /\ \/ task'[j].at = "done"
          \/ task'[j].at = "loaded" /\ rows[j].status \in {"queued", "running"}
    BY <1>1 DEF LoadJob, Read, TypeOK
  <2>2. rows' = rows /\ did' = did /\ late' = late /\ broken' = broken
    BY <1>1 DEF LoadJob, history
  <2>3. JobOK(j)'
    BY <2>1, <2>2 DEF JobOK, RowOK, WorkOK, PlaceOK, SettledOK, NoRow,
       Active, ACTIVE_JOB_STATUSES
  <2>. QED
    BY <1>1, <2>3, UntouchedJob, ReadEffect DEF LoadJob, history
<1>2. ASSUME NEW j \in Jobs, BeginWork(j) PROVE JobOK(i)'
  <2>. JobOK(j)
    BY DEF JobsOK, JobOK
  <2>1. task[j].at = "loaded" /\ task'[j].at = "working"
    BY <1>2, GotoEffect DEF BeginWork
  <2>2. rows'[j].status = "running" /\ rows'[j].kind = rows[j].kind /\ rows'[j].asked = rows[j].asked
    BY <1>2, SetStatusEffect DEF BeginWork, JobOK, PlaceOK
  <2>3. did'[j] = "begun" /\ late' = late /\ broken' = broken
    BY <1>2 DEF BeginWork, TypeOK
  <2>4. JobOK(j)'
    BY <2>1, <2>2, <2>3 DEF JobOK, RowOK, WorkOK, PlaceOK, SettledOK,
       NoRow, Active, ACTIVE_JOB_STATUSES
  <2>. QED
    BY <1>2, <2>4, UntouchedJob, GotoEffect, SetStatusEffect DEF BeginWork,
       TypeOK
<1>3. ASSUME NEW j \in Jobs, WorkReturns(j) PROVE JobOK(i)'
  <2>. JobOK(j)
    BY DEF JobsOK, JobOK
  <2>1. task[j].at = "working" /\ task'[j].at = "worked"
    BY <1>3, GotoEffect DEF WorkReturns, Working
  <2>2. did'[j] = "finished" /\ rows' = rows /\ late' = late /\ broken' = broken
    BY <1>3 DEF WorkReturns, TypeOK
  <2>3. JobOK(j)'
    BY <2>1, <2>2 DEF JobOK, RowOK, WorkOK, PlaceOK, SettledOK, NoRow,
       Active, ACTIVE_JOB_STATUSES
  <2>. QED
    BY <1>3, <2>3, UntouchedJob, GotoEffect DEF WorkReturns, TypeOK
<1>4. ASSUME NEW j \in Jobs, WorkRaises(j) PROVE JobOK(i)'
  <2>. JobOK(j)
    BY DEF JobsOK, JobOK
  <2>1. task[j].at = "working" /\ task'[j].at = "raised"
    BY <1>4, GotoEffect DEF WorkRaises, Working
  <2>2. did'[j] = "raised" /\ rows' = rows /\ late' = late /\ broken' = broken
    BY <1>4 DEF WorkRaises, TypeOK
  <2>3. JobOK(j)'
    BY <2>1, <2>2 DEF JobOK, RowOK, WorkOK, PlaceOK, SettledOK, NoRow,
       Active, ACTIVE_JOB_STATUSES
  <2>. QED
    BY <1>4, <2>3, UntouchedJob, GotoEffect DEF WorkRaises, TypeOK
<1>5. ASSUME NEW j \in Jobs, LoadAgain(j) PROVE JobOK(i)'
  <2>. JobOK(j)
    BY DEF JobsOK, JobOK
  <2>1. rows' = rows /\ did' = did /\ late' = late /\ broken' = broken
    BY <1>5 DEF LoadAgain, history
  <2>2. ASSUME task[j].at = "worked", Read(j, "finishing") PROVE JobOK(j)'
    BY <2>1, <2>2, ReadEffect DEF JobOK, RowOK, WorkOK, PlaceOK, SettledOK,
       NoRow, Active, ACTIVE_JOB_STATUSES
  <2>3. ASSUME task[j].at = "raised", Read(j, "failing") PROVE JobOK(j)'
    BY <2>1, <2>3, ReadEffect DEF JobOK, RowOK, WorkOK, PlaceOK, SettledOK,
       NoRow, Active, ACTIVE_JOB_STATUSES
  <2>4. ASSUME task[j].at = "stopped", Read(j, "cancelling") PROVE JobOK(j)'
    BY <2>1, <2>4, ReadEffect DEF JobOK, RowOK, WorkOK, PlaceOK, SettledOK,
       NoRow, Active, ACTIVE_JOB_STATUSES
  <2>5. JobOK(j)'
    BY <1>5, <2>2, <2>3, <2>4 DEF LoadAgain
  <2>. QED
    BY <1>5, <2>1, <2>5, UntouchedJob, ReadEffect DEF LoadAgain
<1>6. ASSUME NEW j \in Jobs, CommitResult(j) PROVE JobOK(i)'
  <2>. JobOK(j)
    BY DEF JobsOK, JobOK
  <2>1. task[j].at = "finishing" /\ task'[j].at = "saved"
    BY <1>6, GotoEffect DEF CommitResult
  <2>2. rows'[j].kind = rows[j].kind /\ rows'[j].asked = rows[j].asked
    BY <1>6, SetStatusEffect DEF CommitResult
  <2>3. did' = did /\ late' = late /\ broken' = broken
    BY <1>6 DEF CommitResult, history
  <2>4. ASSUME task[j].asked PROVE JobOK(j)'
    <3>1. \/ task[j].seen = "cancelled" /\ rows'[j].status = rows[j].status
          \/ rows'[j].status = "cancelled"
      BY <1>6, <2>4, SetStatusEffect DEF CommitResult
    <3>. QED
      BY <2>1, <2>2, <2>3, <2>4, <3>1 DEF JobOK, RowOK, WorkOK, PlaceOK,
         SettledOK, NoRow, Active, ACTIVE_JOB_STATUSES
  <2>5. ASSUME ~task[j].asked PROVE JobOK(j)'
    <3>1. rows'[j].status = "completed"
      BY <1>6, <2>5, SetStatusEffect DEF CommitResult, JobOK, SettledOK
    <3>. QED
      BY <2>1, <2>2, <2>3, <3>1 DEF JobOK, RowOK, WorkOK, PlaceOK,
         SettledOK, NoRow, Active, ACTIVE_JOB_STATUSES
  <2>. QED
    BY <1>6, <2>4, <2>5, UntouchedJob, GotoEffect, SetStatusEffect DEF
       CommitResult, history
<1>7. ASSUME NEW j \in Jobs, CommitFailure(j) PROVE JobOK(i)'
  <2>. JobOK(j)
    BY DEF JobsOK, JobOK
  <2>1. task[j].at = "failing" /\ task'[j].at = "done"
    BY <1>7, GotoEffect DEF CommitFailure
  <2>2. /\ rows'[j].status = IF task[j].seen = "failed" THEN rows[j].status ELSE "failed"
       /\ rows'[j].kind = rows[j].kind /\ rows'[j].asked = rows[j].asked
    BY <1>7, SetStatusEffect DEF CommitFailure
  <2>3. did' = did /\ late' = late /\ broken' = broken
    BY <1>7 DEF CommitFailure, history
  <2>4. JobOK(j)'
    BY <2>1, <2>2, <2>3 DEF JobOK, RowOK, WorkOK, PlaceOK, SettledOK,
       NoRow, Active, ACTIVE_JOB_STATUSES
  <2>. QED
    BY <1>7, <2>4, UntouchedJob, GotoEffect, SetStatusEffect DEF
       CommitFailure, history
<1>8. ASSUME NEW j \in Jobs, CommitCancelled(j) PROVE JobOK(i)'
  <2>. JobOK(j)
    BY DEF JobsOK, JobOK
  <2>1. task[j].at = "cancelling" /\ task'[j].at = "done"
    BY <1>8, GotoEffect DEF CommitCancelled
  <2>2. /\ rows'[j].status = IF task[j].seen = "cancelled" THEN rows[j].status ELSE "cancelled"
       /\ rows'[j].kind = rows[j].kind /\ rows'[j].asked = rows[j].asked
    BY <1>8, SetStatusEffect DEF CommitCancelled
  <2>3. did' = did /\ late' = late /\ broken' = broken
    BY <1>8 DEF CommitCancelled, history
  <2>4. JobOK(j)'
    BY <2>1, <2>2, <2>3 DEF JobOK, RowOK, WorkOK, PlaceOK, SettledOK,
       NoRow, Active, ACTIVE_JOB_STATUSES
  <2>. QED
    BY <1>8, <2>4, UntouchedJob, GotoEffect, SetStatusEffect DEF
       CommitCancelled, history
<1>9. ASSUME NEW j \in Jobs, TaskReturns(j) PROVE JobOK(i)'
  <2>. JobOK(j)
    BY DEF JobsOK, JobOK
  <2>1. task[j].at = "saved" /\ task'[j].at = "done"
    BY <1>9, GotoEffect DEF TaskReturns
  <2>2. rows' = rows /\ did' = did /\ late' = late /\ broken' = broken
    BY <1>9 DEF TaskReturns, history
  <2>3. JobOK(j)'
    BY <2>1, <2>2 DEF JobOK, RowOK, WorkOK, PlaceOK, SettledOK, NoRow,
       Active, ACTIVE_JOB_STATUSES
  <2>. QED
    BY <1>9, <2>3, UntouchedJob, GotoEffect DEF TaskReturns, history
<1>10. ASSUME NEW j \in Jobs, PurgeJob(j) PROVE JobOK(i)'
  <2>. JobOK(j)
    BY DEF JobsOK, JobOK
  <2>1. task' = task /\ did' = did /\ late' = late /\ broken' = broken /\ ~Live(j)
    BY <1>10 DEF PurgeJob, history
  <2>2. rows'[j].status = "purged" /\ rows'[j].kind = rows[j].kind /\ rows'[j].asked = rows[j].asked
    BY <1>10 DEF PurgeJob, TypeOK, Row
  <2>3. rows[j].status \in TERMINAL_JOB_STATUSES
    BY <1>10 DEF PurgeJob
  <2>4. JobOK(j)'
    BY <2>1, <2>2, <2>3 DEF JobOK, RowOK, WorkOK, PlaceOK, SettledOK,
       NoRow, Active, ACTIVE_JOB_STATUSES, TERMINAL_JOB_STATUSES, Live,
       LivePlaces, InBody, InHandler
  <2>. QED
    BY <1>10, <2>4, UntouchedJob DEF PurgeJob, history, TypeOK
<1>11. ASSUME NEW c \in Clients, InsertJob(c) PROVE JobOK(i)'
  <2>1. client[c].kind \in Kinds
    BY <1>11 DEF InsertJob, ClientsOK, ClientOK
  <2>2. PICK j \in Jobs :
          /\ rows[j].status = "absent"
          /\ rows' = [rows EXCEPT ![j] = [kind |-> client[c].kind, status |-> "queued", asked |-> FALSE]]
    BY <1>11 DEF InsertJob, Absent
  <2>3. rows'[j].status = "queued" /\ rows'[j].kind = client[c].kind /\ ~rows'[j].asked
    BY <2>2 DEF TypeOK
  <2>4. task' = task /\ did' = did /\ late' = late /\ broken' = broken
    BY <1>11 DEF InsertJob, history
  <2>. JobOK(j)
    BY DEF JobsOK, JobOK
  <2>5. JobOK(j)'
    BY <2>1, <2>2, <2>3, <2>4 DEF JobOK, RowOK, WorkOK, PlaceOK, SettledOK,
       NoRow, Active, ACTIVE_JOB_STATUSES
  <2>. QED
    BY <2>2, <2>4, <2>5, UntouchedJob DEF TypeOK
<1>12. ASSUME NEW c \in Clients, StartJob(c) PROVE JobOK(i)'
  <2>1. PICK j \in Jobs :
        /\ j = client[c].job
        /\ task[j].at = "none" /\ did[j] = "none"
        /\ rows[j].status \in {"queued", "cancelled"}
    BY <1>12 DEF StartJob, ClientsOK, ClientOK
  <2>2. task' = [task EXCEPT ![j] = [NoTask EXCEPT !.at = "new"]]
    BY <1>12, <2>1 DEF StartJob, Live, LivePlaces, InBody, InHandler
  <2>3. task'[j].at = "new" /\ rows' = rows /\ did' = did /\ late' = late /\ broken' = broken
    BY <1>12, <2>1, <2>2 DEF StartJob, TypeOK, NoTask, history
  <2>. JobOK(j)
    BY <2>1 DEF JobsOK, JobOK
  <2>4. JobOK(j)'
    BY <2>1, <2>3 DEF JobOK, RowOK, WorkOK, PlaceOK, SettledOK, NoRow,
       Active, ACTIVE_JOB_STATUSES
  <2>. QED
    BY <2>1, <2>2, <2>3, <2>4, UntouchedJob DEF TypeOK
<1>13. ASSUME NEW c \in Clients, MarkCancel(c) PROVE JobOK(i)'
  <2>1. PICK j \in Jobs :
        /\ j = client[c].job
        /\ rows[j].status \notin {"absent", "purged"}
        /\ client[c].seen = "running" => did[j] # "none"
    BY <1>13 DEF MarkCancel, ClientsOK, ClientOK
  <2>2. /\ rows'[j].status = IF client[c].seen = "running" THEN "cancelling" ELSE "cancelled"
        /\ rows'[j].kind = rows[j].kind /\ rows'[j].asked
        /\ \A k \in Jobs : k # j => rows'[k] = rows[k]
    BY <1>13, <2>1 DEF MarkCancel, MarkedStatus, TypeOK, Row
  <2>3. /\ task' = task /\ did' = did /\ late \subseteq late' /\ broken' = broken
        /\ ~Active(j) => j \in late'
    BY <1>13, <2>1 DEF MarkCancel
  <2>. JobOK(j)
    BY <2>1 DEF JobsOK, JobOK
  <2>4. JobOK(j)'
    BY <2>1, <2>2, <2>3 DEF JobOK, RowOK, WorkOK, PlaceOK, SettledOK,
       NoRow, Active, ACTIVE_JOB_STATUSES
  <2>. QED
    BY <2>1, <2>2, <2>3, <2>4, UntouchedJob
<1>14. ASSUME NEW c \in Clients, InterruptTask(c) PROVE JobOK(i)'
  <2>1. PICK j \in Jobs :
        /\ j = client[c].job
        /\ rows[j].status \notin {"absent", "purged"} /\ rows[j].asked
    BY <1>14 DEF InterruptTask, ClientsOK, ClientOK
  <2>2. /\ task'[j].at = AfterInterrupt(task[j].at)
        /\ \A k \in Jobs : k # j => task'[k] = task[k]
    BY <1>14, <2>1, GotoEffect DEF InterruptTask
  <2>3. rows' = rows /\ did' = did /\ late' = late /\ broken' = broken
    BY <1>14 DEF InterruptTask
  <2>4. task'[j].at \in {"stopped", "done"} \/ (task'[j].at = "none" /\ task[j].at = "none")
    <3>1. task[j].at \in TaskPlaces
      BY <2>1, TaskTypes DEF TypeOK
    <3>2. /\ AfterInterrupt(task[j].at) \in {"stopped", "done", "none"}
          /\ AfterInterrupt(task[j].at) = "none" => task[j].at = "none"
      BY <3>1, AfterInterruptEffect, Zenon
    <3>3. task'[j].at = AfterInterrupt(task[j].at)
      BY <2>2
    <3>. QED
      BY <3>2, <3>3
  <2>. JobOK(j)
    BY <2>1 DEF JobsOK, JobOK
  <2>5. JobOK(j)'
    BY <2>1, <2>3, <2>4 DEF JobOK, RowOK, WorkOK, PlaceOK, SettledOK,
       NoRow, Active, ACTIVE_JOB_STATUSES
  <2>. QED
    BY <2>1, <2>2, <2>3, <2>5, UntouchedJob
<1>15. ASSUME NEW c \in Clients, NEW k \in Kinds, EnqueueLooks(c, k) PROVE
   JobOK(i)'
  BY <1>15, UntouchedJob DEF EnqueueLooks, WillInsert, history
<1>16. ASSUME NEW c \in Clients, NEW j \in Jobs, RetryLooks(c, j) PROVE
   JobOK(i)'
  BY <1>16, UntouchedJob DEF RetryLooks, WillInsert, history
<1>17. ASSUME NEW c \in Clients, NEW j \in Jobs, CancelLooks(c, j) PROVE
   JobOK(i)'
  BY <1>17, UntouchedJob DEF CancelLooks, history
<1>18. CASE Restart
  <2>1. /\ rows'[i].status \in {rows[i].status, Recovered(rows[i].status)}
        /\ rows'[i].kind = rows[i].kind /\ rows'[i].asked = rows[i].asked
    BY <1>18 DEF Restart, TypeOK, Row
  <2>2. task'[i].at = "none" /\ did' = did /\ late' = late /\ broken' = broken
    BY <1>18 DEF Restart, NoTask
  <2>3. rows[i].status = "absent" => rows'[i] = NoRow
    <3>1. CASE rows' = rows
      BY <3>1 DEF JobsOK, RowOK
    <3>2. CASE rows' = [j \in Jobs |-> [rows[j] EXCEPT !.status = Recovered(@)]]
      BY <3>2 DEF JobsOK, RowOK, Recovered, NoRow
    <3>. QED
      BY <1>18, <3>1, <3>2 DEF Restart
  <2>. JobOK(i)
    BY DEF JobsOK, JobOK
  <2>. QED
    BY <2>1, <2>2, <2>3 DEF Recovered, JobOK, RowOK, WorkOK, PlaceOK, SettledOK
<1>19. ASSUME NEW j \in Jobs, SessionFails(j) PROVE JobOK(i)'
  <2>. JobOK(j)
    BY DEF JobsOK, JobOK
  <2>1. /\ rows' = rows /\ did' = did /\ late' = late /\ broken \subseteq broken'
        /\ \A k \in Jobs : k # j => task'[k] = task[k]
    BY <1>19, GotoEffect DEF SessionFails
  <2>2. ASSUME task[j].at \in {"new", "loaded", "worked", "finishing"}, Goto(j, "raised"),
               broken' = broken \cup {j}
        PROVE  JobOK(j)'
    <3>1. task'[j].at = "raised" /\ j \in broken'
      BY <2>2, GotoEffect
    <3>. QED
      BY <2>1, <2>2, <3>1 DEF JobOK, RowOK, WorkOK, PlaceOK, SettledOK
  <2>3. ASSUME task[j].at \in InHandler, Goto(j, "done") PROVE JobOK(j)'
    <3>1. task'[j].at = "done" /\ task[j].at # "none"
      BY <2>3, GotoEffect DEF InHandler
    <3>. QED
      BY <2>1, <3>1 DEF JobOK, RowOK, WorkOK, PlaceOK, SettledOK
  <2>4. JobOK(j)'
    BY <1>19, <2>2, <2>3 DEF SessionFails
  <2>. QED
    BY <2>1, <2>4, UntouchedJob
<1>20. ASSUME NEW c \in Clients, RequestFails(c) PROVE JobOK(i)'
  BY <1>20, UntouchedJob DEF RequestFails
<1>21. CASE UNCHANGED vars
  BY <1>21, UntouchedJob DEF vars, history
<1>. QED
  BY <1>1, <1>2, <1>3, <1>4, <1>5, <1>6, <1>7, <1>8, <1>9, <1>10, <1>11,
     <1>12, <1>13, <1>14, <1>15, <1>16, <1>17, <1>18, <1>19, <1>20, <1>21, Zenon DEF Next,
     RunnerStep, ClientStep

(* The requests are not concerned by what the runner does with a task that *)
(* exists and a row that stays.                                            *)
LEMMA RequestFrame ==
  ASSUME ClientsOK, NEW d \in Clients, NEW j \in Jobs, client' = client,
         \A i \in Jobs : i # j => rows'[i] = rows[i] /\ task'[i] = task[i] /\ did'[i] = did[i],
         rows'[j].status \notin {"absent", "purged"}, rows'[j].asked = rows[j].asked,
         task[j].at # "none", did[j] # "none" => did'[j] # "none"
  PROVE  ClientOK(d)'
BY DEF ClientsOK, ClientOK

(* Every step keeps what each request has read true.                       *)
LEMMA RequestsStep ==
  IInv /\ [Next]_vars => (\A c \in Clients : ClientOK(c))'
<1>. SUFFICES ASSUME IInv, [Next]_vars, NEW d \in Clients PROVE ClientOK(d)'
  OBVIOUS
<1>. TypeOK /\ JobsOK /\ ClientsOK
  BY DEF IInv
<1>1. ASSUME NEW j \in Jobs, LoadJob(j) PROVE ClientOK(d)'
  <2>1. /\ client' = client
        /\ \A i \in Jobs : i # j => rows'[i] = rows[i] /\ task'[i] = task[i] /\ did'[i] = did[i]
    BY <1>1, ReadEffect DEF LoadJob, history, Statuses
  <2>2. rows'[j].status \notin {"absent", "purged"} /\ rows'[j].asked = rows[j].asked
    BY <1>1, ReadEffect DEF LoadJob, history, Statuses, JobsOK, RowOK, PlaceOK
  <2>3. task[j].at # "none" /\ (did[j] # "none" => did'[j] # "none")
    BY <1>1 DEF LoadJob, history, Statuses
  <2>. QED
    BY <2>1, <2>2, <2>3, RequestFrame
<1>2. ASSUME NEW j \in Jobs, BeginWork(j) PROVE ClientOK(d)'
  <2>1. /\ client' = client
        /\ \A i \in Jobs : i # j => rows'[i] = rows[i] /\ task'[i] = task[i] /\ did'[i] = did[i]
    BY <1>2, GotoEffect, SetStatusEffect DEF BeginWork, history, TypeOK
  <2>2. rows'[j].status \notin {"absent", "purged"} /\ rows'[j].asked = rows[j].asked
    BY <1>2, GotoEffect, SetStatusEffect DEF BeginWork, history, TypeOK,
       JobsOK, RowOK, PlaceOK
  <2>3. task[j].at # "none" /\ (did[j] # "none" => did'[j] # "none")
    BY <1>2 DEF BeginWork, history, TypeOK
  <2>. QED
    BY <2>1, <2>2, <2>3, RequestFrame
<1>3. ASSUME NEW j \in Jobs, WorkReturns(j) PROVE ClientOK(d)'
  <2>1. /\ client' = client
        /\ \A i \in Jobs : i # j => rows'[i] = rows[i] /\ task'[i] = task[i] /\ did'[i] = did[i]
    BY <1>3, GotoEffect DEF WorkReturns, Working, TypeOK
  <2>2. rows'[j].status \notin {"absent", "purged"} /\ rows'[j].asked = rows[j].asked
    BY <1>3, GotoEffect DEF WorkReturns, Working, TypeOK, JobsOK, RowOK,
       PlaceOK
  <2>3. task[j].at # "none" /\ (did[j] # "none" => did'[j] # "none")
    BY <1>3 DEF WorkReturns, Working, TypeOK
  <2>. QED
    BY <2>1, <2>2, <2>3, RequestFrame
<1>4. ASSUME NEW j \in Jobs, WorkRaises(j) PROVE ClientOK(d)'
  <2>1. /\ client' = client
        /\ \A i \in Jobs : i # j => rows'[i] = rows[i] /\ task'[i] = task[i] /\ did'[i] = did[i]
    BY <1>4, GotoEffect DEF WorkRaises, Working, TypeOK
  <2>2. rows'[j].status \notin {"absent", "purged"} /\ rows'[j].asked = rows[j].asked
    BY <1>4, GotoEffect DEF WorkRaises, Working, TypeOK, JobsOK, RowOK, PlaceOK
  <2>3. task[j].at # "none" /\ (did[j] # "none" => did'[j] # "none")
    BY <1>4 DEF WorkRaises, Working, TypeOK
  <2>. QED
    BY <2>1, <2>2, <2>3, RequestFrame
<1>5. ASSUME NEW j \in Jobs, LoadAgain(j) PROVE ClientOK(d)'
  <2>1. /\ client' = client
        /\ \A i \in Jobs : i # j => rows'[i] = rows[i] /\ task'[i] = task[i] /\ did'[i] = did[i]
    BY <1>5, ReadEffect DEF LoadAgain, history, Statuses
  <2>2. rows'[j].status \notin {"absent", "purged"} /\ rows'[j].asked = rows[j].asked
    BY <1>5, ReadEffect DEF LoadAgain, history, Statuses, JobsOK, RowOK,
       PlaceOK
  <2>3. task[j].at # "none" /\ (did[j] # "none" => did'[j] # "none")
    BY <1>5 DEF LoadAgain, history, Statuses
  <2>. QED
    BY <2>1, <2>2, <2>3, RequestFrame
<1>6. ASSUME NEW j \in Jobs, CommitResult(j) PROVE ClientOK(d)'
  <2>1. /\ client' = client
        /\ \A i \in Jobs : i # j => rows'[i] = rows[i] /\ task'[i] = task[i] /\ did'[i] = did[i]
    BY <1>6, GotoEffect, SetStatusEffect DEF CommitResult, history, TypeOK
  <2>2. rows'[j].status \notin {"absent", "purged"} /\ rows'[j].asked = rows[j].asked
    BY <1>6, GotoEffect, SetStatusEffect DEF CommitResult, history, TypeOK,
       JobsOK, RowOK, PlaceOK
  <2>3. task[j].at # "none" /\ (did[j] # "none" => did'[j] # "none")
    BY <1>6 DEF CommitResult, history, TypeOK
  <2>. QED
    BY <2>1, <2>2, <2>3, RequestFrame
<1>7. ASSUME NEW j \in Jobs, CommitFailure(j) PROVE ClientOK(d)'
  <2>1. /\ client' = client
        /\ \A i \in Jobs : i # j => rows'[i] = rows[i] /\ task'[i] = task[i] /\ did'[i] = did[i]
    BY <1>7, GotoEffect, SetStatusEffect DEF CommitFailure, history, TypeOK
  <2>2. rows'[j].status \notin {"absent", "purged"} /\ rows'[j].asked = rows[j].asked
    BY <1>7, GotoEffect, SetStatusEffect DEF CommitFailure, history,
       TypeOK, JobsOK, RowOK, PlaceOK
  <2>3. task[j].at # "none" /\ (did[j] # "none" => did'[j] # "none")
    BY <1>7 DEF CommitFailure, history, TypeOK
  <2>. QED
    BY <2>1, <2>2, <2>3, RequestFrame
<1>8. ASSUME NEW j \in Jobs, CommitCancelled(j) PROVE ClientOK(d)'
  <2>1. /\ client' = client
        /\ \A i \in Jobs : i # j => rows'[i] = rows[i] /\ task'[i] = task[i] /\ did'[i] = did[i]
    BY <1>8, GotoEffect, SetStatusEffect DEF CommitCancelled, history, TypeOK
  <2>2. rows'[j].status \notin {"absent", "purged"} /\ rows'[j].asked = rows[j].asked
    BY <1>8, GotoEffect, SetStatusEffect DEF CommitCancelled, history,
       TypeOK, JobsOK, RowOK, PlaceOK
  <2>3. task[j].at # "none" /\ (did[j] # "none" => did'[j] # "none")
    BY <1>8 DEF CommitCancelled, history, TypeOK
  <2>. QED
    BY <2>1, <2>2, <2>3, RequestFrame
<1>9. ASSUME NEW j \in Jobs, TaskReturns(j) PROVE ClientOK(d)'
  <2>1. /\ client' = client
        /\ \A i \in Jobs : i # j => rows'[i] = rows[i] /\ task'[i] = task[i] /\ did'[i] = did[i]
    BY <1>9, GotoEffect DEF TaskReturns, history
  <2>2. rows'[j].status \notin {"absent", "purged"} /\ rows'[j].asked = rows[j].asked
    BY <1>9, GotoEffect DEF TaskReturns, history, JobsOK, RowOK, PlaceOK
  <2>3. task[j].at # "none" /\ (did[j] # "none" => did'[j] # "none")
    BY <1>9 DEF TaskReturns, history
  <2>. QED
    BY <2>1, <2>2, <2>3, RequestFrame
<1>10. ASSUME NEW j \in Jobs, PurgeJob(j) PROVE ClientOK(d)'
  BY <1>10 DEF PurgeJob, ClientsOK, ClientOK, TypeOK, history
<1>11. ASSUME NEW c \in Clients, InsertJob(c) PROVE ClientOK(d)'
  <2>1. PICK j \in Jobs :
          /\ rows[j].status = "absent"
          /\ rows' = [rows EXCEPT ![j] = [kind |-> client[c].kind, status |-> "queued", asked |-> FALSE]]
          /\ client' = [client EXCEPT ![c] = [Idle EXCEPT !.at = "start", !.job = j]]
          /\ task' = task /\ did' = did
    BY <1>11 DEF InsertJob, Absent, history
  <2>2. rows'[j].status = "queued" /\ did[j] = "none" /\ task[j].at = "none"
    BY <2>1 DEF TypeOK, JobsOK, RowOK
  <2>3. CASE d = c
    <3>1. client'[c].at = "start" /\ client'[c].job = j
      BY <2>1 DEF TypeOK, Idle
    <3>. QED
      BY <2>1, <2>2, <2>3, <3>1 DEF ClientOK
  <2>4. CASE d # c
    <3>1. client'[d] = client[d] /\ ClientOK(d)
      BY <2>1, <2>4 DEF TypeOK, ClientsOK
    <3>2. client[d].at \in {"start", "mark", "interrupt"} =>
            client[d].job \in Jobs /\ client[d].job # j
      BY <2>1, <3>1 DEF ClientOK
    <3>. QED
      BY <2>1, <3>1, <3>2 DEF ClientOK, TypeOK
  <2>. QED
    BY <2>3, <2>4
<1>12. ASSUME NEW c \in Clients, StartJob(c) PROVE ClientOK(d)'
  <2>1. PICK j \in Jobs :
        /\ j = client[c].job
        /\ task[j].at = "none"
    BY <1>12 DEF StartJob, ClientsOK, ClientOK
  <2>2. /\ rows' = rows /\ did' = did
        /\ \A i \in Jobs : i # j => task'[i] = task[i]
        /\ client' = [client EXCEPT ![c] = Idle]
    BY <1>12, <2>1 DEF StartJob, history, TypeOK
  <2>3. CASE d = c
    BY <2>2, <2>3 DEF ClientOK, TypeOK, Idle
  <2>4. CASE d # c
    <3>1. client'[d] = client[d] /\ ClientOK(d)
      BY <2>2, <2>4 DEF TypeOK, ClientsOK
    <3>2. client[d].at = "start" => client[d].job # j
      BY <1>12, <2>1, <2>4 DEF StartJob, ClientsOK, OneStarter
    <3>. QED
      BY <2>2, <3>1, <3>2 DEF ClientOK
  <2>. QED
    BY <2>3, <2>4
<1>13. ASSUME NEW c \in Clients, MarkCancel(c) PROVE ClientOK(d)'
  <2>1. PICK j \in Jobs :
        /\ j = client[c].job
        /\ rows[j].status \notin {"absent", "purged"}
        /\ client[c].seen = "running" => did[j] # "none"
    BY <1>13 DEF MarkCancel, ClientsOK, ClientOK
  <2>2. /\ rows'[j].status = IF client[c].seen = "running" THEN "cancelling" ELSE "cancelled"
        /\ rows'[j].asked
        /\ \A i \in Jobs : i # j => rows'[i] = rows[i]
    BY <1>13, <2>1 DEF MarkCancel, MarkedStatus, TypeOK, Row
  <2>3. task' = task /\ did' = did
    BY <1>13 DEF MarkCancel
  <2>4. CASE d = c
    <3>1. client'[c].at = "interrupt" /\ client'[c].job = j
      BY <1>13, <2>1 DEF MarkCancel, TypeOK, Request
    <3>. QED
      BY <2>1, <2>2, <2>4, <3>1 DEF ClientOK
  <2>5. CASE d # c
    <3>1. client'[d] = client[d] /\ ClientOK(d)
      BY <1>13, <2>5 DEF MarkCancel, TypeOK, ClientsOK
    <3>. QED
      BY <2>1, <2>2, <2>3, <3>1 DEF ClientOK
  <2>. QED
    BY <2>4, <2>5
<1>14. ASSUME NEW c \in Clients, InterruptTask(c) PROVE ClientOK(d)'
  <2>1. PICK j \in Jobs : j = client[c].job
    BY <1>14 DEF InterruptTask, ClientsOK, ClientOK
  <2>2. /\ task'[j].at = AfterInterrupt(task[j].at)
        /\ \A i \in Jobs : i # j => task'[i] = task[i]
    BY <1>14, <2>1, GotoEffect DEF InterruptTask
  <2>3. task[j].at = "none" => task'[j].at = "none"
    BY <2>2 DEF AfterInterrupt, InBody, LivePlaces, InHandler
  <2>4. rows' = rows /\ did' = did /\ client' = [client EXCEPT ![c] = Idle]
    BY <1>14 DEF InterruptTask
  <2>5. CASE d = c
    BY <2>4, <2>5 DEF ClientOK, TypeOK, Idle
  <2>6. CASE d # c
    <3>1. client'[d] = client[d] /\ ClientOK(d)
      BY <2>4, <2>6 DEF TypeOK, ClientsOK
    <3>. QED
      BY <2>2, <2>3, <2>4, <3>1 DEF ClientOK
  <2>. QED
    BY <2>5, <2>6
<1>15. ASSUME NEW c \in Clients, NEW k \in Kinds, EnqueueLooks(c, k) PROVE
   ClientOK(d)'
  <2>1. rows' = rows /\ task' = task /\ did' = did
    BY <1>15 DEF EnqueueLooks, WillInsert
  <2>2. CASE d = c
    <3>1. client'[c].at = "insert" /\ client'[c].kind = k
      BY <1>15 DEF EnqueueLooks, WillInsert, TypeOK, Idle
    <3>. QED
      BY <1>15, <2>1, <2>2, <3>1 DEF ClientOK
  <2>3. CASE d # c
    BY <1>15, <2>1, <2>3 DEF EnqueueLooks, WillInsert, ClientsOK, ClientOK,
       TypeOK
  <2>. QED
    BY <2>2, <2>3
<1>16. ASSUME NEW c \in Clients, NEW j \in Jobs, RetryLooks(c, j) PROVE
   ClientOK(d)'
  <2>1. rows' = rows /\ task' = task /\ did' = did
    BY <1>16 DEF RetryLooks, WillInsert
  <2>2. CASE d = c
    <3>1. client'[c].at = "insert" /\ client'[c].kind = rows[j].kind
      BY <1>16 DEF RetryLooks, WillInsert, TypeOK, Idle
    <3>. QED
      BY <1>16, <2>1, <2>2, <3>1 DEF ClientOK, RetryLooks, JobsOK, RowOK,
         TERMINAL_JOB_STATUSES
  <2>3. CASE d # c
    BY <1>16, <2>1, <2>3 DEF RetryLooks, WillInsert, ClientsOK, ClientOK,
       TypeOK
  <2>. QED
    BY <2>2, <2>3
<1>17. ASSUME NEW c \in Clients, NEW j \in Jobs, CancelLooks(c, j) PROVE
   ClientOK(d)'
  <2>1. rows' = rows /\ task' = task /\ did' = did
    BY <1>17 DEF CancelLooks, Active
  <2>2. CASE d = c
    <3>1. /\ client'[c].at = "mark" /\ client'[c].job = j
          /\ client'[c].seen = rows[j].status
      BY <1>17 DEF CancelLooks, Active, TypeOK, Idle
    <3>. QED
      BY <1>17, <2>1, <2>2, <3>1 DEF ClientOK, CancelLooks, JobsOK,
         RowOK, Active, ACTIVE_JOB_STATUSES
  <2>3. CASE d # c
    BY <1>17, <2>1, <2>3 DEF CancelLooks, Active, ClientsOK, ClientOK, TypeOK
  <2>. QED
    BY <2>2, <2>3
<1>18. CASE Restart
  BY <1>18 DEF Restart, ClientOK, Idle
<1>19. ASSUME NEW j \in Jobs, SessionFails(j) PROVE ClientOK(d)'
  <2>1. /\ client' = client /\ rows' = rows /\ did' = did
        /\ \A i \in Jobs : i # j => task'[i] = task[i]
        /\ task[j].at \in LivePlaces
    BY <1>19, GotoEffect DEF SessionFails, LivePlaces, InBody
  <2>2. rows'[j].status \notin {"absent", "purged"} /\ task[j].at # "none"
    BY <2>1 DEF JobsOK, RowOK, PlaceOK, LivePlaces, InBody, InHandler
  <2>. QED
    BY <2>1, <2>2, RequestFrame
<1>20. ASSUME NEW c \in Clients, RequestFails(c) PROVE ClientOK(d)'
  BY <1>20 DEF RequestFails, ClientsOK, ClientOK, TypeOK, Idle
<1>21. CASE UNCHANGED vars
  BY <1>21 DEF vars, ClientsOK, ClientOK
<1>. QED
  BY <1>1, <1>2, <1>3, <1>4, <1>5, <1>6, <1>7, <1>8, <1>9, <1>10, <1>11,
     <1>12, <1>13, <1>14, <1>15, <1>16, <1>17, <1>18, <1>19, <1>20, <1>21, Zenon DEF Next,
     RunnerStep, ClientStep

(* No two requests are ever about to start one job.                        *)
LEMMA StarterStep ==
  IInv /\ [Next]_vars => OneStarter'
<1>. SUFFICES ASSUME IInv, [Next]_vars PROVE OneStarter'
  OBVIOUS
<1>. TypeOK /\ ClientsOK /\ OneStarter
  BY DEF IInv, ClientsOK
<1>1. ASSUME NEW j \in Jobs, LoadJob(j) PROVE OneStarter'
  BY <1>1 DEF LoadJob, history, OneStarter
<1>2. ASSUME NEW j \in Jobs, BeginWork(j) PROVE OneStarter'
  BY <1>2 DEF BeginWork, history, OneStarter
<1>3. ASSUME NEW j \in Jobs, WorkReturns(j) PROVE OneStarter'
  BY <1>3 DEF WorkReturns, history, OneStarter
<1>4. ASSUME NEW j \in Jobs, WorkRaises(j) PROVE OneStarter'
  BY <1>4 DEF WorkRaises, history, OneStarter
<1>5. ASSUME NEW j \in Jobs, LoadAgain(j) PROVE OneStarter'
  BY <1>5 DEF LoadAgain, history, OneStarter
<1>6. ASSUME NEW j \in Jobs, CommitResult(j) PROVE OneStarter'
  BY <1>6 DEF CommitResult, history, OneStarter
<1>7. ASSUME NEW j \in Jobs, CommitFailure(j) PROVE OneStarter'
  BY <1>7 DEF CommitFailure, history, OneStarter
<1>8. ASSUME NEW j \in Jobs, CommitCancelled(j) PROVE OneStarter'
  BY <1>8 DEF CommitCancelled, history, OneStarter
<1>9. ASSUME NEW j \in Jobs, TaskReturns(j) PROVE OneStarter'
  BY <1>9 DEF TaskReturns, history, OneStarter
<1>10. ASSUME NEW j \in Jobs, PurgeJob(j) PROVE OneStarter'
  BY <1>10 DEF PurgeJob, history, OneStarter
<1>11. ASSUME NEW c \in Clients, InsertJob(c) PROVE OneStarter'
  <2>1. PICK j \in Jobs :
          /\ rows[j].status = "absent"
          /\ client' = [client EXCEPT ![c] = [Idle EXCEPT !.at = "start", !.job = j]]
    BY <1>11 DEF InsertJob, Absent
  <2>2. \A d \in Clients : client[d].at = "start" => client[d].job # j
    BY <2>1 DEF ClientsOK, ClientOK
  <2>. QED
    BY <2>1, <2>2 DEF OneStarter, TypeOK, Idle
<1>12. ASSUME NEW c \in Clients, StartJob(c) PROVE OneStarter'
  BY <1>12 DEF StartJob, Idle, OneStarter, TypeOK
<1>13. ASSUME NEW c \in Clients, MarkCancel(c) PROVE OneStarter'
  BY <1>13 DEF MarkCancel, OneStarter, TypeOK, Request
<1>14. ASSUME NEW c \in Clients, InterruptTask(c) PROVE OneStarter'
  BY <1>14 DEF InterruptTask, Idle, OneStarter, TypeOK
<1>15. ASSUME NEW c \in Clients, NEW k \in Kinds, EnqueueLooks(c, k) PROVE
   OneStarter'
  BY <1>15 DEF EnqueueLooks, WillInsert, Idle, OneStarter, TypeOK
<1>16. ASSUME NEW c \in Clients, NEW j \in Jobs, RetryLooks(c, j) PROVE
   OneStarter'
  BY <1>16 DEF RetryLooks, WillInsert, Idle, OneStarter, TypeOK
<1>17. ASSUME NEW c \in Clients, NEW j \in Jobs, CancelLooks(c, j) PROVE
   OneStarter'
  BY <1>17 DEF CancelLooks, Idle, OneStarter, TypeOK
<1>18. CASE Restart
  BY <1>18 DEF Restart, OneStarter, Idle
<1>19. ASSUME NEW j \in Jobs, SessionFails(j) PROVE OneStarter'
  BY <1>19 DEF SessionFails, OneStarter
<1>20. ASSUME NEW c \in Clients, RequestFails(c) PROVE OneStarter'
  BY <1>20 DEF RequestFails, Idle, OneStarter, TypeOK
<1>21. CASE UNCHANGED vars
  BY <1>21 DEF vars, OneStarter
<1>. QED
  BY <1>1, <1>2, <1>3, <1>4, <1>5, <1>6, <1>7, <1>8, <1>9, <1>10, <1>11,
     <1>12, <1>13, <1>14, <1>15, <1>16, <1>17, <1>18, <1>19, <1>20, <1>21, Zenon DEF Next,
     RunnerStep, ClientStep

(* A step that makes no job active, and gives no request a kind to insert, *)
(* leaves every exclusion as it was.                                       *)
LEMMA QuietStep ==
  ASSUME KindsOK, excused \subseteq excused',
         \A j \in Jobs : rows'[j].kind = rows[j].kind,
         \A j \in Jobs : Active(j)' /\ rows[j].kind \notin excused' => Active(j),
         \A c \in Clients : client'[c].at = "insert" => client'[c] = client[c],
         \A j \in Jobs : WorkActive(j)'
  PROVE  KindsOK'
BY DEF KindsOK, InsertOK, OneActive, OfKind

(* Every step keeps the exclusions that were not given up.                 *)
LEMMA KindsStep ==
  IInv /\ [Next]_vars => KindsOK'
<1>. SUFFICES ASSUME IInv, [Next]_vars PROVE KindsOK'
  OBVIOUS
<1>. TypeOK /\ JobsOK /\ ClientsOK /\ KindsOK
  BY DEF IInv
<1>1. ASSUME NEW j \in Jobs, LoadJob(j) PROVE KindsOK'
  <2>1. /\ excused' = excused /\ client' = client
        /\ \A i \in Jobs : rows'[i].kind = rows[i].kind
        /\ \A i \in Jobs : i # j => rows'[i] = rows[i] /\ task'[i] = task[i]
    BY <1>1, ReadEffect DEF LoadJob, history
  <2>2. Active(j)' /\ rows[j].kind \notin excused => Active(j)
    BY <1>1, ReadEffect DEF LoadJob, history, JobsOK, SettledOK, KindsOK,
       WorkActive, Active, ACTIVE_JOB_STATUSES
  <2>3. WorkActive(j)'
    BY <1>1, ReadEffect DEF LoadJob, history, JobsOK, RowOK, PlaceOK,
       WorkActive, Active, ACTIVE_JOB_STATUSES
  <2>. QED
    BY <2>1, <2>2, <2>3, QuietStep DEF KindsOK, WorkActive, Active
<1>2. ASSUME NEW j \in Jobs, BeginWork(j) PROVE KindsOK'
  <2>1. /\ excused' = excused /\ client' = client
        /\ \A i \in Jobs : rows'[i].kind = rows[i].kind
        /\ \A i \in Jobs : i # j => rows'[i] = rows[i] /\ task'[i] = task[i]
    BY <1>2, GotoEffect, SetStatusEffect DEF BeginWork, history
  <2>2. Active(j)' /\ rows[j].kind \notin excused => Active(j)
    BY <1>2, GotoEffect, SetStatusEffect DEF BeginWork, history, JobsOK,
       SettledOK, KindsOK, WorkActive, Active, ACTIVE_JOB_STATUSES
  <2>3. WorkActive(j)'
    BY <1>2, GotoEffect, SetStatusEffect DEF BeginWork, history, JobsOK,
       RowOK, PlaceOK, WorkActive, Active, ACTIVE_JOB_STATUSES
  <2>. QED
    BY <2>1, <2>2, <2>3, QuietStep DEF KindsOK, WorkActive, Active
<1>3. ASSUME NEW j \in Jobs, WorkReturns(j) PROVE KindsOK'
  <2>1. /\ excused' = excused /\ client' = client
        /\ \A i \in Jobs : rows'[i].kind = rows[i].kind
        /\ \A i \in Jobs : i # j => rows'[i] = rows[i] /\ task'[i] = task[i]
    BY <1>3, GotoEffect DEF WorkReturns, Working, TypeOK
  <2>2. Active(j)' /\ rows[j].kind \notin excused => Active(j)
    BY <1>3, GotoEffect DEF WorkReturns, Working, TypeOK, JobsOK,
       SettledOK, KindsOK, WorkActive, Active, ACTIVE_JOB_STATUSES
  <2>3. WorkActive(j)'
    BY <1>3, GotoEffect DEF WorkReturns, Working, TypeOK, JobsOK, RowOK,
       PlaceOK, WorkActive, Active, ACTIVE_JOB_STATUSES
  <2>. QED
    BY <2>1, <2>2, <2>3, QuietStep DEF KindsOK, WorkActive, Active
<1>4. ASSUME NEW j \in Jobs, WorkRaises(j) PROVE KindsOK'
  <2>1. /\ excused' = excused /\ client' = client
        /\ \A i \in Jobs : rows'[i].kind = rows[i].kind
        /\ \A i \in Jobs : i # j => rows'[i] = rows[i] /\ task'[i] = task[i]
    BY <1>4, GotoEffect DEF WorkRaises, Working, TypeOK
  <2>2. Active(j)' /\ rows[j].kind \notin excused => Active(j)
    BY <1>4, GotoEffect DEF WorkRaises, Working, TypeOK, JobsOK, SettledOK,
       KindsOK, WorkActive, Active, ACTIVE_JOB_STATUSES
  <2>3. WorkActive(j)'
    BY <1>4, GotoEffect DEF WorkRaises, Working, TypeOK, JobsOK, RowOK,
       PlaceOK, WorkActive, Active, ACTIVE_JOB_STATUSES
  <2>. QED
    BY <2>1, <2>2, <2>3, QuietStep DEF KindsOK, WorkActive, Active
<1>5. ASSUME NEW j \in Jobs, LoadAgain(j) PROVE KindsOK'
  <2>1. /\ excused' = excused /\ client' = client
        /\ \A i \in Jobs : rows'[i].kind = rows[i].kind
        /\ \A i \in Jobs : i # j => rows'[i] = rows[i] /\ task'[i] = task[i]
    BY <1>5, ReadEffect DEF LoadAgain, history
  <2>2. Active(j)' /\ rows[j].kind \notin excused => Active(j)
    BY <1>5, ReadEffect DEF LoadAgain, history, JobsOK, SettledOK, KindsOK,
       WorkActive, Active, ACTIVE_JOB_STATUSES
  <2>3. WorkActive(j)'
    BY <1>5, ReadEffect DEF LoadAgain, history, JobsOK, RowOK, PlaceOK,
       WorkActive, Active, ACTIVE_JOB_STATUSES
  <2>. QED
    BY <2>1, <2>2, <2>3, QuietStep DEF KindsOK, WorkActive, Active
<1>6. ASSUME NEW j \in Jobs, CommitResult(j) PROVE KindsOK'
  <2>1. /\ excused' = excused /\ client' = client
        /\ \A i \in Jobs : rows'[i].kind = rows[i].kind
        /\ \A i \in Jobs : i # j => rows'[i] = rows[i] /\ task'[i] = task[i]
    BY <1>6, GotoEffect, SetStatusEffect DEF CommitResult, history
  <2>2. Active(j)' /\ rows[j].kind \notin excused => Active(j)
    BY <1>6, GotoEffect, SetStatusEffect DEF CommitResult, history, JobsOK,
       SettledOK, KindsOK, WorkActive, Active, ACTIVE_JOB_STATUSES
  <2>3. WorkActive(j)'
    BY <1>6, GotoEffect, SetStatusEffect DEF CommitResult, history, JobsOK,
       RowOK, PlaceOK, WorkActive, Active, ACTIVE_JOB_STATUSES
  <2>. QED
    BY <2>1, <2>2, <2>3, QuietStep DEF KindsOK, WorkActive, Active
<1>7. ASSUME NEW j \in Jobs, CommitFailure(j) PROVE KindsOK'
  <2>1. /\ excused' = excused /\ client' = client
        /\ \A i \in Jobs : rows'[i].kind = rows[i].kind
        /\ \A i \in Jobs : i # j => rows'[i] = rows[i] /\ task'[i] = task[i]
    BY <1>7, GotoEffect, SetStatusEffect DEF CommitFailure, history
  <2>2. Active(j)' /\ rows[j].kind \notin excused => Active(j)
    BY <1>7, GotoEffect, SetStatusEffect DEF CommitFailure, history,
       JobsOK, SettledOK, KindsOK, WorkActive, Active, ACTIVE_JOB_STATUSES
  <2>3. WorkActive(j)'
    BY <1>7, GotoEffect, SetStatusEffect DEF CommitFailure, history,
       JobsOK, RowOK, PlaceOK, WorkActive, Active, ACTIVE_JOB_STATUSES
  <2>. QED
    BY <2>1, <2>2, <2>3, QuietStep DEF KindsOK, WorkActive, Active
<1>8. ASSUME NEW j \in Jobs, CommitCancelled(j) PROVE KindsOK'
  <2>1. /\ excused' = excused /\ client' = client
        /\ \A i \in Jobs : rows'[i].kind = rows[i].kind
        /\ \A i \in Jobs : i # j => rows'[i] = rows[i] /\ task'[i] = task[i]
    BY <1>8, GotoEffect, SetStatusEffect DEF CommitCancelled, history
  <2>2. Active(j)' /\ rows[j].kind \notin excused => Active(j)
    BY <1>8, GotoEffect, SetStatusEffect DEF CommitCancelled, history,
       JobsOK, SettledOK, KindsOK, WorkActive, Active, ACTIVE_JOB_STATUSES
  <2>3. WorkActive(j)'
    BY <1>8, GotoEffect, SetStatusEffect DEF CommitCancelled, history,
       JobsOK, RowOK, PlaceOK, WorkActive, Active, ACTIVE_JOB_STATUSES
  <2>. QED
    BY <2>1, <2>2, <2>3, QuietStep DEF KindsOK, WorkActive, Active
<1>9. ASSUME NEW j \in Jobs, TaskReturns(j) PROVE KindsOK'
  <2>1. /\ excused' = excused /\ client' = client
        /\ \A i \in Jobs : rows'[i].kind = rows[i].kind
        /\ \A i \in Jobs : i # j => rows'[i] = rows[i] /\ task'[i] = task[i]
    BY <1>9, GotoEffect DEF TaskReturns, history
  <2>2. Active(j)' /\ rows[j].kind \notin excused => Active(j)
    BY <1>9, GotoEffect DEF TaskReturns, history, JobsOK, SettledOK,
       KindsOK, WorkActive, Active, ACTIVE_JOB_STATUSES
  <2>3. WorkActive(j)'
    BY <1>9, GotoEffect DEF TaskReturns, history, JobsOK, RowOK, PlaceOK,
       WorkActive, Active, ACTIVE_JOB_STATUSES
  <2>. QED
    BY <2>1, <2>2, <2>3, QuietStep DEF KindsOK, WorkActive, Active
<1>10. ASSUME NEW j \in Jobs, PurgeJob(j) PROVE KindsOK'
  <2>1. /\ excused' = excused /\ client' = client
        /\ \A i \in Jobs : rows'[i].kind = rows[i].kind
        /\ \A i \in Jobs : i # j => rows'[i] = rows[i] /\ task'[i] = task[i]
    BY <1>10 DEF PurgeJob, history, TypeOK, Row, TERMINAL_JOB_STATUSES,
       Live, LivePlaces, InBody, InHandler
  <2>2. Active(j)' /\ rows[j].kind \notin excused => Active(j)
    BY <1>10 DEF PurgeJob, history, TypeOK, Row, TERMINAL_JOB_STATUSES,
       Live, LivePlaces, InBody, InHandler, JobsOK, SettledOK, KindsOK,
       WorkActive, Active, ACTIVE_JOB_STATUSES
  <2>3. WorkActive(j)'
    BY <1>10 DEF PurgeJob, history, TypeOK, Row, TERMINAL_JOB_STATUSES,
       Live, LivePlaces, InBody, InHandler, JobsOK, RowOK, PlaceOK,
       WorkActive, Active, ACTIVE_JOB_STATUSES
  <2>. QED
    BY <2>1, <2>2, <2>3, QuietStep DEF KindsOK, WorkActive, Active
<1>11. ASSUME NEW c \in Clients, InsertJob(c) PROVE KindsOK'
  <2>. DEFINE k == client[c].kind
  <2>1. PICK j \in Jobs :
          /\ rows[j].status = "absent"
          /\ rows' = [rows EXCEPT ![j] = [kind |-> k, status |-> "queued", asked |-> FALSE]]
          /\ client' = [client EXCEPT ![c] = [Idle EXCEPT !.at = "start", !.job = j]]
    BY <1>11 DEF InsertJob, Absent
  <2>2. rows'[j].status = "queued" /\ rows'[j].kind = k
    BY <2>1 DEF TypeOK
  <2>3. \A i \in Jobs : i # j => rows'[i] = rows[i]
    BY <2>1 DEF TypeOK
  <2>4. task' = task /\ excused' = excused
    BY <1>11 DEF InsertJob, history
  <2>5. client[c].at = "insert" /\ InsertOK(c)
    BY <1>11 DEF InsertJob, KindsOK
  <2>6. client'[c].at # "insert" /\ \A d \in Clients : d # c => client'[d] = client[d]
    BY <2>1 DEF TypeOK, Idle
  <2>7. \A d \in Clients : InsertOK(d)'
    BY <2>2, <2>3, <2>4, <2>5, <2>6 DEF KindsOK, InsertOK, OfKind, Active
  <2>8. \A i \in Jobs : WorkActive(i)'
    BY <2>1, <2>2, <2>3, <2>4 DEF KindsOK, WorkActive, Active,
       ACTIVE_JOB_STATUSES
  <2>9. OneActive'
    BY <2>2, <2>3, <2>4, <2>5 DEF KindsOK, OneActive, InsertOK, OfKind, Active
  <2>. QED
    BY <2>7, <2>8, <2>9 DEF KindsOK
<1>12. ASSUME NEW c \in Clients, StartJob(c) PROVE KindsOK'
  <2>1. rows' = rows /\ excused' = excused
    BY <1>12 DEF StartJob, history
  <2>2. \A d \in Clients : client'[d].at = "insert" => client'[d] = client[d]
    BY <1>12 DEF StartJob, TypeOK, Idle
  <2>3. \A i \in Jobs : task'[i].at \in {"loaded", "working"} => task'[i] = task[i]
    BY <1>12 DEF StartJob, TypeOK, NoTask
  <2>. QED
    BY <2>1, <2>2, <2>3, QuietStep DEF KindsOK, WorkActive, Active
<1>13. ASSUME NEW c \in Clients, MarkCancel(c) PROVE KindsOK'
  <2>1. PICK j \in Jobs : j = client[c].job
    BY <1>13 DEF MarkCancel, ClientsOK, ClientOK
  <2>2. /\ rows'[j].status = MarkedStatus(client[c].seen) /\ rows'[j].kind = rows[j].kind
        /\ \A i \in Jobs : i # j => rows'[i] = rows[i]
    BY <1>13, <2>1 DEF MarkCancel, TypeOK, Row
  <2>3. /\ excused \subseteq excused' /\ task' = task
        /\ ~Active(j) => rows[j].kind \in excused'
        /\ MarkedStatus(client[c].seen) = "cancelled" /\ Live(j) => rows[j].kind \in excused'
    BY <1>13, <2>1 DEF MarkCancel
  <2>4. \A d \in Clients : client'[d].at = "insert" => client'[d] = client[d]
    BY <1>13 DEF MarkCancel, TypeOK, Request
  <2>5. WorkActive(j)'
    BY <2>2, <2>3 DEF MarkedStatus, WorkActive, Active,
       ACTIVE_JOB_STATUSES, Live, LivePlaces, InBody
  <2>. QED
    BY <2>2, <2>3, <2>4, <2>5, QuietStep DEF KindsOK, WorkActive, Active
<1>14. ASSUME NEW c \in Clients, InterruptTask(c) PROVE KindsOK'
  <2>1. PICK j \in Jobs : j = client[c].job
    BY <1>14 DEF InterruptTask, ClientsOK, ClientOK
  <2>2. /\ task'[j].at = AfterInterrupt(task[j].at)
        /\ \A i \in Jobs : i # j => task'[i] = task[i]
    BY <1>14, <2>1, GotoEffect DEF InterruptTask
  <2>3. task'[j].at \notin {"loaded", "working"}
    BY <2>2 DEF AfterInterrupt, InBody, LivePlaces, InHandler
  <2>4. rows' = rows /\ excused' = excused
    BY <1>14 DEF InterruptTask
  <2>5. \A d \in Clients : client'[d].at = "insert" => client'[d] = client[d]
    BY <1>14 DEF InterruptTask, TypeOK, Idle
  <2>. QED
    BY <2>2, <2>3, <2>4, <2>5, QuietStep DEF KindsOK, WorkActive, Active
<1>15. ASSUME NEW c \in Clients, NEW k \in Kinds, EnqueueLooks(c, k) PROVE
   KindsOK'
  <2>1. rows' = rows /\ task' = task /\ excused \subseteq excused'
    BY <1>15 DEF EnqueueLooks, WillInsert
  <2>2. /\ client[c].at = "idle" /\ client'[c].kind = k
        /\ \A d \in Clients : d # c => client'[d] = client[d]
    BY <1>15 DEF EnqueueLooks, WillInsert, Idle, TypeOK
  <2>3. k \notin excused' =>
          /\ \A i \in OfKind(k) : ~Active(i)
          /\ \A d \in Clients : client[d].at = "insert" => client[d].kind # k
    BY <1>15 DEF EnqueueLooks, Overlaps
  <2>4. \A d \in Clients : InsertOK(d)'
    BY <2>1, <2>2, <2>3 DEF KindsOK, InsertOK, OfKind, Active
  <2>. QED
    BY <2>1, <2>4 DEF KindsOK, WorkActive, OneActive, Active
<1>16. ASSUME NEW c \in Clients, NEW j \in Jobs, RetryLooks(c, j) PROVE
   KindsOK'
  <2>1. rows' = rows /\ task' = task /\ excused \subseteq excused'
    BY <1>16 DEF RetryLooks, WillInsert
  <2>2. /\ client[c].at = "idle" /\ client'[c].kind = rows[j].kind
        /\ \A d \in Clients : d # c => client'[d] = client[d]
    BY <1>16 DEF RetryLooks, WillInsert, Idle, TypeOK
  <2>3. rows[j].kind \notin excused' =>
          /\ \A i \in OfKind(rows[j].kind) : ~Active(i)
          /\ \A d \in Clients : client[d].at = "insert" => client[d].kind # rows[j].kind
    BY <1>16 DEF RetryLooks, Overlaps
  <2>4. \A d \in Clients : InsertOK(d)'
    BY <2>1, <2>2, <2>3 DEF KindsOK, InsertOK, OfKind, Active
  <2>. QED
    BY <2>1, <2>4 DEF KindsOK, WorkActive, OneActive, Active
<1>17. ASSUME NEW c \in Clients, NEW j \in Jobs, CancelLooks(c, j) PROVE
   KindsOK'
  <2>1. rows' = rows /\ task' = task /\ excused' = excused
    BY <1>17 DEF CancelLooks
  <2>2. \A d \in Clients : client'[d].at = "insert" => client'[d] = client[d]
    BY <1>17 DEF CancelLooks, TypeOK, Idle
  <2>. QED
    BY <2>1, <2>2, QuietStep DEF KindsOK, WorkActive, Active
<1>18. CASE Restart
  <2>1. /\ \A i \in Jobs : rows'[i].kind = rows[i].kind
        /\ \A i \in Jobs : rows'[i].status \in {rows[i].status, Recovered(rows[i].status)}
        /\ \A i \in Jobs : task'[i].at = "none"
        /\ \A d \in Clients : client'[d].at = "idle"
        /\ excused' = excused
    BY <1>18 DEF Restart, TypeOK, Row, NoTask, Idle
  <2>2. \A i \in Jobs : Active(i)' => Active(i)
    BY <2>1 DEF Recovered, Active, ACTIVE_JOB_STATUSES
  <2>3. \A i \in Jobs : WorkActive(i)'
    BY <2>1 DEF WorkActive
  <2>. QED
    BY <2>1, <2>2, <2>3, QuietStep
<1>19. ASSUME NEW j \in Jobs, SessionFails(j) PROVE KindsOK'
  <2>1. /\ excused' = excused /\ client' = client /\ rows' = rows
        /\ task'[j].at \in {"raised", "done"}
        /\ \A i \in Jobs : i # j => task'[i] = task[i]
    BY <1>19, GotoEffect DEF SessionFails
  <2>. QED
    BY <2>1, QuietStep DEF KindsOK, WorkActive, Active
<1>20. ASSUME NEW c \in Clients, RequestFails(c) PROVE KindsOK'
  <2>1. rows' = rows /\ task' = task /\ excused' = excused
    BY <1>20 DEF RequestFails
  <2>2. \A d \in Clients : client'[d].at = "insert" => client'[d] = client[d]
    BY <1>20 DEF RequestFails, TypeOK, Idle
  <2>. QED
    BY <2>1, <2>2, QuietStep DEF KindsOK, WorkActive, Active
<1>21. CASE UNCHANGED vars
  BY <1>21 DEF vars, KindsOK, InsertOK, WorkActive, OneActive, OfKind, Active
<1>. QED
  BY <1>1, <1>2, <1>3, <1>4, <1>5, <1>6, <1>7, <1>8, <1>9, <1>10, <1>11,
     <1>12, <1>13, <1>14, <1>15, <1>16, <1>17, <1>18, <1>19, <1>20, <1>21, Zenon DEF Next,
     RunnerStep, ClientStep

(* The two parts of RowsHonest, job by job.                                *)
WorkerOK(i) == Active(i) => Live(i) \/ Starting(i) \/ Forsaken(i)

ToldOK(i) ==
  ~rows[i].asked /\ ~Live(i) /\ ~Starting(i) /\ rows[i].status \notin {"absent", "purged"}
  => \/ rows[i].status = "queued" /\ did[i] = "none"
     \/ rows[i].status = "recovery_required" /\ did[i] # "none"
     \/ rows[i].status = "completed" /\ did[i] = "finished"
     \/ rows[i].status = "failed" /\ (did[i] = "raised" \/ i \in broken)
     \/ rows[i].status = "running" /\ did[i] # "none" /\ Forsaken(i)

(* RowTellsTheWork, job by job.                                            *)
LEMMA RowTellsIffTold ==
  ASSUME TypeOK
  PROVE  RowTellsTheWork <=> \A i \in Jobs : ToldOK(i)
BY DEF TypeOK, RowTellsTheWork, Told, ToldOK

Honest == \A i \in Jobs : WorkerOK(i) /\ ToldOK(i)

(* A job, its requests and the marks on it as they were: what its row      *)
(* tells is still true.                                                    *)
LEMMA UntouchedRow ==
  ASSUME Honest, NEW i \in Jobs, rows'[i] = rows[i], task'[i] = task[i], did'[i] = did[i],
         Starting(i) <=> Starting(i)', Forsaken(i) => Forsaken(i)', broken \subseteq broken'
  PROVE  WorkerOK(i)' /\ ToldOK(i)'
BY DEF Honest, WorkerOK, ToldOK, Active, Live

(* Every step keeps the rows honest.                                       *)
LEMMA HonestStep ==
  IInv /\ [Next]_vars => Honest'
<1>. SUFFICES ASSUME IInv, [Next]_vars, NEW i \in Jobs PROVE (WorkerOK(i) /\
   ToldOK(i))'
  BY DEF Honest
<1>. TypeOK /\ JobsOK /\ ClientsOK /\ Honest
  BY RowTellsIffTold DEF IInv, ActiveHasWorker, WorkerOK, Honest
<1>1. ASSUME NEW j \in Jobs, LoadJob(j) PROVE (WorkerOK(i) /\ ToldOK(i))'
  <2>1. /\ Starting(i)' <=> Starting(i)
        /\ Forsaken(i) => Forsaken(i)'
    BY <1>1 DEF LoadJob, history, Starting, Forsaken
  <2>2. CASE i # j
    BY <1>1, <2>1, <2>2, UntouchedRow, ReadEffect DEF LoadJob, history
  <2>3. ASSUME i = j PROVE WorkerOK(j)' /\ ToldOK(j)'
    <3>. RowOK(j) /\ WorkOK(j) /\ PlaceOK(j) /\ SettledOK(j)
      BY DEF JobsOK
    <3>1. WorkerOK(j)'
      BY <1>1, <2>1, <2>3, ReadEffect DEF LoadJob, history, RowOK,
         PlaceOK, SettledOK, Honest, Forsaken, WorkerOK, ToldOK, Active,
         ACTIVE_JOB_STATUSES, Live, LivePlaces, InBody, InHandler
    <3>2. ToldOK(j)'
      BY <1>1, <2>1, <2>3, ReadEffect DEF LoadJob, history, RowOK,
         WorkOK, PlaceOK, SettledOK, Honest, WorkerOK, ToldOK, Active,
         ACTIVE_JOB_STATUSES, Live, LivePlaces, InBody, InHandler
    <3>. QED
      BY <3>1, <3>2
  <2>. QED
    BY <2>2, <2>3
<1>2. ASSUME NEW j \in Jobs, BeginWork(j) PROVE (WorkerOK(i) /\ ToldOK(i))'
  <2>1. /\ Starting(i)' <=> Starting(i)
        /\ Forsaken(i) => Forsaken(i)'
    BY <1>2 DEF BeginWork, history, TypeOK, Starting, Forsaken
  <2>2. CASE i # j
    BY <1>2, <2>1, <2>2, UntouchedRow, GotoEffect, SetStatusEffect DEF
       BeginWork, history, TypeOK
  <2>3. ASSUME i = j PROVE WorkerOK(j)' /\ ToldOK(j)'
    <3>. RowOK(j) /\ WorkOK(j) /\ PlaceOK(j) /\ SettledOK(j)
      BY DEF JobsOK
    <3>1. WorkerOK(j)'
      BY <1>2, <2>1, <2>3, GotoEffect, SetStatusEffect DEF BeginWork,
         history, TypeOK, RowOK, PlaceOK, SettledOK, Honest, Forsaken,
         WorkerOK, ToldOK, Active, ACTIVE_JOB_STATUSES, Live, LivePlaces,
         InBody, InHandler
    <3>2. ToldOK(j)'
      BY <1>2, <2>1, <2>3, GotoEffect, SetStatusEffect DEF BeginWork,
         history, TypeOK, RowOK, WorkOK, PlaceOK, SettledOK, Honest,
         WorkerOK, ToldOK, Active, ACTIVE_JOB_STATUSES, Live, LivePlaces,
         InBody, InHandler
    <3>. QED
      BY <3>1, <3>2
  <2>. QED
    BY <2>2, <2>3
<1>3. ASSUME NEW j \in Jobs, WorkReturns(j) PROVE (WorkerOK(i) /\ ToldOK(i))'
  <2>1. /\ Starting(i)' <=> Starting(i)
        /\ Forsaken(i) => Forsaken(i)'
    BY <1>3 DEF WorkReturns, Working, TypeOK, Starting, Forsaken
  <2>2. CASE i # j
    BY <1>3, <2>1, <2>2, UntouchedRow, GotoEffect DEF WorkReturns, Working,
       TypeOK
  <2>3. ASSUME i = j PROVE WorkerOK(j)' /\ ToldOK(j)'
    <3>. RowOK(j) /\ WorkOK(j) /\ PlaceOK(j) /\ SettledOK(j)
      BY DEF JobsOK
    <3>1. WorkerOK(j)'
      BY <1>3, <2>1, <2>3, GotoEffect DEF WorkReturns, Working, TypeOK,
         RowOK, PlaceOK, SettledOK, Honest, Forsaken, WorkerOK, ToldOK,
         Active, ACTIVE_JOB_STATUSES, Live, LivePlaces, InBody, InHandler
    <3>2. ToldOK(j)'
      BY <1>3, <2>1, <2>3, GotoEffect DEF WorkReturns, Working, TypeOK,
         RowOK, WorkOK, PlaceOK, SettledOK, Honest, WorkerOK, ToldOK,
         Active, ACTIVE_JOB_STATUSES, Live, LivePlaces, InBody, InHandler
    <3>. QED
      BY <3>1, <3>2
  <2>. QED
    BY <2>2, <2>3
<1>4. ASSUME NEW j \in Jobs, WorkRaises(j) PROVE (WorkerOK(i) /\ ToldOK(i))'
  <2>1. /\ Starting(i)' <=> Starting(i)
        /\ Forsaken(i) => Forsaken(i)'
    BY <1>4 DEF WorkRaises, Working, TypeOK, Starting, Forsaken
  <2>2. CASE i # j
    BY <1>4, <2>1, <2>2, UntouchedRow, GotoEffect DEF WorkRaises, Working,
       TypeOK
  <2>3. ASSUME i = j PROVE WorkerOK(j)' /\ ToldOK(j)'
    <3>. RowOK(j) /\ WorkOK(j) /\ PlaceOK(j) /\ SettledOK(j)
      BY DEF JobsOK
    <3>1. WorkerOK(j)'
      BY <1>4, <2>1, <2>3, GotoEffect DEF WorkRaises, Working, TypeOK,
         RowOK, PlaceOK, SettledOK, Honest, Forsaken, WorkerOK, ToldOK,
         Active, ACTIVE_JOB_STATUSES, Live, LivePlaces, InBody, InHandler
    <3>2. ToldOK(j)'
      BY <1>4, <2>1, <2>3, GotoEffect DEF WorkRaises, Working, TypeOK,
         RowOK, WorkOK, PlaceOK, SettledOK, Honest, WorkerOK, ToldOK,
         Active, ACTIVE_JOB_STATUSES, Live, LivePlaces, InBody, InHandler
    <3>. QED
      BY <3>1, <3>2
  <2>. QED
    BY <2>2, <2>3
<1>5. ASSUME NEW j \in Jobs, LoadAgain(j) PROVE (WorkerOK(i) /\ ToldOK(i))'
  <2>1. /\ Starting(i)' <=> Starting(i)
        /\ Forsaken(i) => Forsaken(i)'
    BY <1>5 DEF LoadAgain, history, Starting, Forsaken
  <2>2. CASE i # j
    BY <1>5, <2>1, <2>2, UntouchedRow, ReadEffect DEF LoadAgain, history
  <2>3. ASSUME i = j PROVE WorkerOK(j)' /\ ToldOK(j)'
    <3>. RowOK(j) /\ WorkOK(j) /\ PlaceOK(j) /\ SettledOK(j)
      BY DEF JobsOK
    <3>1. WorkerOK(j)'
      BY <1>5, <2>1, <2>3, ReadEffect DEF LoadAgain, history, RowOK,
         PlaceOK, SettledOK, Honest, Forsaken, WorkerOK, ToldOK, Active,
         ACTIVE_JOB_STATUSES, Live, LivePlaces, InBody, InHandler
    <3>2. ToldOK(j)'
      BY <1>5, <2>1, <2>3, ReadEffect DEF LoadAgain, history, RowOK,
         WorkOK, PlaceOK, SettledOK, Honest, WorkerOK, ToldOK, Active,
         ACTIVE_JOB_STATUSES, Live, LivePlaces, InBody, InHandler
    <3>. QED
      BY <3>1, <3>2
  <2>. QED
    BY <2>2, <2>3
<1>6. ASSUME NEW j \in Jobs, CommitResult(j) PROVE (WorkerOK(i) /\ ToldOK(i))'
  <2>1. /\ Starting(i)' <=> Starting(i)
        /\ Forsaken(i) => Forsaken(i)'
    BY <1>6 DEF CommitResult, history, Starting, Forsaken
  <2>2. CASE i # j
    BY <1>6, <2>1, <2>2, UntouchedRow, GotoEffect, SetStatusEffect DEF
       CommitResult, history
  <2>3. ASSUME i = j PROVE WorkerOK(j)' /\ ToldOK(j)'
    <3>. RowOK(j) /\ WorkOK(j) /\ PlaceOK(j) /\ SettledOK(j)
      BY DEF JobsOK
    <3>1. WorkerOK(j)'
      BY <1>6, <2>1, <2>3, GotoEffect, SetStatusEffect DEF CommitResult,
         history, RowOK, PlaceOK, SettledOK, Honest, Forsaken, WorkerOK,
         ToldOK, Active, ACTIVE_JOB_STATUSES, Live, LivePlaces, InBody,
         InHandler
    <3>2. ToldOK(j)'
      BY <1>6, <2>1, <2>3, GotoEffect, SetStatusEffect DEF CommitResult,
         history, RowOK, WorkOK, PlaceOK, SettledOK, Honest, WorkerOK,
         ToldOK, Active, ACTIVE_JOB_STATUSES, Live, LivePlaces, InBody,
         InHandler
    <3>. QED
      BY <3>1, <3>2
  <2>. QED
    BY <2>2, <2>3
<1>7. ASSUME NEW j \in Jobs, CommitFailure(j) PROVE (WorkerOK(i) /\ ToldOK(i))'
  <2>1. /\ Starting(i)' <=> Starting(i)
        /\ Forsaken(i) => Forsaken(i)'
    BY <1>7 DEF CommitFailure, history, Starting, Forsaken
  <2>2. CASE i # j
    BY <1>7, <2>1, <2>2, UntouchedRow, GotoEffect, SetStatusEffect DEF
       CommitFailure, history
  <2>3. ASSUME i = j PROVE WorkerOK(j)' /\ ToldOK(j)'
    <3>. RowOK(j) /\ WorkOK(j) /\ PlaceOK(j) /\ SettledOK(j)
      BY DEF JobsOK
    <3>1. WorkerOK(j)'
      BY <1>7, <2>1, <2>3, GotoEffect, SetStatusEffect DEF CommitFailure,
         history, RowOK, PlaceOK, SettledOK, Honest, Forsaken, WorkerOK,
         ToldOK, Active, ACTIVE_JOB_STATUSES, Live, LivePlaces, InBody,
         InHandler
    <3>2. ToldOK(j)'
      BY <1>7, <2>1, <2>3, GotoEffect, SetStatusEffect DEF CommitFailure,
         history, RowOK, WorkOK, PlaceOK, SettledOK, Honest, WorkerOK,
         ToldOK, Active, ACTIVE_JOB_STATUSES, Live, LivePlaces, InBody,
         InHandler
    <3>. QED
      BY <3>1, <3>2
  <2>. QED
    BY <2>2, <2>3
<1>8. ASSUME NEW j \in Jobs, CommitCancelled(j) PROVE (WorkerOK(i) /\
   ToldOK(i))'
  <2>1. /\ Starting(i)' <=> Starting(i)
        /\ Forsaken(i) => Forsaken(i)'
    BY <1>8 DEF CommitCancelled, history, Starting, Forsaken
  <2>2. CASE i # j
    BY <1>8, <2>1, <2>2, UntouchedRow, GotoEffect, SetStatusEffect DEF
       CommitCancelled, history
  <2>3. ASSUME i = j PROVE WorkerOK(j)' /\ ToldOK(j)'
    <3>. RowOK(j) /\ WorkOK(j) /\ PlaceOK(j) /\ SettledOK(j)
      BY DEF JobsOK
    <3>1. WorkerOK(j)'
      BY <1>8, <2>1, <2>3, GotoEffect, SetStatusEffect DEF
         CommitCancelled, history, RowOK, PlaceOK, SettledOK, Honest,
         Forsaken, WorkerOK, ToldOK, Active, ACTIVE_JOB_STATUSES, Live,
         LivePlaces, InBody, InHandler
    <3>2. ToldOK(j)'
      BY <1>8, <2>1, <2>3, GotoEffect, SetStatusEffect DEF
         CommitCancelled, history, RowOK, WorkOK, PlaceOK, SettledOK,
         Honest, WorkerOK, ToldOK, Active, ACTIVE_JOB_STATUSES, Live,
         LivePlaces, InBody, InHandler
    <3>. QED
      BY <3>1, <3>2
  <2>. QED
    BY <2>2, <2>3
<1>9. ASSUME NEW j \in Jobs, TaskReturns(j) PROVE (WorkerOK(i) /\ ToldOK(i))'
  <2>1. /\ Starting(i)' <=> Starting(i)
        /\ Forsaken(i) => Forsaken(i)'
    BY <1>9 DEF TaskReturns, history, Starting, Forsaken
  <2>2. CASE i # j
    BY <1>9, <2>1, <2>2, UntouchedRow, GotoEffect DEF TaskReturns, history
  <2>3. ASSUME i = j PROVE WorkerOK(j)' /\ ToldOK(j)'
    <3>. RowOK(j) /\ WorkOK(j) /\ PlaceOK(j) /\ SettledOK(j)
      BY DEF JobsOK
    <3>1. WorkerOK(j)'
      BY <1>9, <2>1, <2>3, GotoEffect DEF TaskReturns, history, RowOK,
         PlaceOK, SettledOK, Honest, Forsaken, WorkerOK, ToldOK, Active,
         ACTIVE_JOB_STATUSES, Live, LivePlaces, InBody, InHandler
    <3>2. ToldOK(j)'
      BY <1>9, <2>1, <2>3, GotoEffect DEF TaskReturns, history, RowOK,
         WorkOK, PlaceOK, SettledOK, Honest, WorkerOK, ToldOK, Active,
         ACTIVE_JOB_STATUSES, Live, LivePlaces, InBody, InHandler
    <3>. QED
      BY <3>1, <3>2
  <2>. QED
    BY <2>2, <2>3
<1>10. ASSUME NEW j \in Jobs, PurgeJob(j) PROVE (WorkerOK(i) /\ ToldOK(i))'
  <2>1. /\ Starting(i)' <=> Starting(i)
        /\ Forsaken(i) => Forsaken(i)'
    BY <1>10 DEF PurgeJob, history, TypeOK, Row, TERMINAL_JOB_STATUSES,
       Starting, Forsaken
  <2>2. CASE i # j
    BY <1>10, <2>1, <2>2, UntouchedRow DEF PurgeJob, history, TypeOK, Row,
       TERMINAL_JOB_STATUSES
  <2>3. ASSUME i = j PROVE WorkerOK(j)' /\ ToldOK(j)'
    <3>. RowOK(j) /\ WorkOK(j) /\ PlaceOK(j) /\ SettledOK(j)
      BY DEF JobsOK
    <3>1. WorkerOK(j)'
      BY <1>10, <2>1, <2>3 DEF PurgeJob, history, TypeOK, Row,
         TERMINAL_JOB_STATUSES, RowOK, PlaceOK, SettledOK, Honest,
         Forsaken, WorkerOK, ToldOK, Active, ACTIVE_JOB_STATUSES, Live,
         LivePlaces, InBody, InHandler
    <3>2. ToldOK(j)'
      BY <1>10, <2>1, <2>3 DEF PurgeJob, history, TypeOK, Row,
         TERMINAL_JOB_STATUSES, RowOK, WorkOK, PlaceOK, SettledOK,
         Honest, WorkerOK, ToldOK, Active, ACTIVE_JOB_STATUSES, Live,
         LivePlaces, InBody, InHandler
    <3>. QED
      BY <3>1, <3>2
  <2>. QED
    BY <2>2, <2>3
<1>11. ASSUME NEW c \in Clients, InsertJob(c) PROVE (WorkerOK(i) /\ ToldOK(i))'
  <2>1. PICK j \in Jobs :
          /\ rows[j].status = "absent"
          /\ rows' = [rows EXCEPT ![j] = [kind |-> client[c].kind, status |-> "queued", asked |-> FALSE]]
          /\ client' = [client EXCEPT ![c] = [Idle EXCEPT !.at = "start", !.job = j]]
    BY <1>11 DEF InsertJob, Absent
  <2>2. UNCHANGED <<task, history>>
    BY <1>11 DEF InsertJob
  <2>3. client'[c].at = "start" /\ client'[c].job = j /\ client[c].at = "insert"
    BY <1>11, <2>1 DEF InsertJob, TypeOK, Idle
  <2>4. \A d \in Clients : d # c => client'[d] = client[d]
    BY <2>1 DEF TypeOK
  <2>5. CASE i = j
    BY <2>3, <2>5 DEF Starting, WorkerOK, ToldOK
  <2>6. CASE i # j
    <3>1. Starting(i) <=> Starting(i)'
      BY <2>3, <2>4, <2>6 DEF Starting
    <3>. QED
      BY <2>1, <2>2, <2>6, <3>1, UntouchedRow DEF TypeOK, history, Forsaken
  <2>. QED
    BY <2>5, <2>6
<1>12. ASSUME NEW c \in Clients, StartJob(c) PROVE (WorkerOK(i) /\ ToldOK(i))'
  <2>1. PICK j \in Jobs : j = client[c].job
    BY <1>12 DEF StartJob, ClientsOK, ClientOK
  <2>2. /\ rows' = rows /\ UNCHANGED history
        /\ task' = IF Live(j) THEN task ELSE [task EXCEPT ![j] = [NoTask EXCEPT !.at = "new"]]
    BY <1>12, <2>1 DEF StartJob
  <2>3. CASE i = j
    <3>1. Live(j)'
      BY <2>1, <2>2 DEF TypeOK, NoTask, Live, LivePlaces
    <3>. QED
      BY <2>3, <3>1 DEF WorkerOK, ToldOK
  <2>4. CASE i # j
    <3>1. Starting(i) <=> Starting(i)'
      BY <1>12, <2>1, <2>4 DEF StartJob, Starting, TypeOK, Idle
    <3>2. task'[i] = task[i]
      BY <2>1, <2>2, <2>4 DEF TypeOK
    <3>. QED
      BY <2>2, <3>1, <3>2, UntouchedRow DEF history, Forsaken
  <2>. QED
    BY <2>3, <2>4
<1>13. ASSUME NEW c \in Clients, MarkCancel(c) PROVE (WorkerOK(i) /\
   ToldOK(i))'
  <2>1. PICK j \in Jobs : j = client[c].job
    BY <1>13 DEF MarkCancel, ClientsOK, ClientOK
  <2>2. /\ rows'[j].asked
        /\ \A k \in Jobs : k # j => rows'[k] = rows[k]
    BY <1>13, <2>1 DEF MarkCancel, TypeOK, Row
  <2>3. /\ task' = task /\ did' = did /\ late \subseteq late' /\ UNCHANGED <<unwritten, lost, broken>>
        /\ ~Active(j) => j \in late'
    BY <1>13, <2>1 DEF MarkCancel
  <2>4. Starting(i) <=> Starting(i)'
    BY <1>13 DEF MarkCancel, Starting, TypeOK, Request
  <2>5. Forsaken(i) => Forsaken(i)'
    BY <2>3 DEF Forsaken
  <2>6. CASE i = j
    BY <2>2, <2>3, <2>4, <2>5, <2>6 DEF Honest, WorkerOK, ToldOK, Live,
       Forsaken
  <2>7. CASE i # j
    BY <2>2, <2>3, <2>4, <2>5, <2>7, UntouchedRow
  <2>. QED
    BY <2>6, <2>7
<1>14. ASSUME NEW c \in Clients, InterruptTask(c) PROVE (WorkerOK(i) /\
   ToldOK(i))'
  <2>1. PICK j \in Jobs : j = client[c].job /\ rows[j].asked
    BY <1>14 DEF InterruptTask, ClientsOK, ClientOK
  <2>2. /\ task'[j].at = AfterInterrupt(task[j].at)
        /\ \A k \in Jobs : k # j => task'[k] = task[k]
    BY <1>14, <2>1, GotoEffect DEF InterruptTask
  <2>3. /\ rows' = rows /\ did' = did /\ UNCHANGED <<late, lost, broken>>
        /\ unwritten \subseteq unwritten'
        /\ task[j].at \in InHandler => j \in unwritten'
    BY <1>14, <2>1 DEF InterruptTask
  <2>4. Starting(i) <=> Starting(i)'
    BY <1>14 DEF InterruptTask, Starting, TypeOK, Idle
  <2>5. Forsaken(i) => Forsaken(i)'
    BY <2>3 DEF Forsaken
  <2>6. CASE i = j
    <3>1. task[j].at = "new" => ~Active(j)
      BY <2>1 DEF JobsOK, RowOK, PlaceOK, Active, ACTIVE_JOB_STATUSES
    <3>2. Live(j) => Live(j)' \/ task[j].at \in InHandler \/ task[j].at = "new"
      BY <2>2 DEF AfterInterrupt, Live, LivePlaces, InBody, InHandler
    <3>. QED
      BY <2>1, <2>3, <2>4, <2>5, <2>6, <3>1, <3>2 DEF Honest, WorkerOK,
         ToldOK, Active, Forsaken
  <2>7. CASE i # j
    BY <2>2, <2>3, <2>4, <2>5, <2>7, UntouchedRow
  <2>. QED
    BY <2>6, <2>7
<1>15. ASSUME NEW c \in Clients, NEW k \in Kinds, EnqueueLooks(c, k) PROVE
   (WorkerOK(i) /\ ToldOK(i))'
  <2>1. Starting(i) <=> Starting(i)'
    BY <1>15 DEF EnqueueLooks, WillInsert, Starting, TypeOK, Idle
  <2>. QED
    BY <1>15, <2>1, UntouchedRow DEF EnqueueLooks, WillInsert, Forsaken
<1>16. ASSUME NEW c \in Clients, NEW j \in Jobs, RetryLooks(c, j) PROVE
   (WorkerOK(i) /\ ToldOK(i))'
  <2>1. Starting(i) <=> Starting(i)'
    BY <1>16 DEF RetryLooks, WillInsert, Starting, TypeOK, Idle
  <2>. QED
    BY <1>16, <2>1, UntouchedRow DEF RetryLooks, WillInsert, Forsaken
<1>17. ASSUME NEW c \in Clients, NEW j \in Jobs, CancelLooks(c, j) PROVE
   (WorkerOK(i) /\ ToldOK(i))'
  <2>1. Starting(i) <=> Starting(i)'
    BY <1>17 DEF CancelLooks, Starting, TypeOK, Idle
  <2>. QED
    BY <1>17, <2>1, UntouchedRow DEF CancelLooks, Forsaken
<1>18. CASE Restart
  <2>. RowOK(i) /\ WorkOK(i) /\ PlaceOK(i) /\ SettledOK(i) /\ WorkerOK(i) /\ ToldOK(i)
    BY DEF JobsOK, Honest
  <2>1. /\ rows'[i].asked = rows[i].asked /\ did' = did /\ broken' = broken
        /\ rows'[i].status \in {rows[i].status, Recovered(rows[i].status)}
        /\ rows'[i].status \in ACTIVE_JOB_STATUSES => i \in lost'
        /\ Forsaken(i) => Forsaken(i)'
    BY <1>18 DEF Restart, TypeOK, Row, Recovered, Active,
       ACTIVE_JOB_STATUSES, Forsaken
  <2>2. ~Live(i)'
    BY <1>18 DEF Restart, NoTask, Live, LivePlaces, InBody, InHandler
  <2>3. WorkerOK(i)'
    BY <2>1 DEF WorkerOK, Forsaken, Active
  <2>4. ASSUME rows[i].status \in {"queued", "running", "cancelling", "absent", "purged"} PROVE ToldOK(i)'
    BY <2>1, <2>4 DEF RowOK, ToldOK, Recovered, Forsaken, ACTIVE_JOB_STATUSES
  <2>5. ASSUME Live(i) PROVE ToldOK(i)'
    BY <2>1, <2>4, <2>5 DEF RowOK, WorkOK, PlaceOK, SettledOK, ToldOK, Recovered,
       Live, LivePlaces, InBody, InHandler
  <2>6. ASSUME Starting(i) PROVE ToldOK(i)'
    BY <2>1, <2>4, <2>6 DEF Starting, RowOK, ClientsOK, ClientOK, ToldOK, Recovered
  <2>7. ASSUME ~Live(i) /\ ~Starting(i) PROVE ToldOK(i)'
    BY <2>1, <2>4, <2>7 DEF ToldOK, Recovered
  <2>. QED
    BY <2>3, <2>5, <2>6, <2>7
<1>19. ASSUME NEW j \in Jobs, SessionFails(j) PROVE (WorkerOK(i) /\ ToldOK(i))'
  <2>1. /\ Starting(i)' <=> Starting(i)
        /\ Forsaken(i) => Forsaken(i)'
    BY <1>19 DEF SessionFails, Starting, Forsaken
  <2>2. CASE i # j
    BY <1>19, <2>1, <2>2, UntouchedRow, GotoEffect DEF SessionFails
  <2>3. ASSUME task[j].at \in InHandler, Goto(j, "done"), j \in unwritten'
        PROVE  WorkerOK(j)' /\ ToldOK(j)'
    <3>. RowOK(j) /\ PlaceOK(j)
      BY DEF JobsOK
    <3>1. rows' = rows /\ did' = did /\ Forsaken(j)'
      BY <1>19, <2>3 DEF SessionFails, Forsaken
    <3>2. ~rows[j].asked => rows[j].status \in {"queued", "running"}
      BY <2>3 DEF RowOK, PlaceOK, InHandler
    <3>. QED
      BY <3>1, <3>2 DEF WorkerOK, ToldOK, RowOK
  <2>4. ASSUME Goto(j, "raised") PROVE WorkerOK(j)' /\ ToldOK(j)'
    <3>1. Live(j)'
      BY <2>4, GotoEffect DEF Live, LivePlaces, InHandler
    <3>. QED
      BY <3>1 DEF WorkerOK, ToldOK
  <2>. QED
    BY <1>19, <2>2, <2>3, <2>4 DEF SessionFails
<1>20. ASSUME NEW c \in Clients, RequestFails(c) PROVE (WorkerOK(i) /\ ToldOK(i))'
  <2>1. Starting(i) <=> Starting(i)'
    BY <1>20 DEF RequestFails, Starting, TypeOK, Idle
  <2>. QED
    BY <1>20, <2>1, UntouchedRow DEF RequestFails, Forsaken
<1>21. CASE UNCHANGED vars
  <2>1. (Starting(i) <=> Starting(i)') /\ (Forsaken(i) => Forsaken(i)')
    BY <1>21 DEF vars, Starting, Forsaken
  <2>. QED
    BY <1>21, <2>1, UntouchedRow DEF vars
<1>. QED
  BY <1>1, <1>2, <1>3, <1>4, <1>5, <1>6, <1>7, <1>8, <1>9, <1>10, <1>11,
     <1>12, <1>13, <1>14, <1>15, <1>16, <1>17, <1>18, <1>19, <1>20, <1>21, Zenon DEF Next,
     RunnerStep, ClientStep

-----------------------------------------------------------------------------
(* The runtime starts with no job, and its invariant holds.                *)
LEMMA InitInvariant == Init => IInv
<1>. SUFFICES ASSUME Init PROVE IInv
  OBVIOUS
<1>1. TypeOK
  BY BoundsAreNumbers DEF Init, TypeOK, Row, Task, Request, NoRow, NoTask,
     Idle, Statuses, TaskPlaces
<1>2. JobsOK
  BY DEF Init, JobsOK, RowOK, WorkOK, PlaceOK, SettledOK, NoRow, NoTask
<1>3. ClientsOK
  BY DEF Init, ClientsOK, ClientOK, OneStarter, Idle
<1>4. KindsOK
  BY DEF Init, KindsOK, InsertOK, WorkActive, OneActive, Active,
     ACTIVE_JOB_STATUSES, NoRow, NoTask, Idle
<1>5. ActiveHasWorker /\ RowTellsTheWork
  BY DEF Init, ActiveHasWorker, RowTellsTheWork, Active, ACTIVE_JOB_STATUSES,
     NoRow
<1>. QED
  BY <1>1, <1>2, <1>3, <1>4, <1>5 DEF IInv

(* Every step preserves the invariant.                                     *)
LEMMA StepInvariant == IInv /\ [Next]_vars => IInv'
<1>. SUFFICES ASSUME IInv, [Next]_vars PROVE IInv'
  OBVIOUS
<1>1. TypeOK' /\ JobsOK' /\ KindsOK' /\ Honest'
  BY TypeStep, JobsStep, KindsStep, HonestStep
<1>2. ClientsOK'
  BY RequestsStep, StarterStep DEF ClientsOK
<1>3. ActiveHasWorker'
  BY <1>1 DEF Honest, WorkerOK, ActiveHasWorker
<1>4. RowTellsTheWork'
  <2>1. TypeOK' => (RowTellsTheWork <=> \A i \in Jobs : ToldOK(i))'
    BY RowTellsIffTold, PTL
  <2>. QED
    BY <1>1, <2>1 DEF Honest
<1>. QED
  BY <1>1, <1>2, <1>3, <1>4 DEF IInv

(* The invariant of the job runtime: types, what each row, task, work and  *)
(* request say of one another, and the exclusion of each kind, after any   *)
(* number of cancellations, retries and restarts.                          *)
THEOREM Invariant == Spec => []IInv
BY InitInvariant, StepInvariant, PTL DEF Spec

(* The list of jobs can be believed: a row that says active has a worker   *)
(* unless it was forsaken, and any other says what the work of its job     *)
(* did, unless the job was cancelled or a session of its runtime failed    *)
(* (_run_job, recover_stale_jobs).                                         *)
THEOREM RowsAreHonest == Spec => []RowsHonest
<1>1. IInv => RowsHonest
  BY DEF IInv, RowsHonest
<1>. QED
  BY <1>1, Invariant, PTL

(* A kind has one active row and one job at work at most, unless the code  *)
(* gave its exclusion up (enqueue_job).                                    *)
THEOREM OneWork == Spec => []OneWorkPerKind
<1>1. IInv => OneWorkPerKind
  BY DEF IInv, KindsOK, WorkActive, OneActive, OneWorkPerKind, OfKind, Working
<1>. QED
  BY <1>1, Invariant, PTL

-----------------------------------------------------------------------------
(* What an observer of the list of jobs sees of a state.                   *)
Report == [j \in Jobs |-> rows[j].status]
Asked  == {j \in Jobs : rows[j].asked}

(* One row changes what it reports.                                        *)
LEMMA ReportChange ==
  ASSUME NEW j \in Jobs, NEW s, rows'[j].status = s,
         \A i \in Jobs : i # j => rows'[i].status = rows[i].status
  PROVE  Report' = [Report EXCEPT ![j] = s]
BY DEF Report

(* No cancellation is requested.                                           *)
LEMMA AskedSame ==
  ASSUME \A i \in Jobs : rows'[i].asked = rows[i].asked
  PROVE  Asked' = Asked
BY DEF Asked

(* A cancelled job that is reported cancelled, now or before.              *)
LEMMA CancelledReport ==
  ASSUME TypeOK, NEW j \in Jobs, rows[j].asked, rows[j].status \notin {"absent", "purged"},
         \A i \in Jobs : rows'[i].asked = rows[i].asked,
         \A i \in Jobs : i # j => rows'[i].status = rows[i].status,
         rows'[j].status = "cancelled" \/ rows'[j].status = rows[j].status, did' = did,
         broken' = broken
  PROVE  [Lifecycle!Next]_(Lifecycle!vars)
<1>1. CASE rows'[j].status = rows[j].status
  BY <1>1 DEF Lifecycle!vars
<1>2. CASE rows'[j].status = "cancelled"
  <2>1. rows[j].status \in Statuses
    BY RowTypes DEF TypeOK
  <2>2. Lifecycle!ReportCancelled(j)
    BY <1>2, <2>1, ReportChange, AskedSame DEF Lifecycle!ReportCancelled,
       Lifecycle!Status, Lifecycle!ActiveStatus, Lifecycle!TerminalStatus,
       Statuses, ACTIVE_JOB_STATUSES, TERMINAL_JOB_STATUSES, Report, Asked
  <2>. QED
    BY <2>2 DEF Lifecycle!Next
<1>. QED
  BY <1>1, <1>2

(* Every step of the runtime is a step of the lifecycle or leaves what the *)
(* observer sees.                                                          *)
LEMMA LifecycleStep == IInv /\ [Next]_vars => [Lifecycle!Next]_(Lifecycle!vars)
<1>. SUFFICES ASSUME IInv, [Next]_vars PROVE [Lifecycle!Next]_(Lifecycle!vars)
  OBVIOUS
<1>. TypeOK /\ JobsOK /\ ClientsOK
  BY DEF IInv
<1>1. ASSUME NEW j \in Jobs, LoadJob(j) PROVE [Lifecycle!Next]_(Lifecycle!vars)
  BY <1>1 DEF LoadJob, history, Lifecycle!vars
<1>2. ASSUME NEW j \in Jobs, BeginWork(j) PROVE [Lifecycle!Next]_(Lifecycle!vars)
  <2>1. /\ task[j].at = "loaded" /\ rows'[j].status = "running"
        /\ \A i \in Jobs : rows'[i].asked = rows[i].asked
        /\ \A i \in Jobs : i # j => rows'[i].status = rows[i].status
    BY <1>2, SetStatusEffect DEF BeginWork, JobsOK, PlaceOK
  <2>2. /\ Report[j] \in {"queued", "cancelled"} /\ did[j] = "none"
        /\ Report[j] = "cancelled" => j \in Asked
    BY <2>1 DEF JobsOK, PlaceOK, WorkOK, RowOK, Report, Asked
  <2>3. Lifecycle!Begin(j)
    BY <1>2, <2>1, <2>2, ReportChange, AskedSame DEF BeginWork,
       Lifecycle!Begin, Report, Asked
  <2>. QED
    BY <2>3 DEF Lifecycle!Next
<1>3. ASSUME NEW j \in Jobs, WorkReturns(j) PROVE [Lifecycle!Next]_(Lifecycle!vars)
  <2>1. Lifecycle!Finish(j, "finished")
    BY <1>3 DEF WorkReturns, Working, JobsOK, WorkOK, Lifecycle!Finish
  <2>. QED
    BY <2>1 DEF Lifecycle!Next
<1>4. ASSUME NEW j \in Jobs, WorkRaises(j) PROVE [Lifecycle!Next]_(Lifecycle!vars)
  <2>1. Lifecycle!Finish(j, "raised")
    BY <1>4 DEF WorkRaises, Working, JobsOK, WorkOK, Lifecycle!Finish
  <2>. QED
    BY <2>1 DEF Lifecycle!Next
<1>5. ASSUME NEW j \in Jobs, LoadAgain(j) PROVE [Lifecycle!Next]_(Lifecycle!vars)
  BY <1>5 DEF LoadAgain, history, Lifecycle!vars
<1>6. ASSUME NEW j \in Jobs, CommitResult(j) PROVE [Lifecycle!Next]_(Lifecycle!vars)
  <2>1. /\ \A i \in Jobs : rows'[i].asked = rows[i].asked
        /\ \A i \in Jobs : i # j => rows'[i].status = rows[i].status
    BY <1>6, SetStatusEffect DEF CommitResult
  <2>2. /\ rows[j].status \in {"running", "cancelling", "cancelled"} /\ did[j] = "finished"
        /\ rows[j].status # "running" => rows[j].asked
    BY <1>6 DEF CommitResult, JobsOK, PlaceOK, WorkOK, RowOK
  <2>3. CASE task[j].asked
    <3>1. /\ rows'[j].status = "cancelled" \/ rows'[j].status = rows[j].status
          /\ rows[j].asked
      BY <1>6, <2>3, SetStatusEffect DEF CommitResult, JobsOK, PlaceOK
    <3>. QED
      BY <1>6, <2>1, <2>2, <3>1, CancelledReport DEF CommitResult, history
  <2>4. CASE ~task[j].asked
    <3>1. rows'[j].status = "completed"
      BY <1>6, <2>4, SetStatusEffect DEF CommitResult, JobsOK, SettledOK
    <3>2. Lifecycle!ReportEnd(j, "completed")
      BY <1>6, <2>1, <2>2, <3>1, ReportChange, AskedSame DEF
         CommitResult, history, Lifecycle!ReportEnd, Report, Asked
    <3>. QED
      BY <3>2 DEF Lifecycle!Next
  <2>. QED
    BY <2>3, <2>4
<1>7. ASSUME NEW j \in Jobs, CommitFailure(j) PROVE [Lifecycle!Next]_(Lifecycle!vars)
  <2>1. /\ \A i \in Jobs : rows'[i].asked = rows[i].asked
        /\ \A i \in Jobs : i # j => rows'[i].status = rows[i].status
    BY <1>7, SetStatusEffect DEF CommitFailure
  <2>2. /\ rows'[j].status = "failed" /\ (did[j] = "raised" \/ j \in broken)
        /\ \/ rows[j].status \in {"running", "cancelling", "cancelled"}
           \/ rows[j].status = "queued" /\ j \in broken
        /\ rows[j].status \in {"cancelling", "cancelled"} => rows[j].asked
    BY <1>7, SetStatusEffect DEF CommitFailure, JobsOK, PlaceOK, WorkOK, RowOK
  <2>3. Lifecycle!ReportEnd(j, "failed")
    BY <1>7, <2>1, <2>2, ReportChange, AskedSame DEF CommitFailure,
       history, Lifecycle!ReportEnd, Report, Asked
  <2>. QED
    BY <2>3 DEF Lifecycle!Next
<1>8. ASSUME NEW j \in Jobs, CommitCancelled(j) PROVE [Lifecycle!Next]_(Lifecycle!vars)
  <2>1. /\ \A i \in Jobs : rows'[i].asked = rows[i].asked
        /\ \A i \in Jobs : i # j => rows'[i].status = rows[i].status
    BY <1>8, SetStatusEffect DEF CommitCancelled
  <2>2. /\ rows'[j].status = "cancelled" \/ rows'[j].status = rows[j].status
        /\ rows[j].status \notin {"absent", "purged"} /\ rows[j].asked
    BY <1>8, SetStatusEffect DEF CommitCancelled, JobsOK, PlaceOK
  <2>. QED
    BY <1>8, <2>1, <2>2, CancelledReport DEF CommitCancelled, history
<1>9. ASSUME NEW j \in Jobs, TaskReturns(j) PROVE [Lifecycle!Next]_(Lifecycle!vars)
  BY <1>9 DEF TaskReturns, history, Lifecycle!vars
<1>10. ASSUME NEW j \in Jobs, PurgeJob(j) PROVE [Lifecycle!Next]_(Lifecycle!vars)
  <2>1. /\ rows'[j].status = "purged"
        /\ \A i \in Jobs : rows'[i].asked = rows[i].asked
        /\ \A i \in Jobs : i # j => rows'[i].status = rows[i].status
    BY <1>10 DEF PurgeJob, TypeOK, Row
  <2>2. Lifecycle!Purge(j)
    BY <1>10, <2>1, ReportChange, AskedSame DEF PurgeJob, history,
       TERMINAL_JOB_STATUSES, Lifecycle!Purge, Lifecycle!TerminalStatus,
       Report, Asked
  <2>. QED
    BY <2>2 DEF Lifecycle!Next
<1>11. ASSUME NEW c \in Clients, InsertJob(c) PROVE [Lifecycle!Next]_(Lifecycle!vars)
  <2>1. PICK j \in Jobs :
          /\ rows[j].status = "absent"
          /\ rows' = [rows EXCEPT ![j] = [kind |-> client[c].kind, status |-> "queued", asked |-> FALSE]]
    BY <1>11 DEF InsertJob, Absent
  <2>2. ~rows[j].asked
    BY <2>1 DEF JobsOK, RowOK, NoRow
  <2>3. /\ rows'[j].status = "queued" /\ ~rows'[j].asked
        /\ \A i \in Jobs : i # j => rows'[i] = rows[i]
    BY <2>1 DEF TypeOK
  <2>4. Asked' = Asked
    BY <2>2, <2>3 DEF Asked
  <2>5. Report' = [Report EXCEPT ![j] = "queued"]
    BY <2>3, ReportChange
  <2>6. Lifecycle!Submit(j)
    BY <1>11, <2>1, <2>4, <2>5 DEF InsertJob, history, Lifecycle!Submit,
       Report, Asked
  <2>. QED
    BY <2>6 DEF Lifecycle!Next
<1>12. ASSUME NEW c \in Clients, StartJob(c) PROVE [Lifecycle!Next]_(Lifecycle!vars)
  BY <1>12 DEF StartJob, history, Lifecycle!vars
<1>13. ASSUME NEW c \in Clients, MarkCancel(c) PROVE [Lifecycle!Next]_(Lifecycle!vars)
  <2>1. PICK j \in Jobs :
        /\ j = client[c].job
        /\ rows[j].status \notin {"absent", "purged"}
        /\ client[c].seen = "running" => did[j] # "none"
    BY <1>13 DEF MarkCancel, ClientsOK, ClientOK
  <2>. DEFINE s == IF client[c].seen = "running" THEN "cancelling" ELSE "cancelled"
  <2>2. /\ rows'[j].status = s /\ rows'[j].asked
        /\ \A i \in Jobs : i # j => rows'[i] = rows[i]
    BY <1>13, <2>1 DEF MarkCancel, MarkedStatus, TypeOK, Row
  <2>3. Report' = [Report EXCEPT ![j] = s]
    BY <2>2, ReportChange
  <2>4. Asked' = Asked \cup {j}
    BY <2>2 DEF Asked
  <2>5. rows[j].status \in Statuses
    BY RowTypes DEF TypeOK
  <2>6. s = "cancelling" \/ s = "cancelled"
    OBVIOUS
  <2>7. ASSUME NEW r \in {"cancelling", "cancelled"}, s = r PROVE Lifecycle!Ask(j, r)
    BY <1>13, <2>1, <2>3, <2>4, <2>5, <2>7 DEF MarkCancel, Lifecycle!Ask,
       Lifecycle!Status, Lifecycle!ActiveStatus, Lifecycle!TerminalStatus,
       Statuses, ACTIVE_JOB_STATUSES, TERMINAL_JOB_STATUSES, Report, Asked
  <2>8. Lifecycle!Ask(j, "cancelling") \/ Lifecycle!Ask(j, "cancelled")
    BY <2>6, <2>7, Zenon
  <2>. QED
    BY <2>1, <2>8 DEF Lifecycle!Next
<1>14. ASSUME NEW c \in Clients, InterruptTask(c) PROVE [Lifecycle!Next]_(Lifecycle!vars)
  BY <1>14 DEF InterruptTask, Lifecycle!vars
<1>15. ASSUME NEW c \in Clients, NEW k \in Kinds, EnqueueLooks(c, k) PROVE [Lifecycle!Next]_(Lifecycle!vars)
  BY <1>15 DEF EnqueueLooks, WillInsert, Lifecycle!vars
<1>16. ASSUME NEW c \in Clients, NEW j \in Jobs, RetryLooks(c, j) PROVE [Lifecycle!Next]_(Lifecycle!vars)
  BY <1>16 DEF RetryLooks, WillInsert, Lifecycle!vars
<1>17. ASSUME NEW c \in Clients, NEW j \in Jobs, CancelLooks(c, j) PROVE [Lifecycle!Next]_(Lifecycle!vars)
  BY <1>17 DEF CancelLooks, Lifecycle!vars
<1>18. CASE Restart
  <2>1. \A i \in Jobs : rows'[i].asked = rows[i].asked
    BY <1>18 DEF Restart, TypeOK, Row
  <2>2. Asked' = Asked
    BY <2>1, AskedSame
  <2>3. CASE rows' = [j \in Jobs |-> [rows[j] EXCEPT !.status = Recovered(@)]]
    <3>1. \A i \in Jobs : rows'[i].status = Recovered(rows[i].status)
      BY <2>3 DEF TypeOK, Row
    <3>2. Lifecycle!Recover
      BY <1>18, <2>2, <3>1 DEF Restart, Recovered, Lifecycle!Recover, Report,
         Asked
    <3>. QED
      BY <3>2 DEF Lifecycle!Next
  <2>4. CASE rows' = rows
    BY <1>18, <2>4 DEF Restart, Lifecycle!vars
  <2>. QED
    BY <1>18, <2>3, <2>4 DEF Restart
<1>19. ASSUME NEW j \in Jobs, SessionFails(j) PROVE [Lifecycle!Next]_(Lifecycle!vars)
  <2>1. CASE broken' = broken
    BY <1>19, <2>1 DEF SessionFails, Lifecycle!vars
  <2>2. CASE task[j].at \in {"new", "loaded", "worked", "finishing"} /\ broken' = broken \cup {j}
    <3>1. rows[j].status \notin {"absent", "purged"} /\ did[j] \in {"none", "finished"}
      BY <2>2 DEF JobsOK, PlaceOK, WorkOK
    <3>2. Lifecycle!Break(j)
      BY <1>19, <2>2, <3>1 DEF SessionFails, Lifecycle!Break, Report, Asked
    <3>. QED
      BY <3>2 DEF Lifecycle!Next
  <2>. QED
    BY <1>19, <2>1, <2>2 DEF SessionFails
<1>20. ASSUME NEW c \in Clients, RequestFails(c) PROVE [Lifecycle!Next]_(Lifecycle!vars)
  BY <1>20 DEF RequestFails, Lifecycle!vars
<1>21. CASE UNCHANGED vars
  BY <1>21 DEF vars, Lifecycle!vars
<1>. QED
  BY <1>1, <1>2, <1>3, <1>4, <1>5, <1>6, <1>7, <1>8, <1>9, <1>10, <1>11,
     <1>12, <1>13, <1>14, <1>15, <1>16, <1>17, <1>18, <1>19, <1>20, <1>21, Zenon DEF Next,
     RunnerStep, ClientStep

(* The runtime implements JobLifecycle: whatever the order of the          *)
(* sessions' reads and commits and whichever of them fail, no row reports  *)
(* an end its work did not have, but "failed" where a session failed, and  *)
(* every report of a job follows the lifecycle.                            *)
THEOREM Refinement == Spec => ImplementsLifecycle
<1>1. Init => Lifecycle!Init
  BY DEF Init, NoRow, Lifecycle!Init
<1>. QED
  BY <1>1, LifecycleStep, Invariant, PTL DEF Spec, ImplementsLifecycle,
     Lifecycle!Spec
=============================================================================
