---------------------- MODULE DownloadWorkflowProofs ----------------------
(***************************************************************************)
(* Proofs about DownloadWorkflow, with workflows, manual retries and       *)
(* recoveries beside each other and dying at any moment: its types; that   *)
(* two monitors of a download came to it differently; that a movie does    *)
(* not stay "downloading" when nobody is at it; how long a chain of        *)
(* retries can be, and that it tries no release twice; and what may mark   *)
(* an improved movie failed.                                               *)
(***************************************************************************)
EXTENDS DownloadWorkflow, FiniteSetTheorems, TLAPS

(* What a control point says of the local variables of a task.             *)
Shape(t) ==
  /\ task[t].pc = "idle" =>
       task[t].entry = NoRow /\ task[t].cur = NoRow /\ task[t].child = NoRow
  /\ task[t].pc # "idle" => task[t].cur # NoRow
  /\ task[t].child # NoRow => task[t].pc \in {"submit", "enlist", "carry"}
  /\ task[t].pc = "carry" => task[t].child # NoRow
  /\ task[t].pc = "enter" => task[t].entry = NoRow
  /\ task[t].pc \in {"submit", "enlist"} /\ task[t].child = NoRow
       => task[t].entry = NoRow
  /\ task[t].pc \in {"status", "poll", "ask", "replace", "giveup"}
       => task[t].entry # NoRow

Shapes == \A t \in Tasks : Shape(t)

(* A task holds the downloads its local variables name.  They exist.       *)
Holds(t, d) == task[t].cur = d \/ task[t].child = d

HeldPresent == \A t \in Tasks, d \in Rows : Holds(t, d) => row[d].status # "absent"

(* So does what recovery has expired and not taken up yet.                 *)
Swept == \A expired \in sweeps : expired \subseteq Present

(* _active_workflows lists the tasks that have entered, each under a       *)
(* download of its own.                                                    *)
Listed ==
  /\ \A t \in Tasks : task[t].entry # NoRow => task[t].entry \in active
  /\ \A t, u \in Tasks :
       task[t].entry # NoRow /\ task[t].entry = task[u].entry => t = u

(* A download that a ladder begins belongs to its task until the task goes *)
(* on from it.                                                             *)
Owns(t, d) ==
  \/ task[t].child = d
  \/ task[t].cur = d /\ task[t].entry # NoRow /\ task[t].entry # d

Owned ==
  /\ \A t, u \in Tasks, d \in Rows : Owns(t, d) /\ Owns(u, d) => t = u
  /\ \A t \in Tasks, d \in Rows : Owns(t, d) => row[d].depth > 0

IInv == TypeOK /\ Shapes /\ Swept /\ HeldPresent /\ Listed /\ Owned

-----------------------------------------------------------------------------
(***************************************************************************)
(* What the actions do to the variables the invariant speaks of.           *)
(***************************************************************************)
Becomes(t, p, entry, cur, child) ==
  /\ task'[t].pc = p /\ task'[t].entry = entry
  /\ task'[t].cur = cur /\ task'[t].child = child
  /\ \A u \in Tasks : u # t => task'[u] = task[u]

Goes(t, p) == Becomes(t, p, task[t].entry, task[t].cur, task[t].child)

Leaves(t) ==
  /\ Becomes(t, "idle", NoRow, NoRow, NoRow)
  /\ active' = active \ {task[t].entry}

Marked(d, s) ==
  /\ row'[d].status = s
  /\ \A e \in Rows : e # d => row'[e] = row[e]

StatusKept ==
  \A d \in Rows : row'[d].status = row[d].status /\ row'[d].old = row[d].old

(* The actions of a task by what they do.                                  *)
Monitor(t) == ReadStatus(t) \/ Look(t) \/ Answer(t) \/ ReplaceFails(t)
Ladder(t)  == Cleanup(t) \/ Check(t) \/ Choose(t) \/ CountRetry(t)
End(t)     == ReplaceOk(t) \/ GiveUp(t) \/ Raise(t)

LEMMA NoRowOutside == NoRow \notin Rows
  BY WorkflowAssumption DEF NoRow, Rows

LEMMA Typed ==
  ASSUME TypeOK
  PROVE /\ row \in [Rows -> Download] /\ task \in [Tasks -> Workflow]
        /\ \A t \in Tasks : /\ task[t].entry \in Rows \cup {NoRow}
                            /\ task[t].cur \in Rows \cup {NoRow}
                            /\ task[t].child \in Rows \cup {NoRow}
  BY DEF TypeOK, Workflow

(* A task that changes its control point and the fields the invariant does *)
(* not speak of.                                                           *)
LEMMA GoesLemma ==
  ASSUME TypeOK, NEW t \in Tasks, NEW p, NEW w,
         task' = [task EXCEPT ![t] = w], w.pc = p, w.entry = task[t].entry,
         w.cur = task[t].cur, w.child = task[t].child
  PROVE Goes(t, p)
  BY Typed DEF Goes, Becomes

LEMMA GotoLemma ==
  ASSUME TypeOK, NEW t \in Tasks, NEW p, Goto(t, p)
  PROVE Goes(t, p)
  BY Typed DEF Workflow, Goto, Goes, Becomes

LEMMA StopLemma ==
  ASSUME TypeOK, NEW t \in Tasks, NEW p, StopPolling(t, p)
  PROVE Goes(t, p)
<1>. DEFINE w == [task[t] EXCEPT !.pc = p, !.seen = "absent", !.missed = 0]
<1>1. /\ w.pc = p /\ w.entry = task[t].entry
      /\ w.cur = task[t].cur /\ w.child = task[t].child
  BY Typed DEF Workflow
<1>2. task' = [task EXCEPT ![t] = w]
  BY DEF StopPolling
<1>. HIDE DEF w
<1>. QED
  BY <1>1, <1>2, GoesLemma

LEMMA LeavesLemma ==
  ASSUME TypeOK, NEW t \in Tasks, Leave(t)
  PROVE Leaves(t)
  BY Typed DEF Leave, Leaves, Becomes, IdleTask

LEMMA StatusLemma ==
  ASSUME TypeOK, NEW d \in Rows, NEW s, Status(d, s)
  PROVE Marked(d, s)
  BY Typed DEF Status, Download, Marked

LEMMA InsertedLemma ==
  ASSUME TypeOK, NEW d \in Rows, NEW r, NEW k, NEW s, Inserted(d, r, k, s)
  PROVE Marked(d, "submitting") /\ row'[d].depth = k
  BY Typed DEF Inserted, Absent, Marked

LEMMA StartEffect ==
  ASSUME TypeOK, NEW t \in Tasks, Start(t)
  PROVE /\ task[t].pc = "idle" /\ active' = active
        /\ \E d \in Rows :
             /\ row[d].status = "absent" /\ Marked(d, "submitting")
             /\ Becomes(t, "submit", task[t].entry, d, task[t].child)
<1>1. PICK d \in Rows : \E r \in Releases :
        /\ Fresh(d) /\ Inserted(d, r, 0, {})
        /\ task' = [task EXCEPT ![t] = [@ EXCEPT !.pc = "submit", !.cur = d]]
  BY DEF Start
<1>2. row[d].status = "absent"
  BY <1>1 DEF Fresh, Present
<1>3. Marked(d, "submitting")
  BY <1>1, InsertedLemma
<1>4. Becomes(t, "submit", task[t].entry, d, task[t].child)
  BY <1>1, Typed DEF Workflow, Becomes
<1>. QED
  BY <1>2, <1>3, <1>4 DEF Start, At

LEMMA SubmitEffect ==
  ASSUME TypeOK, NEW t \in Tasks, Submit(t), Subject(t) \in Rows
  PROVE /\ task[t].pc = "submit"
        /\ \/ Goes(t, "enlist") /\ row' = row /\ active' = active
           \/ Leaves(t) /\ Marked(Subject(t), "failed")
<1>1. CASE Goto(t, "enlist") /\ UNCHANGED <<movie, row, active, lost>>
  BY <1>1, GotoLemma DEF Submit, At
<1>2. CASE Status(Subject(t), "failed") /\ Leave(t)
  BY <1>2, LeavesLemma, StatusLemma DEF Submit, At
<1>. QED
  BY <1>1, <1>2 DEF Submit

LEMMA EnlistEffect ==
  ASSUME TypeOK, NEW t \in Tasks, Enlist(t), Subject(t) \in Rows
  PROVE /\ task[t].pc = "enlist" /\ active' = active
        /\ Goes(t, IF task[t].child = NoRow THEN "enter" ELSE "carry")
        /\ Marked(Subject(t), "downloading")
<1>1. Goes(t, IF task[t].child = NoRow THEN "enter" ELSE "carry")
  BY GotoLemma DEF Enlist
<1>. QED
  BY <1>1, StatusLemma DEF Enlist, At

LEMMA EnterEffect ==
  ASSUME TypeOK, NEW t \in Tasks, Enter(t)
  PROVE /\ task[t].pc = "enter" /\ row' = row
        /\ \/ Leaves(t)
           \/ /\ task[t].cur \notin active
              /\ active' = active \cup {task[t].cur}
              /\ Becomes(t, "status", task[t].cur, task[t].cur, task[t].child)
<1>1. CASE task[t].cur \in active
  BY <1>1, LeavesLemma DEF Enter, At
<1>2. CASE task[t].cur \notin active
  <2>1. Becomes(t, "status", task[t].cur, task[t].cur, task[t].child)
    BY <1>2, Typed DEF Enter, Workflow, Becomes
  <2>. QED
    BY <1>2, <2>1 DEF Enter, At
<1>. QED
  BY <1>1, <1>2


LEMMA MonitorEffect ==
  ASSUME TypeOK, NEW t \in Tasks, Monitor(t), task[t].cur \in Rows
  PROVE /\ task[t].pc \in {"status", "poll", "ask", "replace"}
        /\ active' = active
        /\ \E p \in {"poll", "ask", "cleanup", "replace", "giveup"} : Goes(t, p)
        /\ \/ row' = row
           \/ \E s \in {"failed", "completed"} :
                Marked(task[t].cur, s)
<1>. DEFINE d == task[t].cur
<1>1. CASE ReadStatus(t)
  <2>1. \E p \in {"cleanup", "poll"} : Goes(t, p)
    BY <1>1, Typed DEF ReadStatus, Workflow, Goes, Becomes
  <2>. QED
    BY <1>1, <2>1 DEF ReadStatus, At
<1>2. CASE Look(t)
  <2>1. CASE row[d].old
    BY <1>2, <2>1, StopLemma, StatusLemma DEF Look, At
  <2>2. CASE ~row[d].old
    <3>1. Goes(t, "ask")
      BY <1>2, <2>2, Typed DEF Look, Workflow, Goes, Becomes
    <3>. QED
      BY <1>2, <2>2, <3>1 DEF Look, At
  <2>. QED
    BY <2>1, <2>2
<1>3. CASE Answer(t)
  <2>1. CASE NotAnswered(t) \/ Busy(t) \/ Missing(t)
    <3>1. \A m : PollAgain(t, m) => Goes(t, "poll") /\ row' = row
      BY Typed DEF PollAgain, Workflow, Goes, Becomes
    <3>. QED
      BY <1>3, <2>1, <3>1 DEF Answer, At, NotAnswered, Busy, Missing
  <2>2. CASE Failed(t)
    BY <1>3, <2>2, StopLemma, StatusLemma DEF Answer, At, Failed, Write
  <2>3. CASE Completed(t)
    BY <1>3, <2>3, StopLemma, StatusLemma DEF Answer, At, Completed, Write
  <2>. QED
    BY <1>3, <2>1, <2>2, <2>3 DEF Answer
<1>4. CASE ReplaceFails(t)
  <2>1. row' = row \/ Marked(d, "failed")
    BY <1>4, Typed DEF ReplaceFails, Download, Marked
  <2>. QED
    BY <1>4, <2>1, GotoLemma DEF ReplaceFails, At
<1>. QED
  BY <1>1, <1>2, <1>3, <1>4 DEF Monitor

LEMMA LadderEffect ==
  ASSUME TypeOK, NEW t \in Tasks, Ladder(t), task[t].cur \in Rows
  PROVE /\ task[t].pc \in {"cleanup", "check", "choose", "count"}
        /\ StatusKept
        /\ \/ Leaves(t) /\ task[t].entry = NoRow
           \/ /\ active' = active
              /\ \/ \E p \in {"check", "choose", "count", "insert"} : Goes(t, p)
                 \/ Goes(t, "giveup") /\ task[t].entry # NoRow
<1>. DEFINE d == task[t].cur
<1>1. ASSUME Refuse(t)
      PROVE (Leaves(t) /\ task[t].entry = NoRow) \/ (/\ active' = active
                         /\ Goes(t, "giveup") /\ task[t].entry # NoRow)
  BY <1>1, GotoLemma, LeavesLemma DEF Refuse
<1>2. CASE Cleanup(t)
  <2>1. StatusKept
    BY <1>2, Typed DEF Cleanup, Download, StatusKept
  <2>. QED
    BY <1>2, <2>1, GotoLemma DEF Cleanup, At
<1>3. CASE Check(t)
  BY <1>1, <1>3, GotoLemma DEF Check, At, StatusKept
<1>4. CASE Choose(t)
  <2>1. \A r : task' = [task EXCEPT ![t] = [@ EXCEPT !.pc = "count", !.cand = r,
                                                  !.known = Present]]
               => Goes(t, "count")
    BY Typed DEF Workflow, Goes, Becomes
  <2>. QED
    BY <1>1, <1>4, <2>1 DEF Choose, At, StatusKept
<1>5. CASE CountRetry(t)
  <2>1. Goes(t, "insert")
    BY <1>5, Typed DEF CountRetry, Workflow, Goes, Becomes
  <2>2. StatusKept
    BY <1>5, Typed DEF CountRetry, Download, StatusKept
  <2>. QED
    BY <1>5, <2>1, <2>2 DEF CountRetry, At
<1>. QED
  BY <1>2, <1>3, <1>4, <1>5 DEF Ladder

LEMMA EndEffect ==
  ASSUME TypeOK, NEW t \in Tasks, End(t), task[t].cur \in Rows
  PROVE /\ task[t].pc # "idle" /\ Leaves(t)
        /\ \/ row' = row
           \/ Marked(task[t].cur, "replaced")
<1>1. CASE ReplaceOk(t)
  <2>1. Marked(task[t].cur, "replaced")
    BY <1>1, Typed DEF ReplaceOk, Download, Marked
  <2>. QED
    BY <1>1, <2>1, LeavesLemma DEF ReplaceOk, At
<1>2. CASE GiveUp(t)
  BY <1>2, LeavesLemma DEF GiveUp, At
<1>3. CASE Raise(t)
  BY <1>3, LeavesLemma DEF Raise, Live
<1>. QED
  BY <1>1, <1>2, <1>3 DEF End

LEMMA InsertEffect ==
  ASSUME TypeOK, NEW t \in Tasks, Insert(t)
  PROVE /\ task[t].pc = "insert" /\ active' = active
        /\ \E d \in Rows :
             /\ row[d].status = "absent" /\ Marked(d, "submitting")
             /\ row'[d].depth = row[task[t].cur].depth + 1
             /\ Becomes(t, "submit", task[t].entry, task[t].cur, d)
<1>1. PICK d \in Rows :
        /\ Fresh(d)
        /\ Inserted(d, task[t].cand, row[task[t].cur].depth + 1, task[t].known)
        /\ task' = [task EXCEPT ![t] = [@ EXCEPT !.pc = "submit", !.child = d,
                                               !.cand = NoRow, !.known = {}]]
  BY DEF Insert
<1>2. row[d].status = "absent"
  BY <1>1 DEF Fresh, Present
<1>3. Marked(d, "submitting") /\ row'[d].depth = row[task[t].cur].depth + 1
  BY <1>1, InsertedLemma
<1>4. Becomes(t, "submit", task[t].entry, task[t].cur, d)
  BY <1>1, Typed DEF Workflow, Becomes
<1>. QED
  BY <1>2, <1>3, <1>4 DEF Insert, At

LEMMA CarryEffect ==
  ASSUME TypeOK, NEW t \in Tasks, Carry(t)
  PROVE /\ task[t].pc = "carry" /\ active' = active /\ StatusKept
        /\ Becomes(t, IF task[t].entry = NoRow THEN "enter" ELSE "status",
                   task[t].entry, task[t].child, NoRow)
<1>1. Becomes(t, IF task[t].entry = NoRow THEN "enter" ELSE "status",
              task[t].entry, task[t].child, NoRow)
  BY Typed DEF Carry, IdleTask, Becomes
<1>2. StatusKept
  BY Typed DEF Carry, Download, StatusKept
<1>. QED
  BY <1>1, <1>2 DEF Carry, At

LEMMA ManualEffect ==
  ASSUME TypeOK, NEW t \in Tasks, ManualRetry(t)
  PROVE /\ task[t].pc = "idle" /\ active' = active /\ row' = row
        /\ \E d \in Rows :
             /\ row[d].status = "failed"
             /\ Becomes(t, "cleanup", task[t].entry, d, task[t].child)
<1>1. PICK d \in Present :
        /\ row[d].status = "failed"
        /\ task' = [task EXCEPT ![t] = [@ EXCEPT !.pc = "cleanup", !.cur = d]]
  BY DEF ManualRetry
<1>2. Becomes(t, "cleanup", task[t].entry, d, task[t].child)
  BY <1>1, Typed DEF Workflow, Becomes
<1>. QED
  BY <1>1, <1>2 DEF ManualRetry, At, Present, Live

LEMMA AgeEffect ==
  ASSUME TypeOK, NEW d \in Rows, Age(d)
  PROVE task' = task /\ active' = active /\ Marked(d, row[d].status)
  BY Typed DEF Age, Download, Marked

LEMMA ExpireEffect ==
  ASSUME TypeOK, Expire
  PROVE /\ task' = task /\ active' = active
        /\ \A d \in Rows : \/ row'[d] = row[d]
                           \/ row[d].status # "absent" /\ row'[d].status = "failed"
  BY Typed DEF Expire, Download, Expired, Waiting

(* Recovery: the tasks in new are those it starts.                         *)
Resumes(new) ==
  /\ \A t \in Tasks \ new : task'[t] = task[t]
  /\ \A t \in new :
       /\ task[t].pc = "idle" /\ task'[t].pc = "enter"
       /\ task'[t].entry = NoRow /\ task'[t].child = NoRow /\ task'[t].known = {}
       /\ task'[t].cur \in Rows /\ row[task'[t].cur].status # "absent"

LEMMA ResumeEffect ==
  ASSUME TypeOK, Swept, Resume
  PROVE /\ \E new \in SUBSET Tasks : Resumes(new)
        /\ row' = row /\ active' = active
<1>. DEFINE Taken(new, f) ==
       task' = [t \in Tasks |->
                  IF t \in new THEN [IdleTask EXCEPT !.pc = "enter", !.cur = f[t]]
                  ELSE task[t]]
<1>1. PICK expired \in sweeps \cup {{}} :
        LET found == (expired \cup Downloading) \ active
        IN \E new \in SUBSET (Tasks \ Live) : \E f \in Bijection(new, found) :
             Taken(new, f)
  BY Zenon DEF Resume
<1>. DEFINE found == (expired \cup Downloading) \ active
<1>2. PICK new \in SUBSET (Tasks \ Live) : \E f \in Bijection(new, found) : Taken(new, f)
  BY <1>1, Zenon
<1>3. PICK f \in Bijection(new, found) : Taken(new, f)
  BY <1>2, Zenon
<1>4. found \subseteq Present
  BY DEF Swept, Downloading, Waiting, Present
<1>. HIDE DEF found
<1>5. f \in [new -> found]
  BY DEF Bijection, Injection
<1>6. \A t \in new : f[t] \in Rows /\ row[f[t]].status # "absent"
  BY <1>4, <1>5 DEF Present
<1>7. \A t \in new : task[t].pc = "idle" /\ t \in Tasks
  BY DEF Live
<1>8. \A t \in new :
        /\ task'[t].pc = "enter" /\ task'[t].cur = f[t]
        /\ task'[t].entry = NoRow /\ task'[t].child = NoRow /\ task'[t].known = {}
  BY <1>3, <1>7 DEF IdleTask
<1>9. \A t \in Tasks \ new : task'[t] = task[t]
  BY <1>3
<1>10. Resumes(new)
  BY <1>6, <1>7, <1>8, <1>9 DEF Resumes
<1>. QED
  BY <1>10 DEF Resume

LEMMA RestartEffect ==
  ASSUME Restart
  PROVE /\ active' = {} /\ row' = row
        /\ \A t \in Tasks : /\ task'[t].pc = "idle" /\ task'[t].entry = NoRow
                            /\ task'[t].cur = NoRow /\ task'[t].child = NoRow
  BY DEF Restart, IdleTask

-----------------------------------------------------------------------------
(***************************************************************************)
(* The invariant, part by part.                                            *)
(***************************************************************************)
LEMMA NextSplit ==
  ASSUME [Next]_vars
  PROVE \/ \E t \in Tasks :
             \/ Start(t) \/ Submit(t) \/ Enlist(t) \/ Enter(t) \/ Monitor(t)
             \/ Ladder(t) \/ End(t) \/ Insert(t) \/ Carry(t) \/ ManualRetry(t)
        \/ \E d \in Rows : Age(d)
        \/ Expire \/ Resume \/ RecoveryRaises
        \/ Restart \/ UNCHANGED vars
  BY Zenon DEF Next, Step, Monitor, Ladder, End

LEMMA HasSubject ==
  ASSUME TypeOK, Shapes, NEW t \in Tasks, task[t].pc # "idle"
  PROVE task[t].cur \in Rows /\ Subject(t) \in Rows
  BY Typed DEF Shapes, Shape, Subject

LEMMA PointsLemma ==
  ASSUME TypeOK, NEW t \in Tasks
  PROVE task[t].pc \in Points
  BY Typed DEF Workflow

LEMMA Lively ==
  ASSUME NEW t \in Tasks,
         Submit(t) \/ Enlist(t) \/ Monitor(t) \/ Ladder(t) \/ End(t)
  PROVE task[t].pc # "idle"
  BY DEF Submit, Enlist, Monitor, Ladder, End, ReadStatus, Look, Answer,
     ReplaceFails, Cleanup, Check, Choose, CountRetry, ReplaceOk, GiveUp, Raise,
     At, Live

(* Every step keeps what a control point says.                             *)
LEMMA ShapeStep ==
  ASSUME TypeOK, Shapes, Swept, [Next]_vars
  PROVE Shapes'
<1>. USE Typed, NoRowOutside DEF Shapes, Shape
<1>1. ASSUME NEW t \in Tasks, Start(t) PROVE Shapes'
  BY <1>1, StartEffect DEF Goes, Becomes, Leaves, Marked, StatusKept
<1>2. ASSUME NEW t \in Tasks, Submit(t) PROVE Shapes'
  BY <1>2, SubmitEffect, HasSubject, Lively DEF Goes, Becomes, Leaves, Marked,
     StatusKept, Subject
<1>3. ASSUME NEW t \in Tasks, Enlist(t) PROVE Shapes'
  BY <1>3, EnlistEffect, HasSubject, Lively DEF Goes, Becomes, Leaves, Marked,
     StatusKept, Subject
<1>4. ASSUME NEW t \in Tasks, Enter(t) PROVE Shapes'
  BY <1>4, EnterEffect DEF Goes, Becomes, Leaves, Marked, StatusKept
<1>5. ASSUME NEW t \in Tasks, Monitor(t) PROVE Shapes'
  BY <1>5, MonitorEffect, HasSubject, Lively DEF Goes, Becomes, Leaves, Marked,
     StatusKept
<1>6. ASSUME NEW t \in Tasks, Ladder(t) PROVE Shapes'
  BY <1>6, LadderEffect, HasSubject, Lively DEF Goes, Becomes, Leaves, Marked,
     StatusKept
<1>7. ASSUME NEW t \in Tasks, End(t) PROVE Shapes'
  BY <1>7, EndEffect, HasSubject, Lively DEF Goes, Becomes, Leaves, Marked,
     StatusKept
<1>8. ASSUME NEW t \in Tasks, Insert(t) PROVE Shapes'
  BY <1>8, InsertEffect DEF Goes, Becomes, Leaves, Marked, StatusKept
<1>9. ASSUME NEW t \in Tasks, Carry(t) PROVE Shapes'
  BY <1>9, CarryEffect DEF Goes, Becomes, Leaves, Marked, StatusKept
<1>10. ASSUME NEW t \in Tasks, ManualRetry(t) PROVE Shapes'
  BY <1>10, ManualEffect DEF Goes, Becomes, Leaves, Marked, StatusKept
<1>11. ASSUME NEW d \in Rows, Age(d) PROVE Shapes'
  BY <1>11, AgeEffect DEF Marked, Subject
<1>12. CASE Expire \/ RecoveryRaises
  <2>1. task' = task /\ active' = active
    BY <1>12, ExpireEffect DEF RecoveryRaises
  <2>2. \A d \in Rows : row[d].status # "absent" => row'[d].status # "absent"
    BY <1>12, ExpireEffect DEF RecoveryRaises
  <2>. QED
    BY <2>1, <2>2
<1>15. CASE Resume
  <2>1. PICK new \in SUBSET Tasks : Resumes(new)
    BY <1>15, ResumeEffect, Zenon
  <2>. QED
    BY <1>15, <2>1, ResumeEffect DEF Resumes
<1>13. CASE Restart
  BY <1>13, RestartEffect
<1>14. CASE UNCHANGED vars
  BY <1>14 DEF vars
<1>. QED
  BY <1>1, <1>2, <1>3, <1>4, <1>5, <1>6, <1>7, <1>8, <1>9, <1>10, <1>11, <1>12, <1>13, <1>14, <1>15, NextSplit, Zenon

(* A download that is held exists.                                         *)
LEMMA PresentStep ==
  ASSUME TypeOK, Shapes, HeldPresent, Swept, [Next]_vars
  PROVE HeldPresent'
<1>. USE Typed, NoRowOutside DEF Shapes, Shape, HeldPresent, Holds
<1>1. ASSUME NEW t \in Tasks, Start(t) PROVE HeldPresent'
  BY <1>1, StartEffect DEF Goes, Becomes, Leaves, Marked, StatusKept
<1>2. ASSUME NEW t \in Tasks, Submit(t) PROVE HeldPresent'
  BY <1>2, SubmitEffect, HasSubject, Lively DEF Goes, Becomes, Leaves, Marked,
     StatusKept, Subject
<1>3. ASSUME NEW t \in Tasks, Enlist(t) PROVE HeldPresent'
  BY <1>3, EnlistEffect, HasSubject, Lively DEF Goes, Becomes, Leaves, Marked,
     StatusKept, Subject
<1>4. ASSUME NEW t \in Tasks, Enter(t) PROVE HeldPresent'
  BY <1>4, EnterEffect DEF Goes, Becomes, Leaves, Marked, StatusKept
<1>5. ASSUME NEW t \in Tasks, Monitor(t) PROVE HeldPresent'
  BY <1>5, MonitorEffect, HasSubject, Lively DEF Goes, Becomes, Leaves, Marked,
     StatusKept
<1>6. ASSUME NEW t \in Tasks, Ladder(t) PROVE HeldPresent'
  BY <1>6, LadderEffect, HasSubject, Lively DEF Goes, Becomes, Leaves, Marked,
     StatusKept
<1>7. ASSUME NEW t \in Tasks, End(t) PROVE HeldPresent'
  BY <1>7, EndEffect, HasSubject, Lively DEF Goes, Becomes, Leaves, Marked,
     StatusKept
<1>8. ASSUME NEW t \in Tasks, Insert(t) PROVE HeldPresent'
  BY <1>8, InsertEffect DEF Goes, Becomes, Leaves, Marked, StatusKept
<1>9. ASSUME NEW t \in Tasks, Carry(t) PROVE HeldPresent'
  BY <1>9, CarryEffect DEF Goes, Becomes, Leaves, Marked, StatusKept
<1>10. ASSUME NEW t \in Tasks, ManualRetry(t) PROVE HeldPresent'
  BY <1>10, ManualEffect DEF Goes, Becomes, Leaves, Marked, StatusKept
<1>11. ASSUME NEW d \in Rows, Age(d) PROVE HeldPresent'
  BY <1>11, AgeEffect DEF Marked, Subject
<1>12. CASE Expire \/ RecoveryRaises
  <2>1. task' = task /\ active' = active
    BY <1>12, ExpireEffect DEF RecoveryRaises
  <2>2. \A d \in Rows : row[d].status # "absent" => row'[d].status # "absent"
    BY <1>12, ExpireEffect DEF RecoveryRaises
  <2>. QED
    BY <2>1, <2>2
<1>15. CASE Resume
  <2>1. PICK new \in SUBSET Tasks : Resumes(new)
    BY <1>15, ResumeEffect, Zenon
  <2>. QED
    BY <1>15, <2>1, ResumeEffect DEF Resumes
<1>13. CASE Restart
  BY <1>13, RestartEffect
<1>14. CASE UNCHANGED vars
  BY <1>14 DEF vars
<1>. QED
  BY <1>1, <1>2, <1>3, <1>4, <1>5, <1>6, <1>7, <1>8, <1>9, <1>10, <1>11, <1>12, <1>13, <1>14, <1>15, NextSplit, Zenon

(* No step lists two tasks under one download.                             *)
LEMMA ListedStep ==
  ASSUME TypeOK, Shapes, Listed, Swept, [Next]_vars
  PROVE Listed'
<1>. USE Typed, NoRowOutside DEF Shapes, Shape, Listed
<1>1. ASSUME NEW t \in Tasks, Start(t) PROVE Listed'
  BY <1>1, StartEffect DEF Goes, Becomes, Leaves, Marked, StatusKept
<1>2. ASSUME NEW t \in Tasks, Submit(t) PROVE Listed'
  BY <1>2, SubmitEffect, HasSubject, Lively DEF Goes, Becomes, Leaves, Marked,
     StatusKept, Subject
<1>3. ASSUME NEW t \in Tasks, Enlist(t) PROVE Listed'
  BY <1>3, EnlistEffect, HasSubject, Lively DEF Goes, Becomes, Leaves, Marked,
     StatusKept, Subject
<1>4. ASSUME NEW t \in Tasks, Enter(t) PROVE Listed'
  BY <1>4, EnterEffect DEF Goes, Becomes, Leaves, Marked, StatusKept
<1>5. ASSUME NEW t \in Tasks, Monitor(t) PROVE Listed'
  BY <1>5, MonitorEffect, HasSubject, Lively DEF Goes, Becomes, Leaves, Marked,
     StatusKept
<1>6. ASSUME NEW t \in Tasks, Ladder(t) PROVE Listed'
  BY <1>6, LadderEffect, HasSubject, Lively DEF Goes, Becomes, Leaves, Marked,
     StatusKept
<1>7. ASSUME NEW t \in Tasks, End(t) PROVE Listed'
  BY <1>7, EndEffect, HasSubject, Lively DEF Goes, Becomes, Leaves, Marked,
     StatusKept
<1>8. ASSUME NEW t \in Tasks, Insert(t) PROVE Listed'
  BY <1>8, InsertEffect DEF Goes, Becomes, Leaves, Marked, StatusKept
<1>9. ASSUME NEW t \in Tasks, Carry(t) PROVE Listed'
  BY <1>9, CarryEffect DEF Goes, Becomes, Leaves, Marked, StatusKept
<1>10. ASSUME NEW t \in Tasks, ManualRetry(t) PROVE Listed'
  BY <1>10, ManualEffect DEF Goes, Becomes, Leaves, Marked, StatusKept
<1>11. ASSUME NEW d \in Rows, Age(d) PROVE Listed'
  BY <1>11, AgeEffect DEF Marked, Subject
<1>12. CASE Expire \/ RecoveryRaises
  <2>1. task' = task /\ active' = active
    BY <1>12, ExpireEffect DEF RecoveryRaises
  <2>2. \A d \in Rows : row[d].status # "absent" => row'[d].status # "absent"
    BY <1>12, ExpireEffect DEF RecoveryRaises
  <2>. QED
    BY <2>1, <2>2
<1>15. CASE Resume
  <2>1. PICK new \in SUBSET Tasks : Resumes(new)
    BY <1>15, ResumeEffect, Zenon
  <2>. QED
    BY <1>15, <2>1, ResumeEffect DEF Resumes
<1>13. CASE Restart
  BY <1>13, RestartEffect
<1>14. CASE UNCHANGED vars
  BY <1>14 DEF vars
<1>. QED
  BY <1>1, <1>2, <1>3, <1>4, <1>5, <1>6, <1>7, <1>8, <1>9, <1>10, <1>11, <1>12, <1>13, <1>14, <1>15, NextSplit, Zenon

-----------------------------------------------------------------------------
(***************************************************************************)
(* Types.                                                                  *)
(***************************************************************************)
LEMMA Retyped ==
  ASSUME TypeOK, NEW t \in Tasks, NEW w \in Workflow, task' = [task EXCEPT ![t] = w]
  PROVE task' \in [Tasks -> Workflow]
  BY Typed

LEMMA GotoTyped ==
  ASSUME TypeOK, NEW t \in Tasks, NEW p \in Points,
         Goto(t, p) \/ StopPolling(t, p)
  PROVE task' \in [Tasks -> Workflow]
<1>1. "absent" \in Statuses
  BY DEF Statuses
<1>2. CASE Goto(t, p)
  BY <1>2, Typed DEF Goto, Workflow
<1>3. CASE StopPolling(t, p)
  <2>1. [task[t] EXCEPT !.pc = p, !.seen = "absent", !.missed = 0] \in Workflow
    BY <1>1, Typed DEF Workflow
  <2>. QED
    BY <1>3, <2>1, Retyped DEF StopPolling
<1>. QED
  BY <1>2, <1>3

LEMMA IdleTyped == IdleTask \in Workflow
  BY DEF IdleTask, Workflow, Points, Statuses

LEMMA LeaveTyped ==
  ASSUME TypeOK, NEW t \in Tasks, Leave(t)
  PROVE task' \in [Tasks -> Workflow] /\ active' \subseteq Rows
  BY Retyped, IdleTyped DEF Leave, TypeOK

LEMMA PointsNamed ==
  /\ "idle" \in Points /\ "submit" \in Points /\ "enlist" \in Points
  /\ "enter" \in Points /\ "status" \in Points /\ "poll" \in Points
  /\ "ask" \in Points /\ "replace" \in Points /\ "giveup" \in Points
  /\ "cleanup" \in Points /\ "check" \in Points /\ "choose" \in Points
  /\ "count" \in Points /\ "insert" \in Points /\ "carry" \in Points
  BY DEF Points

LEMMA TasksTyped ==
  ASSUME TypeOK, Shapes, NEW t \in Tasks, Start(t) \/ Step(t) \/ ManualRetry(t) \/ Raise(t)
  PROVE task' \in [Tasks -> Workflow]
<1>. USE PointsNamed
<1>1. task[t] \in Workflow
  BY Typed
<1>2. CASE Start(t)
  <2>1. PICK d \in Rows :
          task' = [task EXCEPT ![t] = [@ EXCEPT !.pc = "submit", !.cur = d]]
    BY <1>2 DEF Start
  <2>2. [task[t] EXCEPT !.pc = "submit", !.cur = d] \in Workflow
    BY <1>1 DEF Workflow
  <2>. QED
    BY <2>1, <2>2, Retyped
<1>3. CASE Submit(t) \/ Enlist(t) \/ GiveUp(t) \/ Raise(t)
        \/ ReplaceOk(t) \/ ReplaceFails(t) \/ Cleanup(t) \/ Check(t)
  BY <1>3, GotoTyped, LeaveTyped
     DEF Submit, Enlist, GiveUp, Raise, ReplaceOk, ReplaceFails, Cleanup, Check,
         Refuse
<1>4. CASE Enter(t)
  <2>1. [task[t] EXCEPT !.pc = "status", !.entry = task[t].cur] \in Workflow
    BY <1>1 DEF Workflow
  <2>. QED
    BY <1>4, <2>1, Retyped, LeaveTyped DEF Enter
<1>5. CASE ReadStatus(t)
  <2>1. \A p \in Points : [task[t] EXCEPT !.pc = p, !.missed = 0] \in Workflow
    BY <1>1 DEF Workflow
  <2>. QED
    BY <1>5, <2>1, Retyped DEF ReadStatus
<1>6. CASE Look(t)
  <2>1. task[t].cur \in Rows
    BY <1>6, HasSubject DEF Look, At
  <2>2. row[task[t].cur].status \in Statuses
    BY <2>1, Typed DEF Download
  <2>3. [task[t] EXCEPT !.pc = "ask", !.seen = row[task[t].cur].status] \in Workflow
    BY <1>1, <2>2 DEF Workflow
  <2>. QED
    BY <1>6, <2>3, Retyped, GotoTyped DEF Look
<1>7. CASE Answer(t)
  <2>1. ASSUME NEW m \in Nat, PollAgain(t, m)
        PROVE task' \in [Tasks -> Workflow]
    <3>1. [task[t] EXCEPT !.pc = "poll", !.missed = m] \in Workflow
      BY <1>1 DEF Workflow
    <3>. QED
      BY <2>1, <3>1, Retyped DEF PollAgain
  <2>2. task[t].missed \in Nat
    BY <1>1 DEF Workflow
  <2>. QED
    BY <1>7, <2>1, <2>2, GotoTyped
       DEF Answer, NotAnswered, Busy, Missing, Failed, Completed
<1>8. CASE Choose(t)
  <2>1. ASSUME NEW r \in Releases,
               task' = [task EXCEPT ![t] = [@ EXCEPT !.pc = "count", !.cand = r,
                                                       !.known = Present]]
        PROVE task' \in [Tasks -> Workflow]
    <3>1. [task[t] EXCEPT !.pc = "count", !.cand = r, !.known = Present] \in Workflow
      BY <1>1 DEF Workflow, Present
    <3>. QED
      BY <2>1, <3>1, Retyped
  <2>. QED
    BY <1>8, <2>1, GotoTyped, LeaveTyped DEF Choose, Refuse
<1>9. CASE CountRetry(t)
  <2>1. task[t].cur \in Rows
    BY <1>9, HasSubject DEF CountRetry, At
  <2>2. row[task[t].cur].retry \in Nat
    BY <2>1, Typed DEF Download
  <2>3. [task[t] EXCEPT !.pc = "insert", !.base = row[task[t].cur].retry] \in Workflow
    BY <1>1, <2>2 DEF Workflow
  <2>. QED
    BY <1>9, <2>3, Retyped DEF CountRetry
<1>10. CASE Insert(t)
  <2>1. PICK d \in Rows :
          task' = [task EXCEPT ![t] = [@ EXCEPT !.pc = "submit", !.child = d,
                                                !.cand = NoRow, !.known = {}]]
    BY <1>10 DEF Insert
  <2>2. [task[t] EXCEPT !.pc = "submit", !.child = d, !.cand = NoRow, !.known = {}]
          \in Workflow
    BY <1>1 DEF Workflow
  <2>. QED
    BY <2>1, <2>2, Retyped
<1>11. CASE Carry(t)
  <2>1. /\ task[t].entry \in Rows \cup {NoRow}
        /\ task[t].child \in Rows \cup {NoRow}
    BY Typed
  <2>2. \A p \in Points :
          [IdleTask EXCEPT !.pc = p, !.entry = task[t].entry, !.cur = task[t].child]
            \in Workflow
    BY <2>1, IdleTyped DEF Workflow
  <2>. QED
    BY <1>11, <2>2, Retyped DEF Carry
<1>12. CASE ManualRetry(t)
  <2>1. PICK d \in Rows :
          task' = [task EXCEPT ![t] = [@ EXCEPT !.pc = "cleanup", !.cur = d]]
    BY <1>12 DEF ManualRetry, Present
  <2>2. [task[t] EXCEPT !.pc = "cleanup", !.cur = d] \in Workflow
    BY <1>1 DEF Workflow
  <2>. QED
    BY <2>1, <2>2, Retyped
<1>. QED
  BY <1>2, <1>3, <1>4, <1>5, <1>6, <1>7, <1>8, <1>9, <1>10, <1>11, <1>12, Zenon
     DEF Step

LEMMA StatusTyped ==
  ASSUME TypeOK, NEW d, NEW s \in Statuses, Status(d, s)
  PROVE row' \in [Rows -> Download]
  BY Typed DEF Status, Download

LEMMA InsertedTyped ==
  ASSUME TypeOK, NEW d, NEW r \in Releases \cup {NoRow}, NEW k \in Nat,
         NEW s \in SUBSET Rows, Inserted(d, r, k, s)
  PROVE row' \in [Rows -> Download]
<1>1. [Absent EXCEPT !.status = "submitting", !.release = r, !.depth = k, !.known = s]
        \in Download
  BY DEF Absent, Download, Statuses
<1>. QED
  BY <1>1, Typed DEF Inserted

LEMMA FilesTyped ==
  ASSUME NEW r \in Download, NEW s \in Statuses
  PROVE  /\ [r EXCEPT !.status = s, !.files = FALSE] \in Download
         /\ [r EXCEPT !.files = FALSE] \in Download
  BY DEF Download

LEMMA RowTyped ==
  ASSUME TypeOK, NEW d \in Rows
  PROVE  row[d] \in Download
  BY Typed

LEMMA RowsTyped ==
  ASSUME TypeOK, Shapes, NEW t \in Tasks, Start(t) \/ Step(t) \/ ManualRetry(t) \/ Raise(t)
  PROVE row' \in [Rows -> Download]
<1>0. /\ "failed" \in Statuses /\ "completed" \in Statuses
      /\ "replaced" \in Statuses /\ "downloading" \in Statuses
  BY DEF Statuses
<1>. DEFINE d == task[t].cur
<1>1. CASE Start(t)
  BY <1>1, InsertedTyped, 0 \in Nat, {} \in SUBSET Rows DEF Start
<1>2. CASE \/ Submit(t) \/ Enlist(t) \/ Look(t)
           \/ Enter(t) \/ ReadStatus(t) \/ GiveUp(t) \/ Check(t) \/ Choose(t)
           \/ ManualRetry(t) \/ Raise(t)
  BY <1>0, <1>2, StatusTyped, Typed
     DEF Submit, Enlist, Look, Enter, ReadStatus, GiveUp, Check, Choose,
         ManualRetry, Raise
<1>3. CASE Answer(t)
  BY <1>0, <1>3, StatusTyped, Typed
     DEF Answer, NotAnswered, Busy, Missing, Failed, Completed, PollAgain, Write
<1>4. CASE ReplaceOk(t) \/ ReplaceFails(t)
  <2>1. ASSUME NEW s \in Statuses, d \in Rows
        PROVE [row[d] EXCEPT !.status = s, !.files = FALSE] \in Download
    BY <2>1, RowTyped, FilesTyped
  <2>2. d \in Rows
    BY <1>4, HasSubject DEF ReplaceOk, ReplaceFails, At
  <2>3. CASE ReplaceOk(t)
    <3>1. [row[d] EXCEPT !.status = "replaced", !.files = FALSE] \in Download
      BY <1>0, <2>1, <2>2
    <3>. QED
      BY <2>3, <3>1, Typed DEF ReplaceOk
  <2>4. CASE ReplaceFails(t)
    <3>1. [row[d] EXCEPT !.status = "failed", !.files = FALSE] \in Download
      BY <1>0, <2>1, <2>2
    <3>. QED
      BY <2>4, <3>1, Typed DEF ReplaceFails
  <2>. QED
    BY <1>4, <2>3, <2>4
<1>5. CASE Cleanup(t)
  <2>1. d \in Rows
    BY <1>5, HasSubject DEF Cleanup, At
  <2>2. [row[d] EXCEPT !.files = FALSE] \in Download
    BY <1>0, <2>1, RowTyped, FilesTyped
  <2>. QED
    BY <1>5, <2>2, Typed DEF Cleanup
<1>6. CASE CountRetry(t)
  <2>1. d \in Rows
    BY <1>6, HasSubject DEF CountRetry, At
  <2>2. [row[d] EXCEPT !.retry = row[d].retry + 1] \in Download
    BY <2>1, RowTyped DEF Download
  <2>. QED
    BY <1>6, <2>2, Typed DEF CountRetry
<1>7. CASE Insert(t)
  <2>1. task[t].cand \in Releases \cup {NoRow} /\ task[t].known \in SUBSET Rows
    BY Typed DEF Workflow
  <2>2. d \in Rows
    BY <1>7, HasSubject DEF Insert, At
  <2>3. row[d].depth + 1 \in Nat
    BY <2>2, Typed DEF Download
  <2>. QED
    BY <1>7, <2>1, <2>3, InsertedTyped DEF Insert
<1>8. CASE Carry(t)
  <2>1. task[t].base + 1 \in Nat
    BY Typed DEF Workflow
  <2>. QED
    BY <1>8, <2>1, Typed DEF Carry, Download
<1>. QED
  BY <1>1, <1>2, <1>3, <1>4, <1>5, <1>6, <1>7, <1>8, Zenon DEF Step

LEMMA RestTyped ==
  ASSUME TypeOK, Shapes, NEW t \in Tasks, Start(t) \/ Step(t) \/ ManualRetry(t) \/ Raise(t)
  PROVE /\ movie' \in {"pending", "downloading", "improved", "failed"}
        /\ active' \subseteq Rows
        /\ count' \in [starts : Nat, manual : Nat, deaths : Nat]
        /\ sweeps' = sweeps /\ lost' \subseteq Rows /\ rival' \in BOOLEAN
<1>. USE DEF TypeOK, history
<1>0. task[t].cur \in Rows \cup {NoRow} /\ {task[t].child} \ {NoRow} \subseteq Rows
      /\ Begun \subseteq Rows
  BY Typed DEF Begun, Live
<1>1. CASE Start(t) \/ ManualRetry(t) \/ Raise(t)
  <2>1. \A e \in {"starts", "manual", "deaths"} :
          Tally(e) => count' \in [starts : Nat, manual : Nat, deaths : Nat]
    BY DEF Tally
  <2>. QED
    BY <1>0, <1>1, <2>1, LeaveTyped DEF Start, ManualRetry, Raise
<1>2. CASE Enter(t)
  <2>1. task[t].cur \in Rows
    BY <1>2, HasSubject DEF Enter, At
  <2>. QED
    BY <1>2, <2>1, LeaveTyped DEF Enter
<1>3. CASE \/ Submit(t) \/ Enlist(t) \/ ReadStatus(t) \/ Look(t) \/ Answer(t)
           \/ ReplaceOk(t) \/ ReplaceFails(t) \/ GiveUp(t)
  BY <1>0, <1>3, LeaveTyped DEF Submit, Enlist, ReadStatus, Look, Answer, ReplaceOk,
     ReplaceFails, GiveUp, Company
<1>4. CASE \/ Cleanup(t) \/ Check(t) \/ Choose(t) \/ CountRetry(t) \/ Insert(t)
           \/ Carry(t)
  BY <1>0, <1>4, LeaveTyped DEF Cleanup, Check, Choose, Refuse, CountRetry, Insert, Carry
<1>. HIDE DEF TypeOK
<1>. QED
  BY <1>1, <1>2, <1>3, <1>4, Zenon DEF Step

(* Every step keeps the types.                                             *)
LEMMA TypeStep ==
  ASSUME TypeOK, Shapes, Swept, [Next]_vars
  PROVE TypeOK'
<1>1. ASSUME NEW t \in Tasks, Start(t) \/ Step(t) \/ ManualRetry(t) \/ Raise(t)
      PROVE TypeOK'
  BY <1>1, TasksTyped, RowsTyped, RestTyped DEF TypeOK
<1>2. ASSUME NEW d \in Rows, Age(d) PROVE TypeOK'
  <2>1. row' \in [Rows -> Download]
    BY <1>2, Typed DEF Age, Download
  <2>. QED
    BY <1>2, <2>1 DEF TypeOK, Age, history
<1>3. CASE Expire
  <2>1. row' \in [Rows -> Download]
    <3>1. \A d \in Rows : [row[d] EXCEPT !.status = "failed"] \in Download
      BY Typed DEF Download, Statuses
    <3>. QED
      BY <1>3, <3>1, Typed DEF Expire
  <2>2. Expired \subseteq Rows
    BY DEF Expired, Waiting
  <2>. QED
    BY <1>3, <2>1, <2>2 DEF Expire, TypeOK, history
<1>6. CASE Resume
  <2>1. PICK new \in SUBSET Tasks : Resumes(new)
    BY <1>6, ResumeEffect, Zenon
  <2>2. \A d \in Rows : [IdleTask EXCEPT !.pc = "enter", !.cur = d] \in Workflow
    BY IdleTyped, PointsNamed DEF Workflow
  <2>3. PICK fresh \in SUBSET (Tasks \ Live) :
          \E f : /\ task' = [t \in Tasks |->
                              IF t \in fresh THEN [IdleTask EXCEPT !.pc = "enter", !.cur = f[t]]
                              ELSE task[t]]
    BY <1>6, Zenon DEF Resume
  <2>4. PICK f : task' = [t \in Tasks |->
                            IF t \in fresh THEN [IdleTask EXCEPT !.pc = "enter", !.cur = f[t]]
                            ELSE task[t]]
    BY <2>3, Zenon
  <2>6. \A t \in fresh : f[t] \in Rows
    <3>1. \A t \in fresh : task'[t].cur = f[t] /\ task'[t].pc = "enter" /\ task[t].pc = "idle"
      BY <2>4 DEF IdleTask, Live
    <3>. QED
      BY <2>1, <3>1 DEF Resumes
  <2>5. task' \in [Tasks -> Workflow]
    BY <2>2, <2>4, <2>6, Typed
  <2>. QED
    BY <1>6, <2>5 DEF Resume, TypeOK, history
<1>7. CASE RecoveryRaises
  BY <1>7 DEF RecoveryRaises, TypeOK, Tally, history
<1>4. CASE Restart
  <2>1. Begun \subseteq Rows
    BY Typed DEF Begun, Live
  <2>. QED
    BY <1>4, <2>1, IdleTyped DEF Restart, TypeOK, Tally
<1>5. CASE UNCHANGED vars
  BY <1>5 DEF vars, history, TypeOK
<1>. QED
  BY <1>1, <1>2, <1>3, <1>4, <1>5, <1>6, <1>7, Zenon DEF Next

-----------------------------------------------------------------------------
LEMMA InitTyped == Init => TypeOK /\ Shapes /\ IInv
<1>. SUFFICES ASSUME Init PROVE IInv
  BY DEF IInv
<1>1. TypeOK
  <2>1. row \in [Rows -> Download]
    BY DEF Init, Absent, Download, Statuses
  <2>2. task \in [Tasks -> Workflow]
    BY IdleTyped DEF Init
  <2>. QED
    BY <2>1, <2>2 DEF Init, TypeOK
<1>2. \A t \in Tasks : /\ task[t].pc = "idle" /\ task[t].entry = NoRow
                       /\ task[t].cur = NoRow /\ task[t].child = NoRow
  BY DEF Init, IdleTask
<1>3. sweeps = {}
  BY DEF Init
<1>. QED
  BY <1>1, <1>2, <1>3, NoRowOutside
     DEF IInv, Shapes, Shape, HeldPresent, Holds, Swept, Listed, Owned, Owns

(* A download that exists goes on existing.                                *)
LEMMA StaysPresent ==
  ASSUME TypeOK, Shapes, Swept, [Next]_vars
  PROVE  Present \subseteq Present'
<1>. SUFFICES \A d \in Rows : row[d].status # "absent" => row'[d].status # "absent"
  BY DEF Present
<1>1. ASSUME NEW t \in Tasks, Start(t) \/ Enter(t) \/ Insert(t) \/ Carry(t) \/ ManualRetry(t)
      PROVE  \A d \in Rows : row[d].status # "absent" => row'[d].status # "absent"
  BY <1>1, StartEffect, EnterEffect, InsertEffect, CarryEffect, ManualEffect
     DEF Marked, StatusKept
<1>2. ASSUME NEW t \in Tasks, Submit(t) \/ Enlist(t) \/ Monitor(t) \/ Ladder(t) \/ End(t)
      PROVE  \A d \in Rows : row[d].status # "absent" => row'[d].status # "absent"
  <2>1. task[t].cur \in Rows /\ Subject(t) \in Rows
    BY <1>2, HasSubject, Lively
  <2>. QED
    BY <1>2, <2>1, SubmitEffect, EnlistEffect, MonitorEffect, LadderEffect, EndEffect
       DEF Marked, StatusKept
<1>3. ASSUME NEW d \in Rows, Age(d)
      PROVE  \A e \in Rows : row[e].status # "absent" => row'[e].status # "absent"
  BY <1>3, AgeEffect DEF Marked
<1>4. CASE Expire
  BY <1>4, ExpireEffect
<1>5. CASE Resume \/ RecoveryRaises \/ Restart \/ UNCHANGED vars
  BY <1>5 DEF Resume, RecoveryRaises, Restart, vars
<1>. QED
  BY <1>1, <1>2, <1>3, <1>4, <1>5, NextSplit

LEMMA SweptStep ==
  ASSUME TypeOK, Shapes, Swept, [Next]_vars
  PROVE  Swept'
<1>1. Present \subseteq Present'
  BY StaysPresent
<1>2. Expired \subseteq Present
  BY DEF Expired, Waiting, Present
<1>3. sweeps' \subseteq sweeps \cup {Expired}
  <2>1. ASSUME NEW t \in Tasks, Start(t) \/ Step(t) \/ ManualRetry(t) \/ Raise(t)
        PROVE  sweeps' = sweeps
    BY <2>1, RestTyped
  <2>2. CASE (\E d \in Rows : Age(d)) \/ Expire \/ Resume \/ RecoveryRaises \/ Restart
             \/ UNCHANGED vars
    BY <2>2 DEF Age, Expire, Resume, RecoveryRaises, Restart, vars
  <2>. QED
    BY <2>1, <2>2 DEF Next
<1>. QED
  BY <1>1, <1>2, <1>3 DEF Swept

(* A download that exists keeps its release and what led to it.            *)
Same(d) ==
  /\ row'[d].depth = row[d].depth /\ row'[d].known = row[d].known
  /\ row'[d].release = row[d].release

LEMMA Remembered ==
  ASSUME TypeOK, Shapes, [Next]_vars
  PROVE  \A d \in Present : Same(d)
<1>. USE Typed DEF Download, Same, Present
<1>1. ASSUME NEW t \in Tasks, Start(t) \/ Insert(t) PROVE \A d \in Present : Same(d)
  BY <1>1 DEF Start, Insert, Inserted, Fresh
<1>2. ASSUME NEW t \in Tasks,
             \/ Submit(t) \/ Enlist(t) \/ Look(t) \/ Answer(t)
      PROVE  \A d \in Present : Same(d)
  BY <1>2 DEF Submit, Enlist, Look, Answer, NotAnswered, Busy, Missing, Failed, Completed,
     PollAgain, Write, Status
<1>3. ASSUME NEW t \in Tasks,
             \/ ReplaceOk(t) \/ ReplaceFails(t) \/ Cleanup(t) \/ CountRetry(t) \/ Carry(t)
      PROVE  \A d \in Present : Same(d)
  <2>1. ASSUME ReplaceOk(t) \/ ReplaceFails(t), row' # row PROVE \A d \in Present : Same(d)
    <3>1. PICK s : row' = [row EXCEPT ![task[t].cur] =
                             [row[task[t].cur] EXCEPT !.status = s, !.files = FALSE]]
      BY <2>1 DEF ReplaceOk, ReplaceFails
    <3>2. \A r \in Download : LET w == [r EXCEPT !.status = s, !.files = FALSE]
                              IN w.depth = r.depth /\ w.known = r.known /\ w.release = r.release
      OBVIOUS
    <3>. QED
      BY <3>1, <3>2
  <2>2. CASE Cleanup(t)
    BY <2>2 DEF Cleanup
  <2>3. CASE CountRetry(t)
    BY <2>3 DEF CountRetry
  <2>4. CASE Carry(t)
    BY <2>4 DEF Carry
  <2>5. CASE row' = row
    BY <2>5
  <2>. QED
    BY <1>3, <2>1, <2>2, <2>3, <2>4, <2>5
<1>4. ASSUME NEW t \in Tasks,
             \/ Enter(t) \/ ReadStatus(t) \/ GiveUp(t) \/ Check(t) \/ Choose(t)
             \/ ManualRetry(t) \/ Raise(t)
      PROVE  \A d \in Present : Same(d)
  BY <1>4 DEF Enter, ReadStatus, GiveUp, Check, Choose, ManualRetry, Raise
<1>5. CASE (\E d \in Rows : Age(d)) \/ Expire
  BY <1>5 DEF Age, Expire
<1>6. CASE Resume \/ RecoveryRaises \/ Restart \/ UNCHANGED vars
  BY <1>6 DEF Resume, RecoveryRaises, Restart, vars
<1>. QED
  BY <1>1, <1>2, <1>3, <1>4, <1>5, <1>6, Zenon DEF Next, Step

(* No step makes two tasks own one download.                               *)
LEMMA OwnedStep ==
  ASSUME TypeOK, Shapes, HeldPresent, Swept, Owned, [Next]_vars
  PROVE  Owned'
<1>0. \A t \in Tasks, d \in Rows : Owns(t, d) => row'[d].depth > 0
  BY Remembered DEF Owned, HeldPresent, Holds, Owns, Present, Same
<1>. USE Typed, NoRowOutside DEF Shapes, Shape
(* It is enough that a step gives no task a download that it did not own,  *)
(* but for one that exists since this step.                                *)
<1>1. ASSUME \A t \in Tasks, d \in Rows : Owns(t, d)' => Owns(t, d) PROVE Owned'
  BY <1>0, <1>1 DEF Owned
<1>2. ASSUME NEW t \in Tasks, Insert(t) PROVE Owned'
  <2>1. PICK d \in Rows :
          /\ row[d].status = "absent" /\ row'[d].depth = row[task[t].cur].depth + 1
          /\ Becomes(t, "submit", task[t].entry, task[t].cur, d)
    BY <1>2, InsertEffect
  <2>2. \A u \in Tasks : ~Owns(u, d)
    BY <2>1 DEF HeldPresent, Holds, Owns
  <2>3. \A u \in Tasks, e \in Rows : Owns(u, e)' => Owns(u, e) \/ (u = t /\ e = d)
    BY <2>1 DEF Becomes, Owns
  <2>4. task[t].cur \in Rows
    BY <1>2, HasSubject DEF Insert, At
  <2>5. row'[d].depth > 0
    BY <2>1, <2>4 DEF Download
  <2>. QED
    BY <1>0, <2>2, <2>3, <2>5 DEF Owned
<1>3. ASSUME NEW t \in Tasks, Start(t) \/ Enter(t) \/ Carry(t) \/ ManualRetry(t)
      PROVE  Owned'
  <2>1. \A u \in Tasks, d \in Rows : Owns(u, d)' => Owns(u, d)
    BY <1>3, StartEffect, EnterEffect, CarryEffect, ManualEffect DEF Becomes, Leaves, Owns
  <2>. QED
    BY <1>1, <2>1
<1>4. ASSUME NEW t \in Tasks, Submit(t) \/ Enlist(t) \/ Monitor(t) \/ Ladder(t) \/ End(t)
      PROVE  Owned'
  <2>1. task[t].cur \in Rows /\ Subject(t) \in Rows
    BY <1>4, HasSubject, Lively
  <2>2. (\E p : Goes(t, p)) \/ Leaves(t)
    BY <1>4, <2>1, SubmitEffect, EnlistEffect, MonitorEffect, LadderEffect, EndEffect
  <2>3. \A u \in Tasks, d \in Rows : Owns(u, d)' => Owns(u, d)
    BY <2>2 DEF Goes, Leaves, Becomes, Owns
  <2>. QED
    BY <1>1, <2>3
<1>5. CASE (\E d \in Rows : Age(d)) \/ Expire \/ RecoveryRaises \/ UNCHANGED vars
  <2>1. task' = task
    BY <1>5 DEF Age, Expire, RecoveryRaises, vars
  <2>. QED
    BY <1>1, <2>1 DEF Owns
<1>6. CASE Resume
  <2>1. PICK new \in SUBSET Tasks : Resumes(new)
    BY <1>6, ResumeEffect, Zenon
  <2>2. \A u \in Tasks, d \in Rows : Owns(u, d)' => Owns(u, d)
    BY <2>1 DEF Resumes, Owns
  <2>. QED
    BY <1>1, <2>2
<1>7. CASE Restart
  <2>1. \A u \in Tasks, d \in Rows : ~Owns(u, d)'
    BY <1>7, RestartEffect DEF Owns
  <2>. QED
    BY <1>1, <2>1
<1>. QED
  BY <1>2, <1>3, <1>4, <1>5, <1>6, <1>7, NextSplit

LEMMA IInvStep == IInv /\ [Next]_vars => IInv'
  BY TypeStep, ShapeStep, SweptStep, PresentStep, ListedStep, OwnedStep DEF IInv

(* Every variable keeps its type, however recovery and retries overlap.    *)
THEOREM TypeCorrect == Spec => []TypeOK
<1>1. Init => IInv
  BY InitTyped
<1>2. IInv => TypeOK
  BY DEF IInv
<1>. QED
  BY <1>1, <1>2, IInvStep, PTL DEF Spec

(* With any number of workflows, recoveries, manual retries and deaths,    *)
(* two monitors of one download came to it differently, one of them by the *)
(* retry ladder that began it (_active_workflows).                         *)
THEOREM MonitorsCameApart == Spec => []MonitoredApart
<1>1. Init => IInv
  BY InitTyped
<1>2. IInv => MonitoredApart
  <2>1. SUFFICES ASSUME IInv PROVE MonitoredApart
    OBVIOUS
  <2>2. \A t \in Tasks, d \in Rows : Monitors(t, d) => task[t].entry # NoRow /\ task[t].cur = d
    BY <2>1 DEF IInv, Shapes, Shape, Monitors
  <2>3. \A t \in Tasks, d \in Rows : Monitors(t, d) /\ ByRetry(t) => Owns(t, d)
    BY <2>2 DEF ByRetry, Owns
  <2>4. ASSUME NEW t \in Tasks, NEW u \in Tasks, NEW d \in Rows,
               Monitors(t, d), Monitors(u, d), t # u
        PROVE  ByRetry(t) <=> ~ByRetry(u)
    <3>1. CASE ByRetry(t) /\ ByRetry(u)
      BY <2>1, <2>3, <2>4, <3>1 DEF IInv, Owned
    <3>2. CASE ~ByRetry(t) /\ ~ByRetry(u)
      BY <2>1, <2>2, <2>4, <3>2 DEF ByRetry, IInv, Listed
    <3>. QED
      BY <3>1, <3>2
  <2>. QED
    BY <2>1, <2>3, <2>4 DEF MonitoredApart, IInv, Owned
<1>. QED
  BY <1>1, <1>2, IInvStep, PTL DEF Spec

-----------------------------------------------------------------------------
(***************************************************************************)
(* A movie that is "downloading" has somebody who will say otherwise.      *)
(***************************************************************************)
(* A task that marks the movie before it ends: every one but those of a    *)
(* manual retry that has started no download yet.                          *)
InCharge(t) ==
  \/ task[t].entry # NoRow
  \/ task[t].pc \in {"submit", "enlist", "enter", "carry"}

Attended ==
  /\ \A d \in active : \E t \in Tasks : task[t].entry = d
  /\ count.deaths = 0 /\ movie = "downloading" => \E t \in Tasks : InCharge(t)

LEMMA InChargeLives ==
  ASSUME Shapes, NEW t \in Tasks, InCharge(t)
  PROVE  t \in Live
  BY DEF Shapes, Shape, InCharge, Live

(* No count of deaths falls.                                               *)
LEMMA DeathsGrow ==
  ASSUME TypeOK
  PROVE  /\ UNCHANGED count \/ Tally("starts") \/ Tally("manual")
              => count'.deaths = count.deaths
         /\ Tally("deaths") => count'.deaths # 0
  BY DEF TypeOK, Tally

(* A step of one task: the others stay in charge.                          *)
LEMMA OthersStay ==
  ASSUME NEW t \in Tasks, \A u \in Tasks : u # t => task'[u] = task[u]
  PROVE  \A u \in Tasks : u # t => (InCharge(u) <=> InCharge(u)')
  BY DEF InCharge

LEMMA EntriesStep ==
  ASSUME TypeOK, Shapes, Swept, [Next]_vars, \A d \in active : \E t \in Tasks : task[t].entry = d
  PROVE  \A d \in active' : \E t \in Tasks : task'[t].entry = d
<1>1. ASSUME NEW t \in Tasks, Leaves(t)
      PROVE  \A d \in active' : \E u \in Tasks : task'[u].entry = d
  <2>1. SUFFICES ASSUME NEW d \in active'
                 PROVE  \E u \in Tasks : task'[u].entry = d
    OBVIOUS
  <2>2. PICK u \in Tasks : task[u].entry = d
    BY <1>1 DEF Leaves
  <2>3. u # t
    BY <1>1, <2>2 DEF Leaves
  <2>. QED
    BY <1>1, <2>2, <2>3 DEF Leaves, Becomes
<1>2. ASSUME NEW t \in Tasks, NEW p, NEW cur, NEW child,
             Becomes(t, p, task[t].entry, cur, child), active' = active
      PROVE  \A d \in active' : \E u \in Tasks : task'[u].entry = d
  <2>1. \A u \in Tasks : task'[u].entry = task[u].entry
    BY <1>2 DEF Becomes
  <2>. QED
    BY <1>2, <2>1
<1>3. ASSUME NEW t \in Tasks, Start(t) \/ Insert(t) \/ Carry(t) \/ ManualRetry(t)
      PROVE  \A d \in active' : \E u \in Tasks : task'[u].entry = d
  BY <1>2, <1>3, StartEffect, InsertEffect, CarryEffect, ManualEffect
<1>4. ASSUME NEW t \in Tasks, Submit(t) \/ Enlist(t) \/ Monitor(t) \/ Ladder(t) \/ End(t)
      PROVE  \A d \in active' : \E u \in Tasks : task'[u].entry = d
  <2>0. task[t].cur \in Rows /\ Subject(t) \in Rows
    BY <1>4, HasSubject, Lively
  <2>1. CASE Submit(t)
    BY <1>1, <1>2, <2>0, <2>1, SubmitEffect DEF Goes
  <2>5. CASE Enlist(t)
    <3>1. \E p : Goes(t, p)
      BY <2>0, <2>5, EnlistEffect
    <3>. QED
      BY <1>2, <2>0, <2>5, <3>1, EnlistEffect DEF Goes
  <2>2. CASE Monitor(t)
    BY <1>2, <2>0, <2>2, MonitorEffect DEF Goes
  <2>3. CASE Ladder(t)
    BY <1>1, <1>2, <2>0, <2>3, LadderEffect DEF Goes
  <2>4. CASE End(t)
    BY <1>1, <2>0, <2>4, EndEffect
  <2>. QED
    BY <1>4, <2>1, <2>2, <2>3, <2>4, <2>5
<1>5. ASSUME NEW t \in Tasks, Enter(t)
      PROVE  \A d \in active' : \E u \in Tasks : task'[u].entry = d
  <2>1. CASE Leaves(t)
    BY <1>1, <2>1
  <2>2. CASE /\ active' = active \cup {task[t].cur}
             /\ Becomes(t, "status", task[t].cur, task[t].cur, task[t].child)
    <3>1. task[t].entry = NoRow
      BY <1>5, EnterEffect DEF Shapes, Shape
    <3>2. active \subseteq Rows
      BY DEF TypeOK
    <3>3. task'[t].entry = task[t].cur /\ \A u \in Tasks : u # t => task'[u] = task[u]
      BY <2>2 DEF Becomes
    <3>. QED
      BY <2>2, <3>1, <3>2, <3>3, NoRowOutside
  <2>. QED
    BY <1>5, <2>1, <2>2, EnterEffect
<1>6. CASE Resume
  <2>1. PICK new \in SUBSET Tasks : Resumes(new)
    BY <1>6, ResumeEffect, Zenon
  <2>2. \A t \in Tasks : task'[t].entry = task[t].entry
    BY <2>1 DEF Resumes, Shapes, Shape
  <2>. QED
    BY <1>6, <2>2, ResumeEffect
<1>7. CASE (\E d \in Rows : Age(d)) \/ Expire \/ RecoveryRaises \/ UNCHANGED vars
  <2>1. task' = task /\ active' = active
    BY <1>7, AgeEffect DEF vars, Expire, RecoveryRaises
  <2>. QED
    BY <2>1
<1>8. CASE Restart
  BY <1>8, RestartEffect
<1>. QED
  BY <1>3, <1>4, <1>5, <1>6, <1>7, <1>8, NextSplit

LEMMA AttendedStep ==
  ASSUME TypeOK, Shapes, Swept, Attended, [Next]_vars
  PROVE  Attended'
<1>1. \A d \in active' : \E t \in Tasks : task'[t].entry = d
  BY EntriesStep DEF Attended
<1>. SUFFICES ASSUME count'.deaths = 0, movie' = "downloading"
              PROVE  \E t \in Tasks : InCharge(t)'
  BY <1>1 DEF Attended
(* Whoever was in charge still is, or somebody new is.                     *)
<1>2. ASSUME count.deaths = 0, movie = "downloading",
             \A u \in Tasks : InCharge(u) => InCharge(u)'
      PROVE  \E t \in Tasks : InCharge(t)'
  BY <1>2 DEF Attended
<1>3. ASSUME NEW t \in Tasks, Start(t) \/ Insert(t) \/ Carry(t) \/ Enlist(t)
      PROVE  \E u \in Tasks : InCharge(u)'
  <2>1. task'[t].pc \in {"submit", "enter", "carry"} \/ task'[t].entry # NoRow
    BY <1>3, StartEffect, InsertEffect, CarryEffect, EnlistEffect, HasSubject, Lively
       DEF Becomes, Goes
  <2>. QED
    BY <2>1 DEF InCharge
<1>4. ASSUME NEW t \in Tasks, Submit(t)
      PROVE  \E u \in Tasks : InCharge(u)'
  <2>1. Goto(t, "enlist")
    BY <1>4 DEF Submit
  <2>2. task'[t].pc = "enlist"
    BY <2>1, GotoLemma DEF Goes, Becomes
  <2>. QED
    BY <2>2 DEF InCharge
<1>5. ASSUME NEW t \in Tasks, Enter(t)
      PROVE  \E u \in Tasks : InCharge(u)'
  <2>1. CASE task[t].cur \in active
    <3>1. PICK u \in Tasks : task[u].entry = task[t].cur
      BY <2>1 DEF Attended
    <3>2. task[t].entry = NoRow /\ task[t].cur # NoRow
      BY <1>5 DEF Enter, At, Shapes, Shape
    <3>3. task'[u] = task[u]
      BY <1>5, <2>1, <3>1, <3>2 DEF Enter, Leave, TypeOK
    <3>. QED
      BY <3>1, <3>2, <3>3 DEF InCharge
  <2>2. CASE task[t].cur \notin active
    <3>1. task'[t].entry = task[t].cur /\ task[t].cur # NoRow
      BY <1>5, <2>2, Typed DEF Enter, At, Shapes, Shape, Workflow
    <3>. QED
      BY <3>1 DEF InCharge
  <2>. QED
    BY <2>1, <2>2
<1>6. ASSUME NEW t \in Tasks, Monitor(t)
      PROVE  \E u \in Tasks : InCharge(u)'
  <2>1. task[t].pc \in {"status", "poll", "ask", "replace"} /\ \E p : Goes(t, p)
    BY <1>6, MonitorEffect, HasSubject, Lively
  <2>2. task'[t].entry # NoRow
    BY <2>1 DEF Goes, Becomes, Shapes, Shape
  <2>. QED
    BY <2>2 DEF InCharge
<1>7. ASSUME NEW t \in Tasks, Ladder(t)
      PROVE  \E u \in Tasks : InCharge(u)'
  <2>1. count' = count /\ movie' = movie
    BY <1>7 DEF Ladder, Cleanup, Check, Choose, CountRetry
  <2>2. /\ task[t].pc \in {"cleanup", "check", "choose", "count"}
        /\ \/ Leaves(t) /\ task[t].entry = NoRow
           \/ \E p : Goes(t, p)
    BY <1>7, LadderEffect, HasSubject, Lively
  <2>3. InCharge(t) => InCharge(t)'
    BY <2>2 DEF InCharge, Goes, Becomes
  <2>4. \A u \in Tasks : InCharge(u) => InCharge(u)'
    BY <2>2, <2>3, OthersStay DEF Leaves, Goes, Becomes
  <2>. QED
    BY <1>2, <2>1, <2>4
<1>8. ASSUME NEW t \in Tasks
      PROVE  ~End(t)
  BY DeathsGrow DEF End, ReplaceOk, GiveUp, Raise
<1>9. ASSUME NEW t \in Tasks, ManualRetry(t)
      PROVE  \E u \in Tasks : InCharge(u)'
  <2>1. count'.deaths = count.deaths /\ movie' = movie
    BY <1>9, DeathsGrow DEF ManualRetry
  <2>2. task[t].pc = "idle" /\ \A u \in Tasks : u # t => task'[u] = task[u]
    BY <1>9, ManualEffect DEF Becomes
  <2>3. ~InCharge(t)
    BY <2>2, InChargeLives DEF Live
  <2>4. \A u \in Tasks : InCharge(u) => InCharge(u)'
    BY <2>2, <2>3, OthersStay
  <2>. QED
    BY <1>2, <2>1, <2>4
<1>10. CASE Resume
  <2>1. count' = count /\ movie' = movie
    BY <1>10 DEF Resume
  <2>2. PICK new \in SUBSET Tasks : Resumes(new)
    BY <1>10, ResumeEffect, Zenon
  <2>3. \A u \in Tasks : InCharge(u) => task'[u] = task[u]
    BY <2>2, InChargeLives DEF Resumes, Live
  <2>4. \A u \in Tasks : InCharge(u) => InCharge(u)'
    BY <2>3 DEF InCharge
  <2>. QED
    BY <1>2, <2>1, <2>4
<1>13. CASE Expire \/ RecoveryRaises
  BY <1>13, DeathsGrow DEF Expire, RecoveryRaises
<1>11. CASE (\E d \in Rows : Age(d)) \/ UNCHANGED vars
  <2>1. task' = task /\ count' = count /\ movie' = movie
    BY <1>11 DEF Age, vars
  <2>2. \A u \in Tasks : InCharge(u) => InCharge(u)'
    BY <2>1 DEF InCharge
  <2>. QED
    BY <1>2, <2>1, <2>2
<1>12. CASE Restart
  BY <1>12, DeathsGrow DEF Restart
<1>. QED
  BY <1>3, <1>4, <1>5, <1>6, <1>7, <1>8, <1>9, <1>10, <1>11, <1>12, <1>13, NextSplit

(* As long as no task has died, a movie is not left "downloading" by       *)
(* everybody: neither by its workflows nor by recovery, however they       *)
(* overlap (finish_download_with_retries, retry_download,                  *)
(* expire_stale_active_downloads).                                         *)
THEOREM SettledWhenAlone == Spec => []SettledUndisturbed
<1>1. Init => IInv /\ Attended
  BY InitTyped DEF Init, Attended
<1>2. IInv /\ Attended /\ [Next]_vars => (IInv /\ Attended)'
  BY IInvStep, AttendedStep DEF IInv
<1>3. IInv /\ Attended => SettledUndisturbed
  BY InChargeLives DEF IInv, Attended, SettledUndisturbed, MovieSettled
<1>. QED
  BY <1>1, <1>2, <1>3, PTL DEF Spec

-----------------------------------------------------------------------------
(***************************************************************************)
(* How long a chain of retries is.                                         *)
(***************************************************************************)
(* What the downloads without a counter of their own are worth.            *)
Spare == MaxRetries * Cardinality(lost)

(* A task in a ladder: it has found its download below the limit, has read *)
(* the counter, and has begun a download one retry further on.             *)
InChain(t) ==
  /\ task[t].pc \in {"choose", "count"} /\ task[t].cur \in Begun => task[t].cur \in lost
  /\ task[t].pc \in {"choose", "count", "insert"} \/ task[t].child # NoRow
       => row[task[t].cur].depth + 1 <= Spare + MaxRetries
  /\ task[t].pc = "insert" \/ task[t].child # NoRow
       => row[task[t].cur].depth <= task[t].base + Spare
  /\ task[t].child # NoRow => row[task[t].child].depth = row[task[t].cur].depth + 1

(* The counter of a download tells its depth, unless its ladder has yet to *)
(* write it, or it is lost.                                                *)
Chained ==
  /\ lost \subseteq Present
  /\ \A d \in Present \ Begun : row[d].depth <= row[d].retry + Spare
  /\ \A d \in lost : row[d].depth <= Spare
  /\ \A d \in Present : row[d].depth <= Spare + MaxRetries
  /\ \A t \in Tasks : InChain(t)

LEMMA Product ==
  ASSUME NEW m \in Nat, NEW a \in Nat, NEW b \in Nat, a <= b
  PROVE  m * a \in Nat /\ m * b \in Nat /\ m * a <= m * b /\ (a # b => m * a + m <= m * b)
<1>1. PICK c \in Nat : b = a + c
  <2>1. b - a \in Nat /\ b = a + (b - a)
    OBVIOUS
  <2>. QED
    BY <2>1
<1>2. m * b = m * a + m * c /\ m * a \in Nat /\ m * c \in Nat
  BY <1>1
<1>3. c # 0 => m * c >= m
  <2>1. ASSUME c # 0 PROVE m * c >= m
    <3>1. PICK e \in Nat : c = e + 1
      <4>1. c - 1 \in Nat /\ c = (c - 1) + 1
        BY <2>1
      <4>. QED
        BY <4>1
    <3>2. m * c = m * e + m /\ m * e \in Nat
      BY <3>1
    <3>. QED
      BY <3>2
  <2>. QED
    BY <2>1
<1>. QED
  BY <1>1, <1>2, <1>3

LEMMA SpareGrows ==
  ASSUME lost \subseteq lost', lost' \subseteq Rows
  PROVE  /\ Spare \in Nat /\ Spare' \in Nat /\ Spare <= Spare' /\ MaxRetries \in Nat
         /\ lost' # lost => Spare + MaxRetries <= Spare'
<1>1. IsFiniteSet(Rows)
  BY WorkflowAssumption, FS_Interval DEF Rows
<1>2. IsFiniteSet(lost')
  BY <1>1, FS_Subset
<1>3. /\ IsFiniteSet(lost) /\ Cardinality(lost) <= Cardinality(lost')
      /\ Cardinality(lost) = Cardinality(lost') => lost' = lost
  BY <1>2, FS_Subset
<1>4. Cardinality(lost) \in Nat /\ Cardinality(lost') \in Nat
  BY <1>2, <1>3, FS_CardinalityType
<1>. QED
  BY <1>3, <1>4, Product, WorkflowAssumption DEF Spare

LEMMA BegunIs ==
  ASSUME Shapes
  PROVE  \A d : d \in Begun <=> d # NoRow /\ \E t \in Tasks : task[t].child = d
  BY DEF Begun, Live, Shapes, Shape

LEMMA BegunBecomes ==
  ASSUME Shapes'
  PROVE  \A d : d \in Begun' <=> d # NoRow /\ \E t \in Tasks : task'[t].child = d
  BY DEF Begun, Live, Shapes, Shape

LEMMA BegunPresent ==
  ASSUME IInv
  PROVE  Begun \subseteq Present
  BY BegunIs, Typed DEF IInv, HeldPresent, Holds, Present

(* A step that begins no download and writes no counter for one.           *)
Steady ==
  \A d \in Rows : /\ row'[d].depth = row[d].depth /\ row'[d].retry >= row[d].retry
                  /\ row'[d].status = "absent" <=> row[d].status = "absent"

LEMMA SteadyStep ==
  ASSUME IInv, Next, \A t \in Tasks : ~(Start(t) \/ Insert(t) \/ Carry(t))
  PROVE  Steady
<1>0. TypeOK /\ Shapes /\ HeldPresent
  BY DEF IInv
<1>. USE <1>0, Typed DEF Steady, Download
<1>1. ASSUME NEW t \in Tasks,
             \/ Submit(t) \/ Enlist(t) \/ Look(t) \/ Answer(t)
      PROVE  Steady
  <2>1. /\ Subject(t) \in Rows /\ row[Subject(t)].status # "absent"
        /\ task[t].cur \in Rows /\ row[task[t].cur].status # "absent"
    BY <1>1, HasSubject DEF Submit, Enlist, Look, Answer, At, HeldPresent, Holds, Subject
  <2>2. row' = row \/ \E s, d : /\ s # "absent" /\ row[d].status # "absent"
                                /\ row' = [row EXCEPT ![d].status = s]
    BY <1>1, <2>1 DEF Submit, Enlist, Look, Answer, NotAnswered, Busy, Missing, Failed, Completed,
       PollAgain, Write, Status
  <2>. QED
    BY <2>2
<1>2. ASSUME NEW t \in Tasks, ReplaceOk(t) \/ ReplaceFails(t), row' # row
      PROVE  Steady
  <2>1. task[t].cur \in Rows /\ row[task[t].cur].status # "absent"
    BY <1>2, HasSubject DEF ReplaceOk, ReplaceFails, At, HeldPresent, Holds
  <2>2. PICK s : /\ s # "absent"
                 /\ row' = [row EXCEPT ![task[t].cur] =
                              [row[task[t].cur] EXCEPT !.status = s, !.files = FALSE]]
    BY <1>2 DEF ReplaceOk, ReplaceFails
  <2>3. \A r \in Download : LET w == [r EXCEPT !.status = s, !.files = FALSE]
                            IN w.depth = r.depth /\ w.retry = r.retry /\ w.status = s
    OBVIOUS
  <2>4. row[task[t].cur].retry \in Nat
    BY <2>1
  <2>5. \A d \in Rows : d # task[t].cur => row'[d] = row[d]
    BY <2>2
  <2>6. /\ row'[task[t].cur].depth = row[task[t].cur].depth
        /\ row'[task[t].cur].retry = row[task[t].cur].retry
        /\ row'[task[t].cur].status = s
    BY <2>1, <2>2, <2>3
  <2>. QED
    BY <2>1, <2>2, <2>5, <2>6
<1>3. ASSUME NEW t \in Tasks, Cleanup(t) PROVE Steady
  BY <1>3 DEF Cleanup
<1>4. ASSUME NEW t \in Tasks, CountRetry(t) PROVE Steady
  BY <1>4 DEF CountRetry
<1>5. ASSUME NEW t \in Tasks,
             \/ Enter(t) \/ ReadStatus(t) \/ GiveUp(t) \/ Check(t) \/ Choose(t)
             \/ ManualRetry(t) \/ Raise(t)
      PROVE  Steady
  <2>1. row' = row
    BY <1>5 DEF Enter, ReadStatus, GiveUp, Check, Choose, ManualRetry, Raise
  <2>. QED
    BY <2>1
<1>6. CASE \E d \in Rows : Age(d)
  BY <1>6 DEF Age
<1>7. CASE Expire
  BY <1>7 DEF Expire, Expired, Waiting
<1>8. CASE Resume \/ RecoveryRaises \/ Restart
  <2>1. row' = row
    BY <1>8 DEF Resume, RecoveryRaises, Restart
  <2>. QED
    BY <2>1
<1>9. CASE row' = row
  BY <1>9
<1>. QED
  BY <1>1, <1>2, <1>3, <1>4, <1>5, <1>6, <1>7, <1>8, <1>9, Zenon DEF Next, Step

(* A task whose place in a ladder a step does not change, and one that is  *)
(* in none.                                                                *)
KeptInChain(u) ==
  /\ task'[u].cur = task[u].cur /\ task'[u].child = task[u].child
  /\ task'[u].base = task[u].base
  /\ task'[u].pc \in {"choose", "count", "insert"} =>
       task'[u].pc = task[u].pc \/ (task[u].pc = "choose" /\ task'[u].pc = "count")

Calm(u) == task[u].child = NoRow /\ task[u].pc \notin {"choose", "count", "insert"}

LEMMA LostBounded ==
  ASSUME IInv, Chained, lost \subseteq lost', lost' \subseteq lost \cup Begun
  PROVE  /\ Spare \in Nat /\ Spare' \in Nat /\ Spare <= Spare' /\ MaxRetries \in Nat
         /\ \A d \in lost' : row[d].depth <= Spare'
<1>1. Begun \subseteq Present /\ Present \subseteq Rows
  BY BegunPresent DEF Present
<1>2. lost' \subseteq Rows
  BY <1>1 DEF Chained
<1>3. /\ Spare \in Nat /\ Spare' \in Nat /\ Spare <= Spare' /\ MaxRetries \in Nat
      /\ lost' # lost => Spare + MaxRetries <= Spare'
  BY <1>2, SpareGrows
<1>4. \A d \in Rows : row[d].depth \in Nat
  BY Typed DEF IInv, Download
<1>5. ASSUME NEW d \in lost' PROVE row[d].depth <= Spare'
  <2>1. CASE d \in lost
    BY <1>2, <1>3, <1>4, <2>1 DEF Chained
  <2>2. CASE d \notin lost
    <3>1. d \in Present /\ lost' # lost
      BY <1>1, <2>2
    <3>. QED
      BY <1>2, <1>3, <1>4, <3>1 DEF Chained
  <2>. QED
    BY <2>1, <2>2
<1>. QED
  BY <1>3, <1>5

LEMMA ChainKept ==
  ASSUME IInv, IInv', Chained, Steady, lost \subseteq lost', lost' \subseteq lost \cup Begun,
         Begun' \subseteq Begun, Begun \ Begun' \subseteq lost',
         \A u \in Tasks : KeptInChain(u) \/ Calm(u)' \/ InChain(u)'
  PROVE  Chained'
<1>1. Present' = Present /\ Present \subseteq Rows /\ Begun \subseteq Present
  BY BegunPresent DEF Steady, Present
<1>2. /\ Spare \in Nat /\ Spare' \in Nat /\ Spare <= Spare' /\ MaxRetries \in Nat
      /\ \A d \in lost' : row[d].depth <= Spare'
  BY LostBounded
<1>3. \A d \in Rows : /\ row[d].depth \in Nat /\ row[d].retry \in Nat /\ row'[d].retry \in Nat
                      /\ row'[d].depth = row[d].depth /\ row'[d].retry >= row[d].retry
  BY Typed DEF IInv, TypeOK, Download, Steady
<1>4. lost' \subseteq Present'
  BY <1>1 DEF Chained
<1>5. ASSUME NEW d \in Present' \ Begun' PROVE row'[d].depth <= row'[d].retry + Spare'
  <2>1. CASE d \in Begun
    BY <1>1, <1>2, <1>3, <2>1
  <2>2. CASE d \notin Begun
    BY <1>1, <1>2, <1>3, <2>2 DEF Chained
  <2>. QED
    BY <2>1, <2>2
<1>6. \A d \in lost' : row'[d].depth <= Spare'
  BY <1>1, <1>2, <1>3, <1>4
<1>7. \A d \in Present' : row'[d].depth <= Spare' + MaxRetries'
  BY <1>1, <1>2, <1>3 DEF Chained
<1>8. ASSUME NEW u \in Tasks PROVE InChain(u)'
  <2>1. CASE Calm(u)'
    BY <2>1 DEF Calm, InChain
  <2>2. CASE KeptInChain(u)
    <3>1. InChain(u)
      BY DEF Chained
    <3>2. /\ task[u].cur \in Rows \cup {NoRow} /\ task[u].child \in Rows \cup {NoRow}
          /\ task[u].base \in Nat
          /\ task[u].pc # "idle" => task[u].cur \in Rows
          /\ task[u].child # NoRow => task[u].pc # "idle"
      BY Typed DEF IInv, Workflow, Shapes, Shape
    <3>3. /\ task[u].cur \in Rows => /\ row'[task[u].cur].depth = row[task[u].cur].depth
                                     /\ row[task[u].cur].depth \in Nat
          /\ task[u].child \in Rows => row'[task[u].child].depth = row[task[u].child].depth
      BY <1>3
    <3>4. task'[u].cur = task[u].cur /\ task'[u].child = task[u].child /\ task'[u].base = task[u].base
      BY <2>2 DEF KeptInChain
    <3>5. task'[u].pc \in {"choose", "count", "insert"} =>
            /\ task[u].pc \in {"choose", "count", "insert"}
            /\ task'[u].pc \in {"choose", "count"} => task[u].pc \in {"choose", "count"}
            /\ task'[u].pc = "insert" => task[u].pc = "insert"
      BY <2>2 DEF KeptInChain
    <3>6. task'[u].pc \in {"choose", "count"} /\ task'[u].cur \in Begun' => task'[u].cur \in lost'
      BY <3>1, <3>4, <3>5 DEF InChain
    <3>7. task'[u].pc \in {"choose", "count", "insert"} \/ task'[u].child # NoRow
            => row'[task'[u].cur].depth + 1 <= Spare' + MaxRetries
      BY <1>2, <3>1, <3>2, <3>3, <3>4, <3>5 DEF InChain
    <3>8. task'[u].pc = "insert" \/ task'[u].child # NoRow
            => row'[task'[u].cur].depth <= task'[u].base + Spare'
      <4>1. task'[u].pc = "insert" => task[u].pc = "insert"
        BY <3>5
      <4>2. task[u].pc = "insert" \/ task[u].child # NoRow =>
              /\ row[task[u].cur].depth <= task[u].base + Spare
              /\ row'[task[u].cur].depth = row[task[u].cur].depth
              /\ row[task[u].cur].depth \in Nat
        BY <3>1, <3>2, <3>3 DEF InChain
      <4>. QED
        BY <1>2, <3>2, <3>4, <4>1, <4>2
    <3>9. task'[u].child # NoRow
            => row'[task'[u].child].depth = row'[task'[u].cur].depth + 1
      BY <3>1, <3>2, <3>3, <3>4 DEF InChain
    <3>. QED
      BY <3>6, <3>7, <3>8, <3>9 DEF InChain
  <2>. QED
    BY <1>8, <2>1, <2>2
<1>. QED
  BY <1>4, <1>5, <1>6, <1>7, <1>8 DEF Chained

(* The same for a step of one task.                                        *)
LEMMA TaskChain ==
  ASSUME IInv, IInv', Chained, Steady, NEW t \in Tasks,
         \A u \in Tasks : u # t => task'[u] = task[u],
         \/ task'[t].child = task[t].child
         \/ task'[t].child = NoRow /\ {task[t].child} \ {NoRow} \subseteq lost',
         lost \subseteq lost', lost' \subseteq lost \cup Begun,
         KeptInChain(t) \/ Calm(t)' \/ InChain(t)'
  PROVE  Chained'
<1>1. \A d : d \in Begun <=> d # NoRow /\ \E u \in Tasks : task[u].child = d
  BY BegunIs DEF IInv
<1>2. \A d : d \in Begun' <=> d # NoRow /\ \E u \in Tasks : task'[u].child = d
  BY BegunBecomes DEF IInv
<1>3. Begun' \subseteq Begun /\ Begun \ Begun' \subseteq lost'
  BY <1>1, <1>2
<1>4. \A u \in Tasks : u # t => KeptInChain(u)
  BY DEF KeptInChain
<1>. QED
  BY <1>3, <1>4, ChainKept

LEMMA LeaveChain ==
  ASSUME IInv, IInv', Chained, Steady, NEW t \in Tasks, Leave(t),
         lost' = lost \cup ({task[t].child} \ {NoRow})
  PROVE  Chained'
<1>1. task'[t].child = NoRow /\ Calm(t)' /\ \A u \in Tasks : u # t => task'[u] = task[u]
  BY Typed DEF IInv, Leave, IdleTask, Calm
<1>2. {task[t].child} \ {NoRow} \subseteq Begun
  BY BegunIs DEF IInv
<1>. QED
  BY <1>1, <1>2, TaskChain

(* A step that leaves a task outside the ladders, with no download begun.  *)
LEMMA CalmChain ==
  ASSUME IInv, IInv', Chained, Steady, NEW t \in Tasks, lost' = lost,
         task[t].child = NoRow, Calm(t)', \A u \in Tasks : u # t => task'[u] = task[u]
  PROVE  Chained'
  BY TaskChain DEF Calm

LEMMA GotoChain ==
  ASSUME IInv, IInv', Chained, Steady, NEW t \in Tasks, NEW p, Goto(t, p), lost' = lost,
         p \notin {"choose", "count", "insert"}
  PROVE  Chained'
<1>1. /\ task'[t].pc = p /\ task'[t].cur = task[t].cur /\ task'[t].child = task[t].child
      /\ task'[t].base = task[t].base /\ \A u \in Tasks : u # t => task'[u] = task[u]
  BY Typed DEF IInv, Goto, Workflow
<1>. QED
  BY <1>1, TaskChain DEF KeptInChain

LEMMA MonitorChain ==
  ASSUME IInv, IInv', Chained, NEW t \in Tasks,
         \/ Enter(t) \/ ReadStatus(t) \/ Look(t) \/ Answer(t) \/ ReplaceOk(t)
         \/ ReplaceFails(t) \/ GiveUp(t) \/ Cleanup(t) \/ ManualRetry(t), Steady
  PROVE  Chained'
<1>0. TypeOK /\ Shapes
  BY DEF IInv
<1>1. lost' = lost
  BY DEF Enter, ReadStatus, Look, Answer, ReplaceOk, ReplaceFails, GiveUp, Cleanup, ManualRetry,
     history
<1>2. task[t].child = NoRow
  BY <1>0 DEF Enter, ReadStatus, Look, Answer, ReplaceOk, ReplaceFails, GiveUp, Cleanup,
     ManualRetry, At, Shapes, Shape
<1>3. CASE Enter(t) \/ ManualRetry(t)
  <2>1. /\ \A u \in Tasks : u # t => task'[u] = task[u]
        /\ task'[t].child = NoRow /\ task'[t].pc \in {"idle", "status", "cleanup"}
    BY <1>0, <1>2, <1>3, EnterEffect, ManualEffect DEF Becomes, Leaves
  <2>. QED
    BY <1>1, <1>2, <2>1, CalmChain DEF Calm
<1>4. CASE ReadStatus(t) \/ Look(t) \/ Answer(t) \/ ReplaceFails(t)
  <2>1. task[t].pc # "idle"
    BY <1>4 DEF ReadStatus, Look, Answer, ReplaceFails, At
  <2>2. \E p \in {"poll", "ask", "cleanup", "replace", "giveup"} : Goes(t, p)
    BY <1>0, <1>4, <2>1, HasSubject, MonitorEffect DEF Monitor
  <2>3. /\ \A u \in Tasks : u # t => task'[u] = task[u]
        /\ task'[t].child = NoRow /\ task'[t].pc \notin {"choose", "count", "insert"}
    BY <1>2, <2>2 DEF Goes, Becomes
  <2>. QED
    BY <1>1, <1>2, <2>3, CalmChain DEF Calm
<1>5. CASE ReplaceOk(t) \/ GiveUp(t)
  BY <1>1, <1>2, <1>5, LeaveChain DEF ReplaceOk, GiveUp
<1>6. CASE Cleanup(t)
  BY <1>1, <1>6, GotoChain DEF Cleanup
<1>. QED
  BY <1>3, <1>4, <1>5, <1>6

LEMMA SubmitChain ==
  ASSUME IInv, IInv', Chained, NEW t \in Tasks, Submit(t) \/ Enlist(t) \/ Raise(t), Steady
  PROVE  Chained'
<1>1. CASE Submit(t)
  <2>1. CASE Goto(t, "enlist") /\ lost' = lost
    BY <2>1, GotoChain
  <2>2. CASE Leave(t) /\ lost' = lost \cup ({task[t].child} \ {NoRow})
    BY <2>2, LeaveChain
  <2>. QED
    BY <1>1, <2>1, <2>2 DEF Submit
<1>2. CASE Enlist(t)
  <2>1. PICK p \in {"enter", "carry"} : Goto(t, p)
    BY <1>2 DEF Enlist
  <2>. QED
    BY <1>2, <2>1, GotoChain DEF Enlist, history
<1>3. CASE Raise(t)
  BY <1>3, LeaveChain DEF Raise
<1>. QED
  BY <1>1, <1>2, <1>3

LEMMA RefuseChain ==
  ASSUME IInv, IInv', Chained, Steady, NEW t \in Tasks, Refuse(t), lost' = lost,
         task[t].child = NoRow
  PROVE  Chained'
<1>1. CASE Leave(t)
  BY <1>1, LeaveChain
<1>2. CASE Goto(t, "giveup")
  BY <1>2, GotoChain
<1>. QED
  BY <1>1, <1>2 DEF Refuse

(* can_retry_download has found the counter below the limit.               *)
LEMMA CheckChain ==
  ASSUME IInv, IInv', Chained, NEW t \in Tasks, Check(t), Steady
  PROVE  Chained'
<1>. DEFINE d == task[t].cur
<1>0. TypeOK /\ Shapes
  BY DEF IInv
<1>1. task[t].pc = "check" /\ task[t].child = NoRow /\ d \in Rows
  BY <1>0, HasSubject DEF Check, At, Shapes, Shape
<1>2. CASE ~CanRetry(d)
  BY <1>1, <1>2, RefuseChain DEF Check
<1>3. CASE CanRetry(d)
  <2>1. Goto(t, "choose") /\ lost' = lost \cup (Begun \cap {d})
    BY <1>3 DEF Check
  <2>2. /\ task'[t].pc = "choose" /\ task'[t].cur = d /\ task'[t].child = NoRow
        /\ \A u \in Tasks : u # t => task'[u] = task[u]
    BY <1>0, <1>1, <2>1, Typed DEF Goto, Workflow
  <2>3. Begun' = Begun
    <3>1. \A e : (\E u \in Tasks : task'[u].child = e) <=> (\E u \in Tasks : task[u].child = e)
      BY <1>1, <2>2
    <3>. QED
      BY <3>1, BegunIs, BegunBecomes DEF IInv
  <2>4. /\ Spare \in Nat /\ Spare' \in Nat /\ Spare <= Spare' /\ MaxRetries \in Nat
        /\ \A e \in lost' : row[e].depth <= Spare'
    BY <2>1, LostBounded
  <2>5. /\ row[d].depth \in Nat /\ row'[d].depth = row[d].depth /\ row[d].retry \in Nat
        /\ row[d].retry < MaxRetries /\ d \in Present
    BY <1>0, <1>1, <1>3, Typed DEF Steady, Download, CanRetry, Present
  <2>6. row[d].depth + 1 <= Spare' + MaxRetries
    <3>1. CASE d \in lost'
      BY <2>4, <2>5, <3>1
    <3>2. CASE d \notin lost'
      <4>1. row[d].depth <= row[d].retry + Spare
        BY <2>1, <2>5, <3>2 DEF Chained
      <4>. QED
        BY <2>4, <2>5, <4>1
    <3>. QED
      BY <3>1, <3>2
  <2>7. InChain(t)'
    BY <2>1, <2>2, <2>3, <2>5, <2>6 DEF InChain
  <2>. QED
    BY <1>1, <2>1, <2>2, <2>7, TaskChain
<1>. QED
  BY <1>2, <1>3

LEMMA ChooseChain ==
  ASSUME IInv, IInv', Chained, NEW t \in Tasks, Choose(t), Steady
  PROVE  Chained'
<1>0. TypeOK /\ Shapes /\ lost' = lost
  BY DEF IInv, Choose, history
<1>1. task[t].pc = "choose" /\ task[t].child = NoRow
  BY <1>0 DEF Choose, At, Shapes, Shape
<1>2. CASE Refuse(t)
  BY <1>0, <1>1, <1>2, RefuseChain
<1>3. CASE \E r \in Releases :
             task' = [task EXCEPT ![t] = [@ EXCEPT !.pc = "count", !.cand = r,
                                                  !.known = Present]]
  <2>1. KeptInChain(t) /\ \A u \in Tasks : u # t => task'[u] = task[u]
    BY <1>0, <1>1, <1>3, Typed DEF Workflow, KeptInChain
  <2>. QED
    BY <1>0, <2>1, TaskChain DEF KeptInChain
<1>. QED
  BY <1>2, <1>3 DEF Choose

(* The counter is read when it is raised.                                  *)
LEMMA CountChain ==
  ASSUME IInv, IInv', Chained, NEW t \in Tasks, CountRetry(t), Steady
  PROVE  Chained'
<1>. DEFINE d == task[t].cur
<1>0. TypeOK /\ Shapes /\ HeldPresent /\ lost' = lost
  BY DEF IInv, CountRetry, history
<1>1. task[t].pc = "count" /\ task[t].child = NoRow /\ d \in Rows /\ d \in Present
  BY <1>0, HasSubject DEF CountRetry, At, Shapes, Shape, HeldPresent, Holds, Present
<1>2. /\ task'[t].pc = "insert" /\ task'[t].cur = d /\ task'[t].child = NoRow
      /\ task'[t].base = row[d].retry
      /\ \A u \in Tasks : u # t => task'[u] = task[u]
  BY <1>0, <1>1, Typed DEF CountRetry, Workflow
<1>3. /\ row[d].depth \in Nat /\ row'[d].depth = row[d].depth /\ row[d].retry \in Nat
  BY <1>0, <1>1, Typed DEF Steady, Download
<1>4. Spare \in Nat /\ Spare' = Spare
  BY <1>0, LostBounded DEF Spare
<1>5. row[d].depth <= row[d].retry + Spare
  <2>1. CASE d \in Begun
    <3>1. d \in lost
      BY <1>1, <2>1 DEF Chained, InChain
    <3>2. row[d].depth <= Spare
      BY <3>1 DEF Chained
    <3>. QED
      BY <1>3, <1>4, <3>2
  <2>2. CASE d \notin Begun
    BY <1>1, <2>2 DEF Chained
  <2>. QED
    BY <2>1, <2>2
<1>6. InChain(t)'
  <2>1. row[d].depth + 1 <= Spare + MaxRetries
    BY <1>1 DEF Chained, InChain
  <2>. QED
    BY <1>2, <1>3, <1>4, <1>5, <2>1 DEF InChain
<1>. QED
  BY <1>0, <1>1, <1>2, <1>6, TaskChain

(* The other steps concern one download e: its task begins it, or gives it *)
(* the counter and goes on to it.                                          *)
LEMMA OneChained ==
  ASSUME IInv, IInv', Chained, lost' = lost, NEW t \in Tasks, NEW e \in Rows,
         \A u \in Tasks : u # t => task'[u] = task[u],
         \A d \in Rows : d # e => row'[d] = row[d] /\ (d \in Begun' <=> d \in Begun),
         e \in Present => row'[e].depth = row[e].depth /\ e \notin Begun',
         row'[e].status # "absent",
         e \in Begun' \/ row'[e].depth <= row'[e].retry + Spare,
         row'[e].depth <= Spare + MaxRetries, InChain(t)'
  PROVE  Chained'
<1>1. Spare \in Nat /\ Spare' = Spare
  BY LostBounded DEF Spare
<1>2. lost \subseteq Present /\ Present \subseteq Rows
  BY DEF Chained, Present
<1>3. \A d \in Rows : d \in Present' <=> d = e \/ d \in Present
  BY DEF Present
<1>4. ASSUME NEW d \in Present' \ Begun' PROVE row'[d].depth <= row'[d].retry + Spare
  <2>1. CASE d = e
    BY <2>1
  <2>2. CASE d # e
    BY <1>3, <2>2 DEF Present, Chained
  <2>. QED
    BY <2>1, <2>2
<1>5. \A d \in lost : row'[d].depth <= Spare
  BY <1>2 DEF Chained
<1>6. ASSUME NEW d \in Present' PROVE row'[d].depth <= Spare + MaxRetries
  <2>1. CASE d = e
    BY <2>1
  <2>2. CASE d # e
    BY <1>3, <2>2 DEF Present, Chained
  <2>. QED
    BY <2>1, <2>2
<1>7. ASSUME NEW u \in Tasks PROVE InChain(u)'
  <2>1. CASE u = t
    BY <2>1
  <2>2. CASE u # t
    <3>1. InChain(u) /\ task'[u] = task[u]
      BY <2>2 DEF Chained
    <3>2. /\ task[u].cur \in Rows => row'[task[u].cur].depth = row[task[u].cur].depth
          /\ task[u].child \in Rows => row'[task[u].child].depth = row[task[u].child].depth
          /\ task[u].cur \in Rows /\ task[u].cur \in Begun' => task[u].cur \in Begun
      BY DEF IInv, HeldPresent, Holds, Present
    <3>3. /\ task[u].pc # "idle" => task[u].cur \in Rows
          /\ task[u].child # NoRow => task[u].child \in Rows /\ task[u].cur \in Rows
      BY Typed DEF IInv, Shapes, Shape
    <3>. QED
      BY <1>1, <3>1, <3>2, <3>3 DEF InChain
  <2>. QED
    BY <2>1, <2>2
<1>. QED
  BY <1>1, <1>2, <1>3, <1>4, <1>5, <1>6, <1>7 DEF Chained, Present

LEMMA StartChain ==
  ASSUME IInv, IInv', Chained, NEW t \in Tasks, Start(t)
  PROVE  Chained'
<1>0. TypeOK /\ Shapes /\ lost' = lost
  BY DEF IInv, Start, history
<1>1. PICK e \in Rows :
        /\ Fresh(e) /\ \E r \in Releases : Inserted(e, r, 0, {})
        /\ task' = [task EXCEPT ![t] = [@ EXCEPT !.pc = "submit", !.cur = e]]
  BY DEF Start
<1>2. /\ task[t].child = NoRow /\ task'[t].child = NoRow /\ task'[t].pc = "submit"
      /\ \A u \in Tasks : u # t => task'[u] = task[u]
  BY <1>0, <1>1, Typed DEF Start, At, Shapes, Shape, Workflow
<1>3. /\ row'[e].status = "submitting" /\ row'[e].depth = 0 /\ row'[e].retry = 0
      /\ \A d \in Rows : d # e => row'[d] = row[d]
  BY <1>0, <1>1, Typed DEF Inserted, Absent
<1>4. Begun' = Begun
  <2>1. \A d : (\E u \in Tasks : task'[u].child = d) <=> (\E u \in Tasks : task[u].child = d)
    BY <1>2
  <2>. QED
    BY <2>1, BegunIs, BegunBecomes DEF IInv
<1>5. e \notin Present
  BY <1>1 DEF Fresh
<1>6. InChain(t)'
  BY <1>2 DEF InChain
<1>7. Spare \in Nat /\ MaxRetries \in Nat
  BY <1>0, LostBounded
<1>. QED
  BY <1>0, <1>2, <1>3, <1>4, <1>5, <1>6, <1>7, OneChained

LEMMA InsertChain ==
  ASSUME IInv, IInv', Chained, NEW t \in Tasks, Insert(t)
  PROVE  Chained'
<1>. DEFINE d == task[t].cur
<1>0. TypeOK /\ Shapes /\ HeldPresent /\ lost' = lost
  BY DEF IInv, Insert, history
<1>1. PICK e \in Rows :
        /\ Fresh(e) /\ Inserted(e, task[t].cand, row[d].depth + 1, task[t].known)
        /\ task' = [task EXCEPT ![t] = [@ EXCEPT !.pc = "submit", !.child = e,
                                               !.cand = NoRow, !.known = {}]]
  BY DEF Insert
<1>2. /\ task[t].pc = "insert" /\ task[t].child = NoRow /\ d \in Rows /\ d \in Present
  BY <1>0, HasSubject DEF Insert, At, Shapes, Shape, HeldPresent, Holds, Present
<1>3. /\ task'[t].pc = "submit" /\ task'[t].cur = d /\ task'[t].child = e
      /\ task'[t].base = task[t].base
      /\ \A u \in Tasks : u # t => task'[u] = task[u]
  BY <1>0, <1>1, Typed DEF Workflow
<1>4. /\ row'[e].status = "submitting" /\ row'[e].depth = row[d].depth + 1
      /\ \A f \in Rows : f # e => row'[f] = row[f]
  BY <1>0, <1>1, Typed DEF Inserted, Absent
<1>5. \A f \in Rows : f # e => (f \in Begun' <=> f \in Begun)
  <2>1. \A f \in Rows : f # e =>
          ((\E u \in Tasks : task'[u].child = f) <=> (\E u \in Tasks : task[u].child = f))
    BY <1>2, <1>3, NoRowOutside
  <2>. QED
    BY <2>1, BegunIs, BegunBecomes DEF IInv
<1>6. e \in Begun'
  BY <1>3, NoRowOutside, BegunBecomes DEF IInv
<1>7. e \notin Present /\ e # d
  BY <1>1, <1>2 DEF Fresh
<1>8. Spare \in Nat /\ MaxRetries \in Nat /\ Spare' = Spare
  BY <1>0, LostBounded DEF Spare
<1>9. /\ row[d].depth + 1 <= Spare + MaxRetries
      /\ row[d].depth <= task[t].base + Spare
  BY <1>2 DEF Chained, InChain
<1>10. InChain(t)'
  BY <1>2, <1>3, <1>4, <1>7, <1>8, <1>9 DEF InChain
<1>. QED
  BY <1>0, <1>3, <1>4, <1>5, <1>6, <1>7, <1>9, <1>10, OneChained

LEMMA CarryChain ==
  ASSUME IInv, IInv', Chained, NEW t \in Tasks, Carry(t)
  PROVE  Chained'
<1>. DEFINE e == task[t].child
            d == task[t].cur
<1>0. TypeOK /\ Shapes /\ HeldPresent /\ Owned /\ lost' = lost
  BY DEF IInv, Carry, history
<1>1. task[t].pc = "carry" /\ e \in Rows /\ e # NoRow /\ e \in Present /\ d \in Rows
  BY <1>0, Typed, HasSubject DEF Carry, At, Shapes, Shape, HeldPresent, Holds, Present
<1>2. /\ task'[t].child = NoRow /\ task'[t].pc \in {"enter", "status"}
      /\ \A u \in Tasks : u # t => task'[u] = task[u]
  BY <1>0, Typed DEF Carry, IdleTask
<1>3. /\ row'[e].status = row[e].status /\ row'[e].depth = row[e].depth
      /\ row'[e].retry = task[t].base + 1
      /\ \A f \in Rows : f # e => row'[f] = row[f]
  BY <1>0, <1>1, Typed DEF Carry, Download
<1>4. \A u \in Tasks : u # t => task[u].child # e
  BY <1>0, <1>1 DEF Owned, Owns
<1>5. \A f \in Rows : f # e => (f \in Begun' <=> f \in Begun)
  <2>1. \A f \in Rows : f # e =>
          ((\E u \in Tasks : task'[u].child = f) <=> (\E u \in Tasks : task[u].child = f))
    BY <1>2, NoRowOutside
  <2>. QED
    BY <2>1, BegunIs, BegunBecomes DEF IInv
<1>6. e \notin Begun'
  BY <1>1, <1>2, <1>4, BegunBecomes DEF IInv
<1>7. /\ row[d].depth <= task[t].base + Spare
      /\ row[d].depth + 1 <= Spare + MaxRetries
      /\ row[e].depth = row[d].depth + 1
  BY <1>1 DEF Chained, InChain
<1>8. /\ Spare \in Nat /\ MaxRetries \in Nat /\ task[t].base \in Nat /\ row[d].depth \in Nat
  BY <1>0, <1>1, LostBounded, Typed DEF Workflow, Download
<1>9. InChain(t)'
  BY <1>2 DEF InChain
<1>10. row'[e].depth <= row'[e].retry + Spare /\ row'[e].depth <= Spare + MaxRetries
  BY <1>3, <1>7, <1>8
<1>11. row'[e].status # "absent"
  BY <1>1, <1>3 DEF Present
<1>. HIDE DEF e, d
<1>. QED
  BY <1>0, <1>1, <1>2, <1>3, <1>5, <1>6, <1>9, <1>10, <1>11, OneChained

LEMMA RecoveryChain ==
  ASSUME IInv, IInv', Chained, Steady,
         (\E d \in Rows : Age(d)) \/ Expire \/ Resume \/ RecoveryRaises \/ Restart
  PROVE  Chained'
<1>0. TypeOK /\ Shapes /\ Swept
  BY DEF IInv
<1>1. CASE (\E d \in Rows : Age(d)) \/ Expire \/ RecoveryRaises
  <2>1. task' = task /\ lost' = lost
    BY <1>1 DEF Age, Expire, RecoveryRaises, history
  <2>2. Begun' = Begun
    BY <2>1 DEF Begun, Live
  <2>. QED
    BY <2>1, <2>2, ChainKept DEF KeptInChain
<1>2. CASE Resume
  <2>1. PICK new \in SUBSET Tasks : Resumes(new)
    BY <1>0, <1>2, ResumeEffect, Zenon
  <2>2. lost' = lost
    BY <1>2 DEF Resume, history
  <2>3. \A u \in Tasks : task'[u].child = task[u].child
    BY <1>0, <2>1 DEF Resumes, Shapes, Shape
  <2>4. Begun' = Begun
    <3>1. \A d : (\E u \in Tasks : task'[u].child = d) <=> (\E u \in Tasks : task[u].child = d)
      BY <2>3
    <3>. QED
      BY <3>1, BegunIs, BegunBecomes DEF IInv
  <2>5. \A u \in Tasks : KeptInChain(u) \/ Calm(u)'
    BY <2>1 DEF Resumes, KeptInChain, Calm
  <2>. QED
    BY <2>2, <2>4, <2>5, ChainKept
<1>3. CASE Restart
  <2>1. \A u \in Tasks : task'[u].child = NoRow /\ task'[u].pc = "idle"
    BY <1>3, RestartEffect
  <2>2. Begun' = {}
    BY <2>1, BegunBecomes DEF IInv
  <2>3. lost' = lost \cup Begun
    BY <1>3 DEF Restart
  <2>4. \A u \in Tasks : Calm(u)'
    BY <2>1 DEF Calm
  <2>. QED
    BY <2>2, <2>3, <2>4, ChainKept
<1>. QED
  BY <1>1, <1>2, <1>3

LEMMA ChainStep == IInv /\ Chained /\ [Next]_vars => Chained'
<1>. SUFFICES ASSUME IInv, Chained, [Next]_vars PROVE Chained'
  OBVIOUS
<1>0. IInv'
  BY IInvStep
<1>1. CASE UNCHANGED vars
  BY <1>1 DEF vars, history, Chained, InChain, Spare, Present, Begun, Live
<1>2. CASE \E t \in Tasks : Start(t) \/ Insert(t) \/ Carry(t)
  BY <1>0, <1>2, StartChain, InsertChain, CarryChain
<1>3. CASE Next /\ \A t \in Tasks : ~(Start(t) \/ Insert(t) \/ Carry(t))
  <2>1. Steady
    BY <1>3, SteadyStep
  <2>2. ASSUME NEW t \in Tasks,
               \/ Enter(t) \/ ReadStatus(t) \/ Look(t) \/ Answer(t) \/ ReplaceOk(t)
               \/ ReplaceFails(t) \/ GiveUp(t) \/ Cleanup(t) \/ ManualRetry(t)
        PROVE  Chained'
    BY <1>0, <2>1, <2>2, MonitorChain
  <2>3. ASSUME NEW t \in Tasks,
               Submit(t) \/ Enlist(t) \/ Raise(t) \/ Check(t) \/ Choose(t) \/ CountRetry(t)
        PROVE  Chained'
    BY <1>0, <2>1, <2>3, SubmitChain, CheckChain, ChooseChain, CountChain
  <2>4. ASSUME (\E d \in Rows : Age(d)) \/ Expire \/ Resume \/ RecoveryRaises \/ Restart
        PROVE  Chained'
    BY <1>0, <2>1, <2>4, RecoveryChain
  <2>. QED
    BY <1>3, <2>2, <2>3, <2>4, Zenon DEF Next, Step
<1>. QED
  BY <1>1, <1>2, <1>3

-----------------------------------------------------------------------------
(***************************************************************************)
(* No release twice.                                                       *)
(***************************************************************************)
(* A release that a task has chosen is none of those it knew.              *)
Apart(t) ==
  /\ task[t].known \subseteq Present
  /\ task[t].pc \in {"count", "insert"} =>
       \A d \in task[t].known : row[d].release # task[t].cand

ChosenFor(d) ==
  /\ row[d].known \subseteq Present
  /\ row[d].depth > 0 => \A e \in row[d].known : row[e].release # row[d].release

Chosen == (\A t \in Tasks : Apart(t)) /\ (\A d \in Present : ChosenFor(d))

(* A task that keeps what it knew and chose, and one that has let it go.   *)
KeepsChoice(t) ==
  \/ /\ task'[t].known = task[t].known /\ task'[t].cand = task[t].cand
     /\ task'[t].pc \in {"count", "insert"} => task[t].pc \in {"count", "insert"}
  \/ task'[t].known = {}

LEMMA ApartKept ==
  ASSUME Present \subseteq Present', \A d \in Present : Same(d), NEW t \in Tasks, Apart(t),
         KeepsChoice(t)
  PROVE  Apart(t)'
  BY DEF Apart, KeepsChoice, Same

LEMMA ApartStep ==
  ASSUME IInv, [Next]_vars, \A t \in Tasks : Apart(t)
  PROVE  \A t \in Tasks : Apart(t)'
<1>0. TypeOK /\ Shapes /\ HeldPresent /\ Swept
  BY DEF IInv
<1>1. Present \subseteq Present' /\ \A d \in Present : Same(d)
  BY <1>0, StaysPresent, Remembered
<1>2. ASSUME \A t \in Tasks : KeepsChoice(t) PROVE \A t \in Tasks : Apart(t)'
  BY <1>1, <1>2, ApartKept
<1>3. ASSUME NEW t \in Tasks, KeepsChoice(t), \A u \in Tasks : u # t => task'[u] = task[u]
      PROVE  \A u \in Tasks : Apart(u)'
  <2>1. \A u \in Tasks : KeepsChoice(u)
    BY <1>3 DEF KeepsChoice
  <2>. QED
    BY <1>2, <2>1
<1>4. ASSUME NEW t \in Tasks, NEW p, Goto(t, p) \/ StopPolling(t, p), p \notin {"count", "insert"}
      PROVE  \A u \in Tasks : Apart(u)'
  <2>1. KeepsChoice(t) /\ \A u \in Tasks : u # t => task'[u] = task[u]
    BY <1>0, <1>4, Typed DEF Goto, StopPolling, Workflow, KeepsChoice
  <2>. QED
    BY <1>3, <2>1
<1>5. ASSUME NEW t \in Tasks, Leave(t)
      PROVE  \A u \in Tasks : Apart(u)'
  <2>1. KeepsChoice(t) /\ \A u \in Tasks : u # t => task'[u] = task[u]
    BY <1>0, <1>5, Typed DEF Leave, IdleTask, KeepsChoice
  <2>. QED
    BY <1>3, <2>1
<1>6. ASSUME NEW t \in Tasks,
             \/ Submit(t) \/ Enlist(t) \/ ReplaceOk(t) \/ ReplaceFails(t) \/ GiveUp(t)
             \/ Cleanup(t) \/ Check(t) \/ Raise(t)
      PROVE  \A u \in Tasks : Apart(u)'
  <2>1. Leave(t) \/ \E p : p \notin {"count", "insert"} /\ Goto(t, p)
    BY <1>6 DEF Submit, Enlist, ReplaceOk, ReplaceFails, GiveUp, Cleanup, Check, Raise, Refuse
  <2>. QED
    BY <1>4, <1>5, <2>1
<1>7. ASSUME NEW t \in Tasks, Enter(t) \/ ReadStatus(t) \/ Look(t) \/ Answer(t)
      PROVE  \A u \in Tasks : Apart(u)'
  <2>1. CASE Enter(t)
    <3>1. CASE task[t].cur \in active
      BY <1>5, <2>1, <3>1 DEF Enter
    <3>2. CASE task[t].cur \notin active
      <4>1. KeepsChoice(t) /\ \A u \in Tasks : u # t => task'[u] = task[u]
        BY <1>0, <2>1, <3>2, Typed DEF Enter, Workflow, KeepsChoice
      <4>. QED
        BY <1>3, <4>1
    <3>. QED
      BY <3>1, <3>2
  <2>2. CASE ReadStatus(t)
    <3>1. KeepsChoice(t) /\ \A u \in Tasks : u # t => task'[u] = task[u]
      BY <1>0, <2>2, Typed DEF ReadStatus, Workflow, KeepsChoice
    <3>. QED
      BY <1>3, <3>1
  <2>3. CASE Look(t)
    <3>1. CASE StopPolling(t, "cleanup")
      BY <1>4, <3>1
    <3>2. CASE task' = [task EXCEPT ![t] = [@ EXCEPT !.pc = "ask",
                                                    !.seen = row[task[t].cur].status]]
      <4>1. KeepsChoice(t) /\ \A u \in Tasks : u # t => task'[u] = task[u]
        BY <1>0, <3>2, Typed DEF Workflow, KeepsChoice
      <4>. QED
        BY <1>3, <4>1
    <3>. QED
      BY <2>3, <3>1, <3>2 DEF Look
  <2>4. CASE Answer(t)
    <3>1. CASE StopPolling(t, "cleanup") \/ StopPolling(t, "replace")
      BY <1>4, <3>1
    <3>2. CASE \E m : PollAgain(t, m)
      <4>1. KeepsChoice(t) /\ \A u \in Tasks : u # t => task'[u] = task[u]
        BY <1>0, <3>2, Typed DEF PollAgain, Workflow, KeepsChoice
      <4>. QED
        BY <1>3, <4>1
    <3>. QED
      BY <2>4, <3>1, <3>2 DEF Answer, NotAnswered, Busy, Missing, Failed, Completed
  <2>. QED
    BY <1>7, <2>1, <2>2, <2>3, <2>4
<1>8. ASSUME NEW t \in Tasks, Choose(t)
      PROVE  \A u \in Tasks : Apart(u)'
  <2>1. CASE Refuse(t)
    BY <1>4, <1>5, <2>1 DEF Refuse
  <2>2. CASE \E r \in Releases \ Attempted(t) :
               task' = [task EXCEPT ![t] = [@ EXCEPT !.pc = "count", !.cand = r,
                                                    !.known = Present]]
    <3>1. PICK r \in Releases \ Attempted(t) :
            task' = [task EXCEPT ![t] = [@ EXCEPT !.pc = "count", !.cand = r,
                                                 !.known = Present]]
      BY <2>2
    <3>2. /\ task'[t].pc = "count" /\ task'[t].cand = r /\ task'[t].known = Present
          /\ \A u \in Tasks : u # t => task'[u] = task[u]
      BY <1>0, <3>1, Typed DEF Workflow
    <3>3. row' = row /\ Present' = Present
      BY <1>8 DEF Choose, Present
    <3>4. Apart(t)'
      BY <3>2, <3>3 DEF Apart, Attempted
    <3>5. \A u \in Tasks : u # t => Apart(u)'
      BY <3>2, <3>3 DEF Apart
    <3>. QED
      BY <3>4, <3>5
  <2>. QED
    BY <1>8, <2>1, <2>2 DEF Choose
<1>9. ASSUME NEW t \in Tasks, Start(t) \/ CountRetry(t) \/ Insert(t) \/ Carry(t) \/ ManualRetry(t)
      PROVE  \A u \in Tasks : Apart(u)'
  <2>1. KeepsChoice(t) /\ \A u \in Tasks : u # t => task'[u] = task[u]
    <3>1. CASE Start(t)
      BY <1>0, <3>1, Typed DEF Start, Workflow, KeepsChoice
    <3>2. CASE CountRetry(t)
      BY <1>0, <3>2, Typed DEF CountRetry, At, Workflow, KeepsChoice
    <3>3. CASE Insert(t)
      BY <1>0, <3>3, Typed DEF Insert, Workflow, KeepsChoice
    <3>4. CASE Carry(t)
      BY <1>0, <3>4, Typed DEF Carry, IdleTask, KeepsChoice
    <3>5. CASE ManualRetry(t)
      BY <1>0, <3>5, Typed DEF ManualRetry, Workflow, KeepsChoice
    <3>. QED
      BY <1>9, <3>1, <3>2, <3>3, <3>4, <3>5
  <2>. QED
    BY <1>3, <2>1
<1>10. CASE (\E d \in Rows : Age(d)) \/ Expire \/ RecoveryRaises \/ UNCHANGED vars
  <2>1. task' = task
    BY <1>10 DEF Age, Expire, RecoveryRaises, vars
  <2>. QED
    BY <1>2, <2>1 DEF KeepsChoice
<1>11. CASE Resume
  <2>1. PICK new \in SUBSET Tasks : Resumes(new)
    BY <1>0, <1>11, ResumeEffect, Zenon
  <2>2. \A u \in Tasks : KeepsChoice(u)
    BY <2>1 DEF Resumes, KeepsChoice
  <2>. QED
    BY <1>2, <2>2
<1>12. CASE Restart
  <2>1. \A u \in Tasks : task'[u].known = {}
    BY <1>12 DEF Restart, IdleTask
  <2>. QED
    BY <1>2, <2>1 DEF KeepsChoice
<1>. QED
  BY <1>6, <1>7, <1>8, <1>9, <1>10, <1>11, <1>12, Zenon DEF Next, Step

LEMMA ChosenStep == IInv /\ Chosen /\ [Next]_vars => Chosen'
<1>. SUFFICES ASSUME IInv, Chosen, [Next]_vars PROVE Chosen'
  OBVIOUS
<1>0. TypeOK /\ Shapes /\ HeldPresent /\ Swept
  BY DEF IInv
<1>1. Present \subseteq Present' /\ \A d \in Present : Same(d)
  BY <1>0, StaysPresent, Remembered
<1>2. \A t \in Tasks : Apart(t)'
  BY ApartStep DEF Chosen
<1>3. \A d \in Present : ChosenFor(d)'
  BY <1>1 DEF Chosen, ChosenFor, Same
<1>4. ASSUME NEW t \in Tasks, Start(t) \/ Insert(t), NEW d \in Present' \ Present
      PROVE  ChosenFor(d)'
  <2>1. CASE Start(t)
    <3>1. row'[d].depth = 0 /\ row'[d].known = {}
      BY <1>0, <2>1, <1>4, Typed DEF Start, Inserted, Absent, Present
    <3>. QED
      BY <3>1 DEF ChosenFor
  <2>2. CASE Insert(t)
    <3>1. /\ task[t].pc = "insert"
          /\ row'[d].known = task[t].known /\ row'[d].release = task[t].cand
      BY <1>0, <2>2, <1>4, Typed DEF Insert, At, Inserted, Absent, Present
    <3>2. task[t].known \subseteq Present /\ \A e \in task[t].known : row[e].release # task[t].cand
      BY <3>1 DEF Chosen, Apart
    <3>. QED
      BY <1>1, <3>1, <3>2 DEF ChosenFor, Same
  <2>. QED
    BY <1>4, <2>1, <2>2
<1>5. ASSUME ~\E t \in Tasks : Start(t) \/ Insert(t) PROVE Present' \subseteq Present
  <2>1. CASE Next /\ \A t \in Tasks : ~(Start(t) \/ Insert(t) \/ Carry(t))
    <3>1. Steady
      BY <2>1, SteadyStep
    <3>. QED
      BY <3>1 DEF Steady, Present
  <2>2. CASE \E t \in Tasks : Carry(t)
    <3>1. StatusKept
      BY <1>0, <2>2, CarryEffect
    <3>. QED
      BY <3>1 DEF StatusKept, Present
  <2>3. CASE UNCHANGED vars
    BY <2>3 DEF vars, Present
  <2>. QED
    BY <1>5, <2>1, <2>2, <2>3
<1>6. \A d \in Present' : ChosenFor(d)'
  BY <1>3, <1>4, <1>5
<1>. QED
  BY <1>2, <1>6 DEF Chosen

(* Whatever overlaps and whatever dies: a ladder starts no release that    *)
(* the movie had tried when it chose, and a chain of retries is no longer  *)
(* than max_retry_count for each time its counter was lost                 *)
(* (retry_ladder.py).                                                      *)
THEOREM LadderKept == Spec => []LadderSound
<1>1. Init => IInv /\ Chained /\ Chosen
  <2>1. SUFFICES ASSUME Init PROVE Chained /\ Chosen
    BY InitTyped
  <2>2. /\ \A d \in Rows : row[d].status = "absent"
        /\ \A t \in Tasks : task[t].pc = "idle" /\ task[t].child = NoRow /\ task[t].known = {}
        /\ lost = {}
    BY <2>1 DEF Init, Absent, IdleTask
  <2>3. Present = {} /\ Begun = {}
    BY <2>2 DEF Present, Begun, Live
  <2>4. Chained
    BY <2>2, <2>3 DEF Chained, InChain
  <2>5. Chosen
    BY <2>2, <2>3 DEF Chosen, Apart
  <2>. QED
    BY <2>4, <2>5
<1>2. IInv /\ Chained /\ Chosen /\ [Next]_vars => (IInv /\ Chained /\ Chosen)'
  BY IInvStep, ChainStep, ChosenStep
<1>3. IInv /\ Chained /\ Chosen => LadderSound
  <2>1. SUFFICES ASSUME IInv, Chained, Chosen PROVE LadderSound
    OBVIOUS
  <2>2. NoReleaseTwice
    BY <2>1 DEF Chosen, ChosenFor, NoReleaseTwice
  <2>3. ASSUME NEW d \in Present PROVE row[d].depth <= MaxRetries * (1 + Cardinality(lost))
    <3>1. IsFiniteSet(lost)
      <4>1. IsFiniteSet(Rows) /\ lost \subseteq Rows
        BY <2>1, WorkflowAssumption, FS_Interval DEF Rows, IInv, TypeOK
      <4>. QED
        BY <4>1, FS_Subset
    <3>2. Cardinality(lost) \in Nat /\ MaxRetries \in Nat
      BY <3>1, FS_CardinalityType, WorkflowAssumption
    <3>3. row[d].depth <= Spare + MaxRetries
      BY <2>1 DEF Chained
    <3>4. \A c \in Nat : MaxRetries * (1 + c) = MaxRetries * c + MaxRetries
      BY <3>2
    <3>. QED
      BY <3>2, <3>3, <3>4 DEF Spare
  <2>. QED
    BY <2>2, <2>3 DEF LadderSound, ChainsBounded
<1>. QED
  BY <1>1, <1>2, <1>3, PTL DEF Spec

-----------------------------------------------------------------------------
(***************************************************************************)
(* What may report a failure after an improvement.                         *)
(***************************************************************************)
(* After an improvement without company nobody is at work on the movie,    *)
(* but for requests that only answer.                                      *)
Standing ==
  movie = "improved" /\ ~rival =>
    Waiting = {} /\ sweeps = {} /\ \A t \in Live : Answering(t)

(* While it stands, only such requests make steps.                         *)
LEMMA OnlyAnswers ==
  ASSUME IInv, Standing, movie = "improved", ~rival
  PROVE  /\ \A t \in Tasks : ~(\/ Submit(t) \/ Enlist(t) \/ Enter(t) \/ Monitor(t)
                               \/ ReplaceOk(t) \/ GiveUp(t) \/ Carry(t))
         /\ ~Expire /\ ~Resume /\ ~RecoveryRaises
<1>1. Waiting = {} /\ sweeps = {} /\ \A t \in Live : Answering(t)
  BY DEF Standing
<1>2. \A t \in Tasks : task[t].pc \in {"idle", "cleanup", "check", "choose", "count", "insert"}
  BY <1>1 DEF Live, Answering
<1>3. \A t \in Tasks : ~(\/ Submit(t) \/ Enlist(t) \/ Enter(t) \/ Monitor(t)
                         \/ ReplaceOk(t) \/ GiveUp(t) \/ Carry(t))
  BY <1>2 DEF Submit, Enlist, Enter, Monitor, ReadStatus, Look, Answer, ReplaceFails, ReplaceOk,
     GiveUp, Carry, At
<1>4. ~Expire
  BY <1>1 DEF Expire, Expired
<1>5. ~Resume
  <2>1. SUFFICES ASSUME Resume PROVE FALSE
    OBVIOUS
  <2>2. PICK expired \in sweeps \cup {{}} : expired # {} \/ (expired \cup Downloading) \ active # {}
    BY <2>1, Zenon DEF Resume
  <2>3. expired = {} /\ Downloading = {}
    BY <1>1 DEF Downloading
  <2>. QED
    BY <2>2, <2>3
<1>6. ~RecoveryRaises
  BY <1>1 DEF RecoveryRaises
<1>. QED
  BY <1>3, <1>4, <1>5, <1>6

LEMMA StandingStep == IInv /\ Standing /\ [Next]_vars => Standing'
<1>. SUFFICES ASSUME IInv, Standing, [Next]_vars, movie' = "improved", ~rival'
              PROVE  Waiting' = {} /\ sweeps' = {} /\ \A t \in Live' : Answering(t)'
  BY DEF Standing
<1>0. TypeOK /\ Shapes /\ HeldPresent /\ Swept
  BY DEF IInv
<1>1. ASSUME NEW t \in Tasks, ReplaceOk(t)
      PROVE  Waiting' = {} /\ sweeps' = {} /\ \A u \in Live' : Answering(u)'
  <2>1. /\ \A u \in Live \ {t} : Answering(u)
        /\ Waiting \ {task[t].cur} = {} /\ sweeps = {} /\ sweeps' = sweeps
    BY <1>1 DEF ReplaceOk, Company
  <2>2. task[t].cur \in Rows
    BY <1>0, <1>1, HasSubject DEF ReplaceOk, At
  <2>3. Leaves(t)
    BY <1>0, <1>1, LeavesLemma DEF ReplaceOk
  <2>4. Marked(task[t].cur, "replaced")
    BY <1>0, <1>1, <2>2, Typed DEF ReplaceOk, Download, Marked
  <2>5. Waiting' = {}
    BY <2>1, <2>4 DEF Waiting, Marked
  <2>6. \A u \in Live' : u \in Live \ {t} /\ task'[u] = task[u]
    BY <2>3 DEF Leaves, Becomes, Live
  <2>. QED
    BY <2>1, <2>5, <2>6 DEF Answering
<1>2. ASSUME movie = "improved", ~rival,
             \A d \in Rows : row'[d].status = row[d].status, sweeps' \subseteq sweeps,
             \A t \in Tasks : t \in Live' => Answering(t)'
      PROVE  Waiting' = {} /\ sweeps' = {} /\ \A u \in Live' : Answering(u)'
  BY <1>2 DEF Standing, Waiting, Live
<1>3. ASSUME NEW t \in Tasks, Cleanup(t) \/ Check(t) \/ Choose(t) \/ CountRetry(t)
      PROVE  Waiting' = {} /\ sweeps' = {} /\ \A u \in Live' : Answering(u)'
  <2>0. movie' = movie /\ rival' = rival /\ sweeps' = sweeps
    BY <1>3 DEF Cleanup, Check, Choose, CountRetry, history
  <2>1. movie = "improved" /\ ~rival /\ sweeps' = sweeps
    BY <2>0, Zenon
  <2>2. /\ StatusKept /\ task[t].pc # "idle"
        /\ \/ Leaves(t) /\ task[t].entry = NoRow
           \/ \E p \in {"check", "choose", "count", "insert"} : Goes(t, p)
           \/ Goes(t, "giveup") /\ task[t].entry # NoRow
    BY <1>0, <1>3, LadderEffect, HasSubject, Lively DEF Ladder
  <2>3. Answering(t)
    BY <2>1, <2>2 DEF Standing, Live
  <2>4. t \in Live' => Answering(t)'
    BY <2>2, <2>3 DEF Answering, Leaves, Goes, Becomes, Live
  <2>5. \A u \in Tasks : u # t => task'[u] = task[u]
    BY <2>2 DEF Leaves, Goes, Becomes
  <2>6. \A u \in Tasks : u \in Live' => Answering(u)'
    BY <2>1, <2>4, <2>5 DEF Standing, Live, Answering
  <2>. QED
    BY <1>2, <2>1, <2>2, <2>6 DEF StatusKept
<1>4. ASSUME NEW t \in Tasks, ManualRetry(t) \/ Raise(t)
      PROVE  Waiting' = {} /\ sweeps' = {} /\ \A u \in Live' : Answering(u)'
  <2>0. movie' = movie /\ rival' = rival /\ sweeps' = sweeps /\ row' = row
    BY <1>4 DEF ManualRetry, Raise, history
  <2>1. movie = "improved" /\ ~rival /\ sweeps' = sweeps /\ row' = row
    BY <2>0, Zenon
  <2>2. /\ \A u \in Tasks : u # t => task'[u] = task[u]
        /\ t \in Live' => Answering(t)'
    <3>1. CASE ManualRetry(t)
      BY <1>0, <3>1, ManualEffect DEF Becomes, Answering, Shapes, Shape
    <3>2. CASE Raise(t)
      BY <1>0, <3>2, LeavesLemma DEF Raise, Leaves, Becomes, Live
    <3>. QED
      BY <1>4, <3>1, <3>2
  <2>3. \A u \in Tasks : u \in Live' => Answering(u)'
    BY <2>1, <2>2 DEF Standing, Live, Answering
  <2>. QED
    BY <1>2, <2>1, <2>3
<1>5. ASSUME NEW d \in Rows, Age(d)
      PROVE  Waiting' = {} /\ sweeps' = {} /\ \A u \in Live' : Answering(u)'
  <2>1. movie = "improved" /\ ~rival /\ sweeps' = sweeps /\ task' = task
    BY <1>5 DEF Age, history
  <2>2. \A e \in Rows : row'[e].status = row[e].status
    BY <1>0, <1>5, AgeEffect DEF Marked
  <2>3. \A u \in Tasks : u \in Live' => Answering(u)'
    BY <2>1 DEF Standing, Live, Answering
  <2>. QED
    BY <1>2, <2>1, <2>2, <2>3
<1>6. CASE Restart
  <2>1. movie = "improved" /\ ~rival /\ sweeps' = {} /\ row' = row
    BY <1>6 DEF Restart
  <2>2. Live' = {}
    BY <1>6, RestartEffect DEF Live
  <2>. QED
    BY <1>2, <2>1, <2>2
<1>7. CASE UNCHANGED vars
  <2>1. /\ movie = "improved" /\ ~rival /\ sweeps' = sweeps /\ row' = row /\ task' = task
    BY <1>7 DEF vars, history
  <2>2. \A u \in Tasks : u \in Live' => Answering(u)'
    BY <2>1 DEF Standing, Live, Answering
  <2>. QED
    BY <1>2, <2>1, <2>2
<1>8. ASSUME NEW t \in Tasks, Start(t) \/ Insert(t) PROVE FALSE
  BY <1>8 DEF Start, Insert
<1>9. ASSUME \/ \E t \in Tasks : \/ Submit(t) \/ Enlist(t) \/ Enter(t) \/ ReadStatus(t) \/ Look(t)
                                 \/ Answer(t) \/ ReplaceFails(t) \/ Carry(t) \/ GiveUp(t)
             \/ Expire \/ Resume \/ RecoveryRaises
      PROVE  FALSE
  <2>0. movie' = movie /\ rival' = rival
    BY <1>9 DEF Submit, Enlist, Enter, ReadStatus, Look, Answer, ReplaceFails, Carry, GiveUp,
       Expire, Resume, RecoveryRaises, history
  <2>1. movie = "improved" /\ ~rival
    BY <2>0, Zenon
  <2>. QED
    BY <1>9, <2>1, OnlyAnswers DEF Monitor
<1>. QED
  BY <1>1, <1>3, <1>4, <1>5, <1>6, <1>7, <1>8, <1>9, Zenon DEF Next, Step

(* An improvement made while nothing else of the movie was at work is not  *)
(* marked failed by anything: neither by its own workflow, nor by recovery *)
(* or a manual retry that finds nothing (finish_download_with_retries,     *)
(* retry_download).                                                        *)
THEOREM ImprovementKept == Spec => ImprovementStands
<1>1. Init => IInv /\ Standing
  <2>1. Init => Standing
    BY DEF Init, Standing
  <2>. QED
    BY <2>1, InitTyped
<1>2. IInv /\ Standing /\ [Next]_vars => (IInv /\ Standing)'
  BY IInvStep, StandingStep
<1>3. IInv /\ Standing /\ [Next]_vars
        => [movie = "improved" /\ ~rival => movie' # "failed"]_vars
  <2>1. SUFFICES ASSUME IInv, Standing, Next, movie = "improved", ~rival
                 PROVE  movie' # "failed"
    OBVIOUS
  <2>2. \A t \in Tasks : ~Submit(t) /\ ~GiveUp(t)
    BY <2>1, OnlyAnswers
  <2>3. ~Expire
    BY <2>1, OnlyAnswers
  <2>4. ASSUME NEW t \in Tasks, Start(t) \/ Insert(t) \/ ReplaceOk(t)
        PROVE  movie' # "failed"
    BY <2>4 DEF Start, Insert, ReplaceOk
  <2>5. ASSUME NEW t \in Tasks,
               \/ Enlist(t) \/ Enter(t) \/ ReadStatus(t) \/ Look(t) \/ Answer(t)
               \/ ReplaceFails(t) \/ Cleanup(t) \/ Check(t) \/ Choose(t) \/ CountRetry(t)
               \/ Carry(t) \/ ManualRetry(t) \/ Raise(t)
        PROVE  movie' # "failed"
    BY <2>1, <2>5 DEF Enlist, Enter, ReadStatus, Look, Answer, ReplaceFails, Cleanup, Check,
       Choose, CountRetry, Carry, ManualRetry, Raise
  <2>6. ASSUME (\E d \in Rows : Age(d)) \/ Resume \/ RecoveryRaises \/ Restart
        PROVE  movie' # "failed"
    BY <2>1, <2>6 DEF Age, Resume, RecoveryRaises, Restart
  <2>. QED
    BY <2>1, <2>2, <2>3, <2>4, <2>5, <2>6, Zenon DEF Next, Step
<1>. QED
  BY <1>1, <1>2, <1>3, PTL DEF Spec, ImprovementStands
=============================================================================
