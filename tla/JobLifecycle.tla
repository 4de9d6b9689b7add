---------------------------- MODULE JobLifecycle ----------------------------
(***************************************************************************)
(* What the job runtime (core/jobs.py) promises a person who watches the   *)
(* list of jobs: what a row says of a job is justified by what the work of *)
(* the job did, or by the runtime's own trouble with its database.         *)
(* Sessions, tasks, requests and the values they loaded are hidden;        *)
(* Jobs.tla is shown to implement this module.                             *)
(***************************************************************************)
CONSTANT Jobs

VARIABLES
  report,     \* [Jobs -> status]: the status column, "absent" before the row
  work,       \* [Jobs -> WorkState]: what the body of the job did
  asked,      \* the jobs whose cancellation was requested
  broken      \* the jobs whose rows could not be read or written

vars == <<report, work, asked, broken>>

WorkState == {"none", "begun", "finished", "raised"}

ActiveStatus   == {"queued", "running", "cancelling"}
TerminalStatus == {"completed", "failed", "cancelled", "recovery_required"}
Status         == ActiveStatus \cup TerminalStatus \cup {"absent", "purged"}

Init ==
  /\ report = [j \in Jobs |-> "absent"]
  /\ work = [j \in Jobs |-> "none"]
  /\ asked = {}
  /\ broken = {}

Submit(j) ==
  /\ report[j] = "absent"
  /\ report' = [report EXCEPT ![j] = "queued"]
  /\ UNCHANGED <<work, asked, broken>>

(* The work begins as the row becomes "running".  It begins once, and it   *)
(* may begin on a row that a cancellation reached a moment earlier.        *)
Begin(j) ==
  /\ report[j] \in {"queued", "cancelled"}
  /\ work[j] = "none"
  /\ report[j] = "cancelled" => j \in asked
  /\ report' = [report EXCEPT ![j] = "running"]
  /\ work' = [work EXCEPT ![j] = "begun"]
  /\ UNCHANGED <<asked, broken>>

Finish(j, w) ==
  /\ work[j] = "begun"
  /\ work' = [work EXCEPT ![j] = w]
  /\ UNCHANGED <<report, asked, broken>>

(* The runtime cannot read or write the row around the work, which has not *)
(* begun or is over.                                                       *)
Break(j) ==
  /\ report[j] \notin {"absent", "purged"}
  /\ work[j] \in {"none", "finished"}
  /\ broken' = broken \cup {j}
  /\ UNCHANGED <<report, work, asked>>

(* The end of the work is reported, and is reported truly: "completed"     *)
(* only when the work finished, "failed" only when it raised or the        *)
(* runtime had trouble with the row.                                       *)
ReportEnd(j, s) ==
  /\ \/ s = "completed" /\ work[j] = "finished"
     \/ s = "failed"    /\ (work[j] = "raised" \/ j \in broken)
  /\ \/ report[j] \in {"running", "cancelling", "cancelled"}
     \/ report[j] = "queued" /\ j \in broken
  /\ report[j] \in {"cancelling", "cancelled"} => j \in asked
  /\ report' = [report EXCEPT ![j] = s]
  /\ UNCHANGED <<work, asked, broken>>

(* A cancellation is requested; the row says so, or says cancelled.        *)
Ask(j, s) ==
  /\ report[j] \in Status \ {"absent", "purged"}
  /\ s \in {"cancelling", "cancelled"}
  /\ s = "cancelling" => work[j] # "none"
  /\ report' = [report EXCEPT ![j] = s]
  /\ asked' = asked \cup {j}
  /\ UNCHANGED <<work, broken>>

ReportCancelled(j) ==
  /\ j \in asked
  /\ report[j] \in Status \ {"absent", "purged"}
  /\ report' = [report EXCEPT ![j] = "cancelled"]
  /\ UNCHANGED <<work, asked, broken>>

(* A restart closes every row whose work it cut short.                     *)
Recover ==
  /\ report' = [j \in Jobs |-> IF report[j] \in {"running", "cancelling"}
                               THEN "recovery_required" ELSE report[j]]
  /\ UNCHANGED <<work, asked, broken>>

Purge(j) ==
  /\ report[j] \in TerminalStatus
  /\ report' = [report EXCEPT ![j] = "purged"]
  /\ UNCHANGED <<work, asked, broken>>

Next ==
  \/ Recover
  \/ \E j \in Jobs :
       \/ Submit(j) \/ Begin(j) \/ Break(j) \/ ReportCancelled(j) \/ Purge(j)
       \/ \E w \in {"finished", "raised"} : Finish(j, w)
       \/ \E s \in {"completed", "failed"} : ReportEnd(j, s)
       \/ \E s \in {"cancelling", "cancelled"} : Ask(j, s)

Spec == Init /\ [][Next]_vars
=============================================================================
