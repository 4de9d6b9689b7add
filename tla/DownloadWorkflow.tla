------------------------- MODULE DownloadWorkflow -------------------------
(***************************************************************************)
(* The workflow of a download (backend/core/download_workflow.py) with the *)
(* submission and the monitor (core/downloader.py) and the retry ladder    *)
(* (core/retry_ladder.py), for the downloads of one movie.                 *)
(*                                                                         *)
(* A task is a coroutine that runs a workflow; a step ends where it awaits *)
(* the client or a commit.  At any time a cycle or the user may start a    *)
(* download, recovery (at start-up, every hour, from the API) may take up  *)
(* downloads that look abandoned, the user may retry a failed one, and a   *)
(* task may end by an exception or with the process.                       *)
(*                                                                         *)
(* The answers of the download client are arbitrary.  The blacklist is an  *)
(* arbitrary set of releases: entries expire and are edited by the user.   *)
(* replace_file is one step here; module Replacement opens it.             *)
(***************************************************************************)
EXTENDS Integers, FiniteSets, Functions

CONSTANTS
  Tasks,        \* coroutines that run a workflow at a time
  Releases,     \* accepted search results of the movie
  MaxRetries,   \* blacklist.max_retry_count
  MaxMissing,   \* MAX_NONE_RETRIES
  MaxRows,      \* bound: downloads of the movie
  MaxStarts,    \* bound: downloads started by a cycle or the user
  MaxManual,    \* bound: manual retries
  MaxSweeps,    \* bound: recoveries at work at a time
  MaxDeaths     \* bound: exceptions and restarts

ASSUME WorkflowAssumption ==
  /\ MaxRetries \in Nat /\ MaxMissing \in Nat
  /\ MaxRows \in Nat /\ MaxStarts \in Nat /\ MaxManual \in Nat
  /\ MaxSweeps \in Nat /\ MaxDeaths \in Nat

VARIABLES
  movie,        \* movies.status
  row,          \* downloads
  active,       \* _active_workflows
  task,         \* coroutines and their local variables
  sweeps,       \* what each recovery has expired and not yet taken up
  count,        \* how often each bounded event has happened
  lost,         \* history: downloads retried without their own counter
  rival         \* history: the last replacement had company

history == <<lost, rival>>
vars == <<movie, row, active, task, sweeps, count, history>>

Rows == 1 .. MaxRows
NoRow == 0

(* depth and known are history: how many retries led to a download, and    *)
(* which downloads its ladder found when it chose the release.             *)
Absent == [status |-> "absent", release |-> NoRow, retry |-> 0,
           old |-> FALSE, files |-> TRUE, depth |-> 0, known |-> {}]
IdleTask == [pc |-> "idle", entry |-> NoRow, cur |-> NoRow, child |-> NoRow,
             cand |-> NoRow, base |-> 0, seen |-> "absent", missed |-> 0,
             known |-> {}]

Statuses == {"absent", "submitting", "downloading", "completed", "replaced", "failed"}
Points == {"idle", "submit", "enlist", "enter", "status", "poll", "ask", "replace",
           "giveup", "cleanup", "check", "choose", "count", "insert", "carry"}

Download == [status : Statuses, release : Releases \cup {NoRow}, retry : Nat,
             old : BOOLEAN, files : BOOLEAN, depth : Nat, known : SUBSET Rows]
Workflow == [pc : Points, entry : Rows \cup {NoRow}, cur : Rows \cup {NoRow},
             child : Rows \cup {NoRow}, cand : Releases \cup {NoRow}, base : Nat,
             seen : Statuses, missed : Nat, known : SUBSET Rows]

Init ==
  /\ movie = "pending"
  /\ row = [d \in Rows |-> Absent]
  /\ active = {}
  /\ task = [t \in Tasks |-> IdleTask]
  /\ sweeps = {}
  /\ count = [starts |-> 0, manual |-> 0, deaths |-> 0]
  /\ lost = {}
  /\ rival = FALSE

-----------------------------------------------------------------------------
Present == {d \in Rows : row[d].status # "absent"}
Waiting == {d \in Rows : row[d].status \in {"submitting", "downloading"}}
Live == {t \in Tasks : task[t].pc # "idle"}

At(t, l) == task[t].pc = l
Goto(t, l) == task' = [task EXCEPT ![t].pc = l]
Status(d, s) == row' = [row EXCEPT ![d].status = s]
Tally(e) == count' = [count EXCEPT ![e] = @ + 1]

(* The download that start_download is at: the first one of a task, or the *)
(* one that its retry ladder has begun.                                    *)
Subject(t) == IF task[t].child = NoRow THEN task[t].cur ELSE task[t].child

(* The task is over; finally: _active_workflows.discard.                   *)
Leave(t) ==
  /\ task' = [task EXCEPT ![t] = IdleTask]
  /\ active' = active \ {task[t].entry}

(* start_download inserts row d, the next one, for release r.              *)
Inserted(d, r, depth, known) ==
  row' = [row EXCEPT ![d] = [Absent EXCEPT !.status = "submitting", !.release = r,
                                           !.depth = depth, !.known = known]]
Fresh(d) == d \notin Present /\ \A e \in Rows : e < d => e \in Present

(* The bound on rows counts those that a ladder has decided to insert.     *)
Room == Cardinality(Present)
        + Cardinality({t \in Live : At(t, "count") \/ At(t, "insert")}) < MaxRows

-----------------------------------------------------------------------------
(***************************************************************************)
(* start_download: the row is committed before the client is asked.        *)
(***************************************************************************)
Start(t) ==
  /\ At(t, "idle")
  /\ count.starts < MaxStarts /\ Room
  /\ \E d \in Rows, r \in Releases :
       /\ Fresh(d)
       /\ Inserted(d, r, 0, {})
       /\ task' = [task EXCEPT ![t] = [@ EXCEPT !.pc = "submit", !.cur = d]]
  /\ movie' = "downloading"
  /\ Tally("starts")
  /\ UNCHANGED <<active, sweeps, history>>

(* A submission that fails raises out of the workflow.                     *)
Submit(t) ==
  /\ At(t, "submit")
  /\ \/ Goto(t, "enlist") /\ UNCHANGED <<movie, row, active, lost>>
     \/ /\ Status(Subject(t), "failed")
        /\ movie' = "failed"
        /\ Leave(t)
        /\ lost' = lost \cup ({task[t].child} \ {NoRow})
  /\ UNCHANGED <<sweeps, count, rival>>

Enlist(t) ==
  /\ At(t, "enlist")
  /\ Status(Subject(t), "downloading")
  /\ Goto(t, IF task[t].child = NoRow THEN "enter" ELSE "carry")
  /\ UNCHANGED <<movie, active, sweeps, count, history>>

(* Mutant: a task does not look whether its download is active.            *)
EnterUnasked(t) ==
  /\ At(t, "enter")
  /\ active' = active \cup {task[t].cur}
  /\ task' = [task EXCEPT ![t] = [@ EXCEPT !.pc = "status", !.entry = task[t].cur]]
  /\ UNCHANGED <<movie, row, sweeps, count, history>>

(* finish_download_with_retries                                            *)
Enter(t) ==
  /\ At(t, "enter")
  /\ IF task[t].cur \in active
     THEN Leave(t)
     ELSE /\ active' = active \cup {task[t].cur}
          /\ task' = [task EXCEPT ![t] = [@ EXCEPT !.pc = "status",
                                                  !.entry = task[t].cur]]
  /\ UNCHANGED <<movie, row, sweeps, count, history>>

ReadStatus(t) ==
  /\ At(t, "status")
  /\ task' = [task EXCEPT ![t] = [@ EXCEPT
       !.pc = IF row[task[t].cur].status = "failed" THEN "cleanup" ELSE "poll",
       !.missed = 0]]
  /\ UNCHANGED <<movie, row, active, sweeps, count, history>>

-----------------------------------------------------------------------------
(***************************************************************************)
(* monitor_download: a poll loads the row, gives up when it is too old,    *)
(* and otherwise asks the client.  The answer is written over whatever the *)
(* row has become, but only where it differs from what was loaded.         *)
(***************************************************************************)
StopPolling(t, l) ==
  task' = [task EXCEPT ![t] = [@ EXCEPT !.pc = l, !.seen = "absent", !.missed = 0]]

Look(t) ==
  /\ At(t, "poll")
  /\ LET d == task[t].cur IN
     IF row[d].old
     THEN Status(d, "failed") /\ StopPolling(t, "cleanup")
     ELSE /\ task' = [task EXCEPT ![t] = [@ EXCEPT !.pc = "ask",
                                                  !.seen = row[d].status]]
          /\ UNCHANGED row
  /\ UNCHANGED <<movie, active, sweeps, count, history>>

Write(t, s) ==
  IF task[t].seen = s THEN UNCHANGED row ELSE Status(task[t].cur, s)

PollAgain(t, missed) ==
  /\ task' = [task EXCEPT ![t] = [@ EXCEPT !.pc = "poll", !.missed = missed]]
  /\ UNCHANGED row

NotAnswered(t) == PollAgain(t, task[t].missed)
Busy(t)        == PollAgain(t, 0)
Missing(t)     == /\ task[t].missed + 1 < MaxMissing
                  /\ PollAgain(t, task[t].missed + 1)
Failed(t)      == Write(t, "failed") /\ StopPolling(t, "cleanup")
Completed(t)   == Write(t, "completed") /\ StopPolling(t, "replace")

Answer(t) ==
  /\ At(t, "ask")
  /\ NotAnswered(t) \/ Busy(t) \/ Missing(t) \/ Failed(t) \/ Completed(t)
  /\ UNCHANGED <<movie, active, sweeps, count, history>>

-----------------------------------------------------------------------------
(***************************************************************************)
(* The end of a download: replace_file, or clean-up and the retry ladder.  *)
(***************************************************************************)
(* A manual retry that has not started a download of its own only answers. *)
Answering(t) ==
  /\ task[t].entry = NoRow /\ task[t].child = NoRow
  /\ task[t].pc \in {"cleanup", "check", "choose", "count", "insert"}

(* Beside task t, the movie has another workflow, download or recovery.    *)
Company(t) ==
  \/ \E u \in Live \ {t} : ~Answering(u)
  \/ Waiting \ {task[t].cur} # {}
  \/ sweeps # {}

(* Mutant: a successful replacement falls through to the failure.          *)
ReplaceFallsThrough(t) ==
  /\ At(t, "replace")
  /\ row[task[t].cur].files
  /\ row' = [row EXCEPT ![task[t].cur] =
                [@ EXCEPT !.status = "replaced", !.files = FALSE]]
  /\ movie' = "improved"
  /\ Goto(t, "giveup")
  /\ rival' = Company(t)
  /\ UNCHANGED <<active, sweeps, count, lost>>

ReplaceOk(t) ==
  /\ At(t, "replace")
  /\ row[task[t].cur].files
  /\ row' = [row EXCEPT ![task[t].cur] =
                [@ EXCEPT !.status = "replaced", !.files = FALSE]]
  /\ movie' = "improved"
  /\ Leave(t)
  /\ rival' = Company(t)
  /\ UNCHANGED <<sweeps, count, lost>>

(* A dry run, set after the download was sent, leaves it as it is.         *)
ReplaceFails(t) ==
  /\ At(t, "replace")
  /\ \/ UNCHANGED row
     \/ row' = [row EXCEPT ![task[t].cur] = [@ EXCEPT !.status = "failed", !.files = FALSE]]
  /\ Goto(t, "giveup")
  /\ UNCHANGED <<movie, active, sweeps, count, history>>

(* _mark_movie_failed                                                      *)
GiveUp(t) ==
  /\ At(t, "giveup")
  /\ movie' = "failed"
  /\ Leave(t)
  /\ UNCHANGED <<row, sweeps, count, history>>

(* cleanup_failed_download: the folder may resist removal.                 *)
Cleanup(t) ==
  /\ At(t, "cleanup")
  /\ \/ UNCHANGED row
     \/ /\ row[task[t].cur].status = "failed"
        /\ row' = [row EXCEPT ![task[t].cur].files = FALSE]
  /\ Goto(t, "check")
  /\ UNCHANGED <<movie, active, sweeps, count, history>>

(* Mutant: the workflow ends without marking the movie.                    *)
RefuseSilently(t) == Leave(t)

(* No retry: a workflow marks the movie, a manual request only answers.    *)
Refuse(t) ==
  IF task[t].entry = NoRow THEN Leave(t) ELSE Goto(t, "giveup") /\ UNCHANGED active

(* can_retry_download                                                      *)
CanRetry(d) == row[d].retry < MaxRetries /\ row[d].status = "failed"

(* Downloads a retry ladder has begun and not yet given their counter.     *)
Begun == {task[t].child : t \in Live} \ {NoRow}

Check(t) ==
  /\ At(t, "check")
  /\ IF CanRetry(task[t].cur) THEN Goto(t, "choose") /\ UNCHANGED active
     ELSE Refuse(t)
  /\ lost' = IF CanRetry(task[t].cur) THEN lost \cup (Begun \cap {task[t].cur}) ELSE lost
  /\ UNCHANGED <<movie, row, sweeps, count, rival>>

(* Mutant: only the release that has just failed is excluded.              *)
AttemptedLast(t) == {row[task[t].cur].release}

(* get_next_candidate: what the movie has tried is excluded, and what the  *)
(* blacklist holds, which may be all the rest.                             *)
Attempted(t) == {row[d].release : d \in Present}

Choose(t) ==
  /\ At(t, "choose")
  /\ \/ /\ Room
        /\ \E r \in Releases \ Attempted(t) :
             task' = [task EXCEPT ![t] = [@ EXCEPT !.pc = "count", !.cand = r,
                                                  !.known = Present]]
        /\ UNCHANGED active
     \/ Refuse(t)
  /\ UNCHANGED <<movie, row, sweeps, count, history>>

(* The counter of the failed download is committed on its own ...          *)
CountRetry(t) ==
  /\ At(t, "count")
  /\ row' = [row EXCEPT ![task[t].cur].retry = @ + 1]
  /\ task' = [task EXCEPT ![t] = [@ EXCEPT !.pc = "insert",
                                          !.base = row[task[t].cur].retry]]
  /\ UNCHANGED <<movie, active, sweeps, count, history>>

(* ... then start_download is called for the candidate ...                 *)
Insert(t) ==
  /\ At(t, "insert")
  /\ \E d \in Rows :
       /\ Fresh(d)
       /\ Inserted(d, task[t].cand, row[task[t].cur].depth + 1, task[t].known)
       /\ task' = [task EXCEPT ![t] = [@ EXCEPT !.pc = "submit", !.child = d,
                                               !.cand = NoRow, !.known = {}]]
  /\ movie' = "downloading"
  /\ UNCHANGED <<active, sweeps, count, history>>

(* ... and the new download gets its counter once it is submitted.         *)
Carry(t) ==
  /\ At(t, "carry")
  /\ row' = [row EXCEPT ![task[t].child].retry = task[t].base + 1]
  /\ task' = [task EXCEPT ![t] =
       [IdleTask EXCEPT !.pc = IF task[t].entry = NoRow THEN "enter" ELSE "status",
                        !.entry = task[t].entry, !.cur = task[t].child]]
  /\ UNCHANGED <<movie, active, sweeps, count, history>>

-----------------------------------------------------------------------------
(***************************************************************************)
(* Around the workflows.                                                   *)
(***************************************************************************)
(* POST /queue/{id}/retry                                                  *)
ManualRetry(t) ==
  /\ At(t, "idle")
  /\ count.manual < MaxManual
  /\ \E d \in Present :
       /\ row[d].status = "failed"
       /\ task' = [task EXCEPT ![t] = [@ EXCEPT !.pc = "cleanup", !.cur = d]]
  /\ Tally("manual")
  /\ UNCHANGED <<movie, row, active, sweeps, history>>

Monitors(t, d) ==
  task[t].cur = d /\ task[t].pc \in {"status", "poll", "ask", "replace"}

(* A submission takes seconds, not a day.  The age of a download matters   *)
(* while it waits or is monitored.                                         *)
Age(d) ==
  /\ d \in Waiting \/ \E t \in Tasks : Monitors(t, d)
  /\ ~row[d].old
  /\ \A t \in Live :
       Subject(t) = d => task[t].pc \notin {"submit", "enlist"}
  /\ row' = [row EXCEPT ![d].old = TRUE]
  /\ UNCHANGED <<movie, active, task, sweeps, count, history>>

(* Mutant: a row whose submission never came back does not expire.         *)
ExpiredDownloading == {d \in Waiting : row[d].old /\ row[d].status = "downloading"}

(* expire_stale_active_downloads: what has waited too long fails, in one   *)
(* commit, whoever is at work on it.                                       *)
Expired == {d \in Waiting : row[d].old}

Expire ==
  /\ Cardinality(sweeps) < MaxSweeps
  /\ Expired # {}
  /\ row' = [d \in Rows |-> IF d \in Expired
                            THEN [row[d] EXCEPT !.status = "failed"] ELSE row[d]]
  /\ movie' = "failed"
  /\ sweeps' = sweeps \cup {Expired}
  /\ UNCHANGED <<active, task, count, history>>

Downloading == {d \in Waiting : row[d].status = "downloading"}

(* resume_downloading_downloads, after its query: a task for each download *)
(* just expired, if any was, and each that is downloading, unless its id   *)
(* is among the active ones.  The tasks look again when they first run.    *)
Resume ==
  \E expired \in sweeps \cup {{}} :
    LET found == (expired \cup Downloading) \ active
    IN /\ expired # {} \/ found # {}
       /\ \E new \in SUBSET (Tasks \ Live) : \E f \in Bijection(new, found) :
            task' = [t \in Tasks |->
                       IF t \in new THEN [IdleTask EXCEPT !.pc = "enter", !.cur = f[t]]
                       ELSE task[t]]
       /\ sweeps' = sweeps \ {expired}
       /\ UNCHANGED <<movie, row, active, count, history>>

(* An exception ends one task, or a recovery between its two parts; the    *)
(* end of the process ends all.                                            *)
Raise(t) ==
  /\ t \in Live /\ count.deaths < MaxDeaths
  /\ Leave(t)
  /\ lost' = lost \cup ({task[t].child} \ {NoRow})
  /\ Tally("deaths")
  /\ UNCHANGED <<movie, row, sweeps, rival>>

RecoveryRaises ==
  /\ count.deaths < MaxDeaths
  /\ \E expired \in sweeps : sweeps' = sweeps \ {expired}
  /\ Tally("deaths")
  /\ UNCHANGED <<movie, row, active, task, history>>

Restart ==
  /\ Live # {} \/ sweeps # {}
  /\ count.deaths < MaxDeaths
  /\ task' = [t \in Tasks |-> IdleTask]
  /\ active' = {}
  /\ sweeps' = {}
  /\ lost' = lost \cup Begun
  /\ Tally("deaths")
  /\ UNCHANGED <<movie, row, rival>>

-----------------------------------------------------------------------------
Step(t) ==
  \/ Submit(t) \/ Enlist(t) \/ Enter(t) \/ ReadStatus(t) \/ Look(t) \/ Answer(t)
  \/ ReplaceOk(t) \/ ReplaceFails(t) \/ GiveUp(t)
  \/ Cleanup(t) \/ Check(t) \/ Choose(t) \/ CountRetry(t) \/ Insert(t) \/ Carry(t)

Next ==
  \/ \E t \in Tasks : Start(t) \/ Step(t) \/ ManualRetry(t) \/ Raise(t)
  \/ \E d \in Rows : Age(d)
  \/ Expire \/ Resume \/ RecoveryRaises
  \/ Restart

(* The event loop resumes a coroutine whose await is over, the client's    *)
(* requests time out, the clock advances, and the scheduler runs recovery  *)
(* every hour.                                                             *)
Fairness ==
  /\ \A t \in Tasks : WF_vars(Step(t))
  /\ \A d \in Rows : WF_vars(Age(d))
  /\ WF_vars(Expire) /\ WF_vars(Resume)

Spec == Init /\ [][Next]_vars /\ Fairness
-----------------------------------------------------------------------------
TypeOK ==
  /\ movie \in {"pending", "downloading", "improved", "failed"}
  /\ row \in [Rows -> Download]
  /\ active \subseteq Rows
  /\ task \in [Tasks -> Workflow]
  /\ sweeps \subseteq SUBSET Rows
  /\ count \in [starts : Nat, manual : Nat, deaths : Nat]
  /\ lost \subseteq Rows
  /\ rival \in BOOLEAN

(* A download is monitored, and handed to replace_file, by one task at a   *)
(* time; _active_workflows and its check are meant for this.  The code     *)
(* does not keep it: see ByRetry.                                          *)
MonitoredOnce ==
  \A t, u \in Tasks, d \in Rows : Monitors(t, d) /\ Monitors(u, d) => t = u

(* _active_workflows holds a task under the download it began with.  A     *)
(* download that its ladder went on to is not in the set.                  *)
ByRetry(t) == task[t].entry # task[t].cur

(* Two tasks that monitor one download came to it differently: one was     *)
(* begun for it, the other's retry ladder went on to it.  So there are     *)
(* never three, and a download that no ladder has begun has one.           *)
MonitoredApart ==
  \A t, u \in Tasks, d \in Rows :
    /\ Monitors(t, d) /\ Monitors(u, d) /\ t # u => (ByRetry(t) <=> ~ByRetry(u))
    /\ Monitors(t, d) /\ ByRetry(t) => row[d].depth > 0

(* A retry ladder starts no release that the movie had tried when the      *)
(* ladder chose, whatever the blacklist has forgotten (get_next_candidate).*)
NoReleaseTwice ==
  \A d, e \in Present :
    row[e].depth > 0 /\ row[d].release = row[e].release /\ d # e => d \notin row[e].known

(* A chain of retries is no longer than max_retry_count, and longer by as  *)
(* much for each download that was retried before, or without, being given *)
(* its own counter (can_retry_download and the counters, committed apart). *)
ChainsBounded ==
  \A d \in Present : row[d].depth <= MaxRetries * (1 + Cardinality(lost))

(* What the ladder promises for a movie: no release twice, and no longer   *)
(* chains than the setting allows (retry_ladder.py).                       *)
LadderSound == NoReleaseTwice /\ ChainsBounded

(* When no task is left and recovery has nothing to take up, the movie is  *)
(* not left "downloading".                                                 *)
MovieSettled == Live = {} /\ Waiting = {} => movie # "downloading"

(* The same, as long as no task has died.                                  *)
SettledUndisturbed == count.deaths = 0 => MovieSettled

(* An improvement is not reported as a failure, unless another workflow,   *)
(* download or recovery of the movie was at work when it was made: neither *)
(* the end of its own workflow nor a retry by the user that finds nothing  *)
(* reports one.                                                            *)
ImprovementStands == [][movie = "improved" /\ ~rival => movie' # "failed"]_vars

(* Every workflow ends, even if the client never answers.                  *)
WorkflowEnds == \A t \in Tasks : t \in Live ~> t \notin Live

(* Every download is settled, whatever dies: what no task drives is taken  *)
(* up by recovery, or expires.                                             *)
DownloadsSettle == \A d \in Rows : d \in Waiting ~> d \notin Waiting

(* The two together: no workflow, and no download, is left pending.        *)
WorkflowsSettle == WorkflowEnds /\ DownloadsSettle
=============================================================================
