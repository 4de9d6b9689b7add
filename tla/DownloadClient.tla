--------------------------- MODULE DownloadClient ---------------------------
(***************************************************************************)
(* A download and its job in the download client: the two adapters         *)
(* (integrations/sabnzbd.py, integrations/nzbget.py), the identifiers that *)
(* say which client has the job (integrations/download_client.py), and the *)
(* submission, polls and cleanup that use them (core/downloader.py).       *)
(*                                                                         *)
(* A poll is misled where the code looks past a job that is there: it asks *)
(* the wrong client, takes an error for an empty list, or the job is not   *)
(* among the newest 2000 of SABnzbd's history.                             *)
(*                                                                         *)
(* Every request to a client is a step: between two of them the client     *)
(* works on, its user removes jobs, a page of settings makes the other     *)
(* client the active one, and the server may end and start again (module   *)
(* Settings).  A request may fail, the submission even after the client    *)
(* has accepted the job, or be answered with an error that the code reads  *)
(* as an empty list.  The server does nothing while settings are saved.    *)
(*                                                                         *)
(* DownloadWorkflow takes the answers of a client as arbitrary; here they  *)
(* are what a client tells.  One download is submitted once, so its job    *)
(* needs no name of its own: slot[d] is the job of the download d.         *)
(***************************************************************************)
EXTENDS Settings

CONSTANTS
  Downloads,   \* rows of the table downloads
  Stages,      \* what a client calls the stages of its post-processing
  MaxMissing   \* MAX_NONE_RETRIES

VARIABLES
  slot,        \* what a client lists of a job: where, and its status there
  row,         \* downloads
  task         \* the coroutine that works for a download

downloads == <<slot, row, task>>
clientVars == <<settings, downloads>>

(* get_active_download_client_name                                         *)
Active == server["download_client"]

Clients == {"sabnzbd", "nzbget"}

(* What a row of an older version has instead of the client: nothing.      *)
Raw == "raw"

(* How a job ends: with files, with files whose path is not told, without. *)
Ends == {"success", "pathless", "failure"}

TRANSIENT_HISTORY_STATUSES ==
  {"checking", "downloading", "extracting", "fetching", "queued", "quickcheck",
   "repairing", "running", "verifying"}

(* misled: this poll was; sure: one of those counted in missed was not     *)
(* (history).                                                              *)
Idle == [pc |-> "idle", client |-> None, list |-> 1, answer |-> None, misled |-> FALSE,
         missed |-> 0, sure |-> FALSE, purged |-> FALSE, heard |-> TRUE]

NoSlot == [client |-> None, place |-> None, status |-> None]
NoRow == [status |-> "absent", nzo |-> None, why |-> None, sure |-> FALSE,
          purged |-> FALSE, heard |-> FALSE]

(* Some downloads were submitted by an older version.                      *)
ClientInit ==
  /\ NothingSaved
  /\ slot \in [Downloads -> {NoSlot} \cup {[client |-> c, place |-> "queue", status |-> "queued"] : c \in Clients}]
  /\ row = [d \in Downloads |-> IF slot[d] = NoSlot THEN NoRow
                                ELSE [NoRow EXCEPT !.status = "downloading", !.nzo = Raw]]
  /\ task = [d \in Downloads |-> Idle]

At(d, l) == task[d].pc = l
Sleep(d, missed, sure) ==
  task' = [task EXCEPT ![d] = [Idle EXCEPT !.pc = "asleep", !.missed = missed, !.sure = sure]]
Leave(d) == task' = [task EXCEPT ![d] = Idle]

---------------------------------------------------------------------------
(* Submission.                                                             *)

(* The name of the active client is read once, before the first await.     *)
Start(d) ==
  /\ At(d, "idle") /\ row[d].status = "absent"
  /\ row' = [row EXCEPT ![d].status = "submitting"]
  /\ task' = [task EXCEPT ![d] = [Idle EXCEPT !.pc = "submit", !.client = Active]]
  /\ UNCHANGED slot

Accept(d) == slot' = [slot EXCEPT ![d] = [client |-> task[d].client, place |-> "queue", status |-> "queued"]]

Submit(d) ==
  /\ At(d, "submit") /\ Accept(d)
  /\ task' = [task EXCEPT ![d].pc = "record"]
  /\ UNCHANGED row

(* The request is refused, by an error in its answer too, or its answer is *)
(* lost.                                                                   *)
SubmitFails(d) ==
  /\ At(d, "submit")
  /\ UNCHANGED slot \/ Accept(d)
  /\ row' = [row EXCEPT ![d].status = "failed", ![d].why = "submit"]
  /\ Leave(d)

(* encode_job_id: the row tells the client along with the job.             *)
Encoded(d) == task[d].client

Record(d) ==
  /\ At(d, "record")
  /\ row' = [row EXCEPT ![d].nzo = Encoded(d), ![d].status = "downloading"]
  /\ Sleep(d, 0, FALSE)
  /\ UNCHANGED slot

---------------------------------------------------------------------------
(* Polls.                                                                  *)

(* decode_job_id, and the adapter it chooses: the active one at this       *)
(* moment for a row that names no client.                                  *)
Decoded(d) == IF row[d].nzo = Raw THEN Active ELSE row[d].nzo

Wake(d) ==
  /\ At(d, "asleep")
  /\ task' = [task EXCEPT ![d].pc = "ask", ![d].client = Decoded(d), ![d].list = 1]
  /\ UNCHANGED <<slot, row>>

(* The order in which get_job_status of both adapters asks.                *)
HistoryFirst == <<"history", "queue">>
Lists == <<"queue", "history">>

Listed(d, l) == slot[d].client = task[d].client /\ slot[d].place = l

(* One request: its answer is the list, or an error that the code reads as *)
(* a list without entries.                                                 *)
Ask(d) ==
  /\ At(d, "ask")
  /\ \E body \in {"list", "error"} :
       LET l      == Lists[task[d].list]
           found  == body = "list" /\ Listed(d, l)
           misled == \/ task[d].misled \/ body = "error" \/ slot[d].client # task[d].client
                     \/ l = "history" /\ slot[d].place = "past" IN
       IF found \/ task[d].list = Len(Lists)
       THEN task' = [task EXCEPT ![d].pc = "told", ![d].misled = misled,
                                 ![d].answer = IF found THEN slot[d].status ELSE None]
       ELSE task' = [task EXCEPT ![d].list = @ + 1, ![d].misled = misled]
  /\ UNCHANGED <<slot, row>>

(* An exception of the adapter: the poll counts neither way.               *)
AskFails(d) ==
  /\ At(d, "ask")
  /\ Sleep(d, task[d].missed, task[d].sure)
  /\ UNCHANGED <<slot, row>>

(* The workflow goes on to the cleanup of what has failed.                 *)
Failed(d) == task' = [task EXCEPT ![d] = [Idle EXCEPT !.pc = "clean"]]
Fail(d, why) ==
  /\ row' = [row EXCEPT ![d].status = "failed", ![d].why = why]
  /\ Failed(d)

Missing(d) ==
  LET sure == task[d].sure \/ ~task[d].misled IN
  /\ task[d].answer = None
  /\ IF task[d].missed + 1 < MaxMissing
     THEN Sleep(d, task[d].missed + 1, sure) /\ UNCHANGED row
     ELSE /\ row' = [row EXCEPT ![d].status = "failed", ![d].why = "missing", ![d].sure = sure]
          /\ Failed(d)

(* In its queue, or in one of the stages after it.                         *)
Busy(d) ==
  /\ task[d].answer \in TRANSIENT_HISTORY_STATUSES
  /\ Sleep(d, 0, FALSE) /\ UNCHANGED row

Completed(d) ==
  /\ task[d].answer = "success"
  /\ row' = [row EXCEPT ![d].status = "completed"]
  /\ Leave(d)

FailedThere(d) ==
  /\ task[d].answer \in (Stages \cup Ends) \ (TRANSIENT_HISTORY_STATUSES \cup {"success"})
  /\ Fail(d, "status")

Conclude(d) ==
  /\ At(d, "told")
  /\ Missing(d) \/ Busy(d) \/ Completed(d) \/ FailedThere(d)
  /\ UNCHANGED slot

(* The row is older than max_active_download_hours.                        *)
TimeOut(d) ==
  /\ At(d, "asleep") /\ Fail(d, "late")
  /\ UNCHANGED slot

---------------------------------------------------------------------------
(* Cleanup.                                                                *)

(* By the workflow, or again by a request of the user; a row that names no *)
(* job has nothing to purge.  The folder is left to module Orphans.        *)
Clean(d) ==
  /\ At(d, "clean") \/ At(d, "idle")
  /\ row[d].status = "failed" /\ row[d].nzo # None
  /\ task' = [task EXCEPT ![d] = [Idle EXCEPT !.pc = "purge", !.client = Decoded(d)]]
  /\ UNCHANGED <<slot, row>>

(* The lists from which purge_job of an adapter deletes, one after another.*)
PurgedSwapped(c) == IF c = "sabnzbd" THEN <<"history", "queue">> ELSE <<"queue">>
PurgedLists(c) == IF c = "sabnzbd" THEN <<"queue", "history">> ELSE <<"queue">>

(* The report of one deletion is what the client says of it, which may be  *)
(* TRUE where there was nothing to delete; NZBGet's is not looked at.      *)
Reported(d, deleted) ==
  IF task[d].client = "nzbget" THEN {TRUE} ELSE {b \in BOOLEAN : deleted => b}

(* A deletion from the history reaches all of it.                          *)
Held(d, l) ==
  /\ slot[d].client = task[d].client
  /\ slot[d].place \in IF l = "history" THEN {"history", "past"} ELSE {l}

(* After the last request cleanup_failed_download ends.                    *)
Purged(d, reported, heard) ==
  LET purged == task[d].purged \/ reported
      all    == task[d].heard /\ heard IN
  IF task[d].list = Len(PurgedLists(task[d].client))
  THEN row' = [row EXCEPT ![d].purged = purged, ![d].heard = all] /\ Leave(d)
  ELSE /\ task' = [task EXCEPT ![d].list = @ + 1, ![d].purged = purged, ![d].heard = all]
       /\ UNCHANGED row

Purge(d) ==
  /\ At(d, "purge")
  /\ LET deleted == Held(d, PurgedLists(task[d].client)[task[d].list]) IN
     /\ slot' = IF deleted THEN [slot EXCEPT ![d].place = "gone"] ELSE slot
     /\ \E b \in Reported(d, deleted) : Purged(d, b, TRUE)

(* An exception, or an answer that refuses; NZBGet's passes for a success. *)
PurgeFails(d) ==
  /\ At(d, "purge")
  /\ \E b \in IF task[d].client = "nzbget" THEN BOOLEAN ELSE {FALSE} : Purged(d, b, FALSE)
  /\ UNCHANGED slot

---------------------------------------------------------------------------
(* The client, its user, and the end of the server.                        *)

ToHistory(d) ==
  /\ slot[d].place = "queue"
  /\ \E s \in Stages \cup Ends : slot' = [slot EXCEPT ![d].place = "history", ![d].status = s]
  /\ UNCHANGED <<row, task>>

PostProcess(d) ==
  /\ slot[d].place = "history" /\ slot[d].status \in Stages
  /\ \E s \in (Stages \cup Ends) \ {slot[d].status} : slot' = [slot EXCEPT ![d].status = s]
  /\ UNCHANGED <<row, task>>

(* Other jobs come after it, until it is not among the newest 2000.        *)
Sinks(d) ==
  /\ slot[d].client = "sabnzbd" /\ slot[d].place = "history" /\ slot[d].status \in Ends
  /\ slot' = [slot EXCEPT ![d].place = "past"]
  /\ UNCHANGED <<row, task>>

RemovedThere(d) ==
  /\ slot[d].place \in {"queue", "history", "past"}
  /\ slot' = [slot EXCEPT ![d].place = "gone"]
  /\ UNCHANGED <<row, task>>

(* resume_downloading_downloads after the start.                           *)
Resume(d) ==
  /\ At(d, "idle") /\ row[d].status = "downloading"
  /\ Sleep(d, 0, FALSE)
  /\ UNCHANGED <<slot, row>>

(* What the server does, what goes on elsewhere, and the end of a server   *)
(* with all its coroutines.                                                *)
Work(d) ==
  \/ Start(d) \/ Submit(d) \/ SubmitFails(d) \/ Record(d)
  \/ Wake(d) \/ Ask(d) \/ AskFails(d) \/ Conclude(d) \/ TimeOut(d) \/ Resume(d)
  \/ Clean(d) \/ Purge(d) \/ PurgeFails(d)

Elsewhere(d) == ToHistory(d) \/ PostProcess(d) \/ Sinks(d) \/ RemovedThere(d)

ServerEnds ==
  /\ Update \/ Die
  /\ task' = [d \in Downloads |-> Idle]
  /\ UNCHANGED <<slot, row>>

ClientNext ==
  \/ /\ server # NoConfig /\ saving = NoSave
     /\ \E d \in Downloads : Work(d)
     /\ UNCHANGED settings
  \/ (\E d \in Downloads : Elsewhere(d)) /\ UNCHANGED settings
  \/ Configure /\ UNCHANGED downloads
  \/ ServerEnds

ClientSpec == ClientInit /\ [][ClientNext]_clientVars

---------------------------------------------------------------------------
(* A poll that was not misled is told that a job is in neither list only   *)
(* if it has left its client: not because it moved from one list to the    *)
(* other between the two requests of get_job_status, nor because another   *)
(* client was made the active one.                                         *)
NotFoundIsHonest ==
  \A d \in Downloads :
    At(d, "told") /\ task[d].answer = None /\ ~task[d].misled => slot[d].place = "gone"

(* What the row says of the job is so: a download is completed when its    *)
(* job has ended with files, failed by its status when it ended without,   *)
(* and given up as missing when it is gone, unless every one of the polls  *)
(* in a row that missed it was misled.                                     *)
JudgedTruly ==
  \A d \in Downloads :
    /\ row[d].status = "completed" => slot[d].status = "success"
    /\ row[d].why = "status" => slot[d].status \in {"failure", "pathless"}
    /\ row[d].why = "missing" /\ row[d].sure => slot[d].place = "gone"

(* A row that names a client names the one that accepted its job, whatever *)
(* was made the active client while the submission was under way.          *)
RecordedWhereAccepted ==
  \A d \in Downloads : row[d].nzo \in {None, Raw, slot[d].client}

(* What a poll is told, and what the row then says, is so of the job.      *)
AnswersSound == NotFoundIsHonest /\ JudgedTruly /\ RecordedWhereAccepted

(* Of the misled polls: a job that is there is never given up as missing.  *)
(* It is not so, in three ways: a raw id is looked for in the client that  *)
(* is active now, errors are read as empty lists, and the history is read  *)
(* to its 2000th entry.                                                    *)
MissingIsGone == \A d \in Downloads : row[d].why = "missing" => slot[d].place = "gone"

(* A cleanup whose requests SABnzbd answered, and that reports a purge,    *)
(* has left no job behind, though the job may change lists meanwhile.      *)
PurgeIsWhole(c) ==
  \A d \in Downloads : row[d].purged /\ row[d].heard /\ row[d].nzo = c => slot[d].place = "gone"
SabnzbdPurged == PurgeIsWhole("sabnzbd")

(* The same of NZBGet, as the docstring of purge_job and CHANGELOG.md:953  *)
(* say it.  It is not so: a job in the history stays there.                *)
NzbgetPurged == PurgeIsWhole("nzbget")
=============================================================================
