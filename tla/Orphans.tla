------------------------------- MODULE Orphans -------------------------------
(***************************************************************************)
(* Jobs of the download client that no download row names                  *)
(* (core/orphan_scanner.py), beside the submissions of                     *)
(* core/downloader.py that write such rows.                                *)
(*                                                                         *)
(* The client is external, and shared: other programs submit jobs to it.   *)
(* Ages are what the code tells apart: within the hour, within the day,    *)
(* older, or not known.                                                    *)
(***************************************************************************)
EXTENDS Naturals

CONSTANTS Jobs, Requests, NoJob,
          MaxRestarts    \* bound: restarts of the server

ASSUME RestartsAreBounded == MaxRestarts \in Nat

VARIABLES
  job,       \* [Jobs -> state of the job in the client]
  age,       \* [Jobs -> age of a job that is done]
  path,      \* [Jobs -> does the client tell a storage path?]
  folder,    \* [Jobs -> is the folder there?]
  id,        \* [Jobs -> how a row of the table downloads names the job]
  orphan,    \* [Jobs -> row of the table orphaned_downloads, or NoOrphan]
  scan,      \* the daily task: scan, then automatic cleanup
  request,   \* [Requests -> cleanup of one orphan]
  restarts,
  missed     \* jobs a removal of whose folder failed (history)

client == <<job, age, path, folder>>
vars == <<job, age, path, folder, id, orphan, scan, request, restarts, missed>>

Ages      == {"fresh", "young", "old", "unknown"}
Histories == UNION {[S -> Ages] : S \in SUBSET Jobs}
Orphan    == [found : {"never", "lately", "week ago"}, scheduled : BOOLEAN, age : Ages]
Scan      == [at : {"idle", "fetched", "queried", "recorded", "cleaning"},
              history : Histories, tracked : SUBSET Jobs, old : SUBSET Jobs]
Request   == [at : {"idle", "purge", "remove", "delete", "schedule"},
              job : Jobs \cup {NoJob}, purged : BOOLEAN]

NoOrphan  == [found |-> "never", scheduled |-> FALSE, age |-> "unknown"]
NoScan    == [at |-> "idle", history |-> [j \in {} |-> "old"], tracked |-> {}, old |-> {}]
NoRequest == [at |-> "idle", job |-> NoJob, purged |-> FALSE]

Recorded == {j \in Jobs : orphan[j] # NoOrphan}

(* Rows written by an older version hold the id of the job as it is.       *)
Init ==
  /\ id \in [Jobs -> {"none", "raw"}]
  /\ job = [j \in Jobs |-> IF id[j] = "raw" THEN "done" ELSE "none"]
  /\ age = [j \in Jobs |-> "old"]
  /\ path = [j \in Jobs |-> TRUE]
  /\ folder = [j \in Jobs |-> id[j] = "raw"]
  /\ orphan = [j \in Jobs |-> NoOrphan]
  /\ scan = NoScan
  /\ request = [r \in Requests |-> NoRequest]
  /\ restarts = 0
  /\ missed = {}

-----------------------------------------------------------------------------
(* start_download, and the client                                          *)

(* The client accepts a job; its id is not committed yet.                  *)
StartDownload(j) ==
  /\ job[j] = "none"
  /\ job' = [job EXCEPT ![j] = "running"]
  /\ \E whose \in {"submitting", "foreign"} : id' = [id EXCEPT ![j] = whose]
  /\ UNCHANGED <<age, path, folder, orphan, scan, request, restarts, missed>>

CommitId(j) ==
  /\ id[j] = "submitting"
  /\ id' = [id EXCEPT ![j] = "encoded"]
  /\ UNCHANGED <<client, orphan, scan, request, restarts, missed>>

(* A job that fails at once leaves no folder, one may tell no path.        *)
JobEnds(j) ==
  /\ job[j] = "running"
  /\ job' = [job EXCEPT ![j] = "done"]
  /\ \E a \in {"fresh", "unknown"}, f, p \in BOOLEAN :
       /\ age' = [age EXCEPT ![j] = a]
       /\ folder' = [folder EXCEPT ![j] = f]
       /\ path' = [path EXCEPT ![j] = p]
  /\ UNCHANGED <<id, orphan, scan, request, restarts, missed>>

(* No submission waits for its answer for an hour.                         *)
GrowsOlder(j) ==
  /\ job[j] = "done" /\ age[j] \in {"fresh", "young"} /\ id[j] # "submitting"
  /\ age' = [age EXCEPT ![j] = IF @ = "fresh" THEN "young" ELSE "old"]
  /\ UNCHANGED <<job, path, folder, id, orphan, scan, request, restarts, missed>>

(* Its history is cut, or its user empties it.                             *)
ClientForgets(j) ==
  /\ job[j] = "done"
  /\ job' = [job EXCEPT ![j] = "forgotten"]
  /\ UNCHANGED <<age, path, folder, id, orphan, scan, request, restarts, missed>>

(* The workflow of a download is over and removes the folder.              *)
WorkflowRemovesFolder(j) ==
  /\ id[j] \in {"encoded", "raw"} /\ folder[j]
  /\ folder' = [folder EXCEPT ![j] = FALSE]
  /\ UNCHANGED <<job, age, path, id, orphan, scan, request, restarts, missed>>

-----------------------------------------------------------------------------
(* scan_orphaned_downloads                                                 *)

FetchHistory ==
  /\ scan.at = "idle"
  /\ scan' = [NoScan EXCEPT !.at = "fetched",
                !.history = [j \in {k \in Jobs : job[k] = "done"} |-> age[j]]]
  /\ UNCHANGED <<client, id, orphan, request, restarts, missed>>

(* A row names a job by its id, or by its client and its id.               *)
TrackedByRawId(j) == id[j] = "raw"
Tracked(j) == id[j] \in {"raw", "encoded"}

QueryTracked ==
  /\ scan.at = "fetched"
  /\ scan' = [scan EXCEPT !.at = "queried", !.tracked = {j \in DOMAIN scan.history : Tracked(j)}]
  /\ UNCHANGED <<client, id, orphan, request, restarts, missed>>

(* age_hours and age_hours < 24: an age of zero hours, or none, is no      *)
(* reason to wait.                                                         *)
TooYoung(a) == a = "young"

Found == {j \in DOMAIN scan.history \ scan.tracked :
            ~TooYoung(scan.history[j]) /\ orphan[j] = NoOrphan}

CommitOrphans ==
  /\ scan.at = "queried"
  /\ orphan' = [j \in Jobs |-> IF j \in Found
                               THEN [found |-> "lately", scheduled |-> FALSE,
                                     age |-> scan.history[j]]
                               ELSE orphan[j]]
  /\ scan' = [NoScan EXCEPT !.at = "recorded"]
  /\ UNCHANGED <<client, id, request, restarts, missed>>

(* The client does not answer, or the table cannot be written: the task    *)
(* goes on to the automatic cleanup.                                       *)
ScanFails ==
  /\ scan.at \in {"fetched", "queried"}
  /\ scan' = [NoScan EXCEPT !.at = "recorded"]
  /\ UNCHANGED <<client, id, orphan, request, restarts, missed>>

-----------------------------------------------------------------------------
(* auto_cleanup_old_orphans                                                *)
WeekPasses(j) ==
  /\ orphan[j].found = "lately"
  /\ orphan' = [orphan EXCEPT ![j].found = "week ago"]
  /\ UNCHANGED <<client, id, scan, request, restarts, missed>>

SelectOldUnscheduled ==
  /\ scan.at = "recorded"
  /\ LET old == {j \in Jobs : orphan[j].found = "week ago" /\ ~orphan[j].scheduled}
     IN scan' = [NoScan EXCEPT !.at = "cleaning", !.old = old, !.tracked = old]
  /\ UNCHANGED <<client, id, orphan, request, restarts, missed>>

SelectOld ==
  /\ scan.at = "recorded"
  /\ LET old == {j \in Jobs : orphan[j].found = "week ago"}
     IN scan' = [NoScan EXCEPT !.at = "cleaning", !.old = old, !.tracked = old]
  /\ UNCHANGED <<client, id, orphan, request, restarts, missed>>

(* A folder that a cleanup could remove: one without a path is not tried.  *)
Told(j) == path[j] /\ folder[j]

(* A removal that fails is remembered while there is a folder to miss.     *)
Missed(j, ok) == IF ok \/ ~Told(j) THEN missed \ {j} ELSE missed \cup {j}

(* Each folder is removed, or is not; the rows go either way.              *)
RemoveOld(j, ok) ==
  /\ scan.at = "cleaning" /\ j \in scan.tracked
  /\ scan' = [scan EXCEPT !.tracked = @ \ {j}]
  /\ folder' = IF ok /\ path[j] THEN [folder EXCEPT ![j] = FALSE] ELSE folder
  /\ missed' = Missed(j, ok)
  /\ UNCHANGED <<job, age, path, id, orphan, request, restarts>>

CommitOld ==
  /\ scan.at = "cleaning" /\ scan.tracked = {}
  /\ orphan' = [j \in Jobs |-> IF j \in scan.old THEN NoOrphan ELSE orphan[j]]
  /\ scan' = NoScan
  /\ UNCHANGED <<client, id, request, restarts, missed>>

-----------------------------------------------------------------------------
(* cleanup_orphaned_download                                               *)
ReadOrphan(r, j) ==
  /\ request[r].at = "idle" /\ orphan[j] # NoOrphan
  /\ request' = [request EXCEPT ![r] = [NoRequest EXCEPT !.at = "purge", !.job = j]]
  /\ UNCHANGED <<client, id, orphan, scan, restarts, missed>>

(* The client removes the job or does not, and says either: NZBGet answers *)
(* a removal from its queue alone, SABnzbd's answer may be lost.           *)
PurgeJob(r, ok) ==
  LET j == request[r].job IN
  /\ request[r].at = "purge"
  /\ \/ job' = [job EXCEPT ![j] = IF @ = "done" THEN "gone" ELSE @]
     \/ UNCHANGED job
  /\ request' = [request EXCEPT ![r] = [@ EXCEPT !.at = "remove", !.purged = ok]]
  /\ UNCHANGED <<age, path, folder, id, orphan, scan, restarts, missed>>

(* The folder is removed, or is not; then the row goes when the job was    *)
(* purged, the folder removed, or none is known.                           *)
Cleaned(r, ok) == request[r].purged \/ ok \/ ~path[request[r].job]

RemoveFolderUnlessPurged(r, ok) ==
  LET j == request[r].job IN
  /\ request[r].at = "remove"
  /\ folder' = IF ok /\ path[j] /\ ~request[r].purged THEN [folder EXCEPT ![j] = FALSE] ELSE folder
  /\ missed' = Missed(j, ok)
  /\ request' = [request EXCEPT ![r] =
                   [@ EXCEPT !.at = IF Cleaned(r, ok) THEN "delete" ELSE "schedule",
                             !.purged = FALSE]]
  /\ UNCHANGED <<job, age, path, id, orphan, scan, restarts>>

RemoveFolder(r, ok) ==
  LET j == request[r].job IN
  /\ request[r].at = "remove"
  /\ folder' = IF ok /\ path[j] THEN [folder EXCEPT ![j] = FALSE] ELSE folder
  /\ missed' = Missed(j, ok)
  /\ request' = [request EXCEPT ![r] =
                   [@ EXCEPT !.at = IF Cleaned(r, ok) THEN "delete" ELSE "schedule",
                             !.purged = FALSE]]
  /\ UNCHANGED <<job, age, path, id, orphan, scan, restarts>>

(* The row may be gone meanwhile: its update matches none, and fails.      *)
CommitCleanup(r) ==
  LET j == request[r].job IN
  /\ request[r].at \in {"delete", "schedule"}
  /\ orphan' = IF request[r].at = "delete" THEN [orphan EXCEPT ![j] = NoOrphan]
               ELSE IF orphan[j] = NoOrphan THEN orphan
               ELSE [orphan EXCEPT ![j].scheduled = TRUE]
  /\ request' = [request EXCEPT ![r] = NoRequest]
  /\ UNCHANGED <<client, id, scan, restarts, missed>>

-----------------------------------------------------------------------------
(* The server restarts: a submission that was not committed is lost.       *)
Restart ==
  /\ restarts < MaxRestarts
  /\ restarts' = restarts + 1
  /\ id' = [j \in Jobs |-> IF id[j] = "submitting" THEN "lost" ELSE id[j]]
  /\ scan' = NoScan
  /\ request' = [r \in Requests |-> NoRequest]
  /\ UNCHANGED <<client, orphan, missed>>

Daily == FetchHistory \/ QueryTracked \/ CommitOrphans \/ SelectOld \/ CommitOld
         \/ \E j \in Jobs : RemoveOld(j, TRUE) \/ RemoveOld(j, FALSE)

Next ==
  \/ \E j \in Jobs :
       \/ StartDownload(j) \/ CommitId(j) \/ JobEnds(j) \/ GrowsOlder(j) \/ ClientForgets(j)
       \/ WorkflowRemovesFolder(j) \/ WeekPasses(j)
  \/ Daily \/ ScanFails \/ Restart
  \/ \E r \in Requests :
       \/ \E j \in Jobs : ReadOrphan(r, j)
       \/ \E ok \in BOOLEAN : PurgeJob(r, ok) \/ RemoveFolder(r, ok)
       \/ CommitCleanup(r)

(* The scheduler runs the task every day, and time passes.  A scan that is *)
(* tried every day does not fail every day, and neither does the removal   *)
(* of a folder.                                                            *)
Fairness ==
  /\ WF_vars(Daily)
  /\ SF_vars(QueryTracked) /\ SF_vars(CommitOrphans)
  /\ \A j \in Jobs :
       /\ WF_vars(GrowsOlder(j)) /\ WF_vars(WeekPasses(j))
       /\ SF_vars(RemoveOld(j, TRUE))
  /\ SF_vars(\E r \in Requests : RemoveFolder(r, TRUE))

Spec == Init /\ [][Next]_vars /\ Fairness
-----------------------------------------------------------------------------
TypeOK ==
  /\ job \in [Jobs -> {"none", "running", "done", "gone", "forgotten"}]
  /\ age \in [Jobs -> Ages]
  /\ path \in [Jobs -> BOOLEAN] /\ folder \in [Jobs -> BOOLEAN]
  /\ id \in [Jobs -> {"none", "submitting", "foreign", "raw", "encoded", "lost"}]
  /\ orphan \in [Jobs -> Orphan]
  /\ \A j \in Jobs : orphan[j].found = "never" => orphan[j] = NoOrphan
  /\ scan \in Scan
  /\ request \in [Requests -> Request]
  /\ restarts \in 0..MaxRestarts /\ missed \subseteq Jobs

(* A job of a download is recorded as an orphan only when it was done      *)
(* within the hour, or its age is not known: the ids of older ones are     *)
(* committed long since (_scan_sabnzbd_orphans, start_download).           *)
TrackedNotRecorded ==
  /\ TypeOK
  /\ \A j \in Recorded : id[j] \in {"raw", "encoded"} => orphan[j].age \in {"fresh", "unknown"}

(* A folder whose path was told, and whose job was purged by a cleanup, is *)
(* known to a row, whatever order the cleanups of the job and the restarts *)
(* come in, unless the last removal of the folder failed                   *)
(* (cleanup_orphaned_download, auto_cleanup_old_orphans).                  *)
FolderFindable ==
  \A j \in Jobs : job[j] = "gone" /\ Told(j) => j \in Recorded \cup missed

(* The told folder of an orphan that the client still knows goes at last,  *)
(* however often its removal fails, or a request gives up on it            *)
(* (auto_cleanup_old_orphans).                                             *)
OldOrphanGoes ==
  \A j \in Jobs :
    job[j] = "done" /\ id[j] \in {"lost", "foreign"} /\ Told(j)
      ~> job[j] # "done" \/ ~folder[j]
=============================================================================
