---------------------------- MODULE ClientProofs ----------------------------
(***************************************************************************)
(* Proofs about what the server does to the jobs of a download client.     *)
(*                                                                         *)
(* Orphans, for any sets of jobs and requests and any number of restarts:  *)
(* no job of a download is taken for an orphan by mistake within the day   *)
(* the code waits, and no folder is lost from sight.                       *)
(*                                                                         *)
(* DownloadClient, for any downloads, pages and environments and any       *)
(* number of saves and starts: what a poll is told and a row then says is  *)
(* so of the job, SABnzbd's purge is whole, and settings and the secret    *)
(* are kept.  The two specifications share no variable.                    *)
(***************************************************************************)
EXTENDS Orphans, DownloadClient, TLAPS

-----------------------------------------------------------------------------
(* Orphans                                                                 *)

Excusable == {"fresh", "unknown"}
Begun(j)  == job[j] \notin {"none", "running"}
Known(j)  == j \in Recorded \cup missed

(* What the client, the row of the download and the disk say of one job.   *)
LifeOK(j) ==
  /\ job[j] \in {"none", "running"} => ~folder[j] /\ orphan[j] = NoOrphan
  /\ id[j] = "none" <=> job[j] = "none"
  /\ id[j] = "submitting" /\ Begun(j) => age[j] \in Excusable
  /\ job[j] = "gone" /\ Told(j) => Known(j)

(* What a scan has read is old news about jobs that are done, and an id    *)
(* that was not committed then belongs to a job that was done of late.     *)
ScanOK(j) ==
  /\ j \in DOMAIN scan.history => Begun(j)
  /\ j \in DOMAIN scan.history /\ id[j] = "submitting" => scan.history[j] \in Excusable
  /\ scan.at = "queried" /\ j \in DOMAIN scan.history \ scan.tracked /\ id[j] \in {"raw", "encoded"}
       => scan.history[j] \in Excusable
  /\ j \in scan.old => Begun(j)
  /\ scan.at = "cleaning" /\ j \in scan.old \ scan.tracked /\ Told(j) => j \in missed

(* A row that names a job of a download.                                   *)
RowOK(j) ==
  orphan[j] # NoOrphan /\ id[j] \in {"raw", "encoded", "submitting"} => orphan[j].age \in Excusable

(* A request deletes a row only when the folder is gone, or was missed.    *)
RequestOK(r) ==
  request[r].at # "idle" =>
    /\ request[r].job \in Jobs /\ Begun(request[r].job)
    /\ Told(request[r].job) => Known(request[r].job)
    /\ request[r].at = "delete" /\ Told(request[r].job) => request[r].job \in missed

IInv ==
  /\ TypeOK
  /\ \A j \in Jobs : LifeOK(j) /\ ScanOK(j) /\ RowOK(j)
  /\ \A r \in Requests : RequestOK(r)

-----------------------------------------------------------------------------
(* The types of what the daily task and the requests remember.             *)
LEMMA HistoryTypes ==
  /\ \A h \in Histories : DOMAIN h \subseteq Jobs /\ \A j \in DOMAIN h : h[j] \in Ages
  /\ \A S \in SUBSET Jobs, f \in [Jobs -> Ages] : [j \in S |-> f[j]] \in Histories
  /\ NoScan.history \in Histories
<1>1. ASSUME NEW h \in Histories
      PROVE  DOMAIN h \subseteq Jobs /\ \A j \in DOMAIN h : h[j] \in Ages
  BY DEF Histories
<1>2. ASSUME NEW S \in SUBSET Jobs, NEW f \in [Jobs -> Ages]
      PROVE  [j \in S |-> f[j]] \in Histories
  <2>1. [j \in S |-> f[j]] \in [S -> Ages]
    OBVIOUS
  <2>. QED
    BY <2>1 DEF Histories
<1>3. [j \in {} |-> "old"] \in [{} -> Ages]
  OBVIOUS
<1>4. NoScan.history \in Histories
  BY <1>3 DEF NoScan, Histories
<1>. QED
  BY <1>1, <1>2, <1>4

(* What a scan may remember.                                               *)
LEMMA ScanTypes ==
  /\ \A s \in Scan : /\ s.history \in Histories /\ s.tracked \subseteq Jobs /\ s.old \subseteq Jobs
  /\ NoScan \in Scan
  /\ [NoScan EXCEPT !.at = "recorded"] \in Scan
  /\ \A h \in Histories : [NoScan EXCEPT !.at = "fetched", !.history = h] \in Scan
  /\ \A s \in Scan, t \in SUBSET Jobs : [s EXCEPT !.at = "queried", !.tracked = t] \in Scan
  /\ \A s \in Scan, t \in SUBSET Jobs : [s EXCEPT !.tracked = t] \in Scan
  /\ \A t \in SUBSET Jobs : [NoScan EXCEPT !.at = "cleaning", !.old = t, !.tracked = t] \in Scan
BY HistoryTypes DEF Scan, NoScan

(* What a request may remember.                                            *)
LEMMA RequestTypes ==
  /\ \A q \in Request : q.job \in Jobs \cup {NoJob} /\ q.purged \in BOOLEAN
  /\ NoRequest \in Request
  /\ \A j \in Jobs : [NoRequest EXCEPT !.at = "purge", !.job = j] \in Request
  /\ \A q \in Request, ok \in BOOLEAN : [q EXCEPT !.at = "remove", !.purged = ok] \in Request
  /\ \A q \in Request : [q EXCEPT !.at = "delete", !.purged = FALSE] \in Request
  /\ \A q \in Request : [q EXCEPT !.at = "schedule", !.purged = FALSE] \in Request
BY DEF Request, NoRequest

(* What may be written into a row.                                         *)
LEMMA OrphanTypes ==
  /\ NoOrphan \in Orphan
  /\ \A a \in Ages : [found |-> "lately", scheduled |-> FALSE, age |-> a] \in Orphan
  /\ \A o \in Orphan : o.age \in Ages
  /\ \A o \in Orphan : [o EXCEPT !.found = "week ago"] \in Orphan
  /\ \A o \in Orphan : [o EXCEPT !.scheduled = TRUE] \in Orphan
BY DEF Orphan, NoOrphan, Ages

(* No row: nothing was found, and nothing is scheduled.                    *)
LEMMA NeverFound == NoOrphan.found = "never" /\ NoOrphan.scheduled = FALSE
BY DEF NoOrphan

(* A row that is written again stays a row, and tells the same age.        *)
LEMMA WeekEffect ==
  ASSUME TypeOK, NEW j \in Jobs, WeekPasses(j)
  PROVE  /\ orphan[j] # NoOrphan /\ orphan'[j] # NoOrphan /\ orphan'[j].age = orphan[j].age
         /\ \A i \in Jobs : i # j => orphan'[i] = orphan[i]
<1>1. orphan[j] \in Orphan /\ orphan[j].found = "lately"
  BY DEF TypeOK, WeekPasses
<1>2. orphan'[j] = [orphan[j] EXCEPT !.found = "week ago"]
  BY DEF TypeOK, WeekPasses
<1>3. orphan'[j].found = "week ago" /\ orphan'[j].age = orphan[j].age
  BY <1>1, <1>2 DEF Orphan
<1>4. \A i \in Jobs : i # j => orphan'[i] = orphan[i]
  BY DEF TypeOK, WeekPasses
<1>. QED
  BY <1>1, <1>3, <1>4, NeverFound

(* What the commit of a cleanup does to the row of its job.                *)
LEMMA CleanupEffect ==
  ASSUME TypeOK, NEW r \in Requests, CommitCleanup(r), NEW j \in Jobs, j = request[r].job
  PROVE  /\ \A i \in Jobs : i # j => orphan'[i] = orphan[i]
         /\ request[r].at = "delete" => orphan'[j] = NoOrphan
         /\ request[r].at # "delete" => (orphan'[j] = NoOrphan <=> orphan[j] = NoOrphan)
         /\ orphan'[j] # NoOrphan => orphan'[j].age = orphan[j].age
<1>1. \A i \in Jobs : i # j => orphan'[i] = orphan[i]
  BY DEF TypeOK, CommitCleanup
<1>2. request[r].at = "delete" => orphan'[j] = NoOrphan
  BY DEF TypeOK, CommitCleanup
<1>3. CASE request[r].at # "delete" /\ orphan[j] # NoOrphan
  <2>1. orphan'[j] = [orphan[j] EXCEPT !.scheduled = TRUE]
    BY <1>3 DEF TypeOK, CommitCleanup
  <2>2. orphan'[j].scheduled = TRUE /\ orphan'[j].age = orphan[j].age
    <3>1. orphan[j] \in Orphan
      BY DEF TypeOK
    <3>. QED
      BY <2>1, <3>1 DEF Orphan
  <2>3. orphan'[j] # NoOrphan
    BY <2>2, NeverFound
  <2>. QED
    BY <1>1, <1>3, <2>2, <2>3
<1>4. CASE request[r].at # "delete" /\ orphan[j] = NoOrphan
  <2>1. orphan' = orphan
    BY <1>4 DEF TypeOK, CommitCleanup
  <2>. QED
    BY <1>1, <1>4, <2>1
<1>. QED
  BY <1>1, <1>2, <1>3, <1>4

(* Every step preserves the types.                                         *)
LEMMA TypeStep == IInv /\ [Next]_vars => TypeOK'
<1>. SUFFICES ASSUME IInv, [Next]_vars PROVE TypeOK'
  OBVIOUS
<1>. TypeOK
  BY DEF IInv
<1>1. ASSUME NEW j \in Jobs, StartDownload(j) PROVE TypeOK'
  BY <1>1, ScanTypes, RequestTypes DEF StartDownload, TypeOK, client
<1>2. ASSUME NEW j \in Jobs, CommitId(j) PROVE TypeOK'
  BY <1>2, ScanTypes, RequestTypes DEF CommitId, TypeOK, client
<1>3. ASSUME NEW j \in Jobs, JobEnds(j) PROVE TypeOK'
  <2>1. PICK a \in {"fresh", "unknown"}, f, p \in BOOLEAN :
          /\ age' = [age EXCEPT ![j] = a]
          /\ folder' = [folder EXCEPT ![j] = f] /\ path' = [path EXCEPT ![j] = p]
    BY <1>3 DEF JobEnds
  <2>2. age' \in [Jobs -> Ages]
    BY <2>1 DEF TypeOK, Ages
  <2>3. folder' \in [Jobs -> BOOLEAN] /\ path' \in [Jobs -> BOOLEAN]
    BY <2>1 DEF TypeOK
  <2>. QED
    BY <1>3, <2>2, <2>3 DEF JobEnds, TypeOK
<1>4. ASSUME NEW j \in Jobs, GrowsOlder(j) PROVE TypeOK'
  BY <1>4, ScanTypes, RequestTypes DEF GrowsOlder, TypeOK, client, Ages
<1>5. ASSUME NEW j \in Jobs, ClientForgets(j) PROVE TypeOK'
  BY <1>5, ScanTypes, RequestTypes DEF ClientForgets, TypeOK, client
<1>6. ASSUME NEW j \in Jobs, WorkflowRemovesFolder(j) PROVE TypeOK'
  BY <1>6, ScanTypes, RequestTypes DEF WorkflowRemovesFolder, TypeOK, client
<1>7. ASSUME NEW j \in Jobs, WeekPasses(j) PROVE TypeOK'
  <2>1. orphan' \in [Jobs -> Orphan]
    BY <1>7, OrphanTypes DEF WeekPasses, TypeOK
  <2>2. orphan'[j].found = "week ago"
    BY <1>7 DEF WeekPasses, TypeOK, Orphan
  <2>3. \A i \in Jobs : i # j => orphan'[i] = orphan[i]
    BY <1>7 DEF WeekPasses, TypeOK
  <2>. QED
    BY <1>7, <2>1, <2>2, <2>3 DEF WeekPasses, TypeOK, client
<1>8. CASE FetchHistory
  <2>1. [j \in {k \in Jobs : job[k] = "done"} |-> age[j]] \in Histories
    BY HistoryTypes DEF TypeOK
  <2>. QED
    BY <1>8, <2>1, ScanTypes DEF FetchHistory, TypeOK, client
<1>9. CASE QueryTracked
  <2>1. {j \in DOMAIN scan.history : Tracked(j)} \in SUBSET Jobs
    BY HistoryTypes, ScanTypes DEF TypeOK
  <2>. QED
    BY <1>9, <2>1, ScanTypes DEF QueryTracked, TypeOK, client
<1>10. CASE CommitOrphans
  <2>1. \A j \in Found : j \in Jobs /\ scan.history[j] \in Ages
    BY HistoryTypes, ScanTypes DEF TypeOK, Found
  <2>2. orphan' \in [Jobs -> Orphan]
    BY <1>10, <2>1, OrphanTypes DEF CommitOrphans, TypeOK
  <2>3. \A j \in Jobs : orphan'[j].found = "never" => orphan'[j] = NoOrphan
    BY <1>10, <2>1 DEF CommitOrphans, TypeOK
  <2>. QED
    BY <1>10, <2>2, <2>3, ScanTypes DEF CommitOrphans, TypeOK, client
<1>11. CASE ScanFails
  BY <1>11, ScanTypes, RequestTypes DEF ScanFails, TypeOK, client
<1>12. CASE SelectOld
  <2>1. {j \in Jobs : orphan[j].found = "week ago"} \in SUBSET Jobs
    OBVIOUS
  <2>. QED
    BY <1>12, <2>1, ScanTypes DEF SelectOld, TypeOK, client
<1>13. ASSUME NEW j \in Jobs, NEW ok \in BOOLEAN, RemoveOld(j, ok) PROVE
   TypeOK'
  <2>1. scan' \in Scan
    <3>1. scan.tracked \ {j} \in SUBSET Jobs
      BY ScanTypes DEF TypeOK
    <3>. QED
      BY <1>13, <3>1, ScanTypes DEF RemoveOld, TypeOK
  <2>. QED
    BY <1>13, <2>1 DEF RemoveOld, Missed, Told, TypeOK
<1>14. CASE CommitOld
  <2>1. orphan' \in [Jobs -> Orphan]
    BY <1>14, OrphanTypes DEF CommitOld, TypeOK
  <2>. QED
    BY <1>14, <2>1, ScanTypes DEF CommitOld, TypeOK, client
<1>15. ASSUME NEW r \in Requests, NEW j \in Jobs, ReadOrphan(r, j) PROVE
   TypeOK'
  BY <1>15, ScanTypes, RequestTypes DEF ReadOrphan, TypeOK, client
<1>16. ASSUME NEW r \in Requests, NEW ok \in BOOLEAN, PurgeJob(r, ok) PROVE
   TypeOK'
  <2>1. request' \in [Requests -> Request]
    BY <1>16, RequestTypes DEF PurgeJob, TypeOK
  <2>. QED
    BY <1>16, <2>1 DEF PurgeJob, TypeOK
<1>17. ASSUME NEW r \in Requests, NEW ok \in BOOLEAN, RemoveFolder(r, ok) PROVE
   TypeOK'
  <2>1. request[r].job \in Jobs
    BY <1>17 DEF RemoveFolder, IInv, RequestOK
  <2>2. request' \in [Requests -> Request]
    BY <1>17, RequestTypes DEF RemoveFolder, TypeOK
  <2>3. folder' \in [Jobs -> BOOLEAN] /\ missed' \subseteq Jobs
    BY <1>17, <2>1 DEF RemoveFolder, Missed, Told, TypeOK
  <2>. QED
    BY <1>17, <2>2, <2>3 DEF RemoveFolder, TypeOK
<1>18. ASSUME NEW r \in Requests, CommitCleanup(r) PROVE TypeOK'
  <2>. DEFINE j == request[r].job
  <2>1. j \in Jobs
    BY <1>18 DEF CommitCleanup, IInv, RequestOK
  <2>2. orphan' \in [Jobs -> Orphan]
    BY <1>18, <2>1, OrphanTypes DEF CommitCleanup, TypeOK
  <2>3. \A i \in Jobs : orphan'[i].found = "never" => orphan'[i] = NoOrphan
    BY <1>18, <2>1 DEF CommitCleanup, TypeOK, Orphan
  <2>. QED
    BY <1>18, <2>2, <2>3, RequestTypes DEF CommitCleanup, TypeOK, client
<1>19. CASE Restart
  <2>1. restarts' \in 0..MaxRestarts
    BY <1>19, RestartsAreBounded DEF Restart, TypeOK
  <2>2. scan' \in Scan /\ request' \in [Requests -> Request]
    BY <1>19, ScanTypes, RequestTypes DEF Restart
  <2>. QED
    BY <1>19, <2>1, <2>2 DEF Restart, TypeOK, client
<1>20. CASE UNCHANGED vars
  BY <1>20, ScanTypes, RequestTypes DEF vars, TypeOK, client
<1>. QED
  BY <1>1, <1>2, <1>3, <1>4, <1>5, <1>6, <1>7, <1>8, <1>9, <1>10, <1>11,
     <1>12, <1>13, <1>14, <1>15, <1>16, <1>17, <1>18, <1>19, <1>20, Zenon DEF
     Next, Daily

(* Every step keeps what is said of a job.                                 *)
LEMMA LifeStep == IInv /\ [Next]_vars => (\A j \in Jobs : LifeOK(j))'
<1>. USE DEF Told
<1>. SUFFICES ASSUME IInv, [Next]_vars, NEW i \in Jobs PROVE LifeOK(i)'
  OBVIOUS
<1>. TypeOK /\ LifeOK(i) /\ ScanOK(i) /\ RowOK(i) /\ \A r \in Requests : RequestOK(r)
  BY DEF IInv
<1>1. ASSUME NEW j \in Jobs, StartDownload(j) PROVE LifeOK(i)'
  BY <1>1 DEF StartDownload, LifeOK, TypeOK, client, Recorded, Known, Begun
<1>2. ASSUME NEW j \in Jobs, CommitId(j) PROVE LifeOK(i)'
  BY <1>2 DEF CommitId, LifeOK, TypeOK, client, Recorded, Known, Begun
<1>3. ASSUME NEW j \in Jobs, JobEnds(j) PROVE LifeOK(i)'
  <2>1. PICK a \in {"fresh", "unknown"}, f, p \in BOOLEAN :
          /\ age' = [age EXCEPT ![j] = a]
          /\ folder' = [folder EXCEPT ![j] = f] /\ path' = [path EXCEPT ![j] = p]
    BY <1>3 DEF JobEnds
  <2>2. /\ job[j] = "running" /\ job' = [job EXCEPT ![j] = "done"]
        /\ UNCHANGED <<id, orphan, missed>>
    BY <1>3 DEF JobEnds
  <2>3. CASE i = j
    <3>1. job'[j] = "done" /\ age'[j] = a
      BY <2>1, <2>2 DEF TypeOK
    <3>. QED
      BY <2>2, <2>3, <3>1 DEF LifeOK, client, Recorded, Known, Begun, Excusable
  <2>4. CASE i # j
    BY <2>1, <2>2, <2>4 DEF LifeOK, client, Recorded, Known, Begun, TypeOK
  <2>. QED
    BY <2>3, <2>4
<1>4. ASSUME NEW j \in Jobs, GrowsOlder(j) PROVE LifeOK(i)'
  BY <1>4 DEF GrowsOlder, LifeOK, TypeOK, client, Recorded, Known, Begun
<1>5. ASSUME NEW j \in Jobs, ClientForgets(j) PROVE LifeOK(i)'
  BY <1>5 DEF ClientForgets, LifeOK, TypeOK, client, Recorded, Known, Begun
<1>6. ASSUME NEW j \in Jobs, WorkflowRemovesFolder(j) PROVE LifeOK(i)'
  BY <1>6 DEF WorkflowRemovesFolder, LifeOK, TypeOK, client, Recorded, Known,
     Begun
<1>7. ASSUME NEW j \in Jobs, WeekPasses(j) PROVE LifeOK(i)'
  BY <1>7, WeekEffect DEF WeekPasses, LifeOK, client, Recorded, Known, Begun
<1>8. CASE FetchHistory
  BY <1>8 DEF FetchHistory, NoScan, LifeOK, TypeOK, client, Recorded, Known,
     Begun
<1>9. CASE QueryTracked
  BY <1>9 DEF QueryTracked, Tracked, LifeOK, TypeOK, client, Recorded, Known,
     Begun
<1>10. CASE CommitOrphans
  <2>1. UNCHANGED <<client, id, missed>>
    BY <1>10 DEF CommitOrphans
  <2>2. orphan'[i] # orphan[i] => i \in DOMAIN scan.history /\ orphan'[i] # NoOrphan
    BY <1>10 DEF CommitOrphans, Found, NoOrphan
  <2>. QED
    BY <2>1, <2>2 DEF ScanOK, LifeOK, client, Recorded, Known, Begun
<1>11. CASE ScanFails
  BY <1>11 DEF ScanFails, NoScan, LifeOK, TypeOK, client, Recorded, Known,
     Begun
<1>12. CASE SelectOld
  BY <1>12 DEF SelectOld, NoScan, LifeOK, TypeOK, client, Recorded, Known,
     Begun
<1>13. ASSUME NEW j \in Jobs, NEW ok \in BOOLEAN, RemoveOld(j, ok) PROVE
   LifeOK(i)'
  BY <1>13 DEF RemoveOld, Missed, LifeOK, TypeOK, client, Recorded, Known,
     Begun
<1>14. CASE CommitOld
  <2>1. UNCHANGED <<client, id, missed>>
    BY <1>14 DEF CommitOld
  <2>2. orphan'[i] = IF i \in scan.old THEN NoOrphan ELSE orphan[i]
    BY <1>14 DEF CommitOld
  <2>3. i \in scan.old /\ Told(i) => i \in missed
    BY <1>14 DEF CommitOld, ScanOK
  <2>. QED
    BY <2>1, <2>2, <2>3 DEF LifeOK, client, Recorded, Known, Begun
<1>15. ASSUME NEW r \in Requests, NEW j \in Jobs, ReadOrphan(r, j) PROVE
   LifeOK(i)'
  BY <1>15 DEF ReadOrphan, LifeOK, TypeOK, client, Recorded, Known, Begun
<1>16. ASSUME NEW r \in Requests, NEW ok \in BOOLEAN, PurgeJob(r, ok) PROVE
   LifeOK(i)'
  <2>1. PICK j \in Jobs : j = request[r].job /\ Begun(j) /\ (Told(j) => Known(j))
    BY <1>16 DEF PurgeJob, RequestOK
  <2>2. /\ UNCHANGED <<age, path, folder, id, orphan, missed>>
        /\ \/ job' = [job EXCEPT ![j] = IF @ = "done" THEN "gone" ELSE @]
           \/ job' = job
    BY <1>16, <2>1 DEF PurgeJob
  <2>3. CASE i = j
    BY <2>1, <2>2, <2>3 DEF LifeOK, client, Recorded, Known, Begun, TypeOK
  <2>4. CASE i # j
    BY <2>1, <2>2, <2>4 DEF LifeOK, client, Recorded, Known, Begun, TypeOK
  <2>. QED
    BY <2>3, <2>4
<1>17. ASSUME NEW r \in Requests, NEW ok \in BOOLEAN, RemoveFolder(r, ok) PROVE
   LifeOK(i)'
  BY <1>17 DEF RemoveFolder, Missed, Cleaned, LifeOK, TypeOK, client,
     Recorded, Known, Begun
<1>18. ASSUME NEW r \in Requests, CommitCleanup(r) PROVE LifeOK(i)'
  <2>1. PICK j \in Jobs :
          /\ j = request[r].job /\ Begun(j)
          /\ request[r].at = "delete" /\ Told(j) => j \in missed
    BY <1>18 DEF CommitCleanup, RequestOK
  <2>2. UNCHANGED <<client, id, missed>>
    BY <1>18 DEF CommitCleanup
  <2>. QED
    BY <1>18, <2>1, <2>2, CleanupEffect DEF LifeOK, client, Recorded, Known, Begun
<1>19. CASE Restart
  BY <1>19 DEF Restart, NoScan, LifeOK, TypeOK, client, Recorded, Known,
     Begun
<1>20. CASE UNCHANGED vars
  BY <1>20 DEF vars, LifeOK, TypeOK, client, Recorded, Known, Begun
<1>. QED
  BY <1>1, <1>2, <1>3, <1>4, <1>5, <1>6, <1>7, <1>8, <1>9, <1>10, <1>11,
     <1>12, <1>13, <1>14, <1>15, <1>16, <1>17, <1>18, <1>19, <1>20, Zenon DEF
     Next, Daily

(* Every step keeps what a scan has read true.                             *)
LEMMA ScanStep == IInv /\ [Next]_vars => (\A j \in Jobs : ScanOK(j))'
<1>. USE DEF Told
<1>. SUFFICES ASSUME IInv, [Next]_vars, NEW i \in Jobs PROVE ScanOK(i)'
  OBVIOUS
<1>. TypeOK /\ LifeOK(i) /\ ScanOK(i) /\ RowOK(i) /\ \A r \in Requests : RequestOK(r)
  BY DEF IInv
<1>1. ASSUME NEW j \in Jobs, StartDownload(j) PROVE ScanOK(i)'
  BY <1>1, ScanTypes DEF StartDownload, ScanOK, LifeOK, TypeOK, client, Begun,
     Excusable
<1>2. ASSUME NEW j \in Jobs, CommitId(j) PROVE ScanOK(i)'
  BY <1>2, ScanTypes DEF CommitId, ScanOK, LifeOK, TypeOK, client, Begun,
     Excusable
<1>3. ASSUME NEW j \in Jobs, JobEnds(j) PROVE ScanOK(i)'
  BY <1>3, ScanTypes DEF JobEnds, ScanOK, LifeOK, TypeOK, client, Begun,
     Excusable
<1>4. ASSUME NEW j \in Jobs, GrowsOlder(j) PROVE ScanOK(i)'
  BY <1>4, ScanTypes DEF GrowsOlder, ScanOK, LifeOK, TypeOK, client, Begun,
     Excusable
<1>5. ASSUME NEW j \in Jobs, ClientForgets(j) PROVE ScanOK(i)'
  BY <1>5, ScanTypes DEF ClientForgets, ScanOK, LifeOK, TypeOK, client,
     Begun, Excusable
<1>6. ASSUME NEW j \in Jobs, WorkflowRemovesFolder(j) PROVE ScanOK(i)'
  BY <1>6, ScanTypes DEF WorkflowRemovesFolder, ScanOK, LifeOK, TypeOK,
     client, Begun, Excusable
<1>7. ASSUME NEW j \in Jobs, WeekPasses(j) PROVE ScanOK(i)'
  BY <1>7, ScanTypes DEF WeekPasses, ScanOK, LifeOK, TypeOK, client, Begun,
     Excusable
<1>8. CASE FetchHistory
  BY <1>8, ScanTypes DEF FetchHistory, NoScan, ScanOK, LifeOK, TypeOK,
     client, Begun, Excusable
<1>9. CASE QueryTracked
  <2>1. UNCHANGED <<client, id, missed>>
    BY <1>9 DEF QueryTracked
  <2>2. /\ scan'.at = "queried" /\ scan'.history = scan.history /\ scan'.old = scan.old
        /\ scan'.tracked = {j \in DOMAIN scan.history : id[j] \in {"raw", "encoded"}}
    BY <1>9 DEF QueryTracked, Tracked, TypeOK, Scan
  <2>. QED
    BY <2>1, <2>2 DEF ScanOK, Begun, Excusable, client
<1>10. CASE CommitOrphans
  BY <1>10, ScanTypes DEF CommitOrphans, Found, TooYoung, NoScan, ScanOK,
     LifeOK, TypeOK, client, Begun, Excusable
<1>11. CASE ScanFails
  BY <1>11, ScanTypes DEF ScanFails, NoScan, ScanOK, LifeOK, TypeOK, client,
     Begun, Excusable
<1>12. CASE SelectOld
  <2>1. UNCHANGED <<client, id, missed>>
    BY <1>12 DEF SelectOld
  <2>2. /\ scan'.at = "cleaning" /\ DOMAIN scan'.history = {}
        /\ scan'.old = {j \in Jobs : orphan[j].found = "week ago"} /\ scan'.tracked = scan'.old
    BY <1>12 DEF SelectOld, NoScan
  <2>3. i \in scan'.old => orphan[i] # NoOrphan
    BY <2>2, NeverFound
  <2>. QED
    BY <2>1, <2>2, <2>3 DEF ScanOK, Begun, Excusable, LifeOK, client
<1>13. ASSUME NEW j \in Jobs, NEW ok \in BOOLEAN, RemoveOld(j, ok) PROVE
   ScanOK(i)'
  <2>1. /\ scan.at = "cleaning" /\ scan'.at = "cleaning" /\ scan'.history = scan.history
        /\ scan'.old = scan.old /\ scan'.tracked = scan.tracked \ {j}
    BY <1>13 DEF RemoveOld, TypeOK, Scan
  <2>2. UNCHANGED <<job, id>>
    BY <1>13 DEF RemoveOld
  <2>3. CASE i = j
    <3>1. Told(j)' => j \in missed'
      BY <1>13, <2>3 DEF RemoveOld, Missed, TypeOK, LifeOK
    <3>. QED
      BY <2>1, <2>2, <2>3, <3>1 DEF ScanOK, Begun, Excusable
  <2>4. CASE i # j
    <3>1. folder'[i] = folder[i] /\ path'[i] = path[i] /\ (i \in missed => i \in missed')
      BY <1>13, <2>4 DEF RemoveOld, Missed, Told, TypeOK
    <3>. QED
      BY <2>1, <2>2, <2>4, <3>1 DEF ScanOK, Begun, Excusable
  <2>. QED
    BY <2>3, <2>4
<1>14. CASE CommitOld
  BY <1>14, ScanTypes DEF CommitOld, NoScan, ScanOK, LifeOK, TypeOK, client,
     Begun, Excusable
<1>15. ASSUME NEW r \in Requests, NEW j \in Jobs, ReadOrphan(r, j) PROVE
   ScanOK(i)'
  BY <1>15, ScanTypes DEF ReadOrphan, ScanOK, LifeOK, TypeOK, client, Begun,
     Excusable
<1>16. ASSUME NEW r \in Requests, NEW ok \in BOOLEAN, PurgeJob(r, ok) PROVE
   ScanOK(i)'
  BY <1>16, ScanTypes DEF PurgeJob, ScanOK, LifeOK, TypeOK, client, Begun,
     Excusable
<1>17. ASSUME NEW r \in Requests, NEW ok \in BOOLEAN, RemoveFolder(r, ok) PROVE
   ScanOK(i)'
  BY <1>17, ScanTypes DEF RemoveFolder, Missed, Cleaned, ScanOK, LifeOK,
     TypeOK, client, Begun, Excusable
<1>18. ASSUME NEW r \in Requests, CommitCleanup(r) PROVE ScanOK(i)'
  BY <1>18, ScanTypes DEF CommitCleanup, ScanOK, LifeOK, TypeOK, client,
     Begun, Excusable
<1>19. CASE Restart
  BY <1>19, ScanTypes DEF Restart, NoScan, ScanOK, LifeOK, TypeOK, client,
     Begun, Excusable
<1>20. CASE UNCHANGED vars
  BY <1>20, ScanTypes DEF vars, ScanOK, LifeOK, TypeOK, client, Begun,
     Excusable
<1>. QED
  BY <1>1, <1>2, <1>3, <1>4, <1>5, <1>6, <1>7, <1>8, <1>9, <1>10, <1>11,
     <1>12, <1>13, <1>14, <1>15, <1>16, <1>17, <1>18, <1>19, <1>20, Zenon DEF
     Next, Daily

(* Every step keeps the rows of the orphans.                               *)
LEMMA RowStep == IInv /\ [Next]_vars => (\A j \in Jobs : RowOK(j))'
<1>. SUFFICES ASSUME IInv, [Next]_vars, NEW i \in Jobs PROVE RowOK(i)'
  OBVIOUS
<1>. TypeOK /\ LifeOK(i) /\ ScanOK(i) /\ RowOK(i) /\ \A r \in Requests : RequestOK(r)
  BY DEF IInv
<1>1. ASSUME NEW j \in Jobs, StartDownload(j) PROVE RowOK(i)'
  BY <1>1 DEF StartDownload, RowOK, LifeOK, ScanOK, TypeOK, client, Excusable
<1>2. ASSUME NEW j \in Jobs, CommitId(j) PROVE RowOK(i)'
  BY <1>2 DEF CommitId, RowOK, LifeOK, ScanOK, TypeOK, client, Excusable
<1>3. ASSUME NEW j \in Jobs, JobEnds(j) PROVE RowOK(i)'
  BY <1>3 DEF JobEnds, RowOK, LifeOK, ScanOK, TypeOK, client, Excusable
<1>4. ASSUME NEW j \in Jobs, GrowsOlder(j) PROVE RowOK(i)'
  BY <1>4 DEF GrowsOlder, RowOK, LifeOK, ScanOK, TypeOK, client, Excusable
<1>5. ASSUME NEW j \in Jobs, ClientForgets(j) PROVE RowOK(i)'
  BY <1>5 DEF ClientForgets, RowOK, LifeOK, ScanOK, TypeOK, client, Excusable
<1>6. ASSUME NEW j \in Jobs, WorkflowRemovesFolder(j) PROVE RowOK(i)'
  BY <1>6 DEF WorkflowRemovesFolder, RowOK, LifeOK, ScanOK, TypeOK, client,
     Excusable
<1>7. ASSUME NEW j \in Jobs, WeekPasses(j) PROVE RowOK(i)'
  BY <1>7, WeekEffect DEF WeekPasses, RowOK, Excusable
<1>8. CASE FetchHistory
  BY <1>8 DEF FetchHistory, NoScan, RowOK, LifeOK, ScanOK, TypeOK, client,
     Excusable
<1>9. CASE QueryTracked
  BY <1>9 DEF QueryTracked, Tracked, RowOK, LifeOK, ScanOK, TypeOK, client,
     Excusable
<1>10. CASE CommitOrphans
  BY <1>10 DEF CommitOrphans, Found, TooYoung, NoScan, RowOK, LifeOK, ScanOK,
     TypeOK, client, Excusable
<1>11. CASE ScanFails
  BY <1>11 DEF ScanFails, NoScan, RowOK, LifeOK, ScanOK, TypeOK, client,
     Excusable
<1>12. CASE SelectOld
  BY <1>12 DEF SelectOld, NoScan, RowOK, LifeOK, ScanOK, TypeOK, client,
     Excusable
<1>13. ASSUME NEW j \in Jobs, NEW ok \in BOOLEAN, RemoveOld(j, ok) PROVE
   RowOK(i)'
  BY <1>13 DEF RemoveOld, Missed, RowOK, LifeOK, ScanOK, TypeOK, client,
     Excusable
<1>14. CASE CommitOld
  BY <1>14 DEF CommitOld, NoScan, RowOK, LifeOK, ScanOK, TypeOK, client,
     Excusable
<1>15. ASSUME NEW r \in Requests, NEW j \in Jobs, ReadOrphan(r, j) PROVE
   RowOK(i)'
  BY <1>15 DEF ReadOrphan, RowOK, LifeOK, ScanOK, TypeOK, client, Excusable
<1>16. ASSUME NEW r \in Requests, NEW ok \in BOOLEAN, PurgeJob(r, ok) PROVE
   RowOK(i)'
  BY <1>16 DEF PurgeJob, RowOK, LifeOK, ScanOK, TypeOK, client, Excusable
<1>17. ASSUME NEW r \in Requests, NEW ok \in BOOLEAN, RemoveFolder(r, ok) PROVE
   RowOK(i)'
  BY <1>17 DEF RemoveFolder, Missed, Cleaned, RowOK, LifeOK, ScanOK, TypeOK,
     client, Excusable
<1>18. ASSUME NEW r \in Requests, CommitCleanup(r) PROVE RowOK(i)'
  <2>1. request[r].job \in Jobs
    BY <1>18 DEF CommitCleanup, RequestOK
  <2>. QED
    BY <1>18, <2>1, CleanupEffect DEF CommitCleanup, RowOK, Excusable
<1>19. CASE Restart
  BY <1>19 DEF Restart, NoScan, RowOK, LifeOK, ScanOK, TypeOK, client,
     Excusable
<1>20. CASE UNCHANGED vars
  BY <1>20 DEF vars, RowOK, LifeOK, ScanOK, TypeOK, client, Excusable
<1>. QED
  BY <1>1, <1>2, <1>3, <1>4, <1>5, <1>6, <1>7, <1>8, <1>9, <1>10, <1>11,
     <1>12, <1>13, <1>14, <1>15, <1>16, <1>17, <1>18, <1>19, <1>20, Zenon DEF
     Next, Daily

(* Every step keeps what the cleanups of the rows rest on.                 *)
LEMMA RequestStep == IInv /\ [Next]_vars => (\A r \in Requests : RequestOK(r))'
<1>. USE DEF Told
<1>. SUFFICES ASSUME IInv, [Next]_vars, NEW q \in Requests PROVE RequestOK(q)'
  OBVIOUS
<1>. TypeOK /\ RequestOK(q) /\ \A j \in Jobs : LifeOK(j) /\ ScanOK(j)
  BY DEF IInv
<1>1. ASSUME NEW j \in Jobs, StartDownload(j) PROVE RequestOK(q)'
  BY <1>1, RequestTypes DEF StartDownload, RequestOK, LifeOK, TypeOK, client,
     Recorded, Known, Begun
<1>2. ASSUME NEW j \in Jobs, CommitId(j) PROVE RequestOK(q)'
  BY <1>2, RequestTypes DEF CommitId, RequestOK, LifeOK, TypeOK, client,
     Recorded, Known, Begun
<1>3. ASSUME NEW j \in Jobs, JobEnds(j) PROVE RequestOK(q)'
  BY <1>3, RequestTypes DEF JobEnds, RequestOK, LifeOK, TypeOK, client,
     Recorded, Known, Begun
<1>4. ASSUME NEW j \in Jobs, GrowsOlder(j) PROVE RequestOK(q)'
  BY <1>4, RequestTypes DEF GrowsOlder, RequestOK, LifeOK, TypeOK, client,
     Recorded, Known, Begun
<1>5. ASSUME NEW j \in Jobs, ClientForgets(j) PROVE RequestOK(q)'
  BY <1>5, RequestTypes DEF ClientForgets, RequestOK, LifeOK, TypeOK, client,
     Recorded, Known, Begun
<1>6. ASSUME NEW j \in Jobs, WorkflowRemovesFolder(j) PROVE RequestOK(q)'
  BY <1>6, RequestTypes DEF WorkflowRemovesFolder, RequestOK, LifeOK, TypeOK,
     client, Recorded, Known, Begun
<1>7. ASSUME NEW j \in Jobs, WeekPasses(j) PROVE RequestOK(q)'
  BY <1>7, WeekEffect DEF WeekPasses, client, RequestOK, Recorded, Known, Begun
<1>8. CASE FetchHistory
  BY <1>8, RequestTypes DEF FetchHistory, NoScan, RequestOK, LifeOK, TypeOK,
     client, Recorded, Known, Begun
<1>9. CASE QueryTracked
  BY <1>9, RequestTypes DEF QueryTracked, Tracked, RequestOK, LifeOK, TypeOK,
     client, Recorded, Known, Begun
<1>10. CASE CommitOrphans
  BY <1>10, RequestTypes DEF CommitOrphans, Found, TooYoung, NoScan,
     RequestOK, LifeOK, TypeOK, client, Recorded, Known, Begun
<1>11. CASE ScanFails
  BY <1>11, RequestTypes DEF ScanFails, NoScan, RequestOK, LifeOK, TypeOK,
     client, Recorded, Known, Begun
<1>12. CASE SelectOld
  BY <1>12, RequestTypes DEF SelectOld, NoScan, RequestOK, LifeOK, TypeOK,
     client, Recorded, Known, Begun
<1>13. ASSUME NEW j \in Jobs, NEW ok \in BOOLEAN, RemoveOld(j, ok) PROVE
   RequestOK(q)'
  BY <1>13, RequestTypes DEF RemoveOld, Missed, RequestOK, LifeOK, TypeOK,
     client, Recorded, Known, Begun
<1>14. CASE CommitOld
  <2>1. UNCHANGED <<client, request, missed>>
    BY <1>14 DEF CommitOld
  <2>2. \A j \in Jobs : orphan'[j] = IF j \in scan.old THEN NoOrphan ELSE orphan[j]
    BY <1>14 DEF CommitOld
  <2>3. \A j \in Jobs : j \in scan.old /\ Told(j) => j \in missed
    BY <1>14 DEF CommitOld, ScanOK
  <2>. QED
    BY <2>1, <2>2, <2>3 DEF client, RequestOK, Recorded, Known, Begun
<1>15. ASSUME NEW r \in Requests, NEW j \in Jobs, ReadOrphan(r, j) PROVE
   RequestOK(q)'
  <2>1. UNCHANGED <<client, orphan, missed>> /\ orphan[j] # NoOrphan
    BY <1>15 DEF ReadOrphan
  <2>2. CASE q = r
    <3>1. request'[r].job = j /\ request'[r].at = "purge"
      BY <1>15 DEF ReadOrphan, TypeOK, NoRequest
    <3>. QED
      BY <2>1, <2>2, <3>1 DEF client, LifeOK, RequestOK, Recorded, Known, Begun
  <2>3. CASE q # r
    <3>1. request'[q] = request[q]
      BY <1>15, <2>3 DEF ReadOrphan, TypeOK
    <3>. QED
      BY <2>1, <3>1 DEF client, RequestOK, Recorded, Known, Begun
  <2>. QED
    BY <2>2, <2>3
<1>16. ASSUME NEW r \in Requests, NEW ok \in BOOLEAN, PurgeJob(r, ok) PROVE
   RequestOK(q)'
  <2>1. UNCHANGED <<folder, path, orphan, missed>>
    BY <1>16 DEF PurgeJob
  <2>2. \A j \in Jobs : Begun(j) => Begun(j)'
    BY <1>16 DEF PurgeJob, Begun, TypeOK
  <2>3. /\ request'[q].job = request[q].job
        /\ request'[q].at = "delete" => request[q].at = "delete"
        /\ request'[q].at # "idle" => request[q].at # "idle"
    BY <1>16 DEF PurgeJob, TypeOK, Request
  <2>. QED
    BY <2>1, <2>2, <2>3 DEF RequestOK, Known, Recorded
<1>17. ASSUME NEW r \in Requests, NEW ok \in BOOLEAN, RemoveFolder(r, ok) PROVE
   RequestOK(q)'
  <2>1. PICK j \in Jobs : j = request[r].job /\ request[r].at = "remove" /\ RequestOK(r)
    BY <1>17 DEF RemoveFolder, RequestOK, IInv
  <2>2. UNCHANGED <<job, path, orphan>>
    BY <1>17 DEF RemoveFolder
  <2>3. /\ \A k \in Jobs : k # j => folder'[k] = folder[k] /\ (k \in missed => k \in missed')
        /\ Told(j)' => j \in missed'
    BY <1>17, <2>1 DEF RemoveFolder, Missed, TypeOK, LifeOK
  <2>4. /\ request'[q].job = request[q].job
        /\ request'[q].at # "idle" => request[q].at # "idle"
        /\ q # r => request'[q] = request[q]
    BY <1>17 DEF RemoveFolder, TypeOK, Request
  <2>. QED
    BY <2>1, <2>2, <2>3, <2>4 DEF RequestOK, Recorded, Known, Begun
<1>18. ASSUME NEW r \in Requests, CommitCleanup(r) PROVE RequestOK(q)'
  <2>1. PICK j \in Jobs :
          /\ j = request[r].job
          /\ request[r].at = "delete" /\ Told(j) => j \in missed
    BY <1>18 DEF CommitCleanup, RequestOK, IInv
  <2>2. UNCHANGED <<client, missed>>
    BY <1>18 DEF CommitCleanup
  <2>3. q = r => request'[q].at = "idle"
    BY <1>18 DEF CommitCleanup, TypeOK, NoRequest
  <2>4. q # r => request'[q] = request[q]
    BY <1>18 DEF CommitCleanup, TypeOK
  <2>. QED
    BY <1>18, <2>1, <2>2, <2>3, <2>4, CleanupEffect DEF client, RequestOK, Recorded, Known, Begun
<1>19. CASE Restart
  <2>1. request'[q].at = "idle"
    BY <1>19 DEF Restart, NoRequest
  <2>. QED
    BY <2>1 DEF RequestOK
<1>20. CASE UNCHANGED vars
  BY <1>20, RequestTypes DEF vars, RequestOK, LifeOK, TypeOK, client,
     Recorded, Known, Begun
<1>. QED
  BY <1>1, <1>2, <1>3, <1>4, <1>5, <1>6, <1>7, <1>8, <1>9, <1>10, <1>11,
     <1>12, <1>13, <1>14, <1>15, <1>16, <1>17, <1>18, <1>19, <1>20, Zenon DEF
     Next, Daily

-----------------------------------------------------------------------------
(* The invariant holds before the first download.                          *)
LEMMA InitInvariant == Init => IInv
<1>. SUFFICES ASSUME Init PROVE IInv
  OBVIOUS
<1>1. TypeOK
  <2>1. scan \in Scan /\ request \in [Requests -> Request] /\ orphan \in [Jobs -> Orphan]
    BY ScanTypes, RequestTypes, OrphanTypes DEF Init
  <2>2. restarts \in 0..MaxRestarts
    BY RestartsAreBounded DEF Init
  <2>. QED
    BY <2>1, <2>2 DEF Init, TypeOK, Ages
<1>2. \A j \in Jobs : LifeOK(j) /\ ScanOK(j) /\ RowOK(j)
  BY DEF Init, LifeOK, ScanOK, RowOK, Begun, NoScan
<1>3. \A r \in Requests : RequestOK(r)
  BY DEF Init, RequestOK, NoRequest
<1>. QED
  BY <1>1, <1>2, <1>3 DEF IInv

(* Every step preserves it.                                                *)
LEMMA StepInvariant == IInv /\ [Next]_vars => IInv'
BY TypeStep, LifeStep, ScanStep, RowStep, RequestStep DEF IInv

(* The inductive invariant of the scan, the automatic cleanup and the      *)
(* requests that clean up by hand, after any number of restarts.           *)
THEOREM Invariant == Spec => []IInv
BY InitInvariant, StepInvariant, PTL DEF Spec

(* A job of a download is recorded as an orphan only when it was done      *)
(* within the hour, or its age is not known (_scan_sabnzbd_orphans,        *)
(* start_download).                                                        *)
THEOREM OwnJobsAreSpared == Spec => []TrackedNotRecorded
<1>1. IInv => TrackedNotRecorded
  BY DEF IInv, RowOK, TrackedNotRecorded, Recorded, Excusable
<1>. QED
  BY <1>1, Invariant, PTL

(* A folder whose path was told and whose job was purged is known to a row *)
(* unless the last removal of the folder failed (cleanup_orphaned_download,*)
(* auto_cleanup_old_orphans).                                              *)
THEOREM NoFolderIsLost == Spec => []FolderFindable
<1>1. IInv => FolderFindable
  BY DEF IInv, LifeOK, FolderFindable, Known
<1>. QED
  BY <1>1, Invariant, PTL

-----------------------------------------------------------------------------
(* A job and its row                                                       *)

(* The fields of a job, of a row and of a task.                            *)
Shaped ==
  /\ DOMAIN slot = Downloads /\ DOMAIN row = Downloads /\ DOMAIN task = Downloads
  /\ \A d \in Downloads :
       /\ DOMAIN slot[d] = {"client", "place", "status"}
       /\ DOMAIN row[d] = {"status", "nzo", "why", "sure", "purged", "heard"}
       /\ DOMAIN task[d] =
            {"pc", "client", "list", "answer", "misled", "missed", "sure", "purged", "heard"}

(* The stages of a client's post-processing are among those the code       *)
(* knows. With one that is not, say "moving", a download fails while it    *)
(* succeeds, and AnswersSound does not hold.                               *)
KnownStages == Stages \subseteq TRANSIENT_HISTORY_STATUSES

(* A job is submitted once, begins in the queue, and how it ends stays.    *)
JobOK(d) ==
  /\ slot[d].place \in {None, "queue", "history", "past", "gone"}
  /\ slot[d].status \in {None, "queued"} \cup Stages \cup Ends
  /\ slot[d].place = "queue" => slot[d].status = "queued"
  /\ KnownStages /\ slot[d].place # None => slot[d].status # None
  /\ row[d].status \in {"absent", "submitting"} =>
       row[d].nzo = None /\ row[d].why = None /\ ~row[d].sure /\ ~row[d].heard
  /\ row[d].status = "absent" => At(d, "idle") /\ slot[d].place = None
  /\ row[d].status \in {"downloading", "completed"} \/ row[d].nzo # None =>
       row[d].nzo \in {Raw, slot[d].client} /\ slot[d].place # None

(* A task works for the client that its row names, or is about to name.    *)
TaskOK(d) ==
  /\ At(d, "submit") => row[d].status = "submitting" /\ slot[d].place = None
  /\ At(d, "record") =>
       row[d].status = "submitting" /\ slot[d].place # None /\ slot[d].client = task[d].client
  /\ task[d].pc \in {"asleep", "ask", "told"} => row[d].status = "downloading"
  /\ task[d].pc \in {"ask", "told"} => row[d].nzo \in {Raw, task[d].client}
  /\ At(d, "purge") =>
       row[d].status = "failed" /\ row[d].nzo # None /\ row[d].nzo \in {Raw, task[d].client}

(* What it has asked of both lists, in the order of the code, is known of  *)
(* the job though it moves on meanwhile, where the poll was not misled.    *)
Asked(d) ==
  /\ At(d, "ask") =>
       /\ task[d].list \in 1..2
       /\ task[d].list = 2 /\ ~task[d].misled =>
            slot[d].place # "queue" /\ slot[d].client = task[d].client
  /\ KnownStages /\ task[d].sure => slot[d].place = "gone"
  /\ At(d, "told") =>
       /\ task[d].answer \in {None, "queued"} \cup Stages \cup Ends
       /\ KnownStages /\ task[d].answer = None /\ ~task[d].misled => slot[d].place = "gone"
       /\ KnownStages /\ task[d].answer \in Ends => slot[d].status = task[d].answer
  /\ At(d, "purge") /\ task[d].client = "sabnzbd" =>
       /\ task[d].list \in 1..2
       /\ task[d].list = 2 /\ task[d].heard /\ row[d].nzo = "sabnzbd" => slot[d].place # "queue"

(* What the row says of the job.                                           *)
Judged(d) ==
  /\ KnownStages =>
       /\ row[d].status = "completed" => slot[d].status = "success"
       /\ row[d].why = "status" => slot[d].status \in {"failure", "pathless"}
       /\ row[d].why = "missing" /\ row[d].sure => slot[d].place = "gone"
  /\ row[d].heard /\ row[d].nzo = "sabnzbd" => slot[d].place = "gone"

Sound(d) == JobOK(d) /\ TaskOK(d) /\ Asked(d) /\ Judged(d)
ClientInv == Shaped /\ \A d \in Downloads : Sound(d)

(* A download of which nothing changes stays sound.                        *)
LEMMA Frame ==
  ASSUME NEW d, Sound(d), slot'[d] = slot[d], row'[d] = row[d], task'[d] = task[d]
  PROVE  Sound(d)'
BY DEF Sound, JobOK, TaskOK, Asked, Judged, At

(* The only jobs that are there at the first start are those of an older   *)
(* version, in the queue of either client.                                 *)
LEMMA InitClient == ClientInit => ClientInv
<1>. SUFFICES ASSUME ClientInit PROVE ClientInv
  OBVIOUS
<1>1. Shaped
  BY DEF ClientInit, Shaped, NoSlot, NoRow, Idle
<1>2. ASSUME NEW d \in Downloads PROVE Sound(d)
  <2>1. task[d] = Idle
    BY DEF ClientInit
  <2>2. CASE slot[d] = NoSlot
    <3>1. row[d] = NoRow
      BY <2>2 DEF ClientInit
    <3>. QED
      BY <2>1, <2>2, <3>1 DEF Sound, JobOK, TaskOK, Asked, Judged, At, Idle, NoSlot, NoRow, None, Ends
  <2>3. CASE slot[d] # NoSlot
    <3>1. slot[d].client \in Clients /\ slot[d].place = "queue" /\ slot[d].status = "queued"
      BY <2>3 DEF ClientInit
    <3>2. row[d] = [NoRow EXCEPT !.status = "downloading", !.nzo = Raw]
      BY <2>3 DEF ClientInit
    <3>. QED
      BY <2>1, <3>1, <3>2
         DEF Sound, JobOK, TaskOK, Asked, Judged, At, Idle, NoRow, None, Ends, Clients, Raw
  <2>. QED
    BY <2>2, <2>3
<1>. QED
  BY <1>1, <1>2 DEF ClientInv

(* The submission: the answer of the client may be lost, but the row names *)
(* a job only after the client has accepted it (start_download).           *)
LEMMA SubmissionStep ==
  ASSUME Shaped, NEW d \in Downloads, Sound(d), Start(d) \/ Submit(d) \/ SubmitFails(d) \/ Record(d)
  PROVE  Sound(d)'
<1>. USE DEF Sound, JobOK, TaskOK, Asked, Judged, At, None, Idle
<1>1. CASE Start(d)
  BY <1>1 DEF Start, Shaped
<1>2. CASE Submit(d)
  <2>1. /\ slot'[d].client = task[d].client /\ slot'[d].place = "queue" /\ slot'[d].status = "queued"
    BY <1>2 DEF Submit, Accept, Shaped
  <2>2. row' = row /\ task'[d].pc = "record" /\ task'[d].client = task[d].client
    BY <1>2 DEF Submit, Shaped
  <2>. QED
    BY <1>2, <2>1, <2>2 DEF Submit, Shaped
<1>3. CASE SubmitFails(d)
  BY <1>3 DEF SubmitFails, Accept, Leave, Shaped
<1>4. CASE Record(d)
  BY <1>4 DEF Record, Encoded, Sleep, Shaped
<1>. QED
  BY <1>1, <1>2, <1>3, <1>4

(* Polls, and what the row says after them (monitor_download).             *)
LEMMA PollStep ==
  ASSUME Shaped, NEW d \in Downloads, Sound(d),
         Wake(d) \/ Ask(d) \/ AskFails(d) \/ Conclude(d) \/ TimeOut(d) \/ Resume(d)
  PROVE  Sound(d)'
<1>. USE DEF Sound, JobOK, TaskOK, Asked, Judged, At, None, Idle
<1>1. CASE Wake(d)
  BY <1>1 DEF Wake, Decoded, Shaped
<1>2. CASE Ask(d)
  <2>1. /\ Lists[1] = "queue" /\ Lists[2] = "history" /\ Len(Lists) = 2
    BY DEF Lists
  <2>2. At(d, "ask") /\ slot' = slot /\ row' = row
    BY <1>2 DEF Ask
  <2>. DEFINE l == Lists[task[d].list]
  <2>3. PICK body \in {"list", "error"} :
          LET found  == body = "list" /\ Listed(d, l)
              misled == \/ task[d].misled \/ body = "error" \/ slot[d].client # task[d].client
                        \/ l = "history" /\ slot[d].place = "past" IN
          IF found \/ task[d].list = Len(Lists)
          THEN task' = [task EXCEPT ![d].pc = "told", ![d].misled = misled,
                                    ![d].answer = IF found THEN slot[d].status ELSE None]
          ELSE task' = [task EXCEPT ![d].list = @ + 1, ![d].misled = misled]
    BY <1>2 DEF Ask
  <2>. DEFINE found  == body = "list" /\ Listed(d, l)
              misled == \/ task[d].misled \/ body = "error" \/ slot[d].client # task[d].client
                        \/ l = "history" /\ slot[d].place = "past"
  <2>4. task'[d].client = task[d].client /\ task'[d].misled = misled /\ task'[d].sure = task[d].sure
    <3>1. \/ task' = [task EXCEPT ![d].pc = "told", ![d].misled = misled,
                                  ![d].answer = IF found THEN slot[d].status ELSE None]
          \/ task' = [task EXCEPT ![d].list = @ + 1, ![d].misled = misled]
      BY <2>3
    <3>. HIDE DEF found, misled
    <3>. QED
      BY <3>1 DEF Shaped
  <2>5. CASE found \/ task[d].list = Len(Lists)
    <3>1. task'[d].pc = "told" /\ task'[d].answer = IF found THEN slot[d].status ELSE None
      BY <2>3, <2>5 DEF Shaped
    <3>2. found => slot[d].place \in {"queue", "history"}
      BY <2>1, <2>2 DEF Listed
    <3>3. ~found /\ ~misled => slot[d].place = "gone"
      BY <2>1, <2>2, <2>5 DEF Listed
    <3>. HIDE DEF found, misled
    <3>. QED
      BY <2>2, <2>4, <3>1, <3>2, <3>3 DEF Ends
  <2>6. CASE ~(found \/ task[d].list = Len(Lists))
    <3>1. /\ task[d].list = 1
          /\ ~misled => slot[d].place # "queue" /\ slot[d].client = task[d].client
      BY <2>1, <2>2, <2>6 DEF Listed
    <3>2. task'[d].pc = "ask" /\ task'[d].list = 2
      <4>1. task' = [task EXCEPT ![d].list = @ + 1, ![d].misled = misled]
        BY <2>3, <2>6
      <4>. HIDE DEF misled
      <4>. QED
        BY <2>2, <3>1, <4>1 DEF Shaped
    <3>. HIDE DEF found, misled
    <3>. QED
      BY <2>2, <2>4, <3>1, <3>2
  <2>. QED
    BY <2>5, <2>6
<1>3. CASE AskFails(d)
  BY <1>3 DEF AskFails, Sleep, Shaped
<1>4. CASE Conclude(d)
  <2>1. CASE Missing(d)
    <3>. DEFINE sure == task[d].sure \/ ~task[d].misled
    <3>1. At(d, "told") /\ slot' = slot /\ (KnownStages /\ sure => slot[d].place = "gone")
      BY <1>4, <2>1 DEF Conclude, Missing
    <3>2. CASE task[d].missed + 1 < MaxMissing
      <4>1. row' = row /\ Sleep(d, task[d].missed + 1, sure)
        BY <2>1, <3>2 DEF Missing
      <4>2. task'[d].pc = "asleep" /\ task'[d].sure = sure
        BY <4>1 DEF Sleep, Shaped
      <4>. HIDE DEF sure
      <4>. QED
        BY <3>1, <4>1, <4>2
    <3>3. CASE ~(task[d].missed + 1 < MaxMissing)
      <4>1. /\ row'[d].status = "failed" /\ row'[d].why = "missing" /\ row'[d].sure = sure
            /\ row'[d].nzo = row[d].nzo /\ row'[d].heard = row[d].heard
        BY <2>1, <3>3 DEF Missing, Shaped
      <4>2. task'[d].pc = "clean" /\ ~task'[d].sure
        BY <2>1, <3>3 DEF Missing, Failed, Shaped
      <4>. HIDE DEF sure
      <4>. QED
        BY <3>1, <4>1, <4>2
    <3>. QED
      BY <3>2, <3>3
  <2>2. CASE Busy(d)
    BY <1>4, <2>2 DEF Conclude, Busy, Sleep, Shaped
  <2>3. CASE Completed(d)
    BY <1>4, <2>3 DEF Conclude, Completed, Leave, Ends, Shaped
  <2>4. CASE FailedThere(d)
    BY <1>4, <2>4 DEF Conclude, FailedThere, Fail, Failed, KnownStages, Ends, Shaped
  <2>. QED
    BY <1>4, <2>1, <2>2, <2>3, <2>4 DEF Conclude
<1>5. CASE TimeOut(d)
  BY <1>5 DEF TimeOut, Fail, Failed, Shaped
<1>6. CASE Resume(d)
  BY <1>6 DEF Resume, Sleep, Shaped
<1>. QED
  BY <1>1, <1>2, <1>3, <1>4, <1>5, <1>6

(* SABnzbd's purge deletes from the queue and then from the history.       *)
LEMMA PurgesBothLists ==
  /\ PurgedLists("sabnzbd")[1] = "queue" /\ PurgedLists("sabnzbd")[2] = "history"
  /\ Len(PurgedLists("sabnzbd")) = 2
BY DEF PurgedLists

(* The cleanup, whose deletions may fail one by one (purge_job,            *)
(* cleanup_failed_download).                                               *)
LEMMA CleanupStep ==
  ASSUME Shaped, NEW d \in Downloads, Sound(d), Clean(d) \/ Purge(d) \/ PurgeFails(d)
  PROVE  Sound(d)'
<1>. USE DEF Sound, JobOK, TaskOK, Asked, Judged, At, None, Idle
<1>1. CASE Clean(d)
  BY <1>1 DEF Clean, Decoded, Shaped
<1>2. ASSUME NEW reported, NEW heard \in BOOLEAN, At(d, "purge"), Purged(d, reported, heard),
             slot'[d].client = slot[d].client, slot'[d].status = slot[d].status,
             slot'[d].place = slot[d].place \/ slot'[d].place = "gone",
             heard /\ Held(d, PurgedLists(task[d].client)[task[d].list]) => slot'[d].place = "gone"
      PROVE  Sound(d)'
  <2>. DEFINE last == task[d].list = Len(PurgedLists(task[d].client))
  <2>1. CASE last
    <3>1. /\ row'[d].status = row[d].status /\ row'[d].nzo = row[d].nzo /\ row'[d].why = row[d].why
          /\ row'[d].sure = row[d].sure /\ row'[d].heard = (task[d].heard /\ heard)
          /\ task'[d].pc = "idle" /\ task'[d].sure = FALSE
      BY <1>2, <2>1 DEF Purged, Leave, Shaped
    <3>2. row[d].nzo = "sabnzbd" /\ row'[d].heard => slot'[d].place = "gone"
      <4>. SUFFICES ASSUME row[d].nzo = "sabnzbd", row'[d].heard PROVE slot'[d].place = "gone"
        OBVIOUS
      <4>1. task[d].client = "sabnzbd" /\ slot[d].client = "sabnzbd" /\ heard /\ task[d].heard
        BY <1>2, <3>1 DEF Raw
      <4>2. task[d].list = 2 /\ slot[d].place \in {"history", "past", "gone"}
        BY <1>2, <2>1, <4>1, PurgesBothLists
      <4>. QED
        BY <1>2, <4>1, <4>2, PurgesBothLists DEF Held
    <3>. QED
      BY <1>2, <3>1, <3>2
  <2>2. CASE ~last
    <3>1. /\ row' = row /\ task'[d].pc = "purge" /\ task'[d].client = task[d].client
          /\ task'[d].list = task[d].list + 1 /\ task'[d].heard = (task[d].heard /\ heard)
          /\ task'[d].sure = task[d].sure
      BY <1>2, <2>2 DEF Purged, Shaped
    <3>2. task[d].client = "sabnzbd" =>
            /\ task[d].list = 1
            /\ heard /\ row[d].nzo = "sabnzbd" => slot'[d].place # "queue"
      <4>. SUFFICES ASSUME task[d].client = "sabnzbd"
                    PROVE  /\ task[d].list = 1
                           /\ heard /\ row[d].nzo = "sabnzbd" => slot'[d].place # "queue"
        OBVIOUS
      <4>0. Len(PurgedLists(task[d].client)) = 2
        BY PurgesBothLists
      <4>1. task[d].list = 1
        <5>1. task[d].list \in 1..2
          BY <1>2
        <5>2. task[d].list # 2
          BY <2>2, <4>0
        <5>. QED
          BY <5>1, <5>2
      <4>2. PurgedLists(task[d].client)[task[d].list] = "queue"
        BY <4>1, PurgesBothLists
      <4>. QED
        BY <1>2, <4>1, <4>2 DEF Held, Raw
    <3>3. task[d].client = "sabnzbd" =>
            /\ task'[d].list = 2
            /\ task'[d].heard /\ row[d].nzo = "sabnzbd" => slot'[d].place # "queue"
      BY <3>1, <3>2
    <3>. QED
      BY <1>2, <3>1, <3>3
  <2>. QED
    BY <2>1, <2>2
<1>3. CASE Purge(d)
  <2>1. PICK b \in BOOLEAN : Purged(d, b, TRUE)
    BY <1>3 DEF Purge, Reported
  <2>2. At(d, "purge") /\ slot'[d].client = slot[d].client /\ slot'[d].status = slot[d].status
        /\ (slot'[d].place = slot[d].place \/ slot'[d].place = "gone")
        /\ (Held(d, PurgedLists(task[d].client)[task[d].list]) => slot'[d].place = "gone")
    BY <1>3 DEF Purge, Held, Shaped
  <2>. QED
    BY <1>2, <2>1, <2>2
<1>4. CASE PurgeFails(d)
  <2>1. At(d, "purge") /\ slot' = slot /\ \E b \in BOOLEAN : Purged(d, b, FALSE)
    BY <1>4 DEF PurgeFails
  <2>. QED
    BY <1>2, <2>1
<1>. QED
  BY <1>1, <1>3, <1>4

(* The client works on, and its user removes jobs.                         *)
LEMMA ElsewhereStep ==
  ASSUME Shaped, NEW d \in Downloads, Sound(d), Elsewhere(d)
  PROVE  Sound(d)'
<1>. USE DEF Sound, JobOK, TaskOK, Asked, Judged, At, None
<1>1. CASE ToHistory(d)
  BY <1>1 DEF ToHistory, KnownStages, Ends, TRANSIENT_HISTORY_STATUSES, Shaped
<1>2. CASE PostProcess(d)
  BY <1>2 DEF PostProcess, KnownStages, Ends, TRANSIENT_HISTORY_STATUSES, Shaped
<1>3. CASE RemovedThere(d)
  BY <1>3 DEF RemovedThere, Shaped
<1>4. CASE Sinks(d)
  BY <1>4 DEF Sinks, Shaped
<1>. QED
  BY <1>1, <1>2, <1>3, <1>4 DEF Elsewhere

(* A step for a download keeps the fields and leaves the others alone.     *)
LEMMA WorkAlone ==
  ASSUME Shaped, NEW d \in Downloads, Work(d) \/ Elsewhere(d)
  PROVE  /\ Shaped'
         /\ \A e \in Downloads \ {d} : slot'[e] = slot[e] /\ row'[e] = row[e] /\ task'[e] = task[e]
<1>. DEFINE JobFields == {"client", "place", "status"}
            RowFields == {"status", "nzo", "why", "sure", "purged", "heard"}
            TaskFields ==
              {"pc", "client", "list", "answer", "misled", "missed", "sure", "purged", "heard"}
<1>0. /\ DOMAIN slot[d] = JobFields /\ DOMAIN row[d] = RowFields /\ DOMAIN task[d] = TaskFields
      /\ DOMAIN Idle = TaskFields
  BY DEF Shaped, Idle
<1>1. /\ DOMAIN slot' = Downloads /\ DOMAIN slot'[d] = JobFields
      /\ \A e \in Downloads \ {d} : slot'[e] = slot[e]
  BY <1>0 DEF Shaped, Work, Elsewhere, Start, Submit, SubmitFails, Record, Wake, Ask, AskFails,
     Conclude, TimeOut, Resume, Clean, Purge, PurgeFails, ToHistory, PostProcess, Sinks,
     RemovedThere, Accept
<1>. DEFINE Rows == /\ DOMAIN row' = Downloads /\ DOMAIN row'[d] = RowFields
                    /\ \A e \in Downloads \ {d} : row'[e] = row[e]
            Tasks == /\ DOMAIN task' = Downloads /\ DOMAIN task'[d] = TaskFields
                     /\ \A e \in Downloads \ {d} : task'[e] = task[e]
<1>2. ASSUME NEW n, NEW sure, Sleep(d, n, sure) PROVE Tasks
  BY <1>0, <1>2 DEF Sleep, Shaped
<1>3. ASSUME Leave(d) PROVE Tasks
  BY <1>0, <1>3 DEF Leave, Shaped
<1>4. ASSUME NEW why, Fail(d, why) PROVE Rows /\ Tasks
  BY <1>0, <1>4 DEF Fail, Failed, Shaped
<1>5. ASSUME row' = row PROVE Rows
  BY <1>0, <1>5 DEF Shaped
<1>6. CASE Start(d) \/ Submit(d) \/ Wake(d) \/ Ask(d) \/ Clean(d)
  <2>1. Rows
    BY <1>0, <1>6 DEF Start, Submit, Wake, Ask, Clean, Shaped
  <2>2. Tasks
    BY <1>0, <1>6 DEF Start, Submit, Wake, Ask, Clean, Shaped
  <2>. QED
    BY <1>1, <2>1, <2>2 DEF Shaped
<1>7. CASE SubmitFails(d) \/ Record(d) \/ AskFails(d) \/ TimeOut(d) \/ Resume(d)
  <2>1. Rows
    BY <1>0, <1>4, <1>7 DEF SubmitFails, Record, AskFails, TimeOut, Resume, Shaped
  <2>2. Tasks
    BY <1>2, <1>3, <1>4, <1>7 DEF SubmitFails, Record, AskFails, TimeOut, Resume
  <2>. QED
    BY <1>1, <2>1, <2>2 DEF Shaped
<1>8. CASE Conclude(d)
  <2>1. Rows
    BY <1>0, <1>4, <1>8 DEF Conclude, Missing, Busy, Completed, FailedThere, Shaped
  <2>2. Tasks
    BY <1>0, <1>2, <1>3, <1>4, <1>8 DEF Conclude, Missing, Failed, Busy, Completed, FailedThere, Shaped
  <2>. QED
    BY <1>1, <2>1, <2>2 DEF Shaped
<1>9. CASE Purge(d) \/ PurgeFails(d)
  <2>1. PICK reported, heard : Purged(d, reported, heard)
    BY <1>9 DEF Purge, PurgeFails
  <2>2. CASE task[d].list = Len(PurgedLists(task[d].client))
    BY <1>0, <1>1, <1>3, <2>1, <2>2 DEF Purged, Shaped
  <2>3. CASE task[d].list # Len(PurgedLists(task[d].client))
    BY <1>0, <1>1, <1>5, <2>1, <2>3 DEF Purged, Shaped
  <2>. QED
    BY <2>2, <2>3
<1>10. CASE Elsewhere(d)
  BY <1>0, <1>1, <1>10 DEF Elsewhere, ToHistory, PostProcess, Sinks, RemovedThere, Shaped
<1>. QED
  BY <1>6, <1>7, <1>8, <1>9, <1>10 DEF Work

(* Every step of the specification keeps the invariant of the jobs.        *)
LEMMA ClientStep == ClientInv /\ [ClientNext]_clientVars => ClientInv'
<1>. SUFFICES ASSUME ClientInv, [ClientNext]_clientVars PROVE ClientInv'
  OBVIOUS
<1>1. ASSUME NEW d \in Downloads, Work(d) \/ Elsewhere(d)
      PROVE  ClientInv'
  <2>1. /\ Shaped'
        /\ \A e \in Downloads \ {d} : slot'[e] = slot[e] /\ row'[e] = row[e] /\ task'[e] = task[e]
    BY <1>1, WorkAlone DEF ClientInv
  <2>2. Sound(d)'
    BY <1>1, SubmissionStep, PollStep, CleanupStep, ElsewhereStep DEF ClientInv, Work
  <2>3. ASSUME NEW e \in Downloads \ {d} PROVE Sound(e)'
    BY <2>1, Frame DEF ClientInv
  <2>. QED
    BY <2>1, <2>2, <2>3 DEF ClientInv
<1>2. CASE UNCHANGED downloads
  BY <1>2, Frame DEF downloads, ClientInv, Shaped
<1>3. CASE ServerEnds
  <2>1. slot' = slot /\ row' = row /\ task' = [d \in Downloads |-> Idle]
    BY <1>3 DEF ServerEnds
  <2>2. Shaped'
    BY <2>1 DEF ClientInv, Shaped, Idle
  <2>3. ASSUME NEW d \in Downloads PROVE Sound(d)'
    <3>1. task'[d].pc = "idle" /\ task'[d].sure = FALSE
      BY <2>1 DEF Idle
    <3>. QED
      BY <2>1, <3>1 DEF ClientInv, Sound, JobOK, TaskOK, Asked, Judged, At
  <2>. QED
    BY <2>2, <2>3 DEF ClientInv
<1>. QED
  BY <1>1, <1>2, <1>3 DEF ClientNext, clientVars

(* A poll that is not misled finds a job in neither list only if the job   *)
(* has left its client; what the row then says is so of the job, where one *)
(* of the polls that missed it was not misled; and the row names the       *)
(* client that accepted it: whatever becomes the active client, however    *)
(* requests fail and whenever the server ends (get_job_status,             *)
(* monitor_download, encode_job_id).                                       *)
THEOREM AnswersAreSound == KnownStages /\ ClientSpec => []AnswersSound
<1>. SUFFICES ASSUME KnownStages PROVE ClientSpec => []AnswersSound
  OBVIOUS
<1>1. ClientInv => AnswersSound
  BY DEF ClientInv, Sound, JobOK, TaskOK, Asked, Judged, AnswersSound, NotFoundIsHonest,
     JudgedTruly, RecordedWhereAccepted
<1>. QED
  BY <1>1, InitClient, ClientStep, PTL DEF ClientSpec

(* A purge whose two requests SABnzbd answered leaves no job behind,       *)
(* though the job may change lists between them (purge_job).               *)
THEOREM SabnzbdIsPurged == ClientSpec => []SabnzbdPurged
<1>1. ClientInv => SabnzbdPurged
  BY DEF ClientInv, Sound, Judged, SabnzbdPurged, PurgeIsWhole
<1>. QED
  BY <1>1, InitClient, ClientStep, PTL DEF ClientSpec

-----------------------------------------------------------------------------
(* The configuration                                                       *)

(* The server runs while the launcher waits for it, and one process saves. *)
ProcessesOK ==
  /\ launcher.pc \in {"down", "secrets", "read", "launch", "run", "updated"}
  /\ launcher.pc # "run" => server = NoConfig
  /\ saving.pc \in {None, "launcher", "server", "replaced"}
  /\ saving.pc = None => saving = NoSave
  /\ saving.pc = "launcher" <=> launcher.pc = "secrets"
  /\ saving.pc \in {"server", "replaced"} => server # NoConfig

(* Until the file is replaced the server has what it loaded from it.       *)
FileOK ==
  /\ saving.pc \in {"launcher", "server"} => saving.cfg \in due
  /\ saving.pc = "replaced" => file = saving.cfg
  /\ file # NoConfig => file \in due
  /\ server # NoConfig /\ saving.pc # "replaced" => server = Loaded(file, env)

(* What the pages know of the secret, and how many were generated.         *)
PagesOK ==
  /\ DOMAIN launcher = {"pc", "cfg"} /\ DOMAIN saving = {"pc", "cfg"}
  /\ env = [k \in Keys |-> Unset] \/ env \in Envs
  /\ generated \in Nat /\ saves \in Nat /\ generated <= saves /\ saves <= MaxSaves
  /\ DOMAIN page = Pages
  /\ \A p \in Pages : page[p] # NoConfig =>
       DOMAIN page[p] = Keys /\ page[p]["secret"] \in Chosen \cup {Redacted}

Secrets == Chosen \cup FromEnv

(* A secret that users rely on and the environment does not give.          *)
Lasting == used \notin {None} \cup FromEnv

(* It is in the file, or what will replace it is a user's choice; and once *)
(* the launcher has seen to it there is one.                               *)
SecretOK ==
  /\ used # Empty
  /\ file # NoConfig => file["secret"] # None
  /\ Lasting => file # NoConfig /\ file["secret"] \in {used} \cup Secrets
  /\ server # NoConfig => server["secret"] = used /\ used # None /\ DOMAIN server = Keys
  /\ saving.pc = "launcher" =>
       ~Lasting /\ saving.cfg["secret"] \notin {None, Empty} /\ env["secret"] \in {Unset, Bad}
  /\ saving.pc \in {"server", "replaced"} => saving.cfg["secret"] \in {used} \cup Chosen
  /\ launcher.pc \notin {"down", "secrets"} => Loaded(file, env)["secret"] \notin {Empty, None}

SettingsInv == ProcessesOK /\ FileOK /\ PagesOK /\ SecretOK

(* Nothing is saved at the beginning.                                      *)
LEMMA InitSettings == ClientInit => SettingsInv
BY SettingsAreBounded DEF ClientInit, NothingSaved, SettingsInv, ProcessesOK, FileOK, PagesOK,
   SecretOK, NoSave, Down, None, Empty, Lasting

(* Where the secret of a loaded configuration comes from.                  *)
LEMMA LoadedSecret ==
  ASSUME NEW f, NEW e
  PROVE  /\ DOMAIN Loaded(f, e) = Keys
         /\ e["secret"] \notin {Unset, Bad} => Loaded(f, e)["secret"] = e["secret"]
         /\ e["secret"] \in {Unset, Bad} /\ f # NoConfig => Loaded(f, e)["secret"] = f["secret"]
         /\ e["secret"] \in {Unset, Bad} /\ f = NoConfig => Loaded(f, e)["secret"] = Empty
BY DefaultsHaveNoSecret DEF Loaded, Keys

(* No secret is empty, or the mark for none.                               *)
LEMMA SecretsAreNamed ==
  /\ \A s \in Secrets : s \notin {Empty, None}
  /\ \A e \in Envs : e["secret"] \notin {Empty, None} /\ (e["secret"] # Unset => e["secret"] \in FromEnv)
  /\ \A i \in 1..MaxSaves : Tokens[i] \notin {Empty, None}
BY SecretsAreChosen DEF Secrets, FromEnv, Empty, None

(* A missing configuration has no secret.                                  *)
LEMMA NoConfigSecret == NoConfig["secret"] = None
BY DEF NoConfig, None, Keys

(* The launcher starts in another environment, and generates a secret only *)
(* where none lasts (run.py, ensure_secrets).                              *)
LEMMA BootStep ==
  ASSUME SettingsInv, Boot
  PROVE  SettingsInv'
<1>. DEFINE c == Loaded(file, env')
<1>1. /\ launcher.pc = "down" /\ saving.pc = None /\ saving = NoSave /\ server = NoConfig
      /\ env' \in Envs /\ server' = server /\ page' = page /\ used' = used /\ file' = file
  BY DEF Boot, SettingsInv, ProcessesOK, NoSave, None, Begin, Written
<1>2. CASE c["secret"] = Empty
  <2>1. /\ saves < MaxSaves /\ saves' = saves + 1 /\ generated' = generated + 1
        /\ saving' = [pc |-> "launcher", cfg |-> WithSecrets(c)]
        /\ due' = due \cup {WithSecrets(c)}
        /\ launcher' = [Down EXCEPT !.pc = "secrets"]
    BY <1>2 DEF Boot, Begin
  <2>2. WithSecrets(c)["secret"] = Tokens[generated + 1]
    BY LoadedSecret DEF WithSecrets, Keys
  <2>3. generated + 1 \in 1..MaxSaves
    BY <2>1, SettingsAreBounded DEF SettingsInv, PagesOK
  <2>4. Tokens[generated + 1] \notin {Empty, None}
    BY <2>3, SecretsAreNamed
  <2>5. env'["secret"] \in {Unset, Bad}
    BY <1>1, <1>2, LoadedSecret, SecretsAreNamed
  <2>6. ~Lasting
    <3>. SUFFICES ASSUME Lasting PROVE FALSE
      OBVIOUS
    <3>1. file["secret"] = Empty /\ file # NoConfig
      BY <1>2, <2>5, LoadedSecret DEF SettingsInv, SecretOK
    <3>2. Empty \in {used} \cup Secrets
      BY <3>1 DEF SettingsInv, SecretOK
    <3>. QED
      BY <3>2, SecretsAreNamed DEF SettingsInv, SecretOK, Empty
  <2>7. ProcessesOK' /\ FileOK'
    BY <1>1, <2>1 DEF SettingsInv, ProcessesOK, FileOK, Down, None
  <2>8. PagesOK'
    BY <1>1, <2>1, SettingsAreBounded DEF SettingsInv, PagesOK, Down
  <2>9. SecretOK'
    BY <1>1, <2>1, <2>2, <2>4, <2>5, <2>6 DEF SettingsInv, SecretOK, Lasting, Down
  <2>. QED
    BY <2>7, <2>8, <2>9 DEF SettingsInv
<1>3. CASE c["secret"] # Empty
  <2>1. /\ launcher' = [Down EXCEPT !.pc = "read"]
        /\ saving' = saving /\ generated' = generated /\ due' = due /\ saves' = saves
    BY <1>3 DEF Boot
  <2>2. c["secret"] # None
    <3>1. CASE env'["secret"] \notin {Unset, Bad}
      BY <1>1, <3>1, LoadedSecret, SecretsAreNamed
    <3>2. CASE env'["secret"] \in {Unset, Bad} /\ file # NoConfig
      BY <3>2, LoadedSecret DEF SettingsInv, SecretOK
    <3>3. CASE env'["secret"] \in {Unset, Bad} /\ file = NoConfig
      BY <1>3, <3>3, LoadedSecret
    <3>. QED
      BY <3>1, <3>2, <3>3
  <2>3. ProcessesOK' /\ FileOK'
    BY <1>1, <2>1 DEF SettingsInv, ProcessesOK, FileOK, Down, None
  <2>4. PagesOK'
    BY <1>1, <2>1 DEF SettingsInv, PagesOK, Down
  <2>5. SecretOK'
    BY <1>1, <1>3, <2>1, <2>2 DEF SettingsInv, SecretOK, Lasting, None
  <2>. QED
    BY <2>3, <2>4, <2>5 DEF SettingsInv
<1>. QED
  BY <1>2, <1>3

(* The new file takes the place of the old one (save_config).              *)
LEMMA ReplaceStep ==
  ASSUME SettingsInv, Replace
  PROVE  SettingsInv'
<1>1. /\ saving.pc \in {"launcher", "server"} /\ file' = saving.cfg
      /\ saving' = IF saving.pc = "server" THEN [saving EXCEPT !.pc = "replaced"] ELSE NoSave
      /\ launcher' = IF saving.pc = "launcher" THEN [launcher EXCEPT !.pc = "read"] ELSE launcher
      /\ UNCHANGED <<env, server, page, generated, started, used, due, boots, saves>>
  BY DEF Replace
<1>2. saving.cfg["secret"] \notin {None, Empty}
  <2>1. CASE saving.pc = "launcher"
    BY <2>1 DEF SettingsInv, SecretOK
  <2>2. CASE saving.pc = "server"
    <3>1. used \notin {None, Empty} /\ saving.cfg["secret"] \in {used} \cup Chosen
      BY <2>2 DEF SettingsInv, ProcessesOK, SecretOK
    <3>. QED
      BY <3>1, SecretsAreNamed DEF Secrets
  <2>. QED
    BY <1>1, <2>1, <2>2
<1>3. saving.cfg # NoConfig
  BY <1>2, NoConfigSecret
<1>4. Loaded(file', env')["secret"] \notin {Empty, None}
  <2>1. CASE env["secret"] \in {Unset, Bad}
    BY <1>1, <1>2, <1>3, <2>1, LoadedSecret
  <2>2. CASE env["secret"] \notin {Unset, Bad}
    <3>1. env \in Envs
      BY <2>2 DEF SettingsInv, PagesOK, Keys
    <3>. QED
      BY <1>1, <2>2, <3>1, LoadedSecret, SecretsAreNamed
  <2>. QED
    BY <2>1, <2>2
<1>5. ProcessesOK'
  BY <1>1 DEF SettingsInv, ProcessesOK, PagesOK, NoSave, None
<1>6. FileOK'
  BY <1>1, <1>5 DEF SettingsInv, ProcessesOK, FileOK, PagesOK, NoSave, None
<1>7. PagesOK'
  BY <1>1 DEF SettingsInv, PagesOK, NoSave
<1>8. SecretOK'
  <2>1. Lasting => saving.pc = "server" /\ saving.cfg["secret"] \in {used} \cup Secrets
    BY <1>1 DEF SettingsInv, SecretOK, Secrets
  <2>2. saving'.pc = "replaced" => saving.pc = "server" /\ saving'.cfg = saving.cfg
    BY <1>1 DEF SettingsInv, PagesOK, NoSave, None
  <2>3. saving'.pc \notin {"launcher", "server"}
    BY <1>1 DEF SettingsInv, PagesOK, NoSave, None
  <2>. QED
    BY <1>1, <1>2, <1>3, <1>4, <2>1, <2>2, <2>3 DEF SettingsInv, SecretOK, Lasting
<1>. QED
  BY <1>5, <1>6, <1>7, <1>8 DEF SettingsInv

(* A save that fails, the launcher's reading and starting, an update, and  *)
(* the end of the processes.                                               *)
LEMMA LauncherStep ==
  ASSUME SettingsInv, SaveFails \/ Read \/ Launch \/ Update \/ Relaunch \/ Die
  PROVE  SettingsInv'
<1>1. CASE SaveFails
  BY <1>1 DEF SaveFails, SettingsInv, ProcessesOK, FileOK, PagesOK, SecretOK, Lasting, NoSave,
     Down, None
<1>2. CASE Read
  BY <1>2 DEF Read, SettingsInv, ProcessesOK, FileOK, PagesOK, SecretOK, Lasting, history, None
<1>3. CASE Update \/ Relaunch
  BY <1>3 DEF Update, Relaunch, SettingsInv, ProcessesOK, FileOK, PagesOK, SecretOK, Lasting,
     NoSave, history, None
<1>4. CASE Die
  BY <1>4 DEF Die, SettingsInv, ProcessesOK, FileOK, PagesOK, SecretOK, Lasting, NoSave, Down,
     history, None
<1>5. CASE Launch
  <2>1. /\ launcher.pc = "launch" /\ launcher' = [launcher EXCEPT !.pc = "run"]
        /\ server' = Loaded(file, env) /\ used' = server'["secret"]
        /\ UNCHANGED <<env, file, saving, page, generated, due, boots, saves>>
    BY <1>5 DEF Launch
  <2>2. used' \notin {Empty, None}
    BY <2>1 DEF SettingsInv, SecretOK
  <2>3. saving.pc = None
    BY <2>1 DEF SettingsInv, ProcessesOK
  <2>4. ProcessesOK' /\ FileOK'
    BY <2>1, <2>3 DEF SettingsInv, ProcessesOK, FileOK, PagesOK, None
  <2>5. PagesOK'
    BY <2>1 DEF SettingsInv, PagesOK
  <2>6. Lasting' => file # NoConfig /\ file["secret"] = used'
    BY <2>1, <2>2, LoadedSecret, SecretsAreNamed DEF SettingsInv, PagesOK, Lasting, Keys
  <2>7. SecretOK'
    BY <2>1, <2>2, <2>3, <2>6, LoadedSecret DEF SettingsInv, SecretOK, PagesOK, None
  <2>. QED
    BY <2>4, <2>5, <2>7 DEF SettingsInv
<1>. QED
  BY <1>1, <1>2, <1>3, <1>4, <1>5

(* A page is shown the settings, or sends them back (get_settings,         *)
(* update_settings).                                                       *)
LEMMA PageStep ==
  ASSUME SettingsInv, \E p \in Pages : GetSettings(p) \/ UpdateSettings(p)
  PROVE  SettingsInv'
<1>1. ASSUME NEW p \in Pages, GetSettings(p)
      PROVE  SettingsInv'
  <2>1. /\ server # NoConfig
        /\ page' = [page EXCEPT ![p] = [server EXCEPT !["secret"] = Redacted]]
        /\ UNCHANGED <<env, launcher, boots, file, server, saving, generated, started, used, due, saves>>
    BY <1>1 DEF GetSettings, processes, history
  <2>2. page'[p] = [server EXCEPT !["secret"] = Redacted] /\ \A q \in Pages \ {p} : page'[q] = page[q]
    BY <2>1 DEF SettingsInv, PagesOK
  <2>3. DOMAIN page'[p] = Keys /\ page'[p]["secret"] = Redacted
    BY <2>1, <2>2 DEF SettingsInv, SecretOK, Keys
  <2>. QED
    BY <2>1, <2>2, <2>3 DEF SettingsInv, ProcessesOK, FileOK, PagesOK, SecretOK, Lasting
<1>2. ASSUME NEW p \in Pages, UpdateSettings(p)
      PROVE  SettingsInv'
  <2>1. PICK body \in Edited(p) :
          /\ server # NoConfig /\ saving = NoSave /\ page[p] # NoConfig
          /\ saves < MaxSaves /\ saves' = saves + 1
          /\ saving' = [pc |-> "server", cfg |-> Merged(body)]
          /\ due' = due \cup {Merged(body)} /\ file' = file
          /\ page' = [page EXCEPT ![p] = body]
          /\ UNCHANGED <<env, launcher, boots, server, generated, started, used>>
    BY <1>2 DEF UpdateSettings, Begin, Written, processes, history
  <2>2. DOMAIN body = Keys /\ body["secret"] \in Chosen \cup {Redacted}
    <3>1. DOMAIN page[p] = Keys /\ page[p]["secret"] \in Chosen \cup {Redacted}
      BY <2>1 DEF SettingsInv, PagesOK
    <3>2. CASE \E k \in DOMAIN Values : \E v \in Values[k] : body = [page[p] EXCEPT ![k] = v]
      BY <3>1, <3>2, ValuesOfOtherKeys
    <3>3. CASE \E s \in Chosen : body = [page[p] EXCEPT !["secret"] = s]
      BY <3>1, <3>3 DEF Keys
    <3>4. body \in Edited(p)
      BY <2>1
    <3>. DEFINE ByKey(k) == {[page[p] EXCEPT ![k] = v] : v \in Values[k]}
                BySecret == {[page[p] EXCEPT !["secret"] = s] : s \in Chosen}
    <3>5. body \in (UNION {ByKey(k) : k \in DOMAIN Values}) \cup BySecret
      BY <3>4 DEF Edited
    <3>6. (\E k \in DOMAIN Values : body \in ByKey(k)) \/ body \in BySecret
      <4>. HIDE DEF ByKey, BySecret
      <4>. QED
        BY <3>5
    <3>7. CASE \E k \in DOMAIN Values : body \in ByKey(k)
      BY <3>2, <3>7
    <3>8. CASE body \in BySecret
      BY <3>3, <3>8
    <3>. QED
      BY <3>6, <3>7, <3>8
  <2>3. Merged(body)["secret"] \in {used} \cup Chosen
    BY <2>1, <2>2 DEF Merged, SettingsInv, SecretOK, Keys
  <2>4. page'[p] = body /\ \A q \in Pages \ {p} : page'[q] = page[q]
    BY <2>1 DEF SettingsInv, PagesOK
  <2>5. saving.pc = None /\ launcher.pc = "run"
    BY <2>1 DEF SettingsInv, ProcessesOK, NoSave
  <2>6. ProcessesOK' /\ FileOK'
    BY <2>1, <2>5 DEF SettingsInv, ProcessesOK, FileOK, None
  <2>7. PagesOK'
    BY <2>1, <2>2, <2>4, SettingsAreBounded DEF SettingsInv, PagesOK
  <2>8. SecretOK'
    BY <2>1, <2>3 DEF SettingsInv, SecretOK, Lasting
  <2>. QED
    BY <2>6, <2>7, <2>8 DEF SettingsInv
<1>. QED
  BY <1>1, <1>2

(* The server loads what it has saved (reload_config).                     *)
LEMMA SavedStep ==
  ASSUME SettingsInv, SettingsSaved
  PROVE  SettingsInv'
<1>1. /\ saving.pc = "replaced" /\ server' = Loaded(file, env) /\ used' = server'["secret"]
      /\ due' = {saving.cfg} /\ saving' = NoSave
      /\ UNCHANGED <<env, launcher, boots, file, page, generated, started, saves>>
  BY DEF SettingsSaved, Reloaded, processes
<1>2. launcher.pc = "run" /\ file = saving.cfg
  BY <1>1 DEF SettingsInv, ProcessesOK, FileOK
<1>3. used' \notin {Empty, None}
  BY <1>1, <1>2 DEF SettingsInv, SecretOK
<1>4. server' # NoConfig
  BY <1>1, <1>3, NoConfigSecret
<1>5. ProcessesOK' /\ FileOK'
  BY <1>1, <1>2, <1>4 DEF SettingsInv, ProcessesOK, FileOK, NoSave, None
<1>6. PagesOK'
  BY <1>1 DEF SettingsInv, PagesOK, NoSave
<1>7. Lasting' => file # NoConfig /\ file["secret"] = used'
  BY <1>1, <1>3, LoadedSecret, SecretsAreNamed DEF SettingsInv, PagesOK, Lasting, Keys
<1>8. SecretOK'
  BY <1>1, <1>2, <1>3, <1>7, LoadedSecret DEF SettingsInv, SecretOK, NoSave, None
<1>. QED
  BY <1>5, <1>6, <1>8 DEF SettingsInv

(* Every step of the specification keeps the invariant of the settings.    *)
LEMMA SettingsStep == SettingsInv /\ [ClientNext]_clientVars => SettingsInv'
<1>. SUFFICES ASSUME SettingsInv, [ClientNext]_clientVars PROVE SettingsInv'
  OBVIOUS
<1>1. CASE UNCHANGED settings
  BY <1>1 DEF settings, SettingsInv, ProcessesOK, FileOK, PagesOK, SecretOK, Lasting
<1>2. CASE Configure
  BY <1>2, BootStep, ReplaceStep, LauncherStep, PageStep, SavedStep DEF Configure
<1>3. CASE ServerEnds
  BY <1>3, LauncherStep DEF ServerEnds
<1>. QED
  BY <1>1, <1>2, <1>3 DEF ClientNext, clientVars

(* Between saves the server has what it would load, and the file holds the *)
(* settings last saved or ones whose save began since, whole, however a    *)
(* save or a process ends (save_config, reload_config).                    *)
THEOREM SettingsAreKept == ClientSpec => []SettingsKept
<1>1. SettingsInv => SettingsKept
  BY DEF SettingsInv, FileOK, SettingsKept, MemoryIsFile, FileIsDue, NoSave, None
<1>. QED
  BY <1>1, InitSettings, SettingsStep, PTL DEF ClientSpec

(* A secret that the environment does not give changes only to one that a  *)
(* user chose or that the environment gives, in any number of saves,       *)
(* restarts and updates (update_settings, ensure_secrets).                 *)
THEOREM SecretIsKept == ClientSpec => SecretKept
<1>1. ASSUME SettingsInv, [ClientNext]_clientVars
      PROVE  [used' # used => used \in {None} \cup FromEnv \/ used' \in FromEnv \cup Chosen]_used
  <2>. SUFFICES ASSUME Lasting, used' # used
                PROVE  used' \in FromEnv \cup Chosen
    BY DEF Lasting
  <2>1. (Launch \/ SettingsSaved) /\ used' = Loaded(file, env)["secret"]
    BY <1>1 DEF ClientNext, clientVars, Work, settings, Configure, ServerEnds, Boot, Read, Launch,
       Relaunch, Replace, SaveFails, GetSettings, UpdateSettings, SettingsSaved, Reloaded, Update,
       Die, history
  <2>2. file # NoConfig /\ file["secret"] \in {used} \cup Secrets
    BY <1>1 DEF SettingsInv, SecretOK
  <2>3. CASE env["secret"] \in {Unset, Bad}
    BY <2>1, <2>2, <2>3, LoadedSecret DEF Secrets
  <2>4. CASE env["secret"] \notin {Unset, Bad}
    BY <1>1, <2>1, <2>4, LoadedSecret, SecretsAreNamed DEF SettingsInv, PagesOK, Keys
  <2>. QED
    BY <2>3, <2>4
<1>. QED
  BY <1>1, InitSettings, SettingsStep, PTL DEF ClientSpec, SecretKept
=============================================================================
