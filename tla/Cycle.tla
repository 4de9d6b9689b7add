-------------------------------- MODULE Cycle --------------------------------
(***************************************************************************)
(* The automation cycle (core/orchestrator.py), the searches it makes      *)
(* (core/searcher.py, core/search_diagnostics.py), and the requests that   *)
(* search, process, download, lock and stop beside it (api/library.py,     *)
(* api/system.py, scheduler/scheduler.py).                                 *)
(*                                                                         *)
(* A download, once it is started, is one step that replaces the film or   *)
(* fails: its inside is DownloadWorkflow and Replacement.  Cooldown and    *)
(* schedule window are switches that the clock turns; a behaviour is one    *)
(* night, whose window closes once.                                        *)
(***************************************************************************)
EXTENDS SearchHealth, Sequences

CONSTANTS
  Movies,
  Runners,       \* tasks that may call run_full_cycle
  Pulses,        \* those of them that the scheduler starts; the others are jobs
  Requests,      \* requests served beside them
  Indexers,      \* the direct indexers, enabled and configured
  Prowlarr,      \* the name of the Prowlarr source
  UseProwlarr,   \* is Prowlarr enabled and configured?
  None,
  MaxDownloads,  \* schedule.max_downloads_per_night
  FailLimit,     \* 10 consecutive failed searches in the code
  MaxSearches,   \* bound: searches in a behaviour, and so result ids
  MaxCycles,     \* bound: cycles
  MaxManual      \* bound: requests, the stop excepted

ASSUME LimitsArePositive == MaxDownloads \in Nat \ {0} /\ FailLimit \in Nat \ {0}
ASSUME BoundsAreNumbers ==
  {MaxSearches, MaxCycles, MaxManual} \subseteq Nat
ASSUME ActorsDiffer == Pulses \subseteq Runners /\ Runners \cap Requests = {} /\ None \notin Movies
                       /\ Prowlarr \notin Indexers

Actors  == Runners \cup Requests
Ids     == 1..MaxSearches
Sources == (IF UseProwlarr THEN {Prowlarr} ELSE {}) \cup Indexers
Modes   == {"automatic", "review", "dry_run"}
MovieStatus == {"pending", "failed", "downloading", "review_required", "improved"}

VARIABLES
  movie,      \* [Movies -> [status, locked, film]]: film counts replacements
  results,    \* [Ids -> search result or NoResult]: the table search_results
  failed,     \* _consecutive_failed_searches, up to FailLimit
  paused,     \* indexers paused after a rate limit
  running,    \* orchestrator._running
  stop,       \* orchestrator._stop_requested
  told,       \* the cycles that a stop was requested of (history)
  cooling,    \* is the last start of a cycle less than the interval ago?
  inWindow,   \* is the schedule window open?
  cycle,      \* [Runners -> what the cycle of the runner does]
  proc,       \* [Actors -> the movie being searched or processed]
  left,       \* [Movies -> downloads whose task was cancelled]
  mode,       \* automation.review_required, automation.dry_run
  used,       \* counts of the bounded steps
  byHand,     \* movies that a request processed or downloaded (history)
  erased      \* did a search without results empty the table's end? (history)

clock   == <<cooling, inWindow>>
flags   == <<running, stop, told>>
tables  == <<movie, results, left>>
health  == <<failed, paused>>
history == <<byHand, erased>>
vars == <<movie, results, failed, paused, running, stop, told, cooling, inWindow,
          cycle, proc, left, mode, used, byHand, erased>>

Result   == [movie : Movies, serial : 1..MaxSearches, film : Nat]
NoResult == [movie |-> None, serial |-> 0, film |-> 0]
NoCycle  == [at |-> "idle", todo |-> {}, improved |-> 0]
NoProc   == [at |-> "idle", movie |-> None, film |-> 0, id |-> 0, serial |-> 0, got |-> 0,
             best |-> "empty", verdict |-> "nothing", old |-> {}, search |-> FALSE]
NoUse    == [searches |-> 0, cycles |-> 0, manual |-> 0]

Init ==
  /\ movie = [m \in Movies |-> [status |-> "pending", locked |-> FALSE, film |-> 0]]
  /\ results = [i \in Ids |-> NoResult]
  /\ failed = 0 /\ paused = {}
  /\ running = FALSE /\ stop = FALSE /\ told = {}
  /\ cooling = FALSE /\ inWindow = TRUE
  /\ cycle = [c \in Runners |-> NoCycle]
  /\ proc = [a \in Actors |-> NoProc]
  /\ left = [m \in Movies |-> 0]
  /\ mode \in Modes
  /\ used = NoUse
  /\ byHand = {} /\ erased = FALSE

-----------------------------------------------------------------------------
(* search_for_movie                                                        *)

(* A request is over; a cycle looks at what its movie came to.             *)
Return(a, how) == [proc EXCEPT ![a] = IF a \in Runners
                                      THEN [NoProc EXCEPT !.at = how] ELSE NoProc]

(* search_for_movie: the row it compares with is read at its start.        *)
ReadMovie(a) ==
  /\ proc[a].at = "search"
  /\ used.searches < MaxSearches
  /\ used' = [used EXCEPT !.searches = @ + 1]
  /\ proc' = [proc EXCEPT ![a] =
                [@ EXCEPT !.at = "asking", !.film = movie[proc[a].movie].film,
                          !.serial = used.searches + 1]]
  /\ UNCHANGED <<tables, health, flags, clock, cycle, mode, history>>

(* Prowlarr first; the direct indexers when it is off or found nothing,    *)
(* except those paused.                                                    *)
Consulted(p) ==
  LET direct == Indexers \ paused
  IN IF UseProwlarr /\ p \in Raw THEN {Prowlarr}
     ELSE direct \cup (IF UseProwlarr THEN {Prowlarr} ELSE {})

Best(asked) ==
  LET got == {asked[s] : s \in DOMAIN asked}
  IN IF "accepted" \in got THEN "accepted"
     ELSE IF "rejected" \in got THEN "rejected" ELSE "empty"

OldResults(m) == {i \in Ids : results[i].movie = m}

(* The sources have answered; an indexer that says its quota is used up is *)
(* paused, and the movie's old results are read, to be deleted.            *)
SourcesAnswer(a) ==
  /\ proc[a].at = "asking"
  /\ \E p \in ProwlarrAnswers : \E direct \in [Indexers \cap Consulted(p) -> NewznabAnswers] :
       LET asked == [s \in Consulted(p) |-> IF s = Prowlarr THEN p ELSE direct[s]] IN
       /\ paused' = paused \cup {i \in Indexers \cap DOMAIN asked : asked[i] = "limited"}
       /\ proc' = [proc EXCEPT ![a] =
                     [@ EXCEPT !.at = "storing", !.best = Best(asked),
                               !.verdict = Verdict(asked, Sources # {}),
                               !.old = OldResults(proc[a].movie)]]
  /\ UNCHANGED <<tables, failed, flags, clock, cycle, mode, used, history>>

-----------------------------------------------------------------------------
(* SQLite gives a new row the highest id plus one, and the unit of work    *)
(* inserts before it deletes.                                              *)
HighestId == CHOOSE n \in 0..MaxSearches :
               /\ \A i \in Ids : results[i] # NoResult => i <= n
               /\ n = 0 \/ results[n] # NoResult

Inserted(rs, a) ==
  IF proc[a].best = "empty" THEN rs
  ELSE [rs EXCEPT ![HighestId + 1] =
          [movie |-> proc[a].movie, serial |-> proc[a].serial, film |-> proc[a].film]]

Deleted(rs, ids) == [i \in Ids |-> IF i \in ids THEN NoResult ELSE rs[i]]

(* Beyond the limit the count makes no difference.                         *)
Capped(n) == IF n > FailLimit THEN FailLimit ELSE n

(* search_for_movie: new results are committed in the place of the old     *)
(* ones, and the search is counted.                                        *)
StoredAfterDeletion(a) ==
  LET kept == Deleted(results, proc[a].old)
      top  == CHOOSE n \in 0..MaxSearches :
                /\ \A i \in Ids : kept[i] # NoResult => i <= n
                /\ n = 0 \/ kept[n] # NoResult
  IN IF proc[a].best = "empty" THEN kept
     ELSE [kept EXCEPT ![top + 1] =
             [movie |-> proc[a].movie, serial |-> proc[a].serial, film |-> proc[a].film]]

Stored(a) == Deleted(Inserted(results, a), proc[a].old)

StoreResults(a) ==
  /\ proc[a].at = "storing"
  /\ results' = Stored(a)
  /\ failed' = Capped(FailedCount(failed, proc[a].verdict))
  /\ erased' = (erased \/ (proc[a].best = "empty" /\ HighestId \in proc[a].old))
  /\ proc' = IF proc[a].search \/ proc[a].best # "accepted" \/ mode = "dry_run"
             THEN Return(a, "returned")
             ELSE [proc EXCEPT ![a] = [NoProc EXCEPT !.at = "chosen", !.movie = proc[a].movie,
                                                 !.id = HighestId + 1, !.serial = proc[a].serial]]
  /\ UNCHANGED <<movie, left, paused, flags, clock, cycle, mode, used, byHand>>

(* The search raises: its movie is gone, or its session fails.             *)
SearchRaises(a) ==
  /\ proc[a].at \in {"search", "asking", "storing"}
  /\ proc' = Return(a, "raised")
  /\ UNCHANGED <<tables, health, flags, clock, cycle, mode, used, history>>

-----------------------------------------------------------------------------
(* process_single_movie, after its search                                  *)

(* automation.review_required: the movie waits for approval.               *)
AskForReview(a) ==
  /\ proc[a].at = "chosen" /\ mode = "review"
  /\ movie' = [movie EXCEPT ![proc[a].movie].status = "review_required"]
  /\ proc' = Return(a, "returned")
  /\ UNCHANGED <<results, left, health, flags, clock, cycle, mode, used, history>>

TakenUnmarked(m) == movie
Taken(m) == [movie EXCEPT ![m].status = "downloading"]

(* start_download: the result is looked up by its id, and the movie is the *)
(* one the row names.                                                      *)
StartDownload(a) ==
  /\ \/ proc[a].at = "chosen" /\ mode = "automatic"
     \/ proc[a].at = "approved"
  /\ LET r == results[proc[a].id] IN
       IF r = NoResult
       THEN proc' = Return(a, "raised") /\ UNCHANGED movie
       ELSE /\ movie' = Taken(r.movie)
            /\ proc' = [proc EXCEPT ![a] = [@ EXCEPT !.at = "download", !.movie = r.movie, !.id = 0,
                                                      !.film = r.film, !.got = r.serial]]
  /\ UNCHANGED <<results, left, health, flags, clock, cycle, mode, used, history>>

(* The workflow of a download ends with the film replaced, or not.         *)
Outcome(m, replaced) ==
  [movie EXCEPT ![m] = [@ EXCEPT !.status = IF replaced THEN "improved" ELSE "failed",
                                 !.film = movie[m].film + IF replaced THEN 1 ELSE 0]]

DownloadEnds(a, replaced) ==
  /\ proc[a].at = "download"
  /\ movie' = Outcome(proc[a].movie, replaced)
  /\ proc' = Return(a, "returned")
  /\ cycle' = IF a \in Runners /\ replaced
              THEN [cycle EXCEPT ![a].improved = @ + 1] ELSE cycle
  /\ UNCHANGED <<results, left, health, flags, clock, mode, used, history>>

(* A download whose task was cancelled is taken up by the hourly recovery. *)
RecoveredEnds(m, replaced) ==
  /\ left[m] > 0
  /\ left' = [left EXCEPT ![m] = @ - 1]
  /\ movie' = Outcome(m, replaced)
  /\ UNCHANGED <<results, health, flags, clock, cycle, proc, mode, used, history>>

-----------------------------------------------------------------------------
(* run_full_cycle                                                          *)

(* The lock, the flag and the cooldown are looked at and set without an    *)
(* await between them; a stop requested earlier is forgotten.              *)
StartCycleForgets(c) ==
  /\ cycle[c].at = "idle" /\ used.cycles < MaxCycles
  /\ c \in Pulses => inWindow
  /\ stop' = FALSE /\ UNCHANGED <<told, tables, health, inWindow, proc, mode, history>>
  /\ IF running \/ cooling
     THEN UNCHANGED <<running, cooling, cycle, used>>
     ELSE /\ running' = TRUE /\ cooling' = TRUE
          /\ cycle' = [cycle EXCEPT ![c] = [NoCycle EXCEPT !.at = "scan"]]
          /\ used' = [used EXCEPT !.cycles = @ + 1]

StartCycle(c) ==
  /\ cycle[c].at = "idle" /\ used.cycles < MaxCycles
  /\ c \in Pulses => inWindow
  /\ ~running /\ ~cooling
  /\ running' = TRUE /\ stop' = FALSE /\ cooling' = TRUE
  /\ cycle' = [cycle EXCEPT ![c] = [NoCycle EXCEPT !.at = "scan"]]
  /\ used' = [used EXCEPT !.cycles = @ + 1]
  /\ UNCHANGED <<told, tables, health, inWindow, proc, mode, history>>

ListedWithDownloading ==
  {m \in Movies : movie[m].status \in {"pending", "failed", "downloading"} /\ ~movie[m].locked}
Listed == {m \in Movies : movie[m].status \in {"pending", "failed"} /\ ~movie[m].locked}

(* The library has been scanned, and the movies to process are listed.     *)
ListMovies(c) ==
  /\ cycle[c].at = "scan"
  /\ cycle' = [cycle EXCEPT ![c] = [@ EXCEPT !.at = "loop", !.todo = Listed]]
  /\ UNCHANGED <<tables, health, flags, clock, proc, mode, used, history>>

AtHead(c) == cycle[c].at = "loop" /\ proc[c].at \in {"idle", "returned", "raised"}

(* raise_if_degraded is passed over when the movie before raised.          *)
Degraded(c) == proc[c].at # "raised" /\ Blocking(failed, FailLimit)

MayContinue(c) ==
  /\ ~Degraded(c) /\ ~stop /\ inWindow
  /\ cycle[c].improved < MaxDownloads

(* The next movie is taken, and its row is read again: what the list says  *)
(* of it may be old.                                                       *)
Protected(m) == movie[m].locked

TakeMovie(c) ==
  /\ AtHead(c) /\ MayContinue(c) /\ Sources # {}
  /\ \E m \in cycle[c].todo :
       /\ cycle' = [cycle EXCEPT ![c].todo = @ \ {m}]
       /\ proc' = [proc EXCEPT ![c] =
                     IF Protected(m) THEN [NoProc EXCEPT !.at = "returned"]
                     ELSE [NoProc EXCEPT !.at = "search", !.movie = m]]
  /\ UNCHANGED <<tables, health, flags, clock, mode, used, history>>

FinishStillRunning(c) ==
  /\ cycle' = [cycle EXCEPT ![c] = NoCycle]
  /\ proc' = [proc EXCEPT ![c] = NoProc]
  /\ UNCHANGED running /\ stop' = FALSE /\ told' = {}
Finish(c) ==
  /\ cycle' = [cycle EXCEPT ![c] = NoCycle]
  /\ proc' = [proc EXCEPT ![c] = NoProc]
  /\ running' = FALSE /\ stop' = FALSE /\ told' = {}

(* The cycle is over, or its scan raised.                                  *)
EndCycle(c) ==
  /\ \/ cycle[c].at = "scan"
     \/ AtHead(c) /\ (~MayContinue(c) \/ Sources = {} \/ cycle[c].todo = {})
  /\ Finish(c)
  /\ UNCHANGED <<tables, health, clock, mode, used, history>>

(* The job of the cycle is cancelled, wherever it waits; a download it had *)
(* started goes on without it.                                             *)
CancelCycle(c) ==
  /\ cycle[c].at # "idle" /\ c \notin Pulses
  /\ left' = IF proc[c].at = "download"
             THEN [left EXCEPT ![proc[c].movie] = @ + 1] ELSE left
  /\ Finish(c)
  /\ UNCHANGED <<movie, results, health, clock, mode, used, history>>

-----------------------------------------------------------------------------
(* Requests                                                                *)
Free(r) == proc[r] = NoProc /\ used.manual < MaxManual

RequestSearch(r, m) ==
  /\ Free(r)
  /\ proc' = [proc EXCEPT ![r] = [NoProc EXCEPT !.at = "search", !.movie = m, !.search = TRUE]]
  /\ used' = [used EXCEPT !.manual = @ + 1]
  /\ UNCHANGED <<tables, health, flags, clock, cycle, mode, history>>

RequestProcess(r, m) ==
  /\ Free(r) /\ ~Protected(m)
  /\ proc' = [proc EXCEPT ![r] = [NoProc EXCEPT !.at = "search", !.movie = m]]
  /\ used' = [used EXCEPT !.manual = @ + 1]
  /\ byHand' = byHand \cup {m}
  /\ UNCHANGED <<tables, health, flags, clock, cycle, mode, erased>>

(* download_result: the result is looked up, and its id handed on.         *)
RequestDownload(r, i) ==
  /\ Free(r) /\ mode # "dry_run" /\ results[i] # NoResult
  /\ proc' = [proc EXCEPT ![r] =
                [NoProc EXCEPT !.at = "approved", !.movie = results[i].movie,
                               !.id = i, !.serial = results[i].serial]]
  /\ used' = [used EXCEPT !.manual = @ + 1]
  /\ byHand' = byHand \cup {results[i].movie}
  /\ UNCHANGED <<tables, health, flags, clock, cycle, mode, erased>>

(* lock_movie, unlock_movie                                                *)
ToggleLock(m) ==
  /\ used.manual < MaxManual
  /\ movie' = [movie EXCEPT ![m].locked = ~@]
  /\ used' = [used EXCEPT !.manual = @ + 1]
  /\ UNCHANGED <<results, left, health, flags, clock, cycle, proc, mode, history>>

(* stop_cycle                                                              *)
RequestStop ==
  /\ running /\ ~stop
  /\ stop' = TRUE /\ told' = {c \in Runners : cycle[c].at # "idle"}
  /\ UNCHANGED <<tables, health, running, clock, cycle, proc, mode, used, history>>

-----------------------------------------------------------------------------
(* The clock                                                               *)
CooldownEnds ==
  /\ cooling /\ cooling' = FALSE /\ used.cycles < MaxCycles
  /\ UNCHANGED <<tables, health, flags, inWindow, cycle, proc, mode, used, history>>

WindowCloses ==
  /\ inWindow /\ inWindow' = FALSE
  /\ UNCHANGED <<tables, health, flags, cooling, cycle, proc, mode, used, history>>

PauseEnds(i) ==
  /\ i \in paused /\ paused' = paused \ {i}
  /\ UNCHANGED <<tables, failed, flags, clock, cycle, proc, mode, used, history>>

-----------------------------------------------------------------------------
ProcStep(a) ==
  \/ ReadMovie(a) \/ SourcesAnswer(a) \/ StoreResults(a)
  \/ AskForReview(a) \/ StartDownload(a)
  \/ \E replaced \in BOOLEAN : DownloadEnds(a, replaced)

CycleStep(c) == ListMovies(c) \/ TakeMovie(c) \/ EndCycle(c)

Next ==
  \/ \E a \in Actors : ProcStep(a) \/ SearchRaises(a)
  \/ \E c \in Runners : CycleStep(c) \/ StartCycle(c) \/ CancelCycle(c)
  \/ \E r \in Requests :
       \/ \E m \in Movies : RequestSearch(r, m) \/ RequestProcess(r, m)
       \/ \E i \in Ids : RequestDownload(r, i)
  \/ \E m \in Movies : ToggleLock(m)
  \/ \E m \in Movies, replaced \in BOOLEAN : RecoveredEnds(m, replaced)
  \/ \E i \in Indexers : PauseEnds(i)
  \/ RequestStop \/ CooldownEnds \/ WindowCloses

Spec == Init /\ [][Next]_vars

-----------------------------------------------------------------------------
Places == {"idle", "search", "asking", "storing", "chosen", "approved",
           "download", "returned", "raised"}

TypeOK ==
  /\ movie \in [Movies -> [status : MovieStatus, locked : BOOLEAN, film : Nat]]
  /\ results \in [Ids -> Result \cup {NoResult}]
  /\ failed \in 0..FailLimit
  /\ paused \subseteq Indexers
  /\ {running, stop, cooling, inWindow, erased} \subseteq BOOLEAN
  /\ \A c \in Runners :
       /\ cycle[c].at \in {"idle", "scan", "loop"}
       /\ cycle[c].todo \subseteq Movies
       /\ cycle[c].improved \in Nat
  /\ \A a \in Actors :
       /\ proc[a].at \in Places
       /\ proc[a].movie \in Movies \cup {None}
       /\ proc[a].at \in {"chosen", "approved"} => proc[a].id \in Ids
       /\ proc[a].old \subseteq Ids
  /\ left \in [Movies -> Nat]
  /\ byHand \subseteq Movies /\ told \subseteq Runners

Downloading(a, m) == proc[a].at = "download" /\ proc[a].movie = m

(* The flag is up exactly while a cycle runs, and one cycle runs at most,  *)
(* however it ends: by its own limits, by an exception of the scan, by the *)
(* cancellation of its job at any await (run_full_cycle).                  *)
RunningIsTrue ==
  LET busy == {c \in Runners : cycle[c].at # "idle"}
  IN Cardinality(busy) = IF running THEN 1 ELSE 0

(* A cycle replaces no more films than its limit (run_full_cycle).         *)
CycleWithinLimit == \A c \in Runners : cycle[c].improved <= MaxDownloads

(* One cycle at a time, whose flag tells of it, within its limit of        *)
(* downloads, with every field of the types the columns have               *)
(* (run_full_cycle, process_single_movie).                                 *)
CyclesSound == TypeOK /\ RunningIsTrue /\ CycleWithinLimit

(* A movie that nobody processed or downloaded by hand has one download in *)
(* progress at most, over all cycles, and those whose job was cancelled    *)
(* (run_full_cycle, process_single_movie).                                 *)
OneDownloadPerMovie ==
  \A m \in Movies \ byHand :
    ~erased => Cardinality({a \in Actors : Downloading(a, m)}) + left[m] <= 1

(* A release that is being downloaded was compared with the film that is   *)
(* installed now, unless the movie was also processed by hand              *)
(* (search_for_movie, start_download).                                     *)
ComparedWithInstalled ==
  \A a \in Actors : \A m \in Movies \ byHand :
    Downloading(a, m) /\ ~erased => proc[a].film = movie[m].film

(* The release that is downloaded is the one that was chosen, though only  *)
(* its id was handed on, unless a search that found nothing emptied the    *)
(* end of the table, whose ids SQLite gives out again (start_download).    *)
ChosenIsStarted ==
  \A a \in Actors : proc[a].at = "download" /\ ~erased => proc[a].got = proc[a].serial

Takes(c) == cycle[c].at = "loop" /\ cycle'[c].at = "loop" /\ cycle'[c].todo # cycle[c].todo

(* A stop reaches the cycle that was running when it was requested, which  *)
(* takes no movie from then on, and no other cycle: starts that are        *)
(* refused meanwhile do not lose it, and it does not outlive its cycle,    *)
(* however that ends (request_stop, run_full_cycle).                       *)
StopsHeeded ==
  /\ [](\A c \in Runners : cycle[c].at # "idle" => (stop <=> c \in told))
  /\ [][\A c \in Runners : Takes(c) => c \notin told]_vars
=============================================================================
