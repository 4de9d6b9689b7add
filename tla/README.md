# Slimarr in TLA+

Slimarr replaces the movie files of a Plex library by smaller releases. A
single asyncio process (FastAPI, APScheduler) searches indexers, hands NZBs to
SABnzbd or NZBGet, waits for the download, moves the old file aside, puts the new
one in its place, and keeps its state in SQLite. What can go badly wrong is a
film that is lost, a limit that is exceeded, a release that is chosen on stale
grounds, and work that is done twice or never ends. This project models the parts
of the backend where that is decided, checks them with TLC, and proves the central
invariants with TLAPS.

## 1. The system

All coroutines run on one event loop: what lies between two `await`s is atomic,
everything else interleaves. Blocking file operations run in threads, which a
cancelled task leaves running. The database is committed step by step; a commit
is durable, and nothing else survives a restart except the files and what the
download client and Plex keep. A session that reads a row and commits it later
writes only the columns it changed, whatever happened to the row meanwhile.

| Part (source under `src/backend`) | State | Operations | What is hard | What makes it correct |
|---|---|---|---|---|
| replacer (`core/replacer.py`) | the library file, its backup and recycled copy, `ReplacementRecoveryRecord`, rows of movie and download | `replace_file` | crash between two moves; failure of a move, of the restore after it, of a commit; two runs of one movie | the film is always somewhere, and somewhere a record leads to; an improved movie names an installed film |
| storage, effects (`core/storage.py`) | files, failure cooldown | `move_path`, `remove_path` | interrupted copies, a cooldown that refuses the repair | failure leaves what the caller assumes |
| storage, policy (`core/storage.py`) | path locks, policy guard, active operations, reservations, history in memory and in `storage_operation_log` | `_storage_operation_lock`, `_nas_policy_scope` | check, query and increment are apart; cancellation while a thread works; restart | exclusive paths, limits kept, everything returned, no deadlock |
| download client adapter (`core/downloader.py`, `integrations/sabnzbd.py`, `nzbget.py`, `download_client.py`) | download rows, client queue and history | `start_download`, `monitor_download`, `cleanup_failed_download` | lost submissions, polling errors, timeouts; jobs that change lists between two requests, errors that look like empty lists, the active client that changes | a download ends in one final status, which is its job's; a job is looked for where it was submitted |
| download workflow (`core/download_workflow.py`) | `_active_workflows`, movie status | start, resume, expire, finish with retries | recovery beside a workflow whose ladder has gone on to another download, restart between steps | a movie never stuck, a known company of workflows, an improvement that stands |
| retry ladder (`core/retry_ladder.py`) | `retry_count`, attempted titles | `retry_failed_download`, `get_next_candidate` | counter and child row are committed apart | bounded retries, no release twice |
| blacklist (`core/blacklist.py`) | `download_blacklist` | add, look up, expire, remove | keys made of what the maker of an entry knew | what is listed is not retried |
| job runtime (`core/jobs.py`, `api/jobs.py`) | job rows, running tasks | enqueue, run, cancel, retry, recover, purge | singleton check before insert, cancel against completion, a session that fails around the work, restart with queued jobs | one active job of a singleton kind, a row that tells what the work did |
| orchestrator (`core/orchestrator.py`) | cycle lock, stop flag, results of the night | `run_full_cycle`, `process_single_movie` | requests beside a cycle, a cycle that is cancelled, a stop before the reset | one cycle, its limits, the choice that was made is carried out |
| searcher, search diagnostics (`core/searcher.py`, `core/search_diagnostics.py`) | search results, counter of failed searches, paused indexers | search, degrade, store results | a row read before minutes of searching, ids that SQLite gives out again | an outage is told from an empty answer |
| schedule window (`core/schedule_window.py`) | none | `is_within_schedule_window` | windows over midnight and the end of the week | the moments of the nights that begin on allowed days |
| comparer, media health, parser ranks (`core/comparer.py`, `core/media_health.py`, `core/parser.py`) | none | accept, score | chains of comparisons with rows that may be wrong | no film returns, none loses resolution or grows without a reason |
| exclusions (`core/exclusions.py`) | none | leave a movie alone | | an excluded movie is not searched |
| scanner, media probe (`core/scanner.py`, `core/media_probe.py`) | movie rows | library scan | a listing older than a replacement, variables that outlive their movie | the row names a file that is there, with its own streams |
| duplicate cleanup (`core/cleanup.py`) | library files, bin | recycle duplicates, preview | files that change between collection and removal, a name in the bin that is looked at before a wait, and written by replacements without a look | the best copy is kept, another movie's copy is not overwritten |
| orphan scanner (`core/orphan_scanner.py`) | `orphaned_downloads` beside the client's history and the download rows | scan, clean one, clean the old | a submission not yet committed looks orphaned; purge and removal are apart | only orphans are removed, and no folder is lost sight of |
| configuration (`config.py`, `api/settings.py`, `run.py`) | the file, the environment, copies of both in launcher and server, pages | load, save, redact, restart after an update | a save that fails or dies, a page that knows less than it saves, a launcher that outlives the server | memory agrees with file and environment, what was saved is kept, the secret stays |
| scheduler (`scheduler/scheduler.py`), HTTP API (`api/`) | none of their own | start the operations above | | |
| storage telemetry, database, authentication, startup checks, audit, image cache, realtime, integrations, frontend | see section 7 | | | |

Interactions: the scheduler and the HTTP API start cycles, jobs and scans; a cycle
searches, compares and calls `start_download`, then starts a workflow; the
workflow monitors the download and calls `replace_file`, on failure the retry
ladder; `replace_file` moves files only through `move_path` and `remove_path`;
these ask the policy. Scanner, cleanup and orphan scanner read Plex and the client and
change the same rows and files. They share the database, the file system, the
download client, and the module-level variables of `storage.py`, `orchestrator.py`
and `search_diagnostics.py`.

## 2. Modules

| Module | Models | Kind |
|---|---|---|
| `Storage` | effect of one storage call on the files of a movie | operators over `fs`, `cooldown`, `faults` |
| `Replacement` | `replace_file` over `Storage`, several downloads of one movie, crashes, purging of the bin | specification |
| `StoragePolicy` | locks, guard, cooldown, limits and ledgers around a storage call | specification |
| `DownloadWorkflow` | downloads of one movie: submission, monitor, retry ladder, recovery, manual retry | specification |
| `JobLifecycle` | what a row of the job list promises its reader | abstract specification |
| `Jobs` | job rows, their tasks, and the requests that enqueue, cancel, retry; implements `JobLifecycle` | specification |
| `SearchHealth` | what an answer of an indexer is, and the counter that degrades the pipeline | operators |
| `Cycle` | cycles, the searches they make, and requests beside them; extends `SearchHealth` | specification |
| `Library` | library scan, replacement, duplicate cleanup and preview beside Plex | specification |
| `Orphans` | daily orphan scan, cleanups, submissions beside a shared client | specification |
| `Comparer`, `ScheduleWindow`, `Blacklist` | the rules of a comparison, the window, the table of failed releases | operators |
| `Upgrades` | one movie night after night; extends the three above | specification |
| `Settings` | configuration file, environment, launcher, server and pages | operators and actions |
| `DownloadClient` | a download and its job in SABnzbd or NZBGet, request by request, in a server that saves settings and ends; extends `Settings` | specification |
| `...Proofs` | inductive invariants and theorems of the module they are named for; `ClientProofs` of the modules around the download client: `Orphans`, `DownloadClient` and `Settings` | proofs |
| `MC...` | instances for TLC | model checking |

Three levels of the same system: `Storage`, `StoragePolicy` and `Replacement` open one
replacement; `DownloadWorkflow` has it as one step and opens one movie's downloads;
`Cycle`, `Library` and `Upgrades` have a download as one step and open a night, the
library, and many nights. What is one step at one level is opened at the one below it.

### Storage and Replacement

`fs` maps a path to a complete film, to a truncated file or to nothing. A path is
a triple of a place (library, backup, bin, staging folder), an extension or a
download, and a number. `MoveOk`, `MoveFails`, `RemoveOk`, `RemoveFails` are the
outcomes of the two storage calls: a move within a device renames and cannot
be half done; a copy between local devices that fails leaves a truncated
target; a copy to or from a NAS goes through a temporary file and does not. A
failed NAS operation starts the cooldown, during which every NAS operation is
refused.

`Replacement` has one action per stretch of `replace_file` between two awaits
that matter: `Load`, `Preflight` (the record), `MarkRecycle` and `Recycle`, or
`MarkBackup` and `Backup`, `CheckDir`/`DirMissing`/`NoSpace`, `Place`,
`Restore`/`NoRestore`, `SettleFailure`, `FailDownload`, `DropBackup`, `DropOld`,
`Commit`, `MarkCompleted`, `Cleanup`, and `GiveUp` in the workflow. `Load` has a way out of its own: when
`automation.dry_run` was set after the download was sent, nothing is replaced, and the
workflow takes that for a failure. `job[d]` holds the
local variables, `rec`, `movie` and `dl` the rows. `Interrupt` is the end of a run
at any point: a crash, a cancelled task or an exception nobody catches. `Purge`
empties the bin.

Abstractions: the two commits that mark a record before and after one move are
folded into the one before; the bounded retries of a move are folded into its
outcome; a commit either happens or the run dies; a thread's move is finished
when the run that awaits it is interrupted; the cooldown may end at any time; the
file system lets a rename replace its target (POSIX); one movie, because two
movies share no path.

### StoragePolicy

Each call of `move_path` or `remove_path` is a process with a `pc`: `lock`
(taking the locks of its paths in sorted order), `enter` (the policy scope),
`query` and `decide` (the policy guard is held over the database query), `run` (the
thread), `cool` (the failure handler waits for the guard), `leave` (the
`finally`), `persist` (the row), and `done`. `owner` is `_operation_locks`,
`guard` is `_nas_policy_guard`, `active`, `resWrite`, `resRepl`
are the module-level counters, `memory` is `_operation_history`, `durable` the table and
`cache` the last usage that was read. `threads` is the set of calls whose
thread is at the disk: it differs from the calls in `run` once a task has been
cancelled. `Cancel...` are the four places where a cancellation arrives;
`Restart` clears everything but the table and the files.

Abstractions: one 24-hour window, in which the history of 250 entries is not
full; what a call does to files is `Storage`'s subject; an asyncio lock is given
to any waiter, which includes first come, first served.

### DownloadWorkflow

`row` holds the downloads of one movie (status, release, `retry_count`, whether it
is older than `max_active_download_hours`, whether it has a folder), `movie` the
movie's status, `active` is `_active_workflows`, `task[t]` a coroutine with its local
variables: `entry` is the id it put into `_active_workflows`, `cur` the download of
the loop in `_finish_download_with_retries`, `child` a download that its ladder has
inserted, `seen` the status the monitor loaded before it asked the client. A `pc`
names the await at which the coroutine stands: `submit`, `enlist` (`start_download`), `enter`,
`status`, `poll`, `ask` (`monitor_download`), `replace`, `giveup`, `cleanup`, `check`, `choose`,
`count`, `insert`, `carry` (`retry_failed_download`, which calls `start_download` again).
Recovery is two steps, as in the code: `Expire`, which fails in one commit what has waited
too long, and `Resume`, which makes a task for each download just expired or still
downloading whose id is not in `_active_workflows`. Between them stands an element of
`sweeps`, the downloads that this recovery expired. The tasks of `Resume` stand at `enter` and look at
`_active_workflows` again when they first run. `ManualRetry` is the retry of the queue's API,
which looks at nothing but the status of its download; `Raise` is an exception in a task,
`RecoveryRaises` one in a recovery, `Restart` the end of the process.

So a second workflow may come to a download: `_active_workflows` holds the id a workflow
began with, and recovery takes a download that a retry ladder went on to for an abandoned
one. The module has no guard against it. Its properties say what holds all the same, and
two histories what they except: `lost` are the downloads that were retried without a
counter of their own (their submission failed, or their task died, before it was
written, or they failed and were retried in between), `rival` tells whether another workflow, download or recovery of the movie was
under way when the last replacement succeeded. `depth` and `known` in a row are history too: how many retries led to
the download, and which downloads its ladder found when it chose. `LadderSound` says that
a ladder tries no release that the movie had tried when it chose (`NoReleaseTwice`), and that
`depth` is at most `MaxRetries` for each counter that was lost and once more
(`ChainsBounded`), so no counter but a lost one lengthens a chain.

Abstractions: the client may answer anything at any poll; the blacklist is an
arbitrary set at each choice, since entries expire and are edited; the search
results of the movie are accepted or not for its whole life; `replace_file` is one
step that succeeds or fails, or in a dry run leaves the download as it is, and succeeds only while the folder is there;
nothing ages while it is being submitted, which takes seconds against a
day. `Room` keeps the number of downloads within `MaxRows`, `MaxSweeps` bounds the recoveries at work
at a time.

### Jobs and JobLifecycle

`rows` is the table `job_records`; `task[j]` the coroutine `_run_job` of a job and the
place where it waits: `new` (created), `loaded` (row read, "running" not yet
committed), `working`, `worked` and `finishing` (session opened, row read for the
end), `saved` (committed), `raised` and `failing` (the handler of an exception),
`stopped` and `cancelling` (that of a cancellation). `client[c]` is a request between its
reads and its commits. Reading a row and committing it are two actions: `LoadJob`
and `BeginWork`, `LoadAgain` and `CommitResult`, `CommitFailure`, `CommitCancelled`;
`EnqueueLooks` or `RetryLooks`, `InsertJob`, `StartJob`; `CancelLooks`, `MarkCancel`,
`InterruptTask`. `SessionFails` is a session of a task that cannot read or commit: before or after the
work it takes the task to the handler of exceptions, in a handler it ends the task with nothing
written; `RequestFails` is the commit of a request. `Restart` is the end of the process with
`recover_stale_jobs`, which may fail as well, and then the server goes on; `PurgeJob` is the
removal of old rows. The history variables say where the code gives something up:
`excused` (a kind whose exclusion was broken by two overlapping requests, a
retry, or an early "cancelled"), `late` (marked for cancellation after its end
was written), `unwritten` (a handler that ended before its commit), `broken` (a session
failed before or after the work), `lost` (rows left active by a restart: the queued ones, or all
when recovery failed). Each property names the ones it excepts.

`JobLifecycle` is what a reader of the list may rely on: a work begins once, an end is
reported only if it happened, "cancelled" only if somebody asked. "failed" may also tell of the
runtime's own trouble with the row (`Break`), of work that never began or that has finished. `Jobs` implements
it (`ImplementsLifecycle`) with the mapping rows to `report`, `did` to `work`, cancelled
rows to `asked`, `broken` to `broken`.

### SearchHealth and Cycle

`Cycle` has the actions of `search_for_movie` (`ReadMovie`, `SourcesAnswer`, `StoreResults`,
`SearchRaises`), of `process_single_movie` (`AskForReview`, `StartDownload`, `DownloadEnds`), of
`run_full_cycle` (`StartCycle`, `ListMovies`, `TakeMovie`, `EndCycle`, `CancelCycle`), and of the requests
beside them (`RequestSearch`, `RequestProcess`, `RequestDownload`, `ToggleLock`, `RequestStop`). `running`,
`stop`, `failed`, `paused` are the module-level variables of the orchestrator and of
the search diagnostics; `proc[a]` holds the local variables of the search or
download of a task: `film` the version of the row it read, `old` the results it
will delete, `id` and `serial` the result it chose. `left` counts downloads whose task a
cancellation took away; recovery ends them (`RecoveredEnds`). What a source answers
is an arbitrary element of `Wire`, as `SearchHealth` reads it.

Abstractions: a download is one step between its start and its end
(`DownloadWorkflow` opens it), a score only says whether a release is accepted
(`Upgrades` opens it), one behaviour is a night whose window closes once. The
histories: `byHand` are the movies a request processed or downloaded, `erased` tells
that a search which found nothing deleted the row with the highest id, which
SQLite then gives out again; `told` are the cycles that were running when a stop was requested. The flag
`stop` is one variable for all cycles; `told` is what it means.

### Library

`files` and `bin` are the disk, `plex` the listing of the server, `row` the table `movies`.
`scan[s]` is a call of `scan_library`: `PlexLists` takes the listing, and each entry is read
(`ReadExisting`, `ReadFails`) and written (`WriteRow`, `WriteFails`) in two steps. `swap[m]` is a
replacement, in the steps the others can see: `PutAway`, `Place`, `PutBack` or `GiveUp`, and
`CommitReplacement`. It puts the film beside its place or into the bin (`kept`), and there under
the name that its folder gives it (`RecycledName`), without asking whether that name is free; from the bin
nothing is put back. `clean` is `scan_and_clean_duplicates` or its preview: `CollectParts` checks what is
there, `ChooseName` looks whether the plain name is free in the bin and otherwise takes the one with the rating key,
`RemoveInferior` moves the part there later, when the move has its locks. `FileVanishes` is a user.
`Shared` are the names in the bin that copies of two movies can be given.

Plex (external) knows sizes at once (`PlexRefreshes`) and streams only after it has
analysed the file (`PlexAnalyses`). Abstractions: film records have a resolution, a
codec and a size; all files of the instance have the same name, so that
they meet in the bin; one cleanup runs at a time; the probe of a file is in `Upgrades`.

### Orphans

`job`, `age`, `path`, `folder` are the client's: whether it tells a storage path and whether there is a folder are
two things, and a cleanup can remove a folder only if it was told (`Told`); `id[j]` says how a row of `downloads` names the job
(`submitting`: accepted by the client in `StartDownload` and not committed; `encoded`, or `raw` in rows
of old versions; `lost`: the row is gone; `foreign`: another program's). The daily task is
`StartScan`, `QueryTracked`, `CommitOrphans` and the automatic cleanup (`StartCleanup`, `RemoveOld`,
`EndCleanup`); a request is `PurgeJob`, `RemoveFolder`, `DeleteRow` or `Schedule`, each committed
apart. Ages are what the code tells apart.

### Comparer, ScheduleWindow, Blacklist and Upgrades

The first three are operators: every rule and score of `compare_release`, the predicate of the
window, and the table of failed releases with the keys it is looked up by. `Upgrades`
uses them on one movie, night after night: a search offers some releases, the
best accepted one is downloaded or the ladder takes another, the film changes, and
the row becomes what a probe or Plex tells of it, which may be wrong. The
operator locks the movie, prefers a title, changes the policy and edits the
blacklist between any two steps; entries expire. `had` is every film the movie had,
`excuses` whether a release was chosen by a row that was wrong (`misread`) or under a
policy that lets a film grow (`growth`). Searches, replacements and scans run one at a
time; how they interleave is the subject of the other modules.

### DownloadClient

`DownloadWorkflow` leaves the answers of the client arbitrary. `DownloadClient` opens them for one
download: `slot[d]` is the job in its client, in queue or history with a status, `row[d]` the row with
the client that `nzo_id` names, `task[d]` the coroutine. Each request is a step: `Submit`, `Ask` for each
of the `Lists` that `get_job_status` of both adapters reads, `Purge` for each of the lists that
`purge_job` deletes from; each may fail, and a submission may fail after the client
has accepted it. Between requests the client works on (`ToHistory`, `PostProcess`), its user removes
jobs, a page saves another active client (`Active` is a setting of the server), the server
ends with its coroutines (`ServerEnds`: an update, or the end of the processes) and `Resume` takes
the download up after the next start. The statuses are those the code tells apart: the stages of post-processing
that it knows, and the three ends (`Ends`). The folder of a failed download is in `Orphans`.

The code looks past a job that is there in three ways, and the model has them all. A row of an older version
names no client (`Raw`, in the first states), and `decode_job_id` then takes the one active at that moment
(`Decoded`). An answer with an error in its body is read as an empty list (`Ask`); the deletion NZBGet refuses
passes for done (`PurgeFails`). And a job that has ended sinks in SABnzbd's history until it is not among
the newest 2000 (`Sinks`, `past`). A poll to which one of these happened is `misled` (history), and `sure` tells
that one of the polls in a row that missed the job was not.

### Settings

`file` is `config.yaml`, `launcher.cfg` what `run.py` has read and keeps, `server` the `_config` of the server's
process. `Loaded` puts the environment over file and defaults. A save is `Begin` (the
temporary file), `Replace` and, in the server, `SettingsSaved` (reload and answer), or `SaveFails`; the
server awaits nothing in between, so no request comes in, but the processes may
end (`Die`). `page` is what a page has loaded, with the secret redacted, and sends back whole
with one key edited. `due` is what the file may hold: what was answered as saved last and
what was begun since. The tray of Windows, which runs the server in its own process,
is not modelled. `Settings` declares the state and the actions (`Configure`); `DownloadClient` adds
the work of the server, which stands still while settings are saved.

## 3. Runs

TLC finishes each run. Deadlock checking is off where everything may
have ended, which is where the system stops.

| Run | What it shows | Instance and why it is enough |
|---|---|---|
| `replacement_local` | a film is never out of reach of file or record; an improved movie names an installed film; a run without fault leaves one file; an active record leads to a film that one fault has stranded; every run ends | local disks, three downloads of two extensions, two faults, one death, bin on and off: one run can meet what an earlier one left, and the repair of a failure can fail |
| `replacement_nas` | the only thing that destroys the last copy is emptying the bin | NAS on another device, the bin is emptied at any moment, one fault, one death, cooldown |
| `policy_locks` | exclusive paths, the limit, everything returned, no deadlock | five calls whose paths {1,3}, {2,3}, {1,2}, {2}, {3} overlap in a cycle, one failure |
| `policy_disturbed` | what survives cancellation and restart; the daily number and the daily volume are kept by calls in flight | two replacements race for the one of the day, a backup whose volume does not fit beside the first of them (2 and 1 against 3, of 4) races for the volume, a fourth call moves the file of the first; one cancellation, one restart, one fault: each limit binds where the other does not |
| `workflow_ladder` | bounded ladders without a release twice, a settled movie, no improvement reported as failure, with recovery beside the workflows | two tasks, one start, one retry allowed, one manual retry, three releases and downloads, a recovery at any moment, no death; tasks and releases are symmetric |
| `workflow_live` | monitors of one download that came to it differently; every workflow ends, every download is settled | two tasks, two releases and downloads, two missing polls, recovery at any moment, one death |
| `jobs` | exclusion of a kind, honest rows, settled jobs, cancellation that reaches the task, and the refinement | two jobs of one kind, two requests at once, two cancellations, one restart, one session that fails: each pair of reads and commits overlaps, and each may be the one that fails |
| `cycle` | one cycle within its limits, one download per movie, for the film that is installed and the release that was chosen; a stop reaches the cycle it was meant for and no other | two movies, a scheduled and a requested cycle, one request, two searches and cycles, one indexer beside Prowlarr |
| `library` | rows follow the disk, with their own streams; the cleanup keeps the best copy; the bin keeps other movies' copies; no doubtful estimate | two movies, one with room for two files, two scanners and scans, one replacement, one cleanup, one fault; at first the second movie has a film and another in the bin, or only one in the bin: the cleanup and the replacement write into a bin that is empty, taken, or taken between a look and a move |
| `orphans` | downloads are not taken for orphans, no purged folder is lost sight of, old orphans go | one job (jobs do not meet), two requests, the daily task, one restart |
| `upgrades` | searches in the nights of the schedule, no lost resolution, no film that returns, a ladder that heeds the blacklist | three moments a day and every window over them, twelve releases, six policies, three downloads, one retry |
| `client_settings` | no job is missed by a poll that was not misled, judged before its end, or recorded under another client; SABnzbd's purge is whole; memory agrees with file and environment, what was saved is kept, the secret stays | one download (two meet in nothing but the active client and the end of the server), submitted by this version or an older one, both clients, one stage, two missing polls, requests that fail or are answered with an error, a history that is cut; one page that saves, three environments, two starts, three saves |

### Known divergences

What the code does in these situations is excepted by the properties that hold,
or shows as a violation when a constant or a property is changed as stated.

| Where | Shown by | What the code does |
|---|---|---|
| `replacer.py:604` | `StrandedIsVisible` on a NAS with one fault | the cooldown started by a failed placement refuses the restore, and the record ends as `failed`: the film is a hidden backup |
| `replacer.py:415` | `AlwaysLocated` with `CrossDevice` on local disks | the next replacement recycles a truncated file over the original in the bin |
| `replacer.py:341` | `NoFailureWithoutFault` with `OriginalMissing` on a NAS | the placement after a missing original is refused |
| `replacer.py:443` | `StrandedIsVisible` with `Serialised = FALSE` | two replacements of one movie take the same backup name |
| `scheduler.py:65` | `RecoveryStaysPossible` with `PurgeBin` | the bin is emptied under an active record |
| `storage.py:956` | `CallsSettle`, `PathsExclusive`, `ConcurrencyKept` with a cancellation | a cancelled task keeps the first of its locks, or gives locks and places back while its thread works |
| `storage.py:779` | `DailyLimit` after a restart | a move whose row was not written when the process ended is not counted |
| `replacer.py:267` | `Replacement`, `Load` | a dry run that was switched on after the download was sent leaves the download `completed` with its folder, and marks the movie failed |
| `download_workflow.py:58` | `MonitoredOnce` as an invariant of `workflow_ladder` | recovery starts a second workflow for a download that another one retries; what the second leaves of the movie is the last word (`rival` in `ImprovementStands`) |
| `retry_ladder.py:126` | `lost` in `ChainsBounded` | a download whose submission failed, or whose task died, has no counter of its own, and its ladder begins at zero |
| `download_workflow.py:50` | `MovieSettled` as an invariant with `MaxDeaths = 1` | a task that dies after its download failed leaves the movie `downloading`, which nothing takes up |
| `jobs.py:273`, `:366`, `:409` | `excused`, `late`, `lost` | two overlapping requests both start a job of a kind; a finished job becomes `cancelling`; queued jobs of an earlier process block their kind |
| `jobs.py:223` | `broken`, `unwritten` in `RowsHonest`, `Break` in `JobLifecycle` | a session that fails around the work makes the row `failed`, though the work did not begin or has finished; when the handler's own session fails, or the handler is interrupted, the row stays `running` |
| `main.py:94` | `lost` in `JobsEnd` and `RowsHonest` | start-up goes on when the recovery of jobs fails, and rows stay `running` without a task |
| `orchestrator.py:173` | `byHand` in `OneDownloadPerMovie` | a movie that is processed or downloaded by hand has a second download beside that of a cycle |
| `searcher.py:95` | `byHand` in `ComparedWithInstalled` | a release is chosen against a film that a download by hand replaces meanwhile |
| `downloader.py:126` | `erased` in `ChosenIsStarted` | the id of a deleted result is given out again, and another release is downloaded |
| `api/library.py:244` | `Cycle`, `ToggleLock` | a lock set while the movie is downloading does not stop the replacement |
| `scanner.py:77` | `true` in `ScanFollowsDisk` | a scan writes the path and size of its listing over what a replacement has committed since |
| `scanner.py:164` | `used.faults` in `OwnStreams` | after a failed read, the next movie is written with the streams of the one before |
| `scanner.py:279` | `Upgrades`, `misread` | streams Plex has not analysed anew are written over those of the new film |
| `cleanup.py:224`, `replacer.py:390` | `BinKeepsOtherMovies` without `Shared` | a name in the bin is taken between the look and the move by a movie without a folder of its own; a replacement, and the name with the rating key, overwrite without a look, also an earlier copy of the same movie; two cleanup jobs, which no lock keeps apart, choose one name |
| `orphan_scanner.py:80` | `submitting` in `TrackedNotRecorded` | a job that the client has accepted and whose row is not committed is recorded when its age is not known |
| `orphan_scanner.py:92` | `TrackedNotRecorded` | an age of 0 hours counts as unknown, so that a job of the last hour is recorded; the comment says that it is skipped |
| `orphan_scanner.py:276`, `:323` | `missed` in `FolderFindable` | a cleanup, by hand or automatic, drops the row though the removal of the folder failed after the purge |
| `comparer.py:385` | `growth` in `ReplacedForAReason` | under a policy that lets a film grow, a larger film replaces a poor one and a smaller one the larger: films may come back |
| `replacer.py:639` | `misread` in `ResolutionKept` | a placed film that cannot be probed leaves the streams of the old one in the row, and the next release is compared with these |
| `blacklist.py:127` | `LadderRaises` in `Upgrades` | an entry that expires is compared with a time of another kind and raises; the ladder ends |
| `blacklist.py:42` | `Blacklist` | adding an entry that exists does not renew its expiry |
| `download_client.py:88` | `MissingIsGone` | the id of an older version is looked for in the client that is active now (`downloader.py:232`), and given up as missing though it is in the other |
| `sabnzbd.py:56`, `:74`, `nzbget.py:74`, `:78` | `MissingIsGone` | an answer that tells an error is read as a list without entries |
| `sabnzbd.py:95` | `MissingIsGone` | a job that has sunk below the newest 2000 of the history counts as missing |
| `downloader.py:20`, `:305` | `AnswersSound` with `Stages = {"moving"}` | a stage of post-processing that is not in the list counts as a failure, and the download fails while it succeeds |
| `sabnzbd.py:120`, `:128` | `SabnzbdPurged` without `heard` | one of the two deletions failed, and the purge is reported |
| `downloader.py:165` | `DownloadClient`, `SubmitFails` | a submission whose answer is lost leaves a job that no row names |
| `nzbget.py:123` | `NzbgetPurged` | the purge deletes from the queue alone and is reported whatever comes of it, so a failed job stays in the history; the docstring says "queue/history" |
| `run.py:70` | `StartedAsConfigured` with a port in `Values` | after an update the launcher starts the server on the port it once read, though the comment above says that it reloads the configuration |
| `blacklist.py:109` | `TitleHeeded` in `Upgrades` | the blacklist page sends a title alone; the ladder looks for the uploader that the title tells, and retries the release |
| `Settings.tsx:185` | `Settings` with two pages | a page saves all that it loaded, over what another has saved since |
| `cleanup.py:40` | `NoDoubtfulEstimate` | the confidence "low" is never given: the order of the parts excludes it |

## 4. Fairness

`Replacement`: every step of a run is weakly fair, because the event loop resumes
a coroutine whose await is over and threads end; faults, deaths, the end of
the cooldown and purging are not fair. `StoragePolicy`: weak fairness of the steps
of each call; cancellation, restart and the end of the cooldown are not fair.
`asyncio.Lock` is first come, first served, and each call asks for a lock once,
so that with finitely many calls weak fairness is enough.

`DownloadWorkflow`: weak fairness of the steps of each task, because the event loop
resumes it and every request to the client has a timeout; of `Age`, because the
clock advances; and of `Expire` and `Resume`, because the scheduler calls recovery every hour and the
event loop goes on with one that has begun. Starts, manual
retries, exceptions (of recovery too) and restarts are not fair, nor is any answer of the client:
a client that is always busy or down is allowed, and then only the age limit
ends a download.

`Jobs`: weak fairness of what the runtime does for a job and of a request that was
begun; the work itself may last for ever, nobody has to ask for anything, and no session has to fail.
`Orphans`: weak fairness of the daily task and of time; strong fairness of a step
that may fail, which says that what is tried every day does not fail every day.
`Cycle`, `Library`, `Upgrades` and `DownloadClient` with `Settings` state safety only and assume no fairness.

## 5. Proofs

`ReplacementProofs`, for all sets of downloads, extensions and backup names and
any number of faults and deaths. Each theorem names the setting it needs; the known
divergences show what happens outside it.

| Theorem | Property | Setting |
|---|---|---|
| `TypeCorrect` | `TypeOK` | any |
| `ImprovementInstalled` | `ImprovedIsInstalled` | `Serialised`: replacements of a movie run one at a time |
| `LastCopyKept` | `LastCopyOnlyPurged` | `WholeSetting`: moreover no failed copy leaves a truncated file |
| `Located` | `AlwaysLocated` | `Setting`: moreover the bin is not emptied, and the original was there |
| `FaultSurvived` | `OneFaultIsSurvived` | `LocalSetting`: `Setting` on local disks |
| `OutcomesAreSound` | `OutcomesSound` | `CalmSetting`: `Serialised`; on a NAS moreover one device, and the original was there |

`AlwaysLocated` is not inductive: it does not say where in its
course the run stands. `IInv` adds what each control point knows (where the
original is, what the record says, that a backup name is free), and that runs
which are over leave nothing the next one could overwrite; `RunInv` is the part of it
that holds with a bin that is emptied. `OutcomeInv` follows the film of the run
(`Carried`): from staging to its place in the library, and says that while the movie is
improved a run under way can only be one that has succeeded. For runs in which nothing went
wrong, `Tidy` adds what they leave: between runs the movie's file is the only version
in the library (`AtRest`, `Sole`), a backup belongs to the run that made it (`BackupsOwned`), and
a run that ended has no failed status, and no staging folder unless it was a dry run (`Tidied`). `SurvivalInv` says for
`faults <= 1` where the film is at each control point (`SafeAt`): where it was before the run, or
where the run itself put it and recorded it, or in the library again; that each
record which asks for recovery leads to a film (`Repairable`); and that no such record relies on
the backup which the run at work may drop (`Owned`). This last part is what makes
deaths harmless in any number: a later run finds no name free that an earlier record needs.

`StoragePolicyProofs`, for all sets of calls and paths and all limits:
`Invariant`, `TypeCorrect`, `TasksAlone` and `ScopeBounded` with any number of faults,
cancellations and restarts; `PathsAlone`, `ConcurrencyBounded` and `NothingKept` (`AllReturned`) when no task is
cancelled; `ReplacementsBounded` and `VolumeBounded` (`WritesKept`) for as long as moreover the process does not restart. The
argument: a call holds the lock of each path it no longer waits for
(`Holds`); the holder of the guard found a place in the scope, and none is
given away until it decides (`Counted`); the counters are at least the number of
calls in the scope, since a cancellation loses a place but never creates one; a
thread belongs to a task that awaits it unless that was cancelled (`Awaited`);
and a written replacement is recorded or still reserved (`Booked`). `Measured` is the
same for its size: the reserved volume is at least that of the calls that hold a place, and what they
reserved fitted into what the usage had left. A volume is the number of bytes that the calls of a set
write (`Bytes`), so that facts about finite sets bound it. `Exact` says that without
cancellations the counters are not only bounds but equal to what the calls hold, so that nothing
is held once all have ended.

`DownloadWorkflowProofs`, for all sets of tasks and releases and any number of
starts, manual retries, recoveries, exceptions and restarts, all beside each other:
`TypeCorrect`, `MonitorsCameApart` (`MonitoredApart`), `SettledWhenAlone` (`SettledUndisturbed`), `LadderKept`
(`LadderSound`) and `ImprovementKept` (`ImprovementStands`). No assumption keeps recovery from a download
that is at work. What `_active_workflows` does give is in `Listed`: a task that has entered is in
the set under a download of its own. What it does not give, the ladders give (`Owned`): a download
that a ladder began belongs to its task until the task goes on from it, so of two monitors of a
download one is listed under it and the other is its ladder's, and there is no third. `IInv` adds
what each place says of a task's local variables (`Shapes`), and that the downloads which
tasks (`HeldPresent`) and recoveries (`Swept`) hold exist. The proof first says what each
action does to these fields (the `...Effect` lemmas), then shows each part of `IInv` kept.

On it rest three more invariants. `Attended`: as long as no task has died, a movie that is "downloading" has a task in
charge of it (`InCharge`: one that has entered, or is about to, or submits), since each such task marks the
movie before it ends, and each id in the set belongs to a task. `Chained` follows a chain of
retries: the counter of a download tells how deep it is, less `MaxRetries` for each counter
that was lost, except while the ladder that began it has yet to write it; a task between
its look at the counter and the copy it hands on knows as much of its own download (`InChain`). `Chosen`: a release
is none of those that the ladder found when it chose, and a download remembers them. `Standing`:
while an improvement stands that nothing accompanied, no download waits, no recovery is under way,
and no task is more than a request of the user that only answers, so no step marks the movie failed.

`JobsProofs`, for any sets of jobs, kinds and requests and any number of
cancellations, restarts and failing sessions: `RowsHonest`, `OneWorkPerKind`, and the refinement
`ImplementsLifecycle`. The invariant says for each place of a task what its row, its
memory of the row and its work may be (`JobsOK`), which row a request is about
(`ClientsOK`), and that a kind that was not excused has one job between insertion and
end (`KindsOK`). The refinement is a simulation, action by action: `BeginWork` is
`Begin`, the end of the work is `Finish`, `CommitResult` and `CommitFailure` are `ReportEnd` or
`ReportCancelled`, `CommitCancelled` is `ReportCancelled`, `InsertJob` is `Submit`, `MarkCancel` is `Ask`,
`SessionFails` outside the handlers is `Break`, `Restart` is `Recover` or, where recovery fails, a stutter,
`PurgeJob` is `Purge`, and every other step is a stutter. A row may say `failed` of a work that did not raise only for a
job in `broken`, and the invariant says that such a work either never began or has finished.

`ClientProofs`, on both sides of the download client. Of `Orphans`, for any sets of jobs and requests and
any number of restarts:
`TrackedNotRecorded` and `FolderFindable`. The invariant says what the scan knows at each of its
steps (a job in its history that has a row either is in `tracked` or is of the last
hour), and which request is between the purge of a job and the removal of its
folder. Of `DownloadClient`, for any downloads, clients' answers, polls and saves: `SabnzbdPurged`, and
`AnswersSound` (for rows of older versions too) where every stage of post-processing is one that `TRANSIENT_HISTORY_STATUSES` lists
(`KnownStages`; the known divergence shows what one that is not does). Their invariant says what the
lists a poll has asked tell of the job: it moves from queue to history and never back, so one that
neither list showed had left the client before the second was read, unless the poll was misled (`Asked`: wrong client, error
read as a list, or a job past the 2000th); and a row
has a final status only by an answer that was so and stays so (`Judged`). Of `Settings`, for any
environments, users, saves and ends of processes: `SettingsKept` and `SecretKept`. `ProcessesOK` says what the server's
memory is at each place of a save, `FileOK` that the file is one of those that are due, `PagesOK`
that a page holds the secret redacted or one that its user chose, and `SecretOK` where a secret that users rely on
(`Lasting`) is kept while files are replaced and processes end. They assume that a user
edits keys other than the secret through `Values` and that no secret is empty (`ValuesOfOtherKeys`, `SecretsAreChosen`).

`LibraryProofs`, for any movies, paths, films and first states and any number of
scans, replacements, cleanups and faults: `BeliefsSound`, `ScanFollowsDisk`, `BestCopyKept` and
`BinKeepsOtherMovies`, all that the run checks. Three ideas carry the invariant. One scan is
at work, and its listing is the newest (`OneScan`, `ScanOK`), so no older listing is
written. The files of the movie at hand, with one that a replacement holds, outnumber
those that are to go (`Remaining`): every step that takes one away either takes it off
the list, or holds it, or is somebody else's. And the best of them is there or
held until another is placed (`BestStays`). For the bin `BinOK` says that a name of one movie's own, its rating key
or a folder that it shares with none, has copies of that movie alone, though replacements write there without a look;
and that the plain name is still free when the cleanup's move comes to it, if every movie has a folder and so no replacement
takes it meanwhile. `BestIsBest` shows that the order of the parts
has a best one, from the well-foundedness of the numbers.

`UpgradesProofs`, for any catalogue, policies, offers, windows and operators:
`ResolutionKept`, `ReplacedForAReason`, `LadderHeedsBlacklist` and `SearchesSound`, all that the run checks. A release that may be downloaded
was accepted for the film that is still there, because nothing else replaces it
between the search and the end of the ladder; the size in the row is always the
film's; and while no policy lets a film grow each film is smaller than those
before it, so none returns. `SearchesSound` rests on `InNight`, the arithmetic of the window over midnight
and the end of the week for any number of moments in a day, and on `Choice`: the releases a
search accepted are scored by one row and one policy, of which the score of two that are alike
in every other respect differs in the savings alone (`AlikeScore`). The comparer rounds these to a hundredth
of a percent (`comparer.py:719`), so that a release which is smaller by more than that wins, and no
theorem could say it of less.

`CycleProofs`, for any movies, runners, requests and indexers and any limits:
`CyclesSound`, `OneDownloadPerMovie`, `ComparedWithInstalled`, `ChosenIsStarted` and `StopsHeeded`, all
that the run checks. `CyclesOK` says that one cycle is busy and what its task may then
be at. Of the ids, `SerialsOK` counts: the highest id and the searches that are at
work are together no more than the searches begun, so the table has room for what
a search stores; and while the end of the table was not emptied (`~erased`) the highest
id does not fall (`StoredRows`), so an id that is handed on names its result or none
(`IdsOK`). What a cycle may still take and the downloads that cancelled cycles left
behind have no movie in common (`MoviesOK`), because the movies are listed by their status. `ToldOK` says that
for a cycle at work the flag `stop` is up exactly when a stop was requested of it. And
since one cycle is busy, no step of another changes a film between the
search and the download. `LastIsTop`, that a table has one highest id, comes from the
well-foundedness of the numbers.

Every invariant and every safety property of a step that the runs check is stated by one of these theorems.
Only model-checked is liveness (`ReplacementEnds`, `CallsSettle`, `WorkflowsSettle`, `JobsEnd`,
`OldOrphanGoes`), which needs fairness and `ENABLED`.

## 6. Plan

Done: `Storage`, `Replacement`, `StoragePolicy`, `DownloadWorkflow`, `Jobs` with its lifecycle, `Cycle`,
`Library`, `Orphans`, `Upgrades` with its rules, `DownloadClient`, `Settings`, and the proofs above. What would come next, in this
order:

1. An abstract atomic swap that `Replacement` refines where no fault occurs, with the refinement proved.
2. Compositions: `Replacement` under the budgets of `StoragePolicy` (a refusal after the
   original was recycled).
3. `Orphans` beside `DownloadWorkflow`: a cleanup that purges a job which a retry has
   submitted.
4. `DownloadClient` under `DownloadWorkflow`: the answers there as those of a client here.

## 7. Not modelled

Reporting (`api/system.py`, telemetry of `storage.py`, search statistics) reads what
other parts keep and changes nothing. The regular expressions of `parser.py` and the
reading of tracks in `media_probe.py` turn text into the fields of a release: their
results are data of the models. Database schema, authentication, startup checks, audit, image cache, realtime events and the
frontend hold no state that a step of another part depends on. Plex, the download
clients and the indexers are external: their answers are choices of the
environment. Connection tests and the list of a client's capabilities change nothing. Time is not modelled: a timeout or an expiry may happen whenever the
code allows it, in an order the modules state.
