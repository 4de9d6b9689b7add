------------------------------- MODULE Library -------------------------------
(***************************************************************************)
(* What Slimarr believes of a library that Plex, the replacer and the      *)
(* duplicate cleaner change: core/scanner.py writes Plex's listing into    *)
(* the table movies, core/replacer.py puts smaller films in the place of   *)
(* larger ones, core/cleanup.py keeps the best of several files.           *)
(*                                                                         *)
(* Plex is external: it lists the files with their current sizes, but the  *)
(* streams of a path it knows stay what they were until it analyses the    *)
(* file again.  A replacement takes the film away, into the bin or beside  *)
(* it, puts another in its place (or the old one back) and commits the     *)
(* row: what else can become of it is in Replacement.                      *)
(***************************************************************************)
EXTENDS Naturals, FiniteSetsExt

CONSTANTS
  Movies, Paths,
  Owner,            \* [Paths -> Movies]: the movie whose folder a path is in
  Position,         \* [Paths -> Nat]: the order in which Plex lists them
  Films,            \* records [movie, resolution, codec, size]
  FirstStates,      \* at the start: the library, a film in the bin, and the
                    \* paths of the movies that have a row already
  Scanners,         \* tasks that may call scan_library
  UseBin,           \* is files.recycling_bin set?
  Folders,          \* the names of the folders the library has
  Folder,           \* [Movies -> Folders]: the movie's, or None at a root
  None,
  MaxPreviewed,     \* movies a preview looks at (max_movies_per_section)
  MaxScans, MaxReplacements, MaxCleanups,   \* bounds; a preview is a cleanup
  MaxFaults         \* bound: database reads and file moves that fail

ASSUME OwnersAreMovies == Owner \in [Paths -> Movies] /\ Position \in [Paths -> Nat]
ASSUME FilmsAreFilms ==
  Films \subseteq [movie : Movies, resolution : 0..4, codec : 0..100, size : Nat \ {0}]
ASSUME NoneIsNothing == None \notin Paths \cup Movies
ASSUME FoldersAreFolders ==
  /\ Folder \in [Movies -> Folders \cup {None}]
  /\ Folders \cap (Movies \cup {None}) = {}
ASSUME PathsAreFinite == IsFiniteSet(Paths)
ASSUME BoundsAreNumbers ==
  {MaxPreviewed, MaxScans, MaxReplacements, MaxCleanups, MaxFaults} \subseteq Nat

VARIABLES
  files,       \* [Paths -> Films \cup {NoFilm}]
  bin,         \* [BinNames -> Films \cup {NoFilm}]
  plex,        \* [Paths -> Part \cup {NoPart}]: the listing of the server
  row,         \* [Movies -> row of the table movies]
  scan,        \* [Scanners -> what the scan of the task does]
  clean,       \* what the duplicate cleanup, or its preview, does
  swap,        \* [Movies -> replacement of the movie's film]
  used         \* counts of the bounded steps

vars == <<files, bin, plex, row, scan, clean, swap, used>>

NoStreams == [movie |-> None, resolution |-> 0, codec |-> 0]
NoFilm    == [movie |-> None, resolution |-> 0, codec |-> 0, size |-> 0]
NoPart    == [size |-> 0, streams |-> NoStreams]
NoRow     == [path |-> None, size |-> 0, streams |-> NoStreams, original |-> 0, from |-> 0]
NoScan    == [at |-> "idle", list |-> [p \in {} |-> NoPart], serial |-> 0, part |-> None,
              seen |-> NoPart, true |-> {}]
NoClean   == [at |-> "idle", list |-> [p \in {} |-> NoPart], left |-> {}, movie |-> None,
              todo |-> {}, part |-> None, name |-> None, disturbed |-> "no", estimates |-> {}]
NoSwap    == [at |-> "idle", loaded |-> None, old |-> NoFilm, kept |-> "beside",
              path |-> None, film |-> NoFilm]

Streams(f) == [movie |-> f.movie, resolution |-> f.resolution, codec |-> f.codec]
PartOf(f)  == [size |-> f.size, streams |-> Streams(f)]
Held(fs)   == {p \in Paths : fs[p] # NoFilm}
FilesOf(m) == {p \in Held(files) : Owner[p] = m}
Listed     == {p \in Paths : plex[p] # NoPart}

(* All the files of the library have the same name, in folders of their    *)
(* own; in the bin a copy has that name, or that name and the rating key   *)
(* of its movie (a cleanup), or the folder's name and that name (a         *)
(* replacement).                                                           *)
BinNames == {None} \cup Movies \cup Folders

(* A movie's folder holds films of that movie; a row names one that is     *)
(* there.                                                                  *)
ASSUME FirstStatesAreOrdinary ==
  \A first \in FirstStates :
    /\ first.files \in [Paths -> Films \cup {NoFilm}] /\ first.binned \in Films \cup {NoFilm}
    /\ \A p \in Held(first.files) : first.files[p].movie = Owner[p]
    /\ first.known \subseteq Held(first.files)

Init ==
  /\ \E first \in FirstStates :
       /\ files = first.files
       /\ bin = [n \in BinNames |-> IF n = None THEN first.binned ELSE NoFilm]
       /\ row = [m \in Movies |->
            IF m \in {Owner[p] : p \in first.known}
            THEN LET p == CHOOSE p \in first.known : Owner[p] = m IN
                 [NoRow EXCEPT !.path = p, !.size = first.files[p].size,
                    !.streams = Streams(first.files[p]), !.original = first.files[p].size]
            ELSE NoRow]
  /\ plex = [p \in Paths |-> IF files[p] = NoFilm THEN NoPart ELSE PartOf(files[p])]
  /\ scan = [s \in Scanners |-> NoScan]
  /\ clean = NoClean
  /\ swap = [m \in Movies |-> NoSwap]
  /\ used = [scans |-> 0, replacements |-> 0, cleanups |-> 0, faults |-> 0]

Fault == used.faults < MaxFaults /\ used' = [used EXCEPT !.faults = @ + 1]

-----------------------------------------------------------------------------
(* Plex (external)                                                         *)

(* A refresh lists the files there are.  A path it knew keeps its streams. *)
PlexRefreshes ==
  /\ plex' = [p \in Paths |->
       IF files[p] = NoFilm THEN NoPart
       ELSE IF plex[p] = NoPart THEN PartOf(files[p])
       ELSE [plex[p] EXCEPT !.size = files[p].size]]
  /\ plex' # plex
  /\ UNCHANGED <<files, bin, row, scan, clean, swap, used>>

PlexAnalyses(p) ==
  /\ plex[p] # NoPart /\ files[p] # NoFilm /\ plex[p] # PartOf(files[p])
  /\ plex' = [plex EXCEPT ![p] = PartOf(files[p])]
  /\ UNCHANGED <<files, bin, row, scan, clean, swap, used>>

(* What Plex lists of a movie is what there is.                            *)
ListingTrue(m) ==
  \A p \in Paths : Owner[p] = m =>
    plex[p].size = files[p].size

-----------------------------------------------------------------------------
(* scan_library                                                            *)
ScanIdle == \A s \in Scanners : scan[s].at = "idle"

(* The lock: a scan that finds another at work returns at once.            *)
MayScanAlways == TRUE
MayScan == ScanIdle

StartScan(s) ==
  /\ scan[s].at = "idle" /\ MayScan /\ used.scans < MaxScans
  /\ scan' = [scan EXCEPT ![s] = [NoScan EXCEPT !.at = "listing"]]
  /\ used' = [used EXCEPT !.scans = @ + 1]
  /\ UNCHANGED <<files, bin, plex, row, clean, swap>>

(* get_all_movies, in a thread: one entry for every part of every movie.   *)
PlexLists(s) ==
  /\ scan[s].at = "listing"
  /\ scan' = [scan EXCEPT ![s] =
                [@ EXCEPT !.at = "next", !.list = [p \in Listed |-> plex[p]],
                          !.serial = used.scans, !.true = {m \in Movies : ListingTrue(m)}]]
  /\ UNCHANGED <<files, bin, plex, row, clean, swap, used>>

(* The row is read before the metadata of the movie is fetched; what was   *)
(* read of the entry before is still there when the read fails.            *)
Known(r) == [size |-> r.size, streams |-> r.streams]

SeenRowIfAny(s, p) ==
  IF row[Owner[p]].path = None THEN scan[s].seen ELSE Known(row[Owner[p]])

SeenRow(s, p) == Known(row[Owner[p]])

Upcoming(s) == {p \in DOMAIN scan[s].list :
                  \A q \in DOMAIN scan[s].list : Position[p] <= Position[q]}

Begin(s, p, seen) ==
  scan' = [scan EXCEPT ![s] = [@ EXCEPT !.at = "write", !.part = p, !.seen = seen]]

ReadExisting(s) ==
  /\ scan[s].at = "next"
  /\ \E p \in Upcoming(s) : Begin(s, p, SeenRow(s, p))
  /\ UNCHANGED <<files, bin, plex, row, clean, swap, used>>

ReadFails(s) ==
  /\ scan[s].at = "next" /\ Fault
  /\ \E p \in Upcoming(s) : Begin(s, p, scan[s].seen)
  /\ UNCHANGED <<files, bin, plex, row, clean, swap>>

(* Streams are Plex's, unless the size is not the one that was read: then  *)
(* those of the row are kept.                                              *)
FileChanged(seen, part) == seen.size # 0 /\ part.size # 0 /\ seen.size # part.size

KeptStreams(seen, part) ==
  IF FileChanged(seen, part) /\ seen.streams # NoStreams
  THEN seen.streams ELSE part.streams

Original(r, size) == IF r.original = 0 THEN size ELSE r.original

Scanned(s) ==
  LET p == scan[s].part  part == scan[s].list[p]  m == Owner[p]
  IN [row EXCEPT ![m] =
        [path |-> p, size |-> part.size, streams |-> KeptStreams(scan[s].seen, part),
         original |-> Original(row[m], part.size), from |-> scan[s].serial]]

NextPart(s) ==
  LET rest == DOMAIN scan[s].list \ {scan[s].part}
  IN scan' = [scan EXCEPT ![s] =
       [@ EXCEPT !.at = "next", !.part = None, !.list = [p \in rest |-> scan[s].list[p]]]]

WriteRow(s) ==
  /\ scan[s].at = "write"
  /\ row' = Scanned(s)
  /\ NextPart(s)
  /\ UNCHANGED <<files, bin, plex, clean, swap, used>>

(* The write fails: the movie is left for the next scan.                   *)
WriteFails(s) ==
  /\ scan[s].at = "write" /\ Fault
  /\ NextPart(s)
  /\ UNCHANGED <<files, bin, plex, row, clean, swap>>

(* Every entry is written; or Plex did not answer.                         *)
EndScan(s) ==
  /\ \/ scan[s].at = "listing"
     \/ scan[s].at = "next" /\ scan[s].list = [p \in {} |-> NoPart]
  /\ scan' = [scan EXCEPT ![s] = NoScan]
  /\ UNCHANGED <<files, bin, plex, row, clean, swap, used>>

-----------------------------------------------------------------------------
(* The files change                                                        *)

(* A listing that a scan has taken is not true of m any more (history).    *)
Outdated(m) == [s \in Scanners |-> [scan[s] EXCEPT !.true = @ \ {m}]]

(* Somebody deletes a file of several (external).                          *)
FileVanishes(p) ==
  /\ files[p] # NoFilm /\ Cardinality(FilesOf(Owner[p])) > 1 /\ Fault
  /\ files' = [files EXCEPT ![p] = NoFilm]
  /\ scan' = Outdated(Owner[p])
  /\ clean' = [clean EXCEPT !.disturbed = IF clean.movie = Owner[p] THEN "lost" ELSE clean.disturbed]
  /\ UNCHANGED <<bin, plex, row, swap>>

(* The name a replacement gives a film in the bin, without a look whether  *)
(* it is free.                                                             *)
RecycledNamePlain(m) == None
RecycledName(m) == Folder[m]

(* replace_file: the film the row names is put into the bin, or beside     *)
(* when that is not set or the move fails ...                              *)
PutAway(m, kept) ==
  LET q == row[m].path IN
  /\ swap[m].at = "idle" /\ used.replacements < MaxReplacements
  /\ q # None /\ files[q] # NoFilm
  /\ swap' = [swap EXCEPT ![m] =
                [NoSwap EXCEPT !.at = "away", !.loaded = q, !.old = files[q], !.kept = kept]]
  /\ files' = [files EXCEPT ![q] = NoFilm]
  /\ \/ kept = "bin" /\ UseBin /\ bin' = [bin EXCEPT ![RecycledName(m)] = files[q]]
     \/ kept = "beside" /\ bin' = bin
  /\ scan' = Outdated(m)
  /\ used' = [used EXCEPT !.replacements = @ + 1]
  /\ UNCHANGED <<plex, row, clean>>

(* ... and another is placed, under the same name or one of another type,  *)
Place(m, p, f) ==
  /\ swap[m].at = "away"
  /\ Owner[p] = m /\ files[p] = NoFilm
  /\ f.movie = m /\ f # swap[m].old /\ \A r \in Paths : files[r] # f
  /\ swap' = [swap EXCEPT ![m] = [@ EXCEPT !.at = "placed", !.path = p, !.film = f]]
  /\ files' = [files EXCEPT ![p] = f]
  /\ scan' = Outdated(m)
  /\ clean' = [clean EXCEPT !.disturbed =
                 IF clean.movie = m /\ clean.disturbed = "no" THEN "renewed" ELSE clean.disturbed]
  /\ UNCHANGED <<bin, plex, row, used>>

(* or cannot be, and the old one is put back from beside: in the bin it    *)
(* stays, for somebody to recover.                                         *)
PutBack(m) ==
  /\ swap[m].at = "away" /\ swap[m].kept = "beside" /\ files[swap[m].loaded] = NoFilm
  /\ files' = [files EXCEPT ![swap[m].loaded] = swap[m].old]
  /\ swap' = [swap EXCEPT ![m] = NoSwap]
  /\ scan' = Outdated(m)
  /\ UNCHANGED <<bin, plex, row, clean, used>>

GiveUp(m) ==
  /\ swap[m].at = "away" /\ swap[m].kept = "bin"
  /\ swap' = [swap EXCEPT ![m] = NoSwap]
  /\ clean' = [clean EXCEPT !.disturbed = IF clean.movie = m THEN "lost" ELSE clean.disturbed]
  /\ UNCHANGED <<files, bin, plex, row, scan, used>>

(* The placed film was probed, and its row is committed.  The row was      *)
(* loaded when the replacement began, and a column that gets the value     *)
(* that was loaded is not written.                                         *)
CommitReplacement(m) ==
  /\ swap[m].at = "placed"
  /\ row' = [row EXCEPT ![m] =
       [@ EXCEPT !.path = IF swap[m].path = swap[m].loaded THEN row[m].path ELSE swap[m].path,
                 !.size = swap[m].film.size, !.streams = Streams(swap[m].film)]]
  /\ swap' = [swap EXCEPT ![m] = NoSwap]
  /\ UNCHANGED <<files, bin, plex, scan, clean, used>>

-----------------------------------------------------------------------------
(* scan_and_clean_duplicates                                               *)

(* The movies are listed with their parts: to clean up, or to estimate     *)
(* what that would free.                                                   *)
StartWalk(at) ==
  /\ clean.at = "idle" /\ used.cleanups < MaxCleanups
  /\ clean' = [NoClean EXCEPT !.at = at, !.list = [p \in Listed |-> plex[p]],
                                !.left = {Owner[p] : p \in Listed}]
  /\ used' = [used EXCEPT !.cleanups = @ + 1]
  /\ UNCHANGED <<files, bin, plex, row, scan, swap>>

(* _part_score: resolution, then codec, then the smaller size.             *)
Better(a, b) ==
  \/ a.streams.resolution > b.streams.resolution
  \/ /\ a.streams.resolution = b.streams.resolution
     /\ \/ a.streams.codec > b.streams.codec
        \/ a.streams.codec = b.streams.codec /\ a.size < b.size
BestBySize(parts, list) ==
  CHOOSE p \in parts : \A q \in parts : list[p].size <= list[q].size
Best(parts, list) ==
  CHOOSE p \in parts : \A q \in parts : ~Better(list[q], list[p])

(* _collect_movie_parts: those that exist.                                 *)
Collected(m) == {p \in DOMAIN clean.list : Owner[p] = m /\ files[p] # NoFilm}

(* The parts of the next movie are collected, and all but the best are to  *)
(* go; one part alone is left as it is.                                    *)
CollectParts ==
  /\ clean.at = "next" /\ clean.todo = {}
  /\ \E m \in clean.left :
       LET parts == Collected(m) IN
       clean' = [clean EXCEPT !.left = @ \ {m}, !.movie = m, !.disturbed = "no",
                   !.todo = IF Cardinality(parts) <= 1 THEN {}
                            ELSE parts \ {Best(parts, clean.list)}]
  /\ UNCHANGED <<files, bin, plex, row, scan, swap, used>>

(* The name a copy gets in the bin: its own when that is free, or else     *)
(* with the key of its movie, whatever has that name.                      *)
BinNamePlain(m) == None
BinName(m) == IF bin[None] = NoFilm THEN None ELSE m

ChooseName(p) ==
  /\ clean.at = "next" /\ clean.part = None /\ p \in clean.todo
  /\ clean' = [clean EXCEPT !.part = p, !.name = BinName(clean.movie)]
  /\ UNCHANGED <<files, bin, plex, row, scan, swap, used>>

(* When move_path has its locks, the part is moved into the bin under that *)
(* name, or removed without a bin; one that has vanished meanwhile, or a   *)
(* move that fails, is counted.                                            *)
RemoveInferior(p) ==
  /\ clean.part = p /\ p \in clean.todo
  /\ clean' = [clean EXCEPT !.todo = @ \ {p}, !.part = None, !.name = None]
  /\ \/ /\ files[p] # NoFilm
        /\ files' = [files EXCEPT ![p] = NoFilm]
        /\ bin' = IF UseBin THEN [bin EXCEPT ![clean.name] = files[p]] ELSE bin
        /\ scan' = Outdated(clean.movie)
        /\ UNCHANGED used
     \/ files[p] = NoFilm /\ UNCHANGED <<files, bin, scan, used>>
     \/ files[p] # NoFilm /\ Fault /\ UNCHANGED <<files, bin, scan>>
  /\ UNCHANGED <<plex, row, swap>>

StartCleanup == StartWalk("next")
StartPreview == StartWalk("preview")

(* _duplicate_confidence: how surely an inferior part may go.              *)
Confidence(best, inferior) ==
  LET b == best.streams  i == inferior.streams  equal == b.resolution = i.resolution
  IN CASE i.resolution < b.resolution \/ (equal /\ i.codec < b.codec) -> "high"
       [] equal /\ i.codec = b.codec -> "medium"
       [] OTHER -> "low"

(* preview_duplicate_cleanup: the parts of the next movie are collected,   *)
(* and the estimate for a movie is as sure as the least sure of its parts. *)
Estimate(m, parts) ==
  LET best == Best(parts, clean.list)  rest == parts \ {best}
      sure == {Confidence(clean.list[best], clean.list[p]) : p \in rest}
  IN [movie |-> m, count |-> Cardinality(rest),
      reclaimable |-> MapThenSumSet(LAMBDA p : clean.list[p].size, rest),
      confidence |-> IF "low" \in sure THEN "low"
                     ELSE IF "medium" \in sure THEN "medium" ELSE "high"]

Looked == Cardinality({Owner[p] : p \in DOMAIN clean.list}) - Cardinality(clean.left)

PreviewMovie ==
  /\ clean.at = "preview" /\ Looked < MaxPreviewed
  /\ \E m \in clean.left :
       LET parts == Collected(m) IN
       clean' = [clean EXCEPT !.left = @ \ {m},
                   !.estimates = IF Cardinality(parts) <= 1 THEN @
                                 ELSE @ \cup {Estimate(m, parts)}]
  /\ UNCHANGED <<files, bin, plex, row, scan, swap, used>>

EndPreview ==
  /\ clean.at = "preview" /\ (clean.left = {} \/ Looked = MaxPreviewed)
  /\ clean' = NoClean
  /\ UNCHANGED <<files, bin, plex, row, scan, swap, used>>

EndCleanup ==
  /\ clean.at = "next" /\ clean.left = {} /\ clean.todo = {}
  /\ clean' = NoClean
  /\ UNCHANGED <<files, bin, plex, row, scan, swap, used>>

-----------------------------------------------------------------------------
Next ==
  \/ PlexRefreshes
  \/ \E p \in Paths : PlexAnalyses(p) \/ FileVanishes(p) \/ ChooseName(p) \/ RemoveInferior(p)
  \/ \E s \in Scanners :
       \/ StartScan(s) \/ PlexLists(s) \/ ReadExisting(s) \/ ReadFails(s)
       \/ WriteRow(s) \/ WriteFails(s) \/ EndScan(s)
  \/ \E m \in Movies :
       \/ \E kept \in {"bin", "beside"} : PutAway(m, kept)
       \/ PutBack(m) \/ GiveUp(m) \/ CommitReplacement(m)
       \/ \E p \in Paths, f \in Films : Place(m, p, f)
  \/ StartCleanup \/ CollectParts \/ EndCleanup
  \/ StartPreview \/ PreviewMovie \/ EndPreview

Spec == Init /\ [][Next]_vars

-----------------------------------------------------------------------------
MovieStreams == {NoStreams} \cup {Streams(f) : f \in Films}

TypeOK ==
  /\ files \in [Paths -> Films \cup {NoFilm}]
  /\ bin \in [BinNames -> Films \cup {NoFilm}]
  /\ \A p \in Paths : plex[p].size \in Nat /\ plex[p].streams \in MovieStreams
  /\ \A m \in Movies :
       /\ row[m].path \in Paths \cup {None}
       /\ row[m].path # None => row[m].size > 0 /\ row[m].original > 0
       /\ row[m].streams \in MovieStreams
       /\ swap[m].at \in {"idle", "away", "placed"} /\ swap[m].kept \in {"bin", "beside"}
  /\ \A s \in Scanners : scan[s].at \in {"idle", "listing", "next", "write"}
  /\ clean.at \in {"idle", "next", "preview"} /\ clean.todo \subseteq DOMAIN clean.list
  /\ clean.name \in BinNames

Writes(s, m) == scan[s].at = "write" /\ scan'[s].at # "write" /\ row'[m] # row[m]

(* A row that a scan writes names a file that is there, with its size,     *)
(* when Plex's listing of the movie was true and no file of the movie has  *)
(* been touched since it was taken; and no scan writes what it was told    *)
(* before another scan was told something newer (_run_scan, _scan_lock).   *)
ScanFollowsDisk ==
  [][/\ \A s \in Scanners, m \in Movies :
          Writes(s, m) /\ m \in scan[s].true
          => files[row'[m].path].size = row'[m].size
     /\ \A m \in Movies : row'[m].from >= row[m].from]_vars

(* No movie gets the streams of another one, unless a read failed (the     *)
(* existing_* variables of _run_scan outlive their movie).                 *)
OwnStreams ==
  used.faults = 0 => \A m \in Movies : row[m].streams.movie \in {m, None}

(* No estimate of the preview is doubtful: what the order of the parts     *)
(* puts behind the best is never better in one respect (_part_score and    *)
(* _duplicate_confidence, which are written apart).                        *)
NoDoubtfulEstimate == \A e \in clean.estimates : e.confidence # "low"

(* What the library is believed to be is at all times of the types the     *)
(* columns have, of the movie itself, and surely reclaimable where it is   *)
(* estimated (scanner.py, cleanup.py).                                     *)
BeliefsSound == TypeOK /\ OwnStreams /\ NoDoubtfulEstimate

Removes(p) == p \in clean.todo /\ files[p] # NoFilm /\ files'[p] = NoFilm /\ clean'.todo # clean.todo

(* The cleanup leaves no movie without a file, in the library or put away  *)
(* by a replacement at work, unless after the parts were collected         *)
(* somebody else deleted one or a replacement left one in the bin; and     *)
(* while the listing tells of every file of the movie what it is, and none *)
(* was placed since, it leaves one that is at least as good as the one it  *)
(* removes (scan_and_clean_duplicates, _part_score).                       *)
BestCopyKept ==
  [][\A p \in Paths :
       LET there == FilesOf(Owner[p])
           listed == \A q \in there : q \in DOMAIN clean.list /\ clean.list[q] = PartOf(files[q])
       IN Removes(p) /\ clean.disturbed # "lost" /\ swap[Owner[p]].at # "away"
          => \E q \in there \ {p} :
               listed /\ clean.disturbed = "no" => ~Better(PartOf(files[p]), PartOf(files[q]))]_vars

(* The names in the bin that copies of two movies can be given: those of   *)
(* folders two movies share, and the plain one when a movie has no folder. *)
Shared ==
  {n \in BinNames : \E a, b \in Movies : a # b /\ Folder[a] = n /\ Folder[b] = n}
  \cup {n \in {None} : \E a \in Movies : Folder[a] = None}

(* A copy in the bin is overwritten by none of another movie, though the   *)
(* cleanup looks before it waits for its move and replacements do not look *)
(* at all, unless the name is one that two movies share                    *)
(* (scan_and_clean_duplicates and replace_file, the names in the bin).     *)
BinKeepsOtherMovies ==
  [][\A n \in BinNames \ Shared : bin[n] # NoFilm => bin'[n].movie = bin[n].movie]_vars
=============================================================================
