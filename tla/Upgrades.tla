------------------------------ MODULE Upgrades ------------------------------
(***************************************************************************)
(* One movie, night after night: in the window of the schedule it is       *)
(* searched, a release that compares well with the row of the movie is     *)
(* downloaded, or another where that fails, and takes the place of the     *)
(* film.  The row is what the replacer wrote and what the scanner wrote    *)
(* after it, from what Plex knows or a probe of the file tells; it may be  *)
(* wrong of the film.  The operator locks the movie, changes its policy,   *)
(* prefers a release and keeps the blacklist (core/orchestrator.py,        *)
(* core/searcher.py, core/exclusions.py, core/retry_ladder.py,             *)
(* core/replacer.py, core/scanner.py, core/media_probe.py,                 *)
(* api/library.py).                                                        *)
(*                                                                         *)
(* A film is the release it came from; file is its size, bitrate its       *)
(* bitrate.  Searches, replacements and scans run one at a time here: how  *)
(* they interleave is in Cycle, DownloadWorkflow, Replacement and Library. *)
(***************************************************************************)
EXTENDS Comparer, ScheduleWindow, Blacklist

CONSTANTS
  Catalogue,   \* set of releases
  Offers,      \* sets of releases that a search may find
  Beginnings,  \* records [rule, film, locked, preferred, listed, edits]
  Preferable,  \* titles of results that the operator may prefer
  Wishes,      \* records [intent, keep, larger] the operator may ask for
  Entries,     \* blacklist entries the operator may make
  MaxRetries,  \* blacklist.max_retry_count
  MaxDownloads \* bound: downloads started

(* What the comparison asks of a release, and of a policy.                 *)
Facets == {"resolution", "codec", "source", "hdr", "audio", "languages", "marks", "uploader", "age"}
Wanting == {"intent", "keep", "larger", "downgrade", "priorities", "audio", "staleAge"}

ASSUME OffersAreReleases ==
  Offers \subseteq SUBSET Catalogue /\ \A b \in Beginnings : b.film \in Catalogue
ASSUME ReleasesAreMeasured ==
  \A r \in Catalogue :
    /\ Facets \subseteq DOMAIN r
    /\ r.size \in Nat /\ r.resolution \in 0..4 /\ r.codec \in 0..100 /\ r.bitrate \in Nat
    /\ r.uploader \in 0..100 /\ r.age \in Nat \cup {NoAge}
ASSUME PoliciesAreWhole ==
  \A b \in Beginnings :
    /\ "policy" \in DOMAIN b.rule /\ Wanting \subseteq DOMAIN b.rule.policy
    /\ b.rule.policy.priorities \in [DOMAIN Factor -> Nat]
    /\ IsFiniteSet(DOMAIN b.rule.policy.audio) /\ b.rule.policy.staleAge \in Nat
ASSUME WindowsAreOfTheDay ==
  \A b \in Beginnings :
    /\ "window" \in DOMAIN b.rule /\ b.rule.window.days \subseteq Days
    /\ b.rule.window.start \in 0..(Slots - 1) /\ b.rule.window.end \in 0..(Slots - 1)
ASSUME OperatorsBegin ==
  \A b \in Beginnings :
    /\ b.locked \in BOOLEAN /\ b.edits \in Nat
    /\ IsFiniteSet(b.preferred) /\ Cardinality(b.preferred) <= 1
ASSUME ResultsArePreferred == Preferable \subseteq {r.name : r \in UNION Offers}
ASSUME DownloadsAreBounded == MaxDownloads \in Nat /\ MaxRetries \in Nat
ASSUME NoFilmOutgrowsItsRelease == \A r \in Catalogue : r.file \in 1..r.size

VARIABLES
  rule,      \* the policy of the movie, and the configuration
  film,      \* the release on the disk
  row,       \* the row of the movie: size, resolution, codec, source, bitrate
  plex,      \* the film whose streams Plex knows
  locked,    \* slimarr_locked of the row
  preferred, \* preferred_release_title of the row: {} or a title
  listed,    \* the blacklist
  pick,      \* the search or the download that goes on
  tried,     \* the titles of the movie's downloads
  searched,  \* the moment of the last search, or NoAge
  ladder,    \* how the last retry ladder ended
  had,       \* the films the movie has had (history)
  excuses,   \* was a release chosen by a row that is wrong, or under a
             \* policy that lets the film grow? (history)
  downloads, edits   \* counts of the bounded steps

asked == <<rule, locked, preferred, listed>>
disk  == <<film, row, plex, had>>
vars  == <<rule, locked, preferred, listed, film, row, plex, had,
           pick, tried, searched, ladder, excuses, downloads, edits>>

(* stored: the accepted results of the search, with their scores; among:   *)
(* those the chosen one was taken from; seen: what they were compared with.*)
NoPick == [at |-> "idle", wish |-> {}, chosen |-> {}, among |-> {}, stored |-> {},
           seen |-> {}, retries |-> 0]

Row(f) == [size |-> f.file, resolution |-> f.resolution, codec |-> f.codec,
           source |-> f.source, bitrate |-> f.bitrate]

Init ==
  /\ \E b \in Beginnings :
       /\ rule = b.rule /\ film = b.film /\ had = {b.film}
       /\ locked = b.locked /\ preferred = b.preferred /\ listed = b.listed
       /\ edits = b.edits
  /\ row = Row(film)
  /\ plex = film
  /\ pick = NoPick
  /\ tried = {} /\ searched = NoAge /\ ladder = "none"
  /\ excuses = {} /\ downloads = 0

-----------------------------------------------------------------------------
(* process_single_movie                                                    *)

(* is_movie_excluded: by its id, title or folder (named), its streams, its *)
(* size or its age.                                                        *)
Excluded(x) ==
  \/ x.named \/ x.aged
  \/ row.codec \in x.codecs \/ row.resolution \in x.resolutions
  \/ x.minSize > 0 /\ row.size < x.minSize

Protected == locked \/ rule.policy.keep \/ rule.policy.intent \in {"locked", "pinned"}

(* The movie is read ...                                                   *)
Begin(now) ==
  /\ pick = NoPick /\ downloads < MaxDownloads /\ InWindow(rule.window, now)
  /\ ~Excluded(rule.exclusions) /\ ~Protected
  /\ pick' = [NoPick EXCEPT !.at = "search", !.wish = preferred]
  /\ searched' = now
  /\ UNCHANGED <<asked, disk, tried, ladder, excuses, downloads, edits>>

Good(offer) == {r \in offer : Accepted(row, r, rule.policy)}

Stored(offer) == {[release |-> r, score |-> Score(row, r, rule.policy)] : r \in Good(offer)}

Highest(results) == {s.release : s \in {t \in results : \A u \in results : t.score >= u.score}}

(* The first result that has the preferred title is taken if it is         *)
(* accepted; there may be one of several indexers.                         *)
Titled(offer) == {r \in offer : r.name \in pick.wish}

Selected(offer) ==
  (Titled(offer) \cap Good(offer))
  \cup (IF Titled(offer) # {} /\ Titled(offer) \subseteq Good(offer) THEN {} ELSE Highest(Stored(offer)))

Downloading(r) == tried' = tried \cup {r.name} /\ downloads' = downloads + 1

(* ... then it is searched, by the row and the policy it has by now; with  *)
(* dry_run or review_required nothing is downloaded.                       *)
Search ==
  /\ pick.at = "search"
  /\ \E offer \in Offers :
       IF Good(offer) = {} \/ ~rule.auto
       THEN pick' = NoPick /\ UNCHANGED <<tried, excuses, downloads>>
       ELSE \E r \in Selected(offer) :
              /\ pick' = [pick EXCEPT !.at = "download", !.chosen = {r}, !.stored = Stored(offer),
                            !.among = IF r.name \in pick.wish THEN {r} ELSE Good(offer),
                            !.seen = {[row |-> row, policy |-> rule.policy]}]
              /\ Downloading(r)
              /\ excuses' = excuses \cup (IF row # Row(film) THEN {"misread"} ELSE {})
                                   \cup (IF rule.policy.growPoor \/ rule.policy.larger THEN {"growth"} ELSE {})
  /\ UNCHANGED <<asked, disk, searched, ladder, edits>>

-----------------------------------------------------------------------------
(* A download fails: retry_failed_download.  The operator's policy and     *)
(* lock are not asked again.                                               *)
Untried == {s \in pick.stored : s.release.name \notin tried}
Releases(results) == {s.release : s \in results}
Open == {s \in Untried : ~Banned(listed, s.release)}

Failed == pick.at = "download"
MayRetry == pick.retries < MaxRetries /\ downloads < MaxDownloads

(* get_next_candidate: the highest score; what failed is blacklisted for   *)
(* 30 days, from any indexer.                                              *)
Retry ==
  /\ Failed /\ MayRetry /\ ~Raises(listed, Releases(Untried))
  /\ \E r \in Highest(Open), old \in pick.chosen :
       /\ pick' = [pick EXCEPT !.chosen = {r}, !.among = Releases(Open), !.retries = @ + 1]
       /\ Downloading(r)
       /\ listed' = Added(listed, Entry(old.name, old.by, "", "later"))
  /\ ladder' = "retried"
  /\ UNCHANGED <<rule, locked, preferred, disk, searched, excuses, edits>>

Over(how) ==
  /\ pick' = NoPick /\ searched' = NoAge /\ ladder' = how
  /\ UNCHANGED <<asked, disk, tried, excuses, downloads, edits>>

NoRetry == Failed /\ (pick.retries = MaxRetries \/ (Open = {} /\ ~Raises(listed, Releases(Untried)))) /\ Over("ended")

LadderRaises == Failed /\ pick.retries < MaxRetries /\ Raises(listed, Releases(Untried)) /\ Over("raised")

(* A download that completes, but cannot be put in place, is not retried.  *)
ReplaceFails == Failed /\ Over("none")

-----------------------------------------------------------------------------
(* probe_media_file: nothing of a file that is missing or that cannot be   *)
(* parsed, and of another what its tracks tell; 0 is not told.             *)
Probes(f) ==
  [resolution : {0, f.resolution}, codec : {0, f.codec}, bitrate : {0, f.bitrate}]
NoProbe == [resolution |-> 0, codec |-> 0, bitrate |-> 0]

Or(told, otherwise) == IF told # 0 THEN told ELSE otherwise

(* The row after a replacement: the size always, the streams as far as the *)
(* film could be probed, the source when the title tells one.              *)
InstalledStreams(f, probe) ==
  [row EXCEPT !.resolution = Or(probe.resolution, @), !.codec = Or(probe.codec, @),
              !.bitrate = Or(probe.bitrate, @),
              !.source = IF f.source = "none" THEN @ ELSE f.source]

Installed(f, probe) ==
  [row EXCEPT !.size = f.file,
              !.resolution = Or(probe.resolution, @), !.codec = Or(probe.codec, @),
              !.bitrate = Or(probe.bitrate, @),
              !.source = IF f.source = "none" THEN @ ELSE f.source]

(* replace_file, which asks neither for the policy nor for the lock.       *)
Replace(f, probe) ==
  /\ pick.chosen = {f}
  /\ film' = f
  /\ row' = Installed(f, probe)
  /\ had' = had \cup {f}
  /\ pick' = NoPick /\ searched' = NoAge
  /\ UNCHANGED <<asked, plex, tried, ladder, excuses, downloads, edits>>

-----------------------------------------------------------------------------
PlexAnalyses ==
  /\ plex' = film
  /\ UNCHANGED <<asked, film, row, had, pick, tried, searched, ladder, excuses, downloads, edits>>

(* The file is probed when neither the row nor Plex tells all of it, where *)
(* probing is enabled and, on a network path, allowed.                     *)
Resized == row.size # film.file
RowTells == 0 \notin {row.bitrate, row.codec, row.resolution} /\ ~Resized
PlexStreams == [resolution |-> plex.resolution, codec |-> plex.codec,
                bitrate |-> IF rule.plexTells THEN plex.bitrate ELSE 0]
ShouldProbe == rule.probes /\ ~RowTells /\ 0 \in {PlexStreams[t] : t \in DOMAIN PlexStreams}

(* _run_scan: streams are Plex's, and what Plex does not tell the probe's; *)
(* but those the row has are kept when the size has changed and the file   *)
(* was not probed, or not in time.                                         *)
FromPlex(probe, t) == Or(PlexStreams[t], probe[t])

ScannedStream(probe, t) ==
  IF Resized /\ probe = NoProbe THEN Or(row[t], FromPlex(probe, t)) ELSE FromPlex(probe, t)

Scanned(probe) ==
  [row EXCEPT !.size = film.file, !.resolution = ScannedStream(probe, "resolution"),
              !.codec = ScannedStream(probe, "codec"), !.bitrate = ScannedStream(probe, "bitrate")]

Scan ==
  /\ \E probe \in Probes(film) : (probe # NoProbe => ShouldProbe) /\ row' = Scanned(probe)
  /\ UNCHANGED <<asked, film, plex, had, pick, tried, searched, ladder, excuses, downloads, edits>>

-----------------------------------------------------------------------------
(* The operator                                                            *)
Edit ==
  /\ edits > 0 /\ edits' = edits - 1
  /\ UNCHANGED <<disk, pick, tried, searched, ladder, excuses, downloads>>

Lock   == Edit /\ locked' = TRUE /\ UNCHANGED <<rule, preferred, listed>>
Unlock == Edit /\ locked /\ locked' = FALSE /\ UNCHANGED <<rule, preferred, listed>>

(* An intent of locked or pinned locks the movie as well, another leaves   *)
(* it locked.                                                              *)
SetIntent(w) ==
  /\ Edit
  /\ rule' = [rule EXCEPT !.policy =
       [@ EXCEPT !.intent = w.intent, !.keep = w.keep, !.larger = w.larger]]
  /\ locked' = (locked \/ w.intent \in {"locked", "pinned"})
  /\ UNCHANGED <<preferred, listed>>

(* A result of some search is preferred, accepted or not; or none.         *)
Prefer ==
  /\ Edit
  /\ \E title \in Preferable : preferred' = {title}
  /\ UNCHANGED <<rule, locked, listed>>
ClearPreferred == Edit /\ preferred # {} /\ preferred' = {} /\ UNCHANGED <<rule, locked, listed>>

AddEntry(e) == Edit /\ listed' = Added(listed, e) /\ UNCHANGED <<rule, locked, preferred>>

RemoveEntry ==
  /\ Edit
  /\ \E e \in Shown(listed) : listed' = listed \ {e}
  /\ UNCHANGED <<rule, locked, preferred>>

(* Days pass.                                                              *)
EntryExpires(e) ==
  /\ e.expires = "later" /\ listed' = Expired(listed, e)
  /\ UNCHANGED <<rule, locked, preferred, disk, pick, tried, searched, ladder, excuses, downloads, edits>>

Next ==
  \/ \E now \in Moments : Begin(now)
  \/ Search \/ Retry \/ NoRetry \/ LadderRaises \/ ReplaceFails
  \/ \E f \in pick.chosen : \E probe \in Probes(f) : Replace(f, probe)
  \/ PlexAnalyses \/ Scan
  \/ Lock \/ Unlock \/ Prefer \/ ClearPreferred \/ RemoveEntry
  \/ \E w \in Wishes : SetIntent(w)
  \/ \E e \in Entries : AddEntry(e)
  \/ \E e \in listed : EntryExpires(e)

Spec == Init /\ [][Next]_vars
-----------------------------------------------------------------------------
TypeOK ==
  /\ film \in Catalogue /\ plex \in Catalogue /\ had \subseteq Catalogue
  /\ row.size \in Nat \ {0} /\ row.resolution \in 0..4
  /\ row.codec \in 0..100 /\ row.bitrate \in Nat
  /\ locked \in BOOLEAN /\ Cardinality(preferred) <= 1
  /\ Cardinality(pick.chosen) <= 1 /\ pick.chosen \subseteq pick.among
  /\ pick.retries \in 0..MaxRetries
  /\ searched \in Moments \cup {NoAge} /\ downloads \in 0..MaxDownloads /\ edits \in Nat

(* A night begins on an allowed day, at the start of the window, and lasts *)
(* until its end comes, whether midnight or the end of the week lies       *)
(* between.                                                                *)
SearchedInTheNight ==
  searched # NoAge =>
    LET w == rule.window
        length == IF w.end > w.start THEN w.end - w.start ELSE w.end + Slots - w.start
    IN \E d \in AllowedDays(w), k \in 0..(length - 1) :
         searched = (d * Slots + w.start + k) % (7 * Slots)

Alike(r, x) == \A f \in Facets : r[f] = x[f]

(* Of two releases that a comparison tells apart by nothing but their size *)
(* the larger one is not chosen, first or after a failure, unless it is    *)
(* chosen because the film may grow, or for its title; or their sizes      *)
(* differ by less than a hundredth of a percent of the film's, which the   *)
(* scores do not tell.                                                     *)
SmallestOfEquals ==
  \A r \in pick.chosen, x \in pick.among, s \in pick.seen :
    /\ Alike(r, x)
    /\ (r.size - x.size) * 10000 >= s.row.size
    => MayGrow(s.row, r, s.policy) \/ MayGrow(s.row, x, s.policy)

(* Variables have their types, searches are made in the nights of the      *)
(* schedule (is_within_schedule_window), and of equals the smallest is     *)
(* chosen (compare_release, process_single_movie, get_next_candidate).     *)
SearchesSound == TypeOK /\ SearchedInTheNight /\ SmallestOfEquals

(* Unless the policy allows a lower resolution, no chain of replacements   *)
(* leaves a film of a lower one than the movie has had, as long as the row *)
(* was true of the film at every choice (compare_release, replace_file,    *)
(* _run_scan).                                                             *)
ResolutionKept ==
  "misread" \notin excuses /\ ~rule.policy.downgrade => \A f \in had : film.resolution >= f.resolution

(* A film that was replaced never comes back, in any number of nights and  *)
(* with any retries, whatever else the operator changes, as long as the    *)
(* policy never let the film grow; and a film gives way to a larger one    *)
(* only when it was poor, or the policy of the movie let it grow when the  *)
(* release was searched for, as long as the row was true of the film       *)
(* (compare_release, get_next_candidate, replace_file).                    *)
ReplacedForAReason ==
  [][film' # film =>
       /\ "growth" \notin excuses => film' \notin had
       /\ film'.file > film.file /\ "misread" \notin excuses =>
            \A s \in pick.seen :
              s.policy.larger \/ (s.policy.growPoor /\ Poor(Row(film)))]_vars

(* The retry ladder begins no release that an entry of its title and its   *)
(* uploader names, for its indexer or for any (get_blacklist_reasons and   *)
(* add_to_blacklist).                                                      *)
LadderHeedsBlacklist ==
  [][pick'.retries > pick.retries =>
       \A r \in pick'.chosen, e \in listed :
         e.title = r.name /\ e.by = r.by => e.indexer \notin {"", r.indexer}]_vars

(* What the operator has put on the blacklist, by the title alone as the   *)
(* page of the blacklist does, is not retried: "Avoid retrying generic     *)
(* blacklisted releases even if they came from a different indexer".       *)
TitleHeeded ==
  [][pick'.retries > pick.retries =>
       \A r \in pick'.chosen : \A e \in Shown(listed) : e.indexer = "" => e.title # r.name]_vars
=============================================================================
