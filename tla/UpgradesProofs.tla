--------------------------- MODULE UpgradesProofs ---------------------------
(***************************************************************************)
(* Proofs about Upgrades, for any catalogue of releases, any policies,     *)
(* offers and operators, and any number of nights: what chains of          *)
(* replacements may do to the film, what the ladder owes the blacklist,    *)
(* when searches are made, and which of equal releases they choose.        *)
(***************************************************************************)
EXTENDS Upgrades, FiniteSetTheorems, TLAPS

-----------------------------------------------------------------------------
(* What it takes to be accepted                                            *)

(* A release that is accepted is smaller than the row says of the film, or *)
(* the policy lets the film grow.                                          *)
LEMMA AcceptedIsSmaller ==
  ASSUME NEW l, NEW r, NEW p, Accepted(l, r, p)
  PROVE  r.size < l.size \/ p.larger \/ (p.growPoor /\ Poor(l))
BY DEF Accepted, SavesEnough, MayGrow, UpgradeAllows, IntentAllows, PriorityAllows

(* It has no lower resolution than the row, unless downgrades are allowed. *)
LEMMA AcceptedIsSharp ==
  ASSUME NEW l, NEW r, NEW p, Accepted(l, r, p), ~p.downgrade
  PROVE  ~(r.resolution < l.resolution)
BY DEF Accepted, ResolutionAllowed

(* The highest scores of some results are scores of releases among them.   *)
LEMMA HighestAreReleases ==
  ASSUME NEW S, NEW r \in Highest(S)
  PROVE  \E s \in S : s.release = r
BY DEF Highest

(* Only what was offered and accepted is selected, or stored.              *)
LEMMA SelectedAreGood ==
  ASSUME NEW offer
  PROVE  /\ \A r \in Selected(offer) : r \in Good(offer)
         /\ Releases(Stored(offer)) = Good(offer)
<1>1. Releases(Stored(offer)) = Good(offer)
  <2>1. ASSUME NEW r \in Good(offer)
        PROVE  r \in Releases(Stored(offer))
    <3>1. PICK s : s = [release |-> r, score |-> Score(row, r, rule.policy)]
      OBVIOUS
    <3>2. s \in Stored(offer) /\ s.release = r
      BY <3>1 DEF Stored
    <3>. QED
      BY <3>2 DEF Releases
  <2>2. ASSUME NEW r \in Releases(Stored(offer))
        PROVE  r \in Good(offer)
    BY <2>2 DEF Releases, Stored
  <2>. QED
    BY <2>1, <2>2
<1>2. ASSUME NEW r \in Highest(Stored(offer))
      PROVE  r \in Good(offer)
  <2>1. PICK s \in Stored(offer) : s.release = r
    BY <1>2, HighestAreReleases
  <2>. QED
    BY <2>1 DEF Stored
<1>. QED
  BY <1>1, <1>2 DEF Selected

-----------------------------------------------------------------------------
(* The inductive invariant                                                 *)

RuleOK ==
  /\ "policy" \in DOMAIN rule
  /\ {"intent", "keep", "larger", "downgrade"} \subseteq DOMAIN rule.policy

(* The size in the row is true whatever else is misread.                   *)
RowOK ==
  /\ DOMAIN row = {"size", "resolution", "codec", "source", "bitrate"}
  /\ row.size = film.file

HadOK == film \in had /\ had \subseteq Catalogue

(* While the policy lets no film grow, each is smaller than all before it. *)
Shrinking == "growth" \notin excuses => \A f \in had : f # film => film.file < f.file

(* A comparison still speaks of the film that is there: none is replaced   *)
(* between a search and the end of its downloads.                          *)
Comparison(s) ==
  /\ s.row.size = film.file
  /\ "misread" \notin excuses => s.row = Row(film)
  /\ "growth" \notin excuses => ~s.policy.growPoor /\ ~s.policy.larger
  /\ s.policy.downgrade = rule.policy.downgrade

(* Whatever is downloaded, or may be after a failure, was accepted by the  *)
(* one comparison of the search.                                           *)
Accepting(s, r) == r \in Catalogue /\ Accepted(s.row, r, s.policy)

PickOK ==
  /\ DOMAIN pick = DOMAIN NoPick
  /\ pick.retries \in Nat
  /\ pick.at # "download" => pick.chosen = {}
  /\ pick.at = "download" =>
       \E s : /\ pick.seen = {s} /\ Comparison(s)
              /\ \A r \in pick.chosen \cup Releases(pick.stored) : Accepting(s, r)

IInv == RuleOK /\ RowOK /\ HadOK /\ Shrinking /\ PickOK /\ ResolutionKept

(* What the invariant speaks of.                                           *)
watched == <<film, had, pick, excuses>>

-----------------------------------------------------------------------------
(* It holds at the beginning.                                              *)
LEMMA InitInvariant == Init => IInv
<1>. SUFFICES ASSUME Init PROVE IInv
  OBVIOUS
<1>1. PICK b \in Beginnings : rule = b.rule /\ film = b.film /\ had = {b.film}
  BY DEF Init
<1>2. b.film \in Catalogue
  BY OffersAreReleases
<1>3. RuleOK
  BY <1>1, PoliciesAreWhole DEF RuleOK, Wanting
<1>4. RowOK
  BY DEF RowOK, Init, Row
<1>5. HadOK /\ Shrinking
  BY <1>1, <1>2 DEF HadOK, Shrinking
<1>6. PickOK
  BY DEF PickOK, Init, NoPick
<1>7. ResolutionKept
  BY <1>1, <1>2, ReleasesAreMeasured DEF ResolutionKept
<1>. QED
  BY <1>3, <1>4, <1>5, <1>6, <1>7 DEF IInv

-----------------------------------------------------------------------------
(* Every step preserves it.                                                *)

(* An edit of the operator, an expiry and Plex's analysis change nothing   *)
(* that the invariant speaks of: downgrades are not the operator's to      *)
(* allow while the movie is watched.                                       *)
LEMMA Quiet ==
  ASSUME IInv, UNCHANGED <<watched, row>>,
         RuleOK', rule'.policy.downgrade = rule.policy.downgrade
  PROVE  IInv'
<1>1. RowOK' /\ HadOK' /\ Shrinking'
  BY DEF IInv, RowOK, HadOK, Shrinking, watched
<1>2. PickOK'
  BY DEF IInv, PickOK, Comparison, Accepting, watched
<1>3. ResolutionKept'
  BY DEF IInv, ResolutionKept, watched
<1>. QED
  BY <1>1, <1>2, <1>3 DEF IInv

(* A scan tells the size, whatever it makes of the streams.                *)
LEMMA ScanStep == IInv /\ Scan => IInv'
<1>. SUFFICES ASSUME IInv, Scan PROVE IInv'
  OBVIOUS
<1>1. UNCHANGED <<watched, rule>>
  BY DEF Scan, asked, watched
<1>2. RowOK'
  BY DEF IInv, RowOK, Scan, Scanned
<1>3. PickOK'
  BY <1>1 DEF IInv, PickOK, Comparison, Accepting, watched
<1>. QED
  BY <1>1, <1>2, <1>3 DEF IInv, RuleOK, HadOK, Shrinking, ResolutionKept, watched

(* The end of a pick leaves the film as it is.                             *)
LEMMA OverStep ==
  ASSUME IInv, NEW how, Over(how)
  PROVE  IInv'
<1>1. UNCHANGED <<rule, film, row, had, excuses>> /\ pick' = NoPick
  BY DEF Over, asked, disk
<1>2. PickOK'
  BY <1>1 DEF PickOK, NoPick
<1>. QED
  BY <1>1, <1>2 DEF IInv, RuleOK, RowOK, HadOK, Shrinking, ResolutionKept

(* The movie is read.                                                      *)
LEMMA BeginStep ==
  ASSUME IInv, NEW now, Begin(now)
  PROVE  IInv'
<1>1. UNCHANGED <<rule, film, row, had, excuses>>
  BY DEF Begin, asked, disk
<1>2. PickOK'
  BY DEF Begin, PickOK, NoPick
<1>. QED
  BY <1>1, <1>2 DEF IInv, RuleOK, RowOK, HadOK, Shrinking, ResolutionKept

(* A search compares with the row and the policy there are.                *)
LEMMA SearchStep == IInv /\ Search => IInv'
<1>. SUFFICES ASSUME IInv, Search PROVE IInv'
  OBVIOUS
<1>1. UNCHANGED <<rule, film, row, had>>
  BY DEF Search, asked, disk
<1>2. PICK offer \in Offers :
        IF Good(offer) = {} \/ ~rule.auto
        THEN pick' = NoPick /\ UNCHANGED <<tried, excuses, downloads>>
        ELSE \E r \in Selected(offer) :
               /\ pick' = [pick EXCEPT !.at = "download", !.chosen = {r}, !.stored = Stored(offer),
                             !.among = IF r.name \in pick.wish THEN {r} ELSE Good(offer),
                             !.seen = {[row |-> row, policy |-> rule.policy]}]
               /\ Downloading(r)
               /\ excuses' = excuses \cup (IF row # Row(film) THEN {"misread"} ELSE {})
                                    \cup (IF rule.policy.growPoor \/ rule.policy.larger THEN {"growth"} ELSE {})
  BY DEF Search
<1>3. excuses \subseteq excuses'
  BY <1>2
<1>4. PickOK'
  <2>1. CASE Good(offer) = {} \/ ~rule.auto
    <3>1. pick' = NoPick
      BY <1>2, <2>1
    <3>. QED
      BY <3>1 DEF PickOK, NoPick
  <2>2. CASE ~(Good(offer) = {} \/ ~rule.auto)
    <3>1. PICK r \in Selected(offer) :
            /\ pick' = [pick EXCEPT !.at = "download", !.chosen = {r}, !.stored = Stored(offer),
                          !.among = IF r.name \in pick.wish THEN {r} ELSE Good(offer),
                          !.seen = {[row |-> row, policy |-> rule.policy]}]
            /\ excuses' = excuses \cup (IF row # Row(film) THEN {"misread"} ELSE {})
                                 \cup (IF rule.policy.growPoor \/ rule.policy.larger THEN {"growth"} ELSE {})
      BY <1>2, <2>2
    <3>2. PICK s : s = [row |-> row, policy |-> rule.policy]
      OBVIOUS
    <3>3. s.row = row /\ s.policy = rule.policy
      BY <3>2
    <3>4. /\ DOMAIN pick' = DOMAIN NoPick /\ pick'.retries = pick.retries
          /\ pick'.at = "download" /\ pick'.chosen = {r}
          /\ pick'.stored = Stored(offer) /\ pick'.seen = {s}
      BY <3>1, <3>2 DEF IInv, PickOK, NoPick
    <3>5. Comparison(s)'
      <4>1. s.row.size = film'.file
        BY <1>1, <3>3 DEF IInv, RowOK
      <4>2. "misread" \notin excuses' => s.row = Row(film')
        BY <1>1, <3>1, <3>3
      <4>3. "growth" \notin excuses' => ~s.policy.growPoor /\ ~s.policy.larger
        BY <3>1, <3>3
      <4>. QED
        BY <1>1, <3>3, <4>1, <4>2, <4>3 DEF Comparison, Row
    <3>6. ASSUME NEW x \in Good(offer)
          PROVE  Accepting(s, x)
      BY <3>3, <3>6, OffersAreReleases DEF Good, Accepting
    <3>7. \A x \in (pick.chosen \cup Releases(pick.stored))' : Accepting(s, x)
      BY <3>1, <3>4, <3>6, SelectedAreGood DEF Releases
    <3>. QED
      BY <3>4, <3>5, <3>7 DEF PickOK, IInv, Accepting
  <2>. QED
    BY <2>1, <2>2
<1>. QED
  BY <1>1, <1>3, <1>4 DEF IInv, RuleOK, RowOK, HadOK, Shrinking, ResolutionKept

(* The ladder takes what the search had stored.                            *)
LEMMA RetryStep == IInv /\ Retry => IInv'
<1>. SUFFICES ASSUME IInv, Retry PROVE IInv'
  OBVIOUS
<1>1. UNCHANGED <<rule, film, row, had, excuses>>
  BY DEF Retry, disk
<1>2. PICK r \in Highest(Open) :
        pick' = [pick EXCEPT !.chosen = {r}, !.among = Releases(Open), !.retries = @ + 1]
  BY DEF Retry
<1>3. r \in Releases(pick.stored)
  BY HighestAreReleases DEF Open, Untried, Releases
<1>4. /\ DOMAIN pick' = DOMAIN NoPick /\ pick'.retries = pick.retries + 1
      /\ pick'.at = "download" /\ pick.at = "download" /\ pick'.chosen = {r}
      /\ pick'.stored = pick.stored /\ pick'.seen = pick.seen
  BY <1>2 DEF IInv, PickOK, NoPick, Retry, Failed
<1>5. PickOK'
  <2>1. PICK s : /\ pick.seen = {s} /\ Comparison(s)
                 /\ \A x \in pick.chosen \cup Releases(pick.stored) : Accepting(s, x)
    BY <1>4 DEF IInv, PickOK
  <2>2. Comparison(s)'
    BY <1>1, <2>1 DEF Comparison, Row
  <2>3. \A x \in (pick.chosen \cup Releases(pick.stored))' : Accepting(s, x)
    BY <1>3, <1>4, <2>1 DEF Releases
  <2>. QED
    BY <1>4, <2>1, <2>2, <2>3 DEF PickOK, IInv, Accepting
<1>. QED
  BY <1>1, <1>5 DEF IInv, RuleOK, RowOK, HadOK, Shrinking, ResolutionKept

(* The new film is no larger than the release that the comparison took it  *)
(* for, and that was smaller than the film unless the policy let it grow.  *)
LEMMA NewFilm ==
  ASSUME IInv, NEW f, pick.chosen = {f}
  PROVE  \E s : /\ pick.seen = {s} /\ Comparison(s) /\ Accepting(s, f)
                /\ f.file < film.file \/ s.policy.larger \/ (s.policy.growPoor /\ Poor(s.row))
                /\ ~s.policy.downgrade => ~(f.resolution < s.row.resolution)
<1>1. PICK s : /\ pick.seen = {s} /\ Comparison(s)
               /\ \A r \in pick.chosen \cup Releases(pick.stored) : Accepting(s, r)
  BY DEF IInv, PickOK
<1>2. Accepting(s, f)
  BY <1>1
<1>3. film \in Catalogue /\ f \in Catalogue
  BY <1>2 DEF IInv, HadOK, Accepting
<1>4. f.size < film.file \/ s.policy.larger \/ (s.policy.growPoor /\ Poor(s.row))
  BY <1>1, <1>2, AcceptedIsSmaller DEF Accepting, Comparison
<1>5. f.file \in Nat /\ f.size \in Nat /\ film.file \in Nat /\ f.file <= f.size
  BY <1>3, NoFilmOutgrowsItsRelease, ReleasesAreMeasured
<1>6. ~s.policy.downgrade => ~(f.resolution < s.row.resolution)
  BY <1>2, AcceptedIsSharp DEF Accepting
<1>. QED
  BY <1>1, <1>2, <1>4, <1>5, <1>6

(* The release takes the place of the film (replace_file).                 *)
LEMMA ReplaceStep ==
  ASSUME IInv, NEW f, NEW probe, Replace(f, probe)
  PROVE  IInv'
<1>1. /\ pick.chosen = {f} /\ film' = f /\ had' = had \cup {f} /\ pick' = NoPick
      /\ UNCHANGED <<rule, excuses>>
  BY DEF Replace, asked
<1>2. PICK s : /\ Comparison(s) /\ Accepting(s, f)
               /\ f.file < film.file \/ s.policy.larger \/ (s.policy.growPoor /\ Poor(s.row))
               /\ ~s.policy.downgrade => ~(f.resolution < s.row.resolution)
  BY <1>1, NewFilm
<1>3. RowOK'
  BY <1>1 DEF IInv, RowOK, Replace, Installed
<1>4. HadOK' /\ RuleOK' /\ PickOK'
  BY <1>1, <1>2 DEF IInv, HadOK, RuleOK, PickOK, NoPick, Accepting
<1>5. \A g \in had' : g \in Catalogue /\ g.file \in Nat /\ g.resolution \in Nat
  BY <1>4, NoFilmOutgrowsItsRelease, ReleasesAreMeasured DEF HadOK
<1>6. f \in had' /\ film \in had'
  BY <1>1 DEF IInv, HadOK
<1>7. Shrinking'
  <2>. SUFFICES ASSUME "growth" \notin excuses, NEW g \in had, g # f
                PROVE  f.file < g.file
    BY <1>1 DEF Shrinking
  <2>1. f.file < film.file
    BY <1>2 DEF Comparison
  <2>2. g = film \/ film.file < g.file
    BY DEF IInv, Shrinking
  <2>3. f.file \in Nat /\ film.file \in Nat /\ g.file \in Nat
    BY <1>1, <1>5, <1>6
  <2>. QED
    BY <2>1, <2>2, <2>3
<1>8. ResolutionKept'
  <2>. SUFFICES ASSUME "misread" \notin excuses, ~rule.policy.downgrade, NEW g \in had'
                PROVE  f.resolution >= g.resolution
    BY <1>1 DEF ResolutionKept
  <2>1. s.row.resolution = film.resolution
    BY <1>2 DEF Comparison, Row
  <2>2. ~(f.resolution < film.resolution)
    BY <1>2, <2>1 DEF Comparison
  <2>3. g \in had => film.resolution >= g.resolution
    BY DEF IInv, ResolutionKept
  <2>4. f.resolution \in Nat /\ film.resolution \in Nat /\ g.resolution \in Nat
    BY <1>5, <1>6
  <2>. QED
    BY <1>1, <2>2, <2>3, <2>4
<1>. QED
  BY <1>3, <1>4, <1>7, <1>8 DEF IInv

(* Every step keeps the invariant.                                         *)
LEMMA StepInvariant == IInv /\ [Next]_vars => IInv'
<1>. SUFFICES ASSUME IInv, [Next]_vars PROVE IInv'
  OBVIOUS
<1>1. CASE \E now \in Moments : Begin(now)
  BY <1>1, BeginStep
<1>2. CASE Search
  BY <1>2, SearchStep
<1>3. CASE Retry
  BY <1>3, RetryStep
<1>4. CASE NoRetry \/ LadderRaises \/ ReplaceFails
  BY <1>4, OverStep DEF NoRetry, LadderRaises, ReplaceFails
<1>5. CASE \E f \in pick.chosen : \E probe \in Probes(f) : Replace(f, probe)
  BY <1>5, ReplaceStep
<1>6. CASE Scan
  BY <1>6, ScanStep
<1>7. CASE \/ PlexAnalyses \/ Lock \/ Unlock \/ Prefer \/ ClearPreferred \/ RemoveEntry
           \/ (\E e \in Entries : AddEntry(e)) \/ (\E e \in listed : EntryExpires(e))
           \/ UNCHANGED vars
  <2>1. UNCHANGED <<watched, row, rule>>
    BY <1>7 DEF PlexAnalyses, Lock, Unlock, Prefer, ClearPreferred, RemoveEntry, AddEntry,
       EntryExpires, Edit, asked, disk, watched, vars
  <2>. QED
    BY <2>1, Quiet DEF IInv, RuleOK
<1>8. CASE \E w \in Wishes : SetIntent(w)
  <2>1. UNCHANGED <<watched, row>>
    BY <1>8 DEF SetIntent, Edit, disk, watched
  <2>2. RuleOK' /\ rule'.policy.downgrade = rule.policy.downgrade
    BY <1>8 DEF SetIntent, IInv, RuleOK
  <2>. QED
    BY <2>1, <2>2, Quiet
<1>. QED
  BY <1>1, <1>2, <1>3, <1>4, <1>5, <1>6, <1>7, <1>8, Zenon DEF Next

(* The inductive invariant of the chains of replacements: what may be      *)
(* downloaded was accepted for the film that is there.                     *)
THEOREM Invariant == Spec => []IInv
BY InitInvariant, StepInvariant, PTL DEF Spec

-----------------------------------------------------------------------------
(* No chain of replacements leaves a film of a lower resolution than the   *)
(* movie has had, unless the policy allows it or a row was wrong at a      *)
(* choice (compare_release, replace_file, _run_scan).                      *)
THEOREM ResolutionIsKept == Spec => []ResolutionKept
<1>1. IInv => ResolutionKept
  BY DEF IInv
<1>. QED
  BY <1>1, Invariant, PTL

(* A film that was replaced never comes back while the policy lets none    *)
(* grow, and one that gives way to a larger film was poor, or its policy   *)
(* let it grow (compare_release, get_next_candidate, replace_file).        *)
THEOREM FilmsDoNotReturn == Spec => ReplacedForAReason
<1>1. ASSUME IInv, [Next]_vars, film' # film
      PROVE  /\ "growth" \notin excuses => film' \notin had
             /\ film'.file > film.file /\ "misread" \notin excuses =>
                  \A s \in pick.seen :
                    s.policy.larger \/ (s.policy.growPoor /\ Poor(Row(film)))
  <2>1. PICK f \in pick.chosen : \E probe \in Probes(f) : Replace(f, probe)
    BY <1>1 DEF Next, vars, Begin, Search, Retry, NoRetry, LadderRaises, ReplaceFails,
       Over, PlexAnalyses, Scan, Lock, Unlock, Prefer, ClearPreferred, RemoveEntry, AddEntry,
       EntryExpires, SetIntent, Edit, asked, disk
  <2>2. film' = f /\ pick.chosen = {f}
    BY <2>1 DEF Replace
  <2>3. PICK s : /\ pick.seen = {s} /\ Comparison(s) /\ Accepting(s, f)
                 /\ f.file < film.file \/ s.policy.larger \/ (s.policy.growPoor /\ Poor(s.row))
    BY <1>1, <2>2, NewFilm
  <2>4. \A g \in had \cup {f} : g.file \in Nat
    BY <1>1, <2>3, NoFilmOutgrowsItsRelease DEF IInv, HadOK, Accepting
  <2>5. f.file \in Nat /\ film.file \in Nat
    BY <1>1, <2>4 DEF IInv, HadOK
  <2>6. ASSUME "growth" \notin excuses, f \in had
        PROVE  FALSE
    <3>1. f.file < film.file
      BY <2>3, <2>6 DEF Comparison
    <3>2. film.file < f.file
      BY <1>1, <2>2, <2>6 DEF IInv, Shrinking
    <3>. QED
      BY <2>5, <3>1, <3>2
  <2>7. ASSUME f.file > film.file, "misread" \notin excuses
        PROVE  s.policy.larger \/ (s.policy.growPoor /\ Poor(Row(film)))
    BY <2>3, <2>5, <2>7 DEF Comparison
  <2>. QED
    BY <2>2, <2>3, <2>6, <2>7
<1>2. IInv /\ [Next]_vars =>
        [film' # film =>
           /\ "growth" \notin excuses => film' \notin had
           /\ film'.file > film.file /\ "misread" \notin excuses =>
                \A s \in pick.seen :
                  s.policy.larger \/ (s.policy.growPoor /\ Poor(Row(film)))]_vars
  BY <1>1
<1>. QED
  BY <1>2, Invariant, PTL DEF Spec, ReplacedForAReason

(* The retry ladder begins no release that an entry of its title and its   *)
(* uploader names, for its indexer or for any (get_blacklist_reasons and   *)
(* add_to_blacklist).                                                      *)
THEOREM BlacklistIsHeeded == Spec => LadderHeedsBlacklist
<1>1. ASSUME IInv, [Next]_vars, pick'.retries > pick.retries,
             NEW r \in pick'.chosen, NEW e \in listed, e.title = r.name, e.by = r.by
      PROVE  e.indexer \notin {"", r.indexer}
  <2>1. pick.retries \in Nat
    BY <1>1 DEF IInv, PickOK
  <2>2. pick'.retries # pick.retries /\ pick' # NoPick
    BY <1>1, <2>1 DEF NoPick
  <2>3. Retry
    <3>1. pick' # pick
      BY <2>2
    <3>2. ~\E now \in Moments : Begin(now)
      BY <1>1, <2>1 DEF Begin, NoPick
    <3>3. ~Search
      <4>. SUFFICES ASSUME Search PROVE FALSE
        OBVIOUS
      <4>1. PICK r1, offer :
              pick' = [pick EXCEPT !.at = "download", !.chosen = {r1}, !.stored = Stored(offer),
                         !.among = IF r1.name \in pick.wish THEN {r1} ELSE Good(offer),
                         !.seen = {[row |-> row, policy |-> rule.policy]}]
        BY <2>2, Zenon DEF Search
      <4>. QED
        BY <1>1, <2>2, <4>1 DEF IInv, PickOK, NoPick
    <3>. QED
      BY <1>1, <2>2, <3>1, <3>2, <3>3 DEF Next, vars, NoRetry, LadderRaises, ReplaceFails,
         Over, PlexAnalyses, Scan, Lock, Unlock, Prefer, ClearPreferred, RemoveEntry, AddEntry,
         EntryExpires, SetIntent, Edit, asked, disk, Replace
  <2>4. r \in Highest(Open)
    <3>1. PICK r1 \in Highest(Open) :
            pick' = [pick EXCEPT !.chosen = {r1}, !.among = Releases(Open), !.retries = @ + 1]
      BY <2>3 DEF Retry
    <3>2. pick'.chosen = {r1}
      BY <1>1, <3>1 DEF IInv, PickOK, NoPick
    <3>. QED
      BY <1>1, <3>1, <3>2
  <2>5. Matching(listed, {r}) = {}
    BY <2>4, HighestAreReleases DEF Open, Banned
  <2>6. Hash(e) \notin Hashes(r)
    BY <1>1, <2>5 DEF Matching
  <2>. QED
    BY <1>1, <2>6 DEF Hash, Hashes
<1>2. IInv /\ [Next]_vars =>
        [pick'.retries > pick.retries =>
           \A r \in pick'.chosen, e \in listed :
             e.title = r.name /\ e.by = r.by => e.indexer \notin {"", r.indexer}]_vars
  BY <1>1
<1>. QED
  BY <1>2, Invariant, PTL DEF Spec, LadderHeedsBlacklist

-----------------------------------------------------------------------------
(* The types of what scores are computed from                              *)

RowTyped(l) ==
  /\ l.size \in Nat \ {0} /\ l.resolution \in 0..4
  /\ l.codec \in 0..100 /\ l.bitrate \in Nat

ReleaseTyped(r) ==
  /\ r.size \in Nat /\ r.resolution \in 0..4 /\ r.codec \in 0..100
  /\ r.uploader \in 0..100 /\ r.age \in Nat \cup {NoAge}

PolicyTyped(p) ==
  /\ p.priorities \in [DOMAIN Factor -> Nat]
  /\ IsFiniteSet(DOMAIN p.audio) /\ p.staleAge \in Nat

WindowTyped(w) ==
  /\ w.days \subseteq Days
  /\ w.start \in 0..(Slots - 1) /\ w.end \in 0..(Slots - 1)

(* Of releases that are alike a comparison tells nothing apart but the     *)
(* size.                                                                   *)
LEMMA AlikeFacets ==
  ASSUME NEW r, NEW x, Alike(r, x)
  PROVE  /\ r.resolution = x.resolution /\ r.codec = x.codec /\ r.source = x.source
         /\ r.hdr = x.hdr /\ r.audio = x.audio /\ r.languages = x.languages
         /\ r.marks = x.marks /\ r.uploader = x.uploader /\ r.age = x.age
BY DEF Alike, Facets

-----------------------------------------------------------------------------
(* Scores                                                                  *)

(* A quotient grows by one at least when its dividend grows by the divisor.*)
LEMMA QuotientGrows ==
  ASSUME NEW a \in Int, NEW c \in Int, NEW b \in Nat \ {0}, a >= c + b
  PROVE  a \div b \in Int /\ c \div b \in Int /\ a \div b > c \div b
<1>. DEFINE q == c \div b
<1>1. q \in Int /\ b * q <= c /\ c < b * (q + 1)
  OBVIOUS
<1>2. a \div b \in Int /\ a < b * (a \div b + 1)
  OBVIOUS
<1>3. b * (q + 1) = b * q + b
  BY <1>1
<1>4. b * (q + 1) < b * (a \div b + 1)
  BY <1>1, <1>2, <1>3
<1>. QED
  BY <1>1, <1>2, <1>4

(* Of two releases whose sizes differ by a hundredth of a percent of the   *)
(* row's, more is saved by the smaller one.                                *)
LEMMA SavedMore ==
  ASSUME NEW l, NEW r, NEW x, RowTyped(l), r.size \in Nat, x.size \in Nat,
         (r.size - x.size) * 10000 >= l.size
  PROVE  Saved(l, r) \in Int /\ Saved(l, x) \in Int /\ Saved(l, x) > Saved(l, r)
<1>. DEFINE a == (l.size - x.size) * 10000
            c == (l.size - r.size) * 10000
<1>1. l.size \in Nat \ {0} /\ a \in Int /\ c \in Int /\ a >= c + l.size
  BY DEF RowTyped
<1>2. AtLeast(1, l.size) = l.size
  BY <1>1 DEF AtLeast
<1>. HIDE DEF a, c
<1>3. a \div l.size \in Int /\ c \div l.size \in Int /\ a \div l.size > c \div l.size
  BY <1>1, QuotientGrows
<1>. QED
  BY <1>2, <1>3 DEF Saved, a, c

(* A source has a rank, known or not.                                      *)
LEMMA RanksType ==
  ASSUME NEW s
  PROVE  SourceRank(s) \in Nat
BY DEF SourceRank, Ranked

(* The health of a release is a number,                                    *)
LEMMA HealthType ==
  ASSUME NEW r, ReleaseTyped(r)
  PROVE  ReleaseHealth(r) \in Int
<1>. DEFINE rank == SourceRank(r.source)
            kind == IF r.source \in LowQuality THEN -4500
                    ELSE IF r.source \in {"webdl", "bluray", "remux"} THEN 1200 ELSE 0
            tiny == IF Suspicious(r) THEN 3500 ELSE 0
            dv == IF r.hdr = "dv" THEN 1800 ELSE 0
            hard == IF "hardsub" \in r.marks THEN 2000 ELSE 0
            proper == IF "proper" \in r.marks THEN 300 ELSE 0
            repack == IF "repack" \in r.marks THEN 200 ELSE 0
<1>1. rank \in Int
  BY RanksType
<1>2. /\ kind \in Int /\ tiny \in Int /\ dv \in Int /\ hard \in Int
      /\ proper \in Int /\ repack \in Int
  OBVIOUS
<1>3. r.resolution \in Int /\ r.codec \in Int /\ r.uploader \in Int
  BY DEF ReleaseTyped
<1>4. ReleaseHealth(r) =
        Clamped(5000 + (r.resolution - 2) * 800 + (rank - 50) * 45 + (r.codec - 50) * 12
          + (r.uploader - 50) * 12 + kind - tiny - dv - hard + proper + repack)
  BY DEF ReleaseHealth
<1>. HIDE DEF rank, kind, tiny, dv, hard, proper, repack
<1>. QED
  BY <1>1, <1>2, <1>3, <1>4 DEF Clamped, AtLeast, AtMost

(* so is that of the row,                                                  *)
LEMMA LocalHealthType ==
  ASSUME NEW l, RowTyped(l)
  PROVE  LocalHealth(l) \in Int
<1>. DEFINE source == IF l.source # "none" THEN (SourceRank(l.source) - 50) * 40 ELSE 0
            sharp == CASE l.resolution = 2 -> 1800 [] l.resolution = 1 -> 3000 [] OTHER -> 0
            low == IF l.source \in LowQuality THEN 4500 ELSE 0
            thin3 == IF l.bitrate > 0 /\ l.resolution = 3 /\ l.bitrate < 2500 THEN 1800 ELSE 0
            thin2 == IF l.bitrate > 0 /\ l.resolution = 2 /\ l.bitrate < 1400 THEN 1200 ELSE 0
            tiny == IF l.size > 0 /\ l.resolution = 3 /\ l.size < 700 THEN 1500 ELSE 0
<1>1. source \in Int
  <2>1. SourceRank(l.source) \in Int
    BY RanksType
  <2>. QED
    BY <2>1
<1>2. /\ sharp \in Int /\ low \in Int /\ thin3 \in Int /\ thin2 \in Int
      /\ tiny \in Int
  OBVIOUS
<1>3. l.resolution \in Int /\ l.codec \in Int
  BY DEF RowTyped
<1>4. LocalHealth(l) =
        Clamped(5500 + (l.resolution - 2) * 1000 + (l.codec - 50) * 10 + source
          - sharp - low - thin3 - thin2 - tiny)
  BY DEF LocalHealth
<1>. HIDE DEF source, sharp, low, thin3, thin2, tiny
<1>. QED
  BY <1>1, <1>2, <1>3, <1>4 DEF Clamped, AtLeast, AtMost

(* so is what the operator's priorities add to a score,                    *)
LEMMA BonusType ==
  ASSUME NEW r, NEW p, PolicyTyped(p)
  PROVE  Bonus(r, p) \in Nat
<1>1. DOMAIN Factor = {"uhd", "hdr", "dv", "atmos", "truehd", "surround51", "surround71"}
  BY DEF Factor
<1>2. \A f \in DOMAIN Factor : Factor[f] \in Nat /\ p.priorities[f] \in Nat
  BY <1>1 DEF Factor, PolicyTyped
<1>3. \A f \in DOMAIN Factor : Weight(r, p, f) \in Nat
  BY <1>2 DEF Weight
<1>. QED
  BY <1>1, <1>3 DEF Bonus

(* the preferred audio,                                                    *)
LEMMA AudioType ==
  ASSUME NEW r, NEW p, PolicyTyped(p)
  PROVE  AudioBonus(r, p) \in Int
<1>1. Cardinality(Missed(r, p)) \in Nat
  BY FS_Subset, FS_CardinalityType DEF Missed, PolicyTyped
<1>. QED
  BY <1>1 DEF AudioBonus, AtLeast

(* the intent                                                              *)
LEMMA IntentType ==
  ASSUME NEW l, NEW r, NEW p, RowTyped(l), ReleaseTyped(r)
  PROVE  IntentBonus(l, r, p) \in Int
<1>1. /\ SourceRank(r.source) \in Int /\ SourceRank(l.source) \in Int
      /\ ReleaseHealth(r) \in Int /\ LocalHealth(l) \in Int
  BY RanksType, HealthType, LocalHealthType
<1>. DEFINE source == SourceRank(r.source) - SourceRank(l.source)
            better == AtLeast(0, ReleaseHealth(r) - LocalHealth(l))
            sound == AtLeast(0, ReleaseHealth(r) - 6000)
            hdr == IF r.hdr # "none" THEN 1 ELSE 0
            remux == IF r.source = "remux" THEN 1200 ELSE 0
<1>2. /\ source \in Int /\ better \in Int /\ sound \in Int
      /\ hdr \in Int /\ remux \in Int
  BY <1>1 DEF AtLeast
<1>3. IntentBonus(l, r, p) =
        CASE p.intent = "balanced" -> source * 10 + sound \div 20
          [] p.intent = "premium"  -> source * 25 + (better * 22) \div 100 + 600 * hdr
          [] p.intent = "reference" -> source * 40 + (better * 30) \div 100 + 800 * hdr + remux
          [] OTHER -> 0
  BY DEF IntentBonus
<1>. HIDE DEF source, better, sound, hdr, remux
<1>. QED
  BY <1>2, <1>3

(* and the age.                                                            *)
LEMMA AgeType ==
  ASSUME NEW r, NEW p, ReleaseTyped(r), PolicyTyped(p)
  PROVE  AgeBonus(r, p) \in Int
BY DEF AgeBonus, AtMost, ReleaseTyped, PolicyTyped, NoAge

(* Of two releases that are alike and accepted, and may not be larger than *)
(* the film, the one that is smaller by that much has the higher score.    *)
LEMMA AlikeScore ==
  ASSUME NEW l, NEW r, NEW x, NEW p, RowTyped(l), ReleaseTyped(r), ReleaseTyped(x), PolicyTyped(p),
         Alike(r, x), ~Suspicious(r), ~Suspicious(x),
         ~MayGrow(l, r, p), ~MayGrow(l, x, p),
         (r.size - x.size) * 10000 >= l.size
  PROVE  ~(Score(l, r, p) >= Score(l, x, p))
<1>0. /\ r.resolution = x.resolution /\ r.codec = x.codec /\ r.source = x.source
      /\ r.hdr = x.hdr /\ r.audio = x.audio /\ r.languages = x.languages
      /\ r.marks = x.marks /\ r.uploader = x.uploader /\ r.age = x.age
  BY AlikeFacets
<1>1. ReleaseHealth(r) = ReleaseHealth(x)
  BY <1>0 DEF ReleaseHealth
<1>2. Bonus(r, p) = Bonus(x, p)
  BY <1>0 DEF Bonus, Weight, Features, DolbyVision
<1>3. AudioBonus(r, p) = AudioBonus(x, p)
  BY <1>0 DEF AudioBonus, Missed, Wanted
<1>4. IntentBonus(l, r, p) = IntentBonus(l, x, p)
  BY <1>0, <1>1 DEF IntentBonus
<1>5. AgeBonus(r, p) = AgeBonus(x, p)
  BY <1>0 DEF AgeBonus
<1>6. LanguageBonus(r, p) = LanguageBonus(x, p)
  BY <1>0 DEF LanguageBonus
<1>7. BaseScore(l, r, p) = Saved(l, r) /\ BaseScore(l, x, p) = Saved(l, x)
  BY DEF BaseScore, MayGrow
<1>8. Saved(l, r) \in Int /\ Saved(l, x) \in Int /\ Saved(l, x) > Saved(l, r)
  BY SavedMore DEF ReleaseTyped
<1>9. /\ ReleaseHealth(r) \in Int /\ Bonus(r, p) \in Int /\ AudioBonus(r, p) \in Int
      /\ IntentBonus(l, r, p) \in Int /\ AgeBonus(r, p) \in Int
  <2>1. ReleaseHealth(r) \in Int
    BY HealthType
  <2>2. Bonus(r, p) \in Int
    BY BonusType
  <2>3. AudioBonus(r, p) \in Int
    BY AudioType
  <2>4. IntentBonus(l, r, p) \in Int
    BY IntentType
  <2>5. AgeBonus(r, p) \in Int
    BY AgeType
  <2>. QED
    BY <2>1, <2>2, <2>3, <2>4, <2>5
<1>10. LanguageBonus(r, p) \in Int
  BY DEF LanguageBonus
<1>11. /\ r.resolution = x.resolution /\ r.codec = x.codec /\ r.source = x.source /\ r.uploader = x.uploader
       /\ r.codec \in Int /\ r.uploader \in Int /\ l.codec \in Int /\ r.resolution \in Int /\ l.resolution \in Int
  BY <1>0 DEF ReleaseTyped, RowTyped
<1>. DEFINE uhd == IF r.resolution >= 4 /\ r.resolution > l.resolution THEN 5000 ELSE 0
            sharper == IF r.resolution > l.resolution THEN 2000 ELSE 0
            modern == IF r.codec >= 80 THEN 1000 ELSE 0
            codec == IF r.codec = p.preferredCodec THEN 1200 ELSE 0
            source == IF r.source \in p.preferredSources THEN 1400 ELSE 0
            health == ((ReleaseHealth(r) - 5000) * 15) \div 100
<1>12. /\ uhd \in Int /\ sharper \in Int /\ modern \in Int /\ codec \in Int
       /\ source \in Int
  OBVIOUS
<1>13. health \in Int
  BY <1>9
<1>14. Score(l, r, p) =
         Saved(l, r) + uhd + LanguageBonus(r, p) + (r.codec - l.codec) * 50 + sharper + modern
         + codec + source + AudioBonus(r, p) + Bonus(r, p) + IntentBonus(l, r, p)
         + AgeBonus(r, p) + r.uploader * 10 + health
  BY <1>7 DEF Score
<1>15. Score(l, x, p) =
         Saved(l, x) + uhd + LanguageBonus(r, p) + (r.codec - l.codec) * 50 + sharper + modern
         + codec + source + AudioBonus(r, p) + Bonus(r, p) + IntentBonus(l, r, p)
         + AgeBonus(r, p) + r.uploader * 10 + health
  BY <1>1, <1>2, <1>3, <1>4, <1>5, <1>6, <1>7, <1>11 DEF Score
<1>. DEFINE step == (r.codec - l.codec) * 50
            trust == r.uploader * 10
            gained == Saved(l, r)
            more == Saved(l, x)
            lang == LanguageBonus(r, p)
            audio == AudioBonus(r, p)
            bonus == Bonus(r, p)
            intent == IntentBonus(l, r, p)
            age == AgeBonus(r, p)
<1>16. /\ step \in Int /\ trust \in Int /\ gained \in Int /\ more \in Int /\ lang \in Int
       /\ audio \in Int /\ bonus \in Int /\ intent \in Int /\ age \in Int
  BY <1>8, <1>9, <1>10, <1>11
<1>17. /\ Score(l, r, p) = gained + uhd + lang + step + sharper + modern + codec + source
                            + audio + bonus + intent + age + trust + health
       /\ Score(l, x, p) = more + uhd + lang + step + sharper + modern + codec + source
                            + audio + bonus + intent + age + trust + health
  BY <1>14, <1>15
<1>18. more > gained
  BY <1>8
<1>. HIDE DEF uhd, sharper, modern, codec, source, health, step, trust, gained, more, lang,
              audio, bonus, intent, age
<1>. QED
  BY <1>12, <1>13, <1>16, <1>17, <1>18

-----------------------------------------------------------------------------
(* Nights                                                                  *)

(* A moment is a slot of a day of the week.                                *)
LEMMA MomentParts ==
  ASSUME NEW t \in Moments
  PROVE  /\ Day(t) \in 0..6 /\ Slot(t) \in 0..(Slots - 1)
         /\ t = Day(t) * Slots + Slot(t)
<1>. USE ADayHasSlots
<1>. DEFINE d == t \div Slots
            s == t % Slots
<1>0. t \in Nat /\ t < 7 * Slots
  BY DEF Moments
<1>1. d \in Int /\ s \in 0..(Slots - 1) /\ t = Slots * d + s
  BY <1>0
<1>. HIDE DEF d, s
<1>2. d >= 0
  <2>1. ASSUME d <= -1 PROVE FALSE
    <3>1. Slots * d <= -Slots
      BY <1>1, <2>1
    <3>. QED
      BY <1>0, <1>1, <3>1
  <2>. QED
    BY <1>1, <2>1
<1>3. d <= 6
  <2>1. ASSUME d >= 7 PROVE FALSE
    <3>1. Slots * d >= Slots * 7
      BY <1>1, <2>1
    <3>. QED
      BY <1>0, <1>1, <3>1
  <2>. QED
    BY <1>1, <2>1
<1>4. Slots * d = d * Slots
  BY <1>1
<1>5. Day(t) = d /\ Slot(t) = s
  BY DEF Day, Slot, d, s
<1>6. d \in 0..6 /\ s \in 0..(Slots - 1)
  BY <1>1, <1>2, <1>3
<1>7. t = d * Slots + s
  BY <1>1, <1>4
<1>. QED
  BY <1>5, <1>6, <1>7, Zenon

(* After the end of the week it begins again.                              *)
LEMMA WithinTheWeek ==
  ASSUME NEW n \in Nat
  PROVE  /\ n < 7 * Slots => n % (7 * Slots) = n
         /\ n < Slots => (7 * Slots + n) % (7 * Slots) = n
<1>. USE ADayHasSlots
<1>. DEFINE w == 7 * Slots
<1>1. w \in Nat \ {0} /\ Slots < w
  OBVIOUS
<1>. HIDE DEF w
<1>2. n < w => n % w = n
  BY <1>1
<1>3. n < w => (w + n) % w = n
  BY <1>1
<1>. QED
  BY <1>1, <1>2, <1>3 DEF w

(* A moment within the window lies in a night that began on an allowed     *)
(* day, at the start of the window, and has not come to its end.           *)
LEMMA InWindowInNight ==
  ASSUME NEW w, NEW t \in Moments, WindowTyped(w), InWindow(w, t)
  PROVE  LET length == IF w.end > w.start THEN w.end - w.start ELSE w.end + Slots - w.start
         IN \E d \in AllowedDays(w), k \in 0..(length - 1) :
              t = (d * Slots + w.start + k) % (7 * Slots)
<1>. DEFINE length == IF w.end > w.start THEN w.end - w.start ELSE w.end + Slots - w.start
<1>1. /\ Day(t) \in 0..6 /\ Slot(t) \in 0..(Slots - 1)
      /\ t = Day(t) * Slots + Slot(t) /\ t \in Nat /\ t < 7 * Slots
  BY MomentParts, ADayHasSlots DEF Moments
<1>2. w.start \in 0..(Slots - 1) /\ w.end \in 0..(Slots - 1) /\ Slots \in Nat \ {0}
  BY ADayHasSlots DEF WindowTyped
<1>3. CASE Slot(t) >= w.start
  <2>. DEFINE k == Slot(t) - w.start
  <2>1. Day(t) \in AllowedDays(w) /\ k \in 0..(length - 1)
    BY <1>1, <1>2, <1>3 DEF InWindow, SpansMidnight
  <2>2. Day(t) * Slots + w.start + k = t
    <3>1. Day(t) * Slots \in Int
      BY <1>1, <1>2
    <3>. QED
      BY <1>1, <1>2, <3>1
  <2>3. t = (Day(t) * Slots + w.start + k) % (7 * Slots)
    BY <1>1, <2>2, WithinTheWeek
  <2>. QED
    BY <2>1, <2>3
<1>4. CASE Slot(t) < w.start
  <2>. DEFINE k == Slot(t) + Slots - w.start
              d == (Day(t) + 6) % 7
  <2>1. d \in AllowedDays(w) /\ k \in 0..(length - 1)
    BY <1>1, <1>2, <1>4 DEF InWindow, SpansMidnight
  <2>2. d * Slots + w.start + k = IF Day(t) = 0 THEN 7 * Slots + t ELSE t
    <3>1. CASE Day(t) = 0
      BY <1>1, <1>2, <3>1
    <3>2. CASE Day(t) # 0
      <4>1. d = Day(t) - 1
        BY <1>1, <3>2
      <4>2. d * Slots = Day(t) * Slots - Slots /\ Day(t) * Slots \in Int
        BY <1>1, <1>2, <4>1
      <4>. QED
        BY <1>1, <1>2, <3>2, <4>2
    <3>. QED
      BY <3>1, <3>2
  <2>3. Day(t) = 0 => t < Slots
    BY <1>1, <1>2
  <2>4. t = (d * Slots + w.start + k) % (7 * Slots)
    BY <1>1, <2>2, <2>3, WithinTheWeek
  <2>. QED
    BY <2>1, <2>4
<1>. QED
  BY <1>1, <1>2, <1>3, <1>4

-----------------------------------------------------------------------------
(* The inductive invariant of the searches                                 *)

RuleTyped ==
  /\ {"policy", "window"} \subseteq DOMAIN rule /\ Wanting \subseteq DOMAIN rule.policy
  /\ PolicyTyped(rule.policy) /\ WindowTyped(rule.window)

(* A search that has begun may still start its download.                   *)
InTime == pick.at = "search" => downloads < MaxDownloads

InNight == searched # NoAge => searched \in Moments /\ InWindow(rule.window, searched)

(* The scores that are stored are those of the comparison; and of the      *)
(* releases it was taken from the chosen one has the highest, unless it    *)
(* was chosen for its title.                                               *)
TrulyScored(s) == \A t \in pick.stored : t.score = Score(s.row, t.release, s.policy)

Best(s) ==
  \A r \in pick.chosen, x \in pick.among :
    x = r \/ (Accepting(s, r) /\ Accepting(s, x) /\ Score(s.row, r, s.policy) >= Score(s.row, x, s.policy))

Choice ==
  pick.at = "download" =>
    \A s \in pick.seen : RowTyped(s.row) /\ PolicyTyped(s.policy) /\ TrulyScored(s) /\ Best(s)

SoundInv == RuleTyped /\ TypeOK /\ InTime /\ InNight /\ Choice

(* It holds at the beginning: nothing has been searched for.               *)
LEMMA InitSound == Init => SoundInv
<1>. SUFFICES ASSUME Init PROVE SoundInv
  OBVIOUS
<1>1. PICK b \in Beginnings :
        /\ rule = b.rule /\ film = b.film /\ had = {b.film} /\ locked = b.locked
        /\ preferred = b.preferred /\ edits = b.edits
  BY DEF Init
<1>2. film \in Catalogue /\ film.file \in 1..film.size
  BY <1>1, OffersAreReleases, NoFilmOutgrowsItsRelease
<1>3. RuleTyped
  BY <1>1, PoliciesAreWhole, WindowsAreOfTheDay DEF RuleTyped, PolicyTyped, WindowTyped
<1>4. RowTyped(row)
  BY <1>2, ReleasesAreMeasured DEF RowTyped, Init, Row
<1>5. /\ pick.at = "idle" /\ pick.chosen = {} /\ pick.among = {} /\ pick.retries = 0
      /\ searched = NoAge /\ downloads = 0 /\ plex = film
  BY DEF Init, NoPick
<1>6. TypeOK
  <2>1. Cardinality(pick.chosen) <= 1 /\ Cardinality(preferred) <= 1
    BY <1>1, <1>5, FS_EmptySet, OperatorsBegin
  <2>. QED
    BY <1>1, <1>2, <1>4, <1>5, <2>1, OperatorsBegin, DownloadsAreBounded DEF TypeOK, RowTyped
<1>. QED
  BY <1>3, <1>5, <1>6 DEF SoundInv, InTime, InNight, Choice

(* A step keeps the rule in shape; the window is not the operator's to     *)
(* change while the movie is watched.                                      *)
LEMMA RuleStep ==
  ASSUME RuleTyped, [Next]_vars
  PROVE  RuleTyped' /\ rule'.window = rule.window
<1>1. CASE \E w \in Wishes : SetIntent(w)
  <2>1. PICK w \in Wishes :
          rule' = [rule EXCEPT !.policy = [@ EXCEPT !.intent = w.intent, !.keep = w.keep, !.larger = w.larger]]
    BY <1>1 DEF SetIntent
  <2>2. /\ DOMAIN rule' = DOMAIN rule /\ rule'.window = rule.window
        /\ DOMAIN rule'.policy = DOMAIN rule.policy
        /\ rule'.policy.priorities = rule.policy.priorities
        /\ rule'.policy.audio = rule.policy.audio
        /\ rule'.policy.staleAge = rule.policy.staleAge
    BY <2>1 DEF RuleTyped, Wanting
  <2>. QED
    BY <2>2 DEF RuleTyped, PolicyTyped
<1>2. CASE ~\E w \in Wishes : SetIntent(w)
  <2>1. rule' = rule
    BY <1>2 DEF Next, vars, Begin, Search, Retry, NoRetry, LadderRaises, ReplaceFails, Over,
       Replace, PlexAnalyses, Scan, Lock, Unlock, Prefer, ClearPreferred, RemoveEntry, AddEntry,
       EntryExpires, Edit, asked, disk
  <2>. QED
    BY <2>1 DEF RuleTyped
<1>. QED
  BY <1>1, <1>2

(* A search begins in the window, and only what ends it is forgotten.      *)
LEMMA NightStep ==
  ASSUME RuleTyped, InNight, [Next]_vars
  PROVE  InNight'
<1>1. rule'.window = rule.window
  BY RuleStep
<1>2. CASE \E now \in Moments : Begin(now)
  <2>1. PICK now \in Moments : searched' = now /\ InWindow(rule.window, now)
    BY <1>2 DEF Begin
  <2>. QED
    BY <1>1, <2>1 DEF InNight
<1>3. CASE ~\E now \in Moments : Begin(now)
  <2>1. searched' = searched \/ searched' = NoAge
    BY <1>3 DEF Next, vars, Search, Retry, NoRetry, LadderRaises, ReplaceFails, Over,
       Replace, PlexAnalyses, Scan, Lock, Unlock, Prefer, ClearPreferred, RemoveEntry, AddEntry,
       EntryExpires, SetIntent, Edit, asked, disk
  <2>. QED
    BY <1>1, <2>1 DEF InNight
<1>. QED
  BY <1>2, <1>3

(* The film and what is known of it keep their types.                      *)
LEMMA DiskStep ==
  ASSUME IInv, TypeOK, [Next]_vars
  PROVE  /\ film' \in Catalogue /\ plex' \in Catalogue /\ had' \subseteq Catalogue
         /\ RowTyped(row')
<1>. DEFINE Typed == /\ film' \in Catalogue /\ plex' \in Catalogue /\ had' \subseteq Catalogue
                     /\ RowTyped(row')
<1>1. RowTyped(row) /\ film \in Catalogue /\ plex \in Catalogue /\ had \subseteq Catalogue
  BY DEF TypeOK, RowTyped
<1>2. ASSUME NEW f \in Catalogue, NEW probe \in Probes(f)
      PROVE  /\ f.file \in Nat \ {0} /\ f.resolution \in 0..4 /\ f.codec \in 0..100 /\ f.bitrate \in Nat
             /\ probe.resolution \in 0..4 /\ probe.codec \in 0..100 /\ probe.bitrate \in Nat
  <2>1. f.file \in Nat \ {0}
    BY ReleasesAreMeasured, NoFilmOutgrowsItsRelease
  <2>2. f.resolution \in 0..4 /\ f.codec \in 0..100 /\ f.bitrate \in Nat
    BY ReleasesAreMeasured
  <2>. QED
    BY <2>1, <2>2 DEF Probes
<1>3. DOMAIN row = {"size", "resolution", "codec", "source", "bitrate"}
  BY DEF IInv, RowOK
<1>4. CASE \E f \in pick.chosen : \E probe \in Probes(f) : Replace(f, probe)
  <2>1. PICK f \in pick.chosen : \E probe \in Probes(f) : Replace(f, probe)
    BY <1>4
  <2>2. PICK probe \in Probes(f) : Replace(f, probe)
    BY <2>1
  <2>3. f \in Catalogue
    <3>1. pick.chosen = {f}
      BY <2>2 DEF Replace
    <3>. QED
      BY <3>1, NewFilm DEF Accepting
  <2>4. row' = Installed(f, probe) /\ film' = f /\ had' = had \cup {f} /\ plex' = plex
    BY <2>2 DEF Replace
  <2>5. /\ row'.size = f.file
        /\ row'.resolution = Or(probe.resolution, row.resolution)
        /\ row'.codec = Or(probe.codec, row.codec)
        /\ row'.bitrate = Or(probe.bitrate, row.bitrate)
    BY <1>3, <2>4 DEF Installed
  <2>6. RowTyped(row')
    BY <1>1, <1>2, <2>3, <2>5 DEF RowTyped, Or
  <2>. QED
    BY <1>1, <2>3, <2>4, <2>6
<1>5. CASE Scan
  <2>1. PICK probe \in Probes(film) : row' = Scanned(probe)
    BY <1>5 DEF Scan
  <2>2. /\ row'.size = film.file
        /\ row'.resolution = ScannedStream(probe, "resolution")
        /\ row'.codec = ScannedStream(probe, "codec")
        /\ row'.bitrate = ScannedStream(probe, "bitrate")
    BY <1>3, <2>1 DEF Scanned
  <2>3. /\ PlexStreams["resolution"] \in 0..4 /\ PlexStreams["codec"] \in 0..100
        /\ PlexStreams["bitrate"] \in Nat
    BY <1>1, ReleasesAreMeasured DEF PlexStreams
  <2>4. /\ row["resolution"] \in 0..4 /\ row["codec"] \in 0..100 /\ row["bitrate"] \in Nat
    BY <1>1 DEF RowTyped
  <2>5. /\ probe["resolution"] \in 0..4 /\ probe["codec"] \in 0..100 /\ probe["bitrate"] \in Nat
        /\ film.file \in Nat \ {0}
    BY <1>1, <1>2
  <2>6. /\ ScannedStream(probe, "resolution") \in 0..4
        /\ ScannedStream(probe, "codec") \in 0..100
        /\ ScannedStream(probe, "bitrate") \in Nat
    BY <2>3, <2>4, <2>5 DEF ScannedStream, FromPlex, Or
  <2>7. RowTyped(row')
    BY <2>2, <2>5, <2>6 DEF RowTyped
  <2>. QED
    BY <1>1, <1>5, <2>7 DEF Scan
<1>6. CASE PlexAnalyses
  BY <1>1, <1>6 DEF PlexAnalyses
<1>7. CASE ~(\/ \E f \in pick.chosen : \E probe \in Probes(f) : Replace(f, probe)
             \/ Scan \/ PlexAnalyses)
  <2>1. UNCHANGED disk
    BY <1>7 DEF Next, vars, Begin, Search, Retry, NoRetry, LadderRaises, ReplaceFails, Over,
       Lock, Unlock, Prefer, ClearPreferred, RemoveEntry, AddEntry,
       EntryExpires, SetIntent, Edit, disk
  <2>. QED
    BY <1>1, <2>1 DEF disk
<1>. QED
  BY <1>4, <1>5, <1>6, <1>7

(* What is selected has the highest score of all that is accepted, unless  *)
(* it has the preferred title.                                             *)
LEMMA SelectedAreBest ==
  ASSUME NEW offer, NEW r \in Selected(offer), r.name \notin pick.wish, NEW x \in Good(offer)
  PROVE  Score(row, r, rule.policy) >= Score(row, x, rule.policy)
<1>1. r \in Highest(Stored(offer))
  BY DEF Selected, Titled
<1>2. PICK t \in Stored(offer) : t.release = r /\ \A u \in Stored(offer) : t.score >= u.score
  BY <1>1 DEF Highest
<1>3. PICK u : u = [release |-> x, score |-> Score(row, x, rule.policy)]
  OBVIOUS
<1>4. u \in Stored(offer) /\ u.score = Score(row, x, rule.policy)
  BY <1>3 DEF Stored
<1>5. t.score = Score(row, r, rule.policy)
  BY <1>2 DEF Stored
<1>. QED
  BY <1>2, <1>4, <1>5

(* What the pick holds keeps its types, and stays the best choice.         *)
PickSound ==
  /\ Cardinality(pick.chosen) <= 1 /\ pick.chosen \subseteq pick.among
  /\ pick.retries \in 0..MaxRetries /\ downloads \in 0..MaxDownloads
  /\ InTime /\ Choice

(* What a search chooses is the best of what it accepted, by the row and   *)
(* the policy it then saw (search_for_movie, process_single_movie).        *)
LEMMA SearchPick ==
  ASSUME IInv, SoundInv, Search
  PROVE  PickSound'
<1>. USE DownloadsAreBounded
<1>1. PICK offer \in Offers :
        IF Good(offer) = {} \/ ~rule.auto
        THEN pick' = NoPick /\ UNCHANGED <<tried, excuses, downloads>>
        ELSE \E r \in Selected(offer) :
               /\ pick' = [pick EXCEPT !.at = "download", !.chosen = {r}, !.stored = Stored(offer),
                             !.among = IF r.name \in pick.wish THEN {r} ELSE Good(offer),
                             !.seen = {[row |-> row, policy |-> rule.policy]}]
               /\ Downloading(r)
  BY DEF Search
<1>2. pick.retries \in 0..MaxRetries /\ downloads \in 0..MaxDownloads /\ downloads < MaxDownloads
  BY DEF SoundInv, TypeOK, InTime, Search
<1>3. CASE Good(offer) = {} \/ ~rule.auto
  <2>1. pick' = NoPick /\ downloads' = downloads
    BY <1>1, <1>3
  <2>2. Cardinality(NoPick.chosen) = 0
    BY FS_EmptySet DEF NoPick
  <2>. QED
    BY <1>2, <2>1, <2>2 DEF PickSound, NoPick, InTime, Choice
<1>4. CASE ~(Good(offer) = {} \/ ~rule.auto)
  <2>1. PICK r \in Selected(offer) :
          /\ pick' = [pick EXCEPT !.at = "download", !.chosen = {r}, !.stored = Stored(offer),
                        !.among = IF r.name \in pick.wish THEN {r} ELSE Good(offer),
                        !.seen = {[row |-> row, policy |-> rule.policy]}]
          /\ downloads' = downloads + 1
    BY <1>1, <1>4 DEF Downloading
  <2>2. PICK s : s = [row |-> row, policy |-> rule.policy]
    OBVIOUS
  <2>3. /\ pick'.at = "download" /\ pick'.chosen = {r} /\ pick'.stored = Stored(offer)
        /\ pick'.among = (IF r.name \in pick.wish THEN {r} ELSE Good(offer))
        /\ pick'.seen = {s} /\ pick'.retries = pick.retries
    BY <2>1, <2>2 DEF IInv, PickOK, NoPick
  <2>4. Cardinality(pick'.chosen) <= 1
    <3>1. Cardinality({r}) = 1
      BY FS_Singleton
    <3>. QED
      BY <2>3, <3>1
  <2>5. r \in Good(offer) /\ offer \subseteq Catalogue
    BY <2>1, SelectedAreGood, OffersAreReleases
  <2>6. pick'.chosen \subseteq pick'.among
    BY <2>3, <2>5
  <2>7. RowTyped(s.row) /\ PolicyTyped(s.policy)
    BY <2>2 DEF SoundInv, RuleTyped, TypeOK, RowTyped
  <2>8. TrulyScored(s)'
    BY <2>2, <2>3 DEF TrulyScored, Stored
  <2>9. ASSUME NEW x \in Good(offer)
        PROVE  Accepting(s, x)
    BY <2>2, <2>5 DEF Good, Accepting
  <2>10. Best(s)'
    <3>1. CASE r.name \in pick.wish
      BY <2>3, <3>1 DEF Best
    <3>2. CASE r.name \notin pick.wish
      <4>1. \A x \in Good(offer) : Score(s.row, r, s.policy) >= Score(s.row, x, s.policy)
        BY <2>1, <2>2, <3>2, SelectedAreBest
      <4>. QED
        BY <2>3, <2>5, <2>9, <3>2, <4>1 DEF Best, Accepting
    <3>. QED
      BY <3>1, <3>2
  <2>11. InTime' /\ Choice'
    BY <2>3, <2>7, <2>8, <2>10 DEF InTime, Choice
  <2>. QED
    BY <1>2, <2>1, <2>3, <2>4, <2>6, <2>11 DEF PickSound
<1>. QED
  BY <1>3, <1>4

(* What the ladder chooses next is the best of the stored results that are *)
(* left, by the scores they were stored with (get_next_candidate).         *)
LEMMA RetryPick ==
  ASSUME IInv, SoundInv, Retry
  PROVE  PickSound'
<1>. USE DownloadsAreBounded
<1>1. PICK r \in Highest(Open) :
        /\ pick' = [pick EXCEPT !.chosen = {r}, !.among = Releases(Open), !.retries = @ + 1]
        /\ downloads' = downloads + 1
  BY DEF Retry, Downloading
<1>2. /\ pick.at = "download" /\ pick.retries < MaxRetries /\ downloads < MaxDownloads
      /\ pick.retries \in 0..MaxRetries /\ downloads \in 0..MaxDownloads
  BY DEF Retry, Failed, MayRetry, SoundInv, TypeOK
<1>3. /\ pick'.at = "download" /\ pick'.chosen = {r} /\ pick'.stored = pick.stored
      /\ pick'.among = Releases(Open) /\ pick'.seen = pick.seen
      /\ pick'.retries = pick.retries + 1
  BY <1>1, <1>2 DEF IInv, PickOK, NoPick
<1>4. PICK t \in Open : t.release = r /\ \A u \in Open : t.score >= u.score
  BY <1>1 DEF Highest
<1>5. Open \subseteq pick.stored
  BY DEF Open, Untried
<1>6. PICK s : /\ pick.seen = {s}
               /\ \A x \in Releases(pick.stored) : Accepting(s, x)
  BY <1>2 DEF IInv, PickOK
<1>7. RowTyped(s.row) /\ PolicyTyped(s.policy) /\ TrulyScored(s)
  BY <1>2, <1>6 DEF SoundInv, Choice
<1>8. Best(s)'
  <2>1. ASSUME NEW x \in Releases(Open)
        PROVE  /\ Accepting(s, r) /\ Accepting(s, x)
               /\ Score(s.row, r, s.policy) >= Score(s.row, x, s.policy)
    <3>1. PICK u \in Open : u.release = x
      BY DEF Releases
    <3>2. t.score = Score(s.row, r, s.policy) /\ u.score = Score(s.row, x, s.policy)
      BY <1>4, <1>5, <1>7, <3>1 DEF TrulyScored
    <3>3. Accepting(s, r) /\ Accepting(s, x)
      BY <1>4, <1>5, <1>6, <3>1 DEF Releases
    <3>. QED
      BY <1>4, <3>1, <3>2, <3>3
  <2>. QED
    BY <1>3, <2>1 DEF Best, Accepting
<1>9. Cardinality(pick'.chosen) <= 1
  <2>1. Cardinality({r}) = 1
    BY FS_Singleton
  <2>. QED
    BY <1>3, <2>1
<1>10. pick'.chosen \subseteq pick'.among
  BY <1>3, <1>4 DEF Releases
<1>11. InTime' /\ Choice'
  BY <1>3, <1>6, <1>7, <1>8 DEF InTime, Choice, TrulyScored
<1>. QED
  BY <1>1, <1>2, <1>3, <1>9, <1>10, <1>11 DEF PickSound

(* No other step makes a choice: it begins a search, ends a pick or leaves *)
(* it alone.                                                               *)
LEMMA PickStep ==
  ASSUME IInv, SoundInv, [Next]_vars
  PROVE  PickSound'
<1>. USE DownloadsAreBounded
<1>1. PickSound
  BY DEF SoundInv, TypeOK, PickSound
<1>2. CASE Search
  BY <1>2, SearchPick
<1>3. CASE Retry
  BY <1>3, RetryPick
<1>4. CASE \E now \in Moments : Begin(now)
  <2>1. pick' = [NoPick EXCEPT !.at = "search", !.wish = preferred] /\ downloads < MaxDownloads
        /\ downloads' = downloads
    BY <1>4 DEF Begin
  <2>2. /\ pick'.at = "search" /\ pick'.chosen = {} /\ pick'.among = {} /\ pick'.retries = 0
    BY <2>1 DEF NoPick
  <2>3. Cardinality(pick'.chosen) = 0
    BY <2>2, FS_EmptySet
  <2>. QED
    BY <1>1, <2>1, <2>2, <2>3 DEF PickSound, InTime, Choice
<1>5. CASE pick' = NoPick /\ downloads' = downloads
  <2>1. Cardinality(NoPick.chosen) = 0
    BY FS_EmptySet DEF NoPick
  <2>. QED
    BY <1>1, <1>5, <2>1 DEF PickSound, NoPick, InTime, Choice
<1>6. CASE pick' = pick /\ downloads' = downloads
  BY <1>1, <1>6 DEF PickSound, InTime, Choice, TrulyScored, Best
<1>7. \/ Search \/ Retry \/ \E now \in Moments : Begin(now)
      \/ pick' = NoPick /\ downloads' = downloads
      \/ pick' = pick /\ downloads' = downloads
  BY DEF Next, vars, NoRetry, LadderRaises, ReplaceFails, Over, Replace, PlexAnalyses, Scan, Lock,
     Unlock, Prefer, ClearPreferred, RemoveEntry, AddEntry, EntryExpires, SetIntent, Edit
<1>. QED
  BY <1>2, <1>3, <1>4, <1>5, <1>6, <1>7

(* The operator's marks keep their types.                                  *)
LEMMA OperatorStep ==
  ASSUME TypeOK, [Next]_vars
  PROVE  locked' \in BOOLEAN /\ Cardinality(preferred') <= 1 /\ edits' \in Nat
<1>1. locked \in BOOLEAN /\ Cardinality(preferred) <= 1 /\ edits \in Nat
  BY DEF TypeOK
<1>2. edits' \in Nat
  <2>1. edits' = edits \/ (edits > 0 /\ edits' = edits - 1)
    BY DEF Next, vars, Begin, Search, Retry, NoRetry, LadderRaises, ReplaceFails, Over, Replace,
       PlexAnalyses, Scan, Lock, Unlock, Prefer, ClearPreferred, RemoveEntry, AddEntry,
       EntryExpires, SetIntent, Edit
  <2>. QED
    BY <1>1, <2>1
<1>3. locked' \in BOOLEAN
  <2>1. CASE \E w \in Wishes : SetIntent(w)
    <3>1. PICK w \in Wishes : locked' = (locked \/ w.intent \in {"locked", "pinned"})
      BY <2>1 DEF SetIntent
    <3>. QED
      BY <3>1, Zenon
  <2>2. CASE Lock \/ Unlock
    BY <2>2, Zenon DEF Lock, Unlock
  <2>3. CASE ~((\E w \in Wishes : SetIntent(w)) \/ Lock \/ Unlock)
    <3>1. locked' = locked
      BY <2>3 DEF Next, vars, Begin, Search, Retry, NoRetry, LadderRaises, ReplaceFails, Over,
         Replace, PlexAnalyses, Scan, Prefer, ClearPreferred, RemoveEntry, AddEntry,
         EntryExpires, Edit, asked
    <3>. QED
      BY <1>1, <3>1, Zenon
  <2>. QED
    BY <2>1, <2>2, <2>3
<1>4. Cardinality(preferred') <= 1
  <2>1. CASE Prefer
    <3>1. PICK title \in Preferable : preferred' = {title}
      BY <2>1 DEF Prefer
    <3>. QED
      BY <3>1, FS_Singleton
  <2>2. CASE ClearPreferred
    BY <2>2, FS_EmptySet DEF ClearPreferred
  <2>3. CASE ~(Prefer \/ ClearPreferred)
    <3>1. preferred' = preferred
      BY <2>3 DEF Next, vars, Begin, Search, Retry, NoRetry, LadderRaises, ReplaceFails, Over,
         Replace, PlexAnalyses, Scan, Lock, Unlock, RemoveEntry, AddEntry, SetIntent,
         EntryExpires, Edit, asked
    <3>. QED
      BY <1>1, <3>1
  <2>. QED
    BY <2>1, <2>2, <2>3
<1>. QED
  BY <1>2, <1>3, <1>4

(* Every step keeps the types, the night of the search and the choice.     *)
LEMMA StepSound == IInv /\ SoundInv /\ [Next]_vars => SoundInv'
<1>. SUFFICES ASSUME IInv, SoundInv, [Next]_vars PROVE SoundInv'
  OBVIOUS
<1>1. RuleTyped' /\ InNight'
  BY RuleStep, NightStep DEF SoundInv
<1>2. PickSound'
  BY PickStep
<1>3. locked' \in BOOLEAN /\ Cardinality(preferred') <= 1 /\ edits' \in Nat
  BY OperatorStep DEF SoundInv
<1>4. /\ film' \in Catalogue /\ plex' \in Catalogue /\ had' \subseteq Catalogue
      /\ RowTyped(row')
  BY DiskStep DEF SoundInv
<1>5. searched' \in Moments \cup {NoAge}
  BY <1>1 DEF InNight
<1>6. TypeOK'
  BY <1>2, <1>3, <1>4, <1>5 DEF TypeOK, PickSound, RowTyped
<1>. QED
  BY <1>1, <1>2, <1>6 DEF SoundInv, PickSound

(* Variables keep their types; a search is made in a night of the          *)
(* schedule, whatever the window and wherever the week turns; and of       *)
(* releases that are alike the smallest is chosen, first and by the ladder *)
(* (is_within_schedule_window, compare_release, process_single_movie,      *)
(* get_next_candidate).                                                    *)
THEOREM SearchesAreSound == Spec => []SearchesSound
<1>1. Init => IInv /\ SoundInv
  BY InitInvariant, InitSound
<1>2. (IInv /\ SoundInv) /\ [Next]_vars => (IInv /\ SoundInv)'
  BY StepInvariant, StepSound
<1>3. IInv /\ SoundInv => SearchesSound
  <2>. SUFFICES ASSUME IInv, SoundInv PROVE SearchesSound
    OBVIOUS
  <2>1. SearchedInTheNight
    BY InWindowInNight DEF SoundInv, RuleTyped, InNight, SearchedInTheNight
  <2>2. SmallestOfEquals
    <3>. SUFFICES ASSUME NEW r \in pick.chosen, NEW x \in pick.among, NEW s \in pick.seen,
                         Alike(r, x), (r.size - x.size) * 10000 >= s.row.size,
                         ~MayGrow(s.row, r, s.policy), ~MayGrow(s.row, x, s.policy)
                  PROVE  FALSE
      BY DEF SmallestOfEquals
    <3>1. pick.at = "download"
      BY DEF IInv, PickOK
    <3>2. /\ RowTyped(s.row) /\ PolicyTyped(s.policy)
          /\ x = r \/ (Accepting(s, r) /\ Accepting(s, x)
                       /\ Score(s.row, r, s.policy) >= Score(s.row, x, s.policy))
      BY <3>1 DEF SoundInv, Choice, Best
    <3>3. r \in Catalogue
      BY <3>1 DEF IInv, PickOK, Accepting
    <3>4. r.size \in Nat /\ s.row.size \in Nat \ {0}
      BY <3>2, <3>3, ReleasesAreMeasured DEF RowTyped
    <3>5. (r.size - r.size) * 10000 = 0
      BY <3>4
    <3>6. x # r
      BY <3>4, <3>5
    <3>7. /\ x \in Catalogue /\ ~Suspicious(r) /\ ~Suspicious(x)
          /\ Score(s.row, r, s.policy) >= Score(s.row, x, s.policy)
      BY <3>2, <3>6 DEF Accepting, Accepted, VideoAllowed
    <3>8. ReleaseTyped(r) /\ ReleaseTyped(x)
      BY <3>3, <3>7, ReleasesAreMeasured DEF ReleaseTyped
    <3>. QED
      BY <3>2, <3>7, <3>8, AlikeScore
  <2>. QED
    BY <2>1, <2>2 DEF SoundInv, SearchesSound
<1>. QED
  BY <1>1, <1>2, <1>3, PTL DEF Spec
=============================================================================
