---------------------------- MODULE LibraryProofs ----------------------------
(***************************************************************************)
(* Proofs about Library, for any movies, paths, films and first states,    *)
(* any number of scans, replacements, cleanups and faults: what a scan may *)
(* write, what the bin keeps, and that the cleanup leaves a file.          *)
(***************************************************************************)
EXTENDS Library, FiniteSetTheorems, WellFoundedInduction, TLAPS

-----------------------------------------------------------------------------
(* Types                                                                   *)
Part  == [size : Nat, streams : MovieStreams]
Lists == UNION {[S -> Part] : S \in SUBSET Paths}
Row   == [path : Paths \cup {None}, size : Nat, streams : MovieStreams,
          original : Nat, from : Nat]
Scan  == [at : {"idle", "listing", "next", "write"}, list : Lists, serial : Nat,
          part : Paths \cup {None}, seen : Part, true : SUBSET Movies]
Swap  == [at : {"idle", "away", "placed"}, loaded : Paths \cup {None},
          old : Films \cup {NoFilm}, kept : {"bin", "beside"}, path : Paths \cup {None}, film : Films \cup {NoFilm}]
Used  == [scans : Nat, replacements : Nat, cleanups : Nat, faults : Nat]

CleanTyped ==
  /\ DOMAIN clean = DOMAIN NoClean
  /\ clean.at \in {"idle", "next", "preview"}
  /\ clean.list \in Lists /\ clean.left \subseteq Movies
  /\ clean.movie \in Movies \cup {None} /\ clean.todo \subseteq Paths
  /\ clean.part \in Paths \cup {None} /\ clean.name \in BinNames
  /\ clean.disturbed \in {"no", "renewed", "lost"}

Typed ==
  /\ files \in [Paths -> Films \cup {NoFilm}]
  /\ bin \in [BinNames -> Films \cup {NoFilm}]
  /\ plex \in [Paths -> Part]
  /\ row \in [Movies -> Row]
  /\ scan \in [Scanners -> Scan]
  /\ swap \in [Movies -> Swap]
  /\ used \in Used
  /\ CleanTyped

(* A film is a record of its movie, and no record of none.                 *)
LEMMA FilmTypes ==
  /\ \A f \in Films : /\ f.movie \in Movies /\ f.size \in Nat /\ f.size > 0
                      /\ Streams(f) \in MovieStreams /\ PartOf(f) \in Part
                      /\ Streams(f).movie = f.movie /\ f # NoFilm
  /\ NoStreams \in MovieStreams /\ NoStreams.movie = None
  /\ NoPart \in Part /\ NoPart.size = 0 /\ NoPart.streams = NoStreams
  /\ NoFilm.size = 0
<1>1. ASSUME NEW f \in Films
      PROVE  /\ f.movie \in Movies /\ f.size \in Nat /\ f.size > 0
             /\ Streams(f) \in MovieStreams
             /\ Streams(f).movie = f.movie /\ f # NoFilm
  BY FilmsAreFilms DEF MovieStreams, Streams, NoFilm
<1>2. ASSUME NEW f \in Films
      PROVE  PartOf(f) \in Part
  BY <1>1 DEF PartOf, Part
<1>3. NoStreams \in MovieStreams /\ NoStreams.movie = None
  BY DEF NoStreams, MovieStreams
<1>4. NoPart \in Part /\ NoPart.size = 0 /\ NoPart.streams = NoStreams
  BY <1>3 DEF NoPart, Part
<1>. QED
  BY <1>1, <1>2, <1>3, <1>4 DEF NoFilm

LEMMA ListTypes ==
  /\ \A l \in Lists : DOMAIN l \subseteq Paths /\ \A p \in DOMAIN l : l[p] \in Part
  /\ \A S \in SUBSET Paths : \A f : (\A p \in S : f[p] \in Part) => [p \in S |-> f[p]] \in Lists
  /\ [p \in {} |-> NoPart] \in Lists
<1>1. ASSUME NEW l \in Lists
      PROVE  DOMAIN l \subseteq Paths /\ \A p \in DOMAIN l : l[p] \in Part
  BY DEF Lists
<1>2. ASSUME NEW S \in SUBSET Paths, NEW f, \A p \in S : f[p] \in Part
      PROVE  [p \in S |-> f[p]] \in Lists
  <2>1. [p \in S |-> f[p]] \in [S -> Part]
    BY <1>2
  <2>. QED
    BY <2>1 DEF Lists
<1>3. [p \in {} |-> NoPart] \in [{} -> Part]
  OBVIOUS
<1>4. [p \in {} |-> NoPart] \in Lists
  BY <1>3 DEF Lists
<1>. QED
  BY <1>1, <1>2, <1>4

LEMMA Empty ==
  /\ NoScan \in Scan /\ NoScan.at = "idle" /\ DOMAIN NoScan.list = {}
  /\ NoSwap \in Swap /\ NoSwap.at = "idle"
  /\ NoRow \in Row /\ NoRow.path = None /\ NoRow.from = 0 /\ NoRow.streams = NoStreams
BY FilmTypes, ListTypes DEF NoScan, Scan, NoSwap, Swap, NoRow, Row

(* The names in the bin: plain, of a movie, and with a folder.             *)
LEMMA NameTypes ==
  /\ None \in BinNames /\ Movies \subseteq BinNames /\ Folders \subseteq BinNames
  /\ None \notin Movies /\ None \notin Folders /\ Folders \cap Movies = {}
  /\ \A m \in Movies : Folder[m] \in Folders \cup {None}
  /\ \A m \in Movies : Folder[m] = None => None \in Shared
  /\ \A m, n \in Movies : Folder[m] = Folder[n] /\ Folder[m] \notin Shared => m = n
BY NoneIsNothing, FoldersAreFolders DEF BinNames, Shared

-----------------------------------------------------------------------------
(* What the steps do to the scans                                          *)
Becomes(s, x) == scan' = [scan EXCEPT ![s] = x]

LEMMA BecomesTyped ==
  ASSUME Typed, NEW s \in Scanners, NEW x \in Scan, Becomes(s, x)
  PROVE  /\ scan' \in [Scanners -> Scan] /\ scan'[s] = x
         /\ \A t \in Scanners \ {s} : scan'[t] = scan[t]
BY DEF Typed, Becomes

LEMMA StartScanEffect ==
  ASSUME Typed, NEW s \in Scanners, StartScan(s)
  PROVE  \E x \in Scan :
           /\ Becomes(s, x) /\ x.at = "listing" /\ DOMAIN x.list = {}
           /\ used' \in Used /\ used'.scans = used.scans + 1 /\ used'.faults = used.faults
           /\ UNCHANGED <<files, bin, plex, row, clean, swap>>
<1>1. PICK x : x = [NoScan EXCEPT !.at = "listing"]
  OBVIOUS
<1>2. x \in Scan /\ x.at = "listing" /\ DOMAIN x.list = {}
  BY <1>1, Empty DEF NoScan, Scan
<1>3. used' \in Used /\ used'.scans = used.scans + 1 /\ used'.faults = used.faults
  BY DEF StartScan, Typed, Used
<1>. QED
  BY <1>1, <1>2, <1>3 DEF StartScan, Becomes

LEMMA PlexListsEffect ==
  ASSUME Typed, NEW s \in Scanners, PlexLists(s)
  PROVE  \E x \in Scan :
           /\ Becomes(s, x) /\ x.at = "next" /\ x.serial = used.scans
           /\ DOMAIN x.list = Listed /\ \A p \in Listed : x.list[p] = plex[p]
           /\ x.true = {m \in Movies : ListingTrue(m)}
           /\ UNCHANGED <<files, bin, plex, row, clean, swap, used>>
<1>1. PICK l : l = [p \in Listed |-> plex[p]]
  OBVIOUS
<1>2. l \in Lists
  BY <1>1, ListTypes DEF Listed, Typed
<1>3. PICK x : x = [scan[s] EXCEPT !.at = "next", !.list = l, !.serial = used.scans,
                                   !.true = {m \in Movies : ListingTrue(m)}]
  OBVIOUS
<1>4. Becomes(s, x)
  BY <1>1, <1>3 DEF PlexLists, Becomes, Typed
<1>5. /\ x \in Scan /\ x.at = "next" /\ x.serial = used.scans /\ x.list = l
      /\ x.true = {m \in Movies : ListingTrue(m)}
  BY <1>2, <1>3 DEF Typed, Scan, Used
<1>. QED
  BY <1>1, <1>4, <1>5 DEF PlexLists

LEMMA BeginEffect ==
  ASSUME Typed, NEW s \in Scanners, NEW p \in DOMAIN scan[s].list, NEW seen \in Part, Begin(s, p, seen)
  PROVE  \E x \in Scan :
           /\ Becomes(s, x) /\ x.at = "write" /\ x.serial = scan[s].serial
           /\ x.list = scan[s].list /\ x.true = scan[s].true /\ x.part = p /\ x.seen = seen
<1>1. PICK x : x = [scan[s] EXCEPT !.at = "write", !.part = p, !.seen = seen]
  OBVIOUS
<1>2. Becomes(s, x)
  BY <1>1 DEF Begin, Becomes, Typed
<1>3. p \in Paths
  BY ListTypes DEF Typed, Scan
<1>4. /\ x \in Scan /\ x.at = "write" /\ x.serial = scan[s].serial
      /\ x.list = scan[s].list /\ x.true = scan[s].true /\ x.part = p /\ x.seen = seen
  BY <1>1, <1>3 DEF Typed, Scan
<1>. QED
  BY <1>2, <1>4

LEMMA FaultEffect ==
  ASSUME Typed, Fault
  PROVE  used' \in Used /\ used'.scans = used.scans /\ used'.faults > 0
BY DEF Typed, Fault, Used

(* What a read of the row, or its failure, leaves in the variables.        *)
LEMMA ReadEffect ==
  ASSUME Typed, NEW s \in Scanners, ReadExisting(s) \/ ReadFails(s)
  PROVE  \E p \in DOMAIN scan[s].list : \E seen \in Part :
           /\ Begin(s, p, seen) /\ scan[s].at = "next"
           /\ used' \in Used /\ used'.scans = used.scans
           /\ ((seen = SeenRow(s, p) /\ used' = used) \/ used'.faults > 0)
           /\ UNCHANGED <<files, bin, plex, row, clean, swap>>
<1>1. \A p \in DOMAIN scan[s].list : SeenRow(s, p) \in Part
  BY ListTypes, OwnersAreMovies DEF SeenRow, Known, Typed, Row, Scan, Part
<1>2. scan[s].seen \in Part
  BY DEF Typed, Scan
<1>3. CASE ReadExisting(s)
  BY <1>1, <1>3 DEF ReadExisting, Upcoming, Typed
<1>4. CASE ReadFails(s)
  BY <1>2, <1>4, FaultEffect DEF ReadFails, Upcoming
<1>. QED
  BY <1>3, <1>4

LEMMA NextPartEffect ==
  ASSUME Typed, NEW s \in Scanners, NextPart(s)
  PROVE  \E x \in Scan :
           /\ Becomes(s, x) /\ x.at = "next" /\ x.serial = scan[s].serial
           /\ x.true = scan[s].true /\ DOMAIN x.list \subseteq DOMAIN scan[s].list
           /\ \A p \in DOMAIN x.list : x.list[p] = scan[s].list[p]
<1>1. PICK rest : rest = DOMAIN scan[s].list \ {scan[s].part}
  OBVIOUS
<1>2. PICK l : l = [p \in rest |-> scan[s].list[p]]
  OBVIOUS
<1>3. l \in Lists
  BY <1>1, <1>2, ListTypes DEF Typed, Scan
<1>4. PICK x : x = [scan[s] EXCEPT !.at = "next", !.part = None, !.list = l]
  OBVIOUS
<1>5. Becomes(s, x)
  BY <1>1, <1>2, <1>4 DEF NextPart, Becomes, Typed
<1>6. /\ x \in Scan /\ x.at = "next" /\ x.serial = scan[s].serial
      /\ x.true = scan[s].true /\ x.list = l
  BY <1>3, <1>4 DEF Typed, Scan
<1>. QED
  BY <1>1, <1>2, <1>5, <1>6

(* A row that is written has the path and size of the listing, and the     *)
(* streams of the listing or of the row that was read.                     *)
LEMMA WriteEffect ==
  ASSUME Typed, NEW s \in Scanners, WriteRow(s), scan[s].part \in DOMAIN scan[s].list
  PROVE  \E p \in Paths : \E x \in Row :
           /\ p = scan[s].part /\ row' = [row EXCEPT ![Owner[p]] = x]
           /\ x.path = p /\ x.size = scan[s].list[p].size /\ x.from = scan[s].serial
           /\ x.streams \in {scan[s].list[p].streams, scan[s].seen.streams}
           /\ (x.size > 0 => x.original > 0)
<1>1. PICK p : p = scan[s].part
  OBVIOUS
<1>2. p \in Paths /\ scan[s].list[p] \in Part /\ Owner[p] \in Movies
  BY <1>1, ListTypes, OwnersAreMovies DEF Typed, Scan
<1>3. PICK x : x = [path |-> p, size |-> scan[s].list[p].size,
                    streams |-> KeptStreams(scan[s].seen, scan[s].list[p]),
                    original |-> Original(row[Owner[p]], scan[s].list[p].size),
                    from |-> scan[s].serial]
  OBVIOUS
<1>4. KeptStreams(scan[s].seen, scan[s].list[p]) \in {scan[s].list[p].streams, scan[s].seen.streams}
  BY DEF KeptStreams
<1>5. scan[s].list[p].streams \in MovieStreams /\ scan[s].seen.streams \in MovieStreams
  BY <1>2 DEF Typed, Scan, Part
<1>6. /\ Original(row[Owner[p]], scan[s].list[p].size) \in Nat
      /\ scan[s].list[p].size > 0 => Original(row[Owner[p]], scan[s].list[p].size) > 0
  BY <1>2 DEF Original, Typed, Row, Part
<1>7. x \in Row
  BY <1>2, <1>3, <1>4, <1>5, <1>6 DEF Row, Typed, Scan, Part
<1>8. row' = [row EXCEPT ![Owner[p]] = x]
  BY <1>1, <1>3 DEF WriteRow, Scanned
<1>9. /\ x.path = p /\ x.size = scan[s].list[p].size /\ x.from = scan[s].serial
      /\ x.streams = KeptStreams(scan[s].seen, scan[s].list[p])
      /\ x.original = Original(row[Owner[p]], scan[s].list[p].size)
  BY <1>3
<1>. QED
  BY <1>1, <1>2, <1>4, <1>6, <1>7, <1>8, <1>9

LEMMA EndScanEffect ==
  ASSUME Typed, NEW s \in Scanners, EndScan(s)
  PROVE  Becomes(s, NoScan) /\ UNCHANGED <<files, bin, plex, row, clean, swap, used>>
BY DEF EndScan, Becomes

(* A listing that is not true any more is otherwise what it was.           *)
LEMMA OutdatedEffect ==
  ASSUME Typed, NEW m, scan' = Outdated(m)
  PROVE  /\ scan' \in [Scanners -> Scan]
         /\ \A s \in Scanners :
              /\ scan'[s].at = scan[s].at /\ scan'[s].list = scan[s].list
              /\ scan'[s].serial = scan[s].serial /\ scan'[s].part = scan[s].part
              /\ scan'[s].seen = scan[s].seen /\ scan'[s].true = scan[s].true \ {m}
<1>1. ASSUME NEW s \in Scanners
      PROVE  /\ scan'[s] \in Scan
             /\ scan'[s].at = scan[s].at /\ scan'[s].list = scan[s].list
             /\ scan'[s].serial = scan[s].serial /\ scan'[s].part = scan[s].part
             /\ scan'[s].seen = scan[s].seen /\ scan'[s].true = scan[s].true \ {m}
  <2>1. scan'[s] = [scan[s] EXCEPT !.true = @ \ {m}]
    BY DEF Outdated
  <2>2. scan[s] \in Scan
    BY DEF Typed
  <2>. QED
    BY <2>1, <2>2 DEF Scan
<1>2. scan' = [s \in Scanners |-> scan'[s]]
  BY DEF Outdated
<1>. QED
  BY <1>1, <1>2

-----------------------------------------------------------------------------
(* What the cleanup does to its own variable                               *)
Others == <<files, bin, plex, row, scan, swap>>

LEMMA StartWalkEffect ==
  ASSUME Typed, NEW at \in {"next", "preview"}, StartWalk(at)
  PROVE  /\ CleanTyped' /\ clean'.todo = {} /\ clean'.part = None /\ NoDoubtfulEstimate'
         /\ used' \in Used /\ used'.scans = used.scans /\ used'.faults = used.faults
         /\ UNCHANGED Others
<1>1. PICK l : l = [p \in Listed |-> plex[p]]
  OBVIOUS
<1>2. l \in Lists
  BY <1>1, ListTypes DEF Listed, Typed
<1>3. PICK S : S = {Owner[p] : p \in Listed}
  OBVIOUS
<1>4. S \subseteq Movies
  BY <1>3, OwnersAreMovies DEF Listed
<1>5. clean' = [NoClean EXCEPT !.at = at, !.list = l, !.left = S]
  BY <1>1, <1>3 DEF StartWalk
<1>6. CleanTyped' /\ clean'.todo = {} /\ clean'.part = None /\ NoDoubtfulEstimate'
  BY <1>2, <1>4, <1>5, NameTypes DEF CleanTyped, NoClean, NoDoubtfulEstimate
<1>7. used' \in Used /\ used'.scans = used.scans /\ used'.faults = used.faults
  BY DEF StartWalk, Typed, Used
<1>. QED
  BY <1>6, <1>7 DEF StartWalk, Others

(* Ranks are bounded, and sizes are numbers: among some parts there is one *)
(* than which none is better.                                              *)
LEMMA BestIsBest ==
  ASSUME NEW parts, parts # {}, NEW list, \A p \in parts : list[p] \in Part
  PROVE  /\ Best(parts, list) \in parts
         /\ \A q \in parts : ~Better(list[q], list[Best(parts, list)])
<1>1. \A p \in parts : /\ list[p].streams.resolution \in 0..4 /\ list[p].streams.codec \in 0..100
                       /\ list[p].size \in Nat
  <2>1. \A x \in MovieStreams : x.resolution \in 0..4 /\ x.codec \in 0..100
    BY FilmsAreFilms DEF MovieStreams, NoStreams, Streams
  <2>. QED
    BY <2>1 DEF Part
<1>. DEFINE Lack(p) == (4 - list[p].streams.resolution) * 101 + (100 - list[p].streams.codec)
<1>2. \A p \in parts : Lack(p) \in Nat
  BY <1>1
<1>3. PICK least : /\ least \in {Lack(p) : p \in parts}
                   /\ \A k \in {Lack(p) : p \in parts} : <<k, least>> \notin OpToRel(<, Nat)
  <2>1. {Lack(p) : p \in parts} \subseteq Nat /\ {Lack(p) : p \in parts} # {}
    BY <1>2
  <2>. QED
    BY <2>1, WFMin, NatLessThanWellFounded, Zenon
<1>4. \A k \in {Lack(p) : p \in parts} : ~(k < least)
  BY <1>2, <1>3 DEF OpToRel
<1>. DEFINE Sizes == {list[p].size : p \in {q \in parts : Lack(q) = least}}
<1>5. PICK small : small \in Sizes /\ \A k \in Sizes : <<k, small>> \notin OpToRel(<, Nat)
  <2>1. Sizes \subseteq Nat
    BY <1>1
  <2>2. PICK w \in parts : Lack(w) = least
    BY <1>3
  <2>3. list[w].size \in Sizes
    BY <2>2
  <2>. QED
    BY <2>1, <2>3, WFMin, NatLessThanWellFounded, Zenon
<1>6. \A k \in Sizes : ~(k < small)
  BY <1>1, <1>5 DEF OpToRel
<1>7. PICK b \in parts : Lack(b) = least /\ list[b].size = small
  BY <1>5
<1>8. ASSUME NEW q \in parts, Better(list[q], list[b])
      PROVE  FALSE
  <2>1. ~(Lack(q) < Lack(b))
    BY <1>4, <1>7
  <2>2. Lack(q) = Lack(b) => ~(list[q].size < list[b].size)
    BY <1>6, <1>7
  <2>3. PICK rq, cq, sq, rb, cb, sb :
          /\ rq = list[q].streams.resolution /\ cq = list[q].streams.codec /\ sq = list[q].size
          /\ rb = list[b].streams.resolution /\ cb = list[b].streams.codec /\ sb = list[b].size
    OBVIOUS
  <2>4. rq \in 0..4 /\ cq \in 0..100 /\ sq \in Nat /\ rb \in 0..4 /\ cb \in 0..100 /\ sb \in Nat
    BY <1>1, <2>3
  <2>5. /\ ~((4 - rq) * 101 + (100 - cq) < (4 - rb) * 101 + (100 - cb))
        /\ (4 - rq) * 101 + (100 - cq) = (4 - rb) * 101 + (100 - cb) => ~(sq < sb)
    BY <2>1, <2>2, <2>3
  <2>6. rq > rb \/ (rq = rb /\ (cq > cb \/ (cq = cb /\ sq < sb)))
    BY <1>8, <2>3 DEF Better
  <2>. QED
    BY <2>4, <2>5, <2>6
<1>. QED
  BY <1>8 DEF Best

(* The parts of a movie that there are, but for the best of them.          *)
LEMMA CollectEffect ==
  ASSUME Typed, CollectParts
  PROVE  \E m \in Movies : \E parts \in SUBSET (FilesOf(m) \cap DOMAIN clean.list) :
           /\ CleanTyped' /\ clean'.movie = m /\ clean.at = "next" /\ clean'.at = "next"
           /\ clean'.list = clean.list /\ clean'.disturbed = "no"
           /\ clean'.estimates = clean.estimates
           /\ clean.todo = {} /\ clean'.part = clean.part
           /\ clean'.todo # {} =>
                \E best \in parts :
                  /\ clean'.todo = parts \ {best}
                  /\ \A p \in parts : ~Better(clean.list[p], clean.list[best])
           /\ UNCHANGED <<Others, used>>
<1>1. PICK m \in clean.left :
        clean' = [clean EXCEPT !.left = @ \ {m}, !.movie = m, !.disturbed = "no",
                   !.todo = IF Cardinality(Collected(m)) <= 1 THEN {}
                            ELSE Collected(m) \ {Best(Collected(m), clean.list)}]
  BY DEF CollectParts
<1>2. PICK parts : parts = Collected(m)
  OBVIOUS
<1>3. m \in Movies /\ parts \in SUBSET (FilesOf(m) \cap DOMAIN clean.list)
  BY <1>1, <1>2, ListTypes DEF Collected, FilesOf, Held, Typed, CleanTyped
<1>4. PICK todo : todo = IF Cardinality(parts) <= 1 THEN {} ELSE parts \ {Best(parts, clean.list)}
  OBVIOUS
<1>5. clean' = [clean EXCEPT !.left = @ \ {m}, !.movie = m, !.disturbed = "no", !.todo = todo]
  BY <1>1, <1>2, <1>4
<1>6. todo \subseteq Paths
  BY <1>3, <1>4 DEF FilesOf, Held
<1>7. /\ CleanTyped' /\ clean'.movie = m /\ clean'.at = clean.at /\ clean'.todo = todo
      /\ clean'.list = clean.list /\ clean'.disturbed = "no" /\ clean'.estimates = clean.estimates
      /\ clean'.part = clean.part
  BY <1>3, <1>5, <1>6 DEF CleanTyped, NoClean, Typed
<1>8. \A p \in parts : clean.list[p] \in Part
  BY <1>3, ListTypes DEF Typed, CleanTyped
<1>9. PICK best : best = Best(parts, clean.list)
  OBVIOUS
<1>10. parts # {} => best \in parts /\ \A p \in parts : ~Better(clean.list[p], clean.list[best])
  BY <1>8, <1>9, BestIsBest
<1>11. todo # {} => parts # {} /\ todo = parts \ {best}
  BY <1>4, <1>9
<1>12. clean.at = "next" /\ clean.todo = {} /\ UNCHANGED <<Others, used>>
  BY DEF CollectParts, Others
<1>13. clean'.todo # {} =>
         \E b \in parts : /\ clean'.todo = parts \ {b}
                          /\ \A p \in parts : ~Better(clean.list[p], clean.list[b])
  BY <1>7, <1>10, <1>11
<1>. QED
  BY <1>3, <1>7, <1>12, <1>13, Zenon

(* An estimate for the parts behind the best of a movie is not doubtful.   *)
LEMMA EstimateIsSure ==
  ASSUME Typed, NEW m, Cardinality(Collected(m)) > 1
  PROVE  Estimate(m, Collected(m)).confidence # "low"
<1>1. PICK parts : parts = Collected(m)
  OBVIOUS
<1>2. parts \subseteq Paths /\ \A p \in parts : clean.list[p] \in Part
  BY <1>1, ListTypes DEF Collected, Typed, CleanTyped
<1>3. parts # {}
  BY <1>1, FS_EmptySet
<1>4. PICK best : best = Best(parts, clean.list)
  OBVIOUS
<1>5. \A p \in parts : ~Better(clean.list[p], clean.list[best])
  BY <1>2, <1>3, <1>4, BestIsBest
<1>6. \A x \in MovieStreams : x.resolution \in Nat /\ x.codec \in Nat
  BY FilmsAreFilms DEF MovieStreams, NoStreams, Streams
<1>7. best \in parts
  BY <1>2, <1>3, <1>4, BestIsBest
<1>8. ASSUME NEW p \in parts
      PROVE  Confidence(clean.list[best], clean.list[p]) # "low"
  <2>1. /\ clean.list[p].streams \in MovieStreams /\ clean.list[best].streams \in MovieStreams
    BY <1>2, <1>7 DEF Part
  <2>2. ~Better(clean.list[p], clean.list[best])
    BY <1>5
  <2>. QED
    BY <1>6, <2>1, <2>2 DEF Better, Confidence
<1>9. "low" \notin {Confidence(clean.list[best], clean.list[p]) : p \in parts \ {best}}
  BY <1>8
<1>10. Estimate(m, parts).confidence =
         IF "low" \in {Confidence(clean.list[best], clean.list[p]) : p \in parts \ {best}} THEN "low"
         ELSE IF "medium" \in {Confidence(clean.list[best], clean.list[p]) : p \in parts \ {best}}
              THEN "medium" ELSE "high"
  BY <1>4 DEF Estimate
<1>. QED
  BY <1>1, <1>9, <1>10

LEMMA PreviewEffect ==
  ASSUME Typed, PreviewMovie, NoDoubtfulEstimate
  PROVE  /\ CleanTyped' /\ UNCHANGED <<Others, used>> /\ NoDoubtfulEstimate'
         /\ clean'.todo = clean.todo /\ clean'.at = clean.at /\ clean'.list = clean.list
         /\ clean'.movie = clean.movie /\ clean'.disturbed = clean.disturbed
         /\ clean'.part = clean.part /\ clean'.name = clean.name
<1>1. PICK m : clean' = [clean EXCEPT !.left = @ \ {m},
                   !.estimates = IF Cardinality(Collected(m)) <= 1 THEN @
                                 ELSE @ \cup {Estimate(m, Collected(m))}]
  BY DEF PreviewMovie
<1>2. PICK estimates : estimates = IF Cardinality(Collected(m)) <= 1 THEN clean.estimates
                                   ELSE clean.estimates \cup {Estimate(m, Collected(m))}
  OBVIOUS
<1>3. clean' = [clean EXCEPT !.left = @ \ {m}, !.estimates = estimates]
  BY <1>1, <1>2
<1>4. /\ DOMAIN clean' = DOMAIN clean /\ clean'.left = clean.left \ {m}
      /\ clean'.todo = clean.todo /\ clean'.at = clean.at /\ clean'.list = clean.list
      /\ clean'.movie = clean.movie /\ clean'.disturbed = clean.disturbed
      /\ clean'.part = clean.part /\ clean'.name = clean.name /\ clean'.estimates = estimates
  BY <1>3 DEF Typed, CleanTyped, NoClean
<1>5. CleanTyped'
  BY <1>4 DEF Typed, CleanTyped
<1>6. Collected(m) \subseteq Paths
  BY ListTypes DEF Collected, Typed, CleanTyped
<1>7. Cardinality(Collected(m)) \in Nat
  BY <1>6, PathsAreFinite, FS_Subset, FS_CardinalityType
<1>8. \A e \in estimates : e.confidence # "low"
  BY <1>2, <1>7, EstimateIsSure DEF NoDoubtfulEstimate
<1>. QED
  BY <1>4, <1>5, <1>8 DEF PreviewMovie, Others, NoDoubtfulEstimate

LEMMA EndEffect ==
  ASSUME EndPreview \/ EndCleanup
  PROVE  CleanTyped' /\ clean'.todo = {} /\ clean'.part = None /\ NoDoubtfulEstimate' /\ UNCHANGED <<Others, used>>
<1>1. clean' = NoClean
  BY DEF EndPreview, EndCleanup
<1>2. CleanTyped' /\ clean'.todo = {} /\ clean'.part = None /\ NoDoubtfulEstimate'
  BY <1>1, ListTypes, NameTypes DEF CleanTyped, NoClean, NoDoubtfulEstimate
<1>. QED
  BY <1>2 DEF EndPreview, EndCleanup, Others

-----------------------------------------------------------------------------
(* What the changes of the files do                                        *)
Disturb(d) == clean' = [clean EXCEPT !.disturbed = d]

LEMMA DisturbEffect ==
  ASSUME Typed, NEW d \in {"no", "renewed", "lost"}, Disturb(d)
  PROVE  /\ CleanTyped' /\ clean'.disturbed = d
         /\ clean'.todo = clean.todo /\ clean'.at = clean.at /\ clean'.movie = clean.movie
         /\ clean'.list = clean.list /\ clean'.estimates = clean.estimates
         /\ clean'.part = clean.part /\ clean'.name = clean.name
<1>1. /\ DOMAIN clean' = DOMAIN clean /\ clean'.left = clean.left /\ clean'.list = clean.list
      /\ clean'.todo = clean.todo /\ clean'.at = clean.at /\ clean'.movie = clean.movie
      /\ clean'.disturbed = d /\ clean'.estimates = clean.estimates
      /\ clean'.part = clean.part /\ clean'.name = clean.name
  BY DEF Disturb, Typed, CleanTyped, NoClean
<1>2. CleanTyped'
  BY <1>1 DEF Typed, CleanTyped
<1>. QED
  BY <1>1, <1>2

LEMMA VanishEffect ==
  ASSUME Typed, NEW p \in Paths, FileVanishes(p)
  PROVE  /\ files[p] # NoFilm /\ files' = [files EXCEPT ![p] = NoFilm]
         /\ scan' = Outdated(Owner[p])
         /\ \E d \in {"no", "renewed", "lost"} :
              Disturb(d) /\ d = IF clean.movie = Owner[p] THEN "lost" ELSE clean.disturbed
         /\ used' \in Used /\ used'.scans = used.scans /\ used'.faults > 0
         /\ UNCHANGED <<bin, plex, row, swap>>
<1>1. PICK d : d = IF clean.movie = Owner[p] THEN "lost" ELSE clean.disturbed
  OBVIOUS
<1>2. d \in {"no", "renewed", "lost"}
  BY <1>1 DEF Typed, CleanTyped
<1>3. Disturb(d)
  BY <1>1 DEF FileVanishes, Disturb
<1>. QED
  BY <1>1, <1>2, <1>3, FaultEffect DEF FileVanishes

LEMMA RemoveEffect ==
  ASSUME Typed, NEW p \in Paths, RemoveInferior(p)
  PROVE  /\ p \in clean.todo /\ CleanTyped' /\ clean'.todo = clean.todo \ {p}
         /\ p = clean.part /\ clean'.part = None
         /\ clean'.at = clean.at /\ clean'.movie = clean.movie /\ clean'.list = clean.list
         /\ clean'.disturbed = clean.disturbed /\ clean'.estimates = clean.estimates
         /\ used' \in Used /\ used'.scans = used.scans /\ (used' = used \/ used'.faults > 0)
         /\ UNCHANGED <<plex, row, swap>>
         /\ \/ /\ files[p] # NoFilm /\ files' = [files EXCEPT ![p] = NoFilm]
               /\ bin' = IF UseBin THEN [bin EXCEPT ![clean.name] = files[p]] ELSE bin
               /\ scan' = Outdated(clean.movie)
            \/ UNCHANGED <<files, bin, scan>>
<1>1. /\ CleanTyped' /\ clean'.todo = clean.todo \ {p} /\ clean'.at = clean.at
      /\ clean'.movie = clean.movie /\ clean'.disturbed = clean.disturbed
      /\ clean'.list = clean.list /\ clean'.estimates = clean.estimates
      /\ p = clean.part /\ clean'.part = None
  BY NameTypes DEF RemoveInferior, Typed, CleanTyped, NoClean
<1>2. /\ used' \in Used /\ used'.scans = used.scans /\ (used' = used \/ used'.faults > 0)
  BY FaultEffect DEF RemoveInferior, Typed
<1>. QED
  BY <1>1, <1>2 DEF RemoveInferior

LEMMA ChooseEffect ==
  ASSUME Typed, NEW p \in Paths, ChooseName(p)
  PROVE  /\ CleanTyped' /\ p \in clean.todo /\ clean'.part = p /\ clean'.name = BinName(clean.movie)
         /\ clean'.todo = clean.todo /\ clean'.at = clean.at /\ clean'.movie = clean.movie
         /\ clean'.list = clean.list /\ clean'.disturbed = clean.disturbed
         /\ clean'.estimates = clean.estimates
         /\ UNCHANGED <<Others, used>>
<1>1. clean.movie \in BinNames /\ BinName(clean.movie) \in BinNames
  BY NameTypes DEF Typed, CleanTyped, BinName
<1>2. /\ CleanTyped' /\ clean'.part = p /\ clean'.name = BinName(clean.movie)
      /\ clean'.todo = clean.todo /\ clean'.at = clean.at /\ clean'.movie = clean.movie
      /\ clean'.list = clean.list /\ clean'.disturbed = clean.disturbed
      /\ clean'.estimates = clean.estimates
  BY <1>1 DEF ChooseName, Typed, CleanTyped, NoClean
<1>. QED
  BY <1>2 DEF ChooseName, Others

LEMMA PutAwayEffect ==
  ASSUME Typed, NEW m \in Movies, NEW kept \in {"bin", "beside"}, PutAway(m, kept)
  PROVE  \E q \in Paths, x \in Swap :
           /\ q = row[m].path /\ files[q] # NoFilm /\ files' = [files EXCEPT ![q] = NoFilm]
           /\ swap' = [swap EXCEPT ![m] = x] /\ swap[m].at = "idle"
           /\ x.at = "away" /\ x.loaded = q /\ x.old = files[q]
           /\ scan' = Outdated(m)
           /\ used' \in Used /\ used'.scans = used.scans /\ used'.faults = used.faults
           /\ bin' = bin \/ bin' = [bin EXCEPT ![RecycledName(m)] = files[q]]
           /\ UNCHANGED <<plex, row, clean>>
<1>1. PICK q : q = row[m].path
  OBVIOUS
<1>2. q \in Paths /\ files[q] \in Films
  BY <1>1, NoneIsNothing DEF PutAway, Typed, Row
<1>3. PICK x : x = [NoSwap EXCEPT !.at = "away", !.loaded = q, !.old = files[q], !.kept = kept]
  OBVIOUS
<1>4. x \in Swap /\ x.at = "away" /\ x.loaded = q /\ x.old = files[q]
  BY <1>2, <1>3 DEF NoSwap, Swap
<1>5. used' \in Used /\ used'.scans = used.scans /\ used'.faults = used.faults
  BY DEF PutAway, Typed, Used
<1>. QED
  BY <1>1, <1>2, <1>3, <1>4, <1>5 DEF PutAway

LEMMA PlaceEffect ==
  ASSUME Typed, NEW m \in Movies, NEW p \in Paths, NEW f \in Films, Place(m, p, f)
  PROVE  \E x \in Swap :
           /\ swap[m].at = "away" /\ Owner[p] = m /\ files[p] = NoFilm /\ f.movie = m
           /\ swap' = [swap EXCEPT ![m] = x] /\ x.at = "placed" /\ x.path = p /\ x.film = f
           /\ x.loaded = swap[m].loaded /\ x.old = swap[m].old
           /\ files' = [files EXCEPT ![p] = f] /\ scan' = Outdated(m)
           /\ \E d \in {"no", "renewed", "lost"} :
                /\ Disturb(d)
                /\ d = IF clean.movie = m /\ clean.disturbed = "no" THEN "renewed" ELSE clean.disturbed
           /\ UNCHANGED <<bin, plex, row, used>>
<1>1. PICK x : x = [swap[m] EXCEPT !.at = "placed", !.path = p, !.film = f]
  OBVIOUS
<1>2. /\ x \in Swap /\ x.at = "placed" /\ x.path = p /\ x.film = f
      /\ x.loaded = swap[m].loaded /\ x.old = swap[m].old
  BY <1>1 DEF Typed, Swap
<1>3. swap' = [swap EXCEPT ![m] = x]
  BY <1>1 DEF Place, Typed
<1>4. PICK d : d = IF clean.movie = m /\ clean.disturbed = "no" THEN "renewed" ELSE clean.disturbed
  OBVIOUS
<1>5. d \in {"no", "renewed", "lost"} /\ Disturb(d)
  BY <1>4 DEF Place, Disturb, Typed, CleanTyped
<1>. QED
  BY <1>2, <1>3, <1>4, <1>5 DEF Place

LEMMA CommitEffect ==
  ASSUME Typed, NEW m \in Movies, CommitReplacement(m), swap[m].film \in Films
  PROVE  \E x \in Row :
           /\ row' = [row EXCEPT ![m] = x] /\ x.path \in {row[m].path, swap[m].path}
           /\ x.from = row[m].from /\ x.streams = Streams(swap[m].film)
           /\ x.size = swap[m].film.size /\ x.original = row[m].original
           /\ (swap[m].path = swap[m].loaded => x.path = row[m].path)
           /\ (swap[m].path # swap[m].loaded => x.path = swap[m].path)
           /\ swap' = [swap EXCEPT ![m] = NoSwap] /\ swap[m].at = "placed"
           /\ UNCHANGED <<files, bin, plex, scan, clean, used>>
<1>1. PICK q : q = IF swap[m].path = swap[m].loaded THEN row[m].path ELSE swap[m].path
  OBVIOUS
<1>2. PICK x : x = [row[m] EXCEPT !.path = q, !.size = swap[m].film.size,
                                  !.streams = Streams(swap[m].film)]
  OBVIOUS
<1>3. q \in Paths \cup {None}
  BY <1>1 DEF Typed, Row, Swap
<1>4. swap[m].film.size \in Nat /\ Streams(swap[m].film) \in MovieStreams
  BY FilmTypes
<1>5. /\ x \in Row /\ x.path = q /\ x.from = row[m].from /\ x.streams = Streams(swap[m].film)
      /\ x.size = swap[m].film.size /\ x.original = row[m].original
  BY <1>2, <1>3, <1>4 DEF Typed, Row
<1>6. row' = [row EXCEPT ![m] = x]
  <2>1. row' = [row EXCEPT ![m] =
          [row[m] EXCEPT !.path = IF swap[m].path = swap[m].loaded THEN row[m].path ELSE swap[m].path,
                         !.size = swap[m].film.size, !.streams = Streams(swap[m].film)]]
    BY DEF CommitReplacement
  <2>. QED
    BY <1>1, <1>2, <2>1
<1>. QED
  BY <1>1, <1>5, <1>6 DEF CommitReplacement

-----------------------------------------------------------------------------
(* The inductive invariant                                                 *)
Among(x, m) == x.streams.movie \in {m, None}

FilesOK == \A p \in Paths : files[p] # NoFilm => files[p].movie = Owner[p]

PlexOK == \A p \in Paths : plex[p] # NoPart => plex[p].size > 0

RowOK ==
  \A m \in Movies :
    /\ row[m].path # None => Owner[row[m].path] = m /\ row[m].size > 0 /\ row[m].original > 0
    /\ row[m].from <= used.scans

SwapOK ==
  \A m \in Movies :
    /\ swap[m].at # "idle" =>
         /\ swap[m].loaded \in Paths /\ Owner[swap[m].loaded] = m
         /\ swap[m].old \in Films /\ swap[m].old.movie = m
         /\ row[m].path # None
    /\ swap[m].at = "placed" =>
         /\ swap[m].path \in Paths /\ Owner[swap[m].path] = m
         /\ swap[m].film \in Films /\ swap[m].film.movie = m

(* A name of one movie's own has a copy of that movie; and the name that   *)
(* was chosen for a part is the movie's own, or is free.                   *)
BinOK ==
  /\ \A m \in Movies : bin[m] # NoFilm => bin[m].movie = m
  /\ \A m \in Movies :
       Folder[m] \in Folders \ Shared /\ bin[Folder[m]] # NoFilm => bin[Folder[m]].movie = m
  /\ clean.part # None =>
       /\ clean.part \in clean.todo /\ clean.name \in {None, clean.movie}
       /\ clean.name = None /\ None \notin Shared => bin[None] = NoFilm

(* The listing of a scan is the newest there is.                           *)
ScanOK ==
  \A s \in Scanners :
    /\ scan[s].at \in {"next", "write"} => scan[s].serial = used.scans
    /\ scan[s].at \in {"idle", "listing"} => DOMAIN scan[s].list = {}
    /\ scan[s].at = "write" => scan[s].part \in DOMAIN scan[s].list
    /\ \A p \in DOMAIN scan[s].list :
         /\ scan[s].list[p].size > 0
         /\ Owner[p] \in scan[s].true => scan[s].list[p].size = files[p].size

OneScan ==
  \A s, t \in Scanners : scan[s].at # "idle" /\ scan[t].at # "idle" => s = t

(* The files of the movie at hand are more than those that are to go, when *)
(* the one that is put away counts; and the best of them, which is not to  *)
(* go, is there or put away, as long as no other was placed.               *)
Remaining ==
  Cardinality(FilesOf(clean.movie)) + (IF swap[clean.movie].at = "away" THEN 1 ELSE 0)

BestStays ==
  \E best \in DOMAIN clean.list \ clean.todo :
    /\ Owner[best] = clean.movie
    /\ \/ files[best] # NoFilm
       \/ swap[clean.movie].at = "away" /\ swap[clean.movie].loaded = best
    /\ \A p \in clean.todo : ~Better(clean.list[p], clean.list[best])

CleanOK ==
  /\ clean.at # "next" => clean.todo = {}
  /\ clean.todo # {} =>
       /\ clean.movie \in Movies
       /\ \A p \in clean.todo : Owner[p] = clean.movie /\ p \in DOMAIN clean.list
       /\ clean.disturbed # "lost" => Remaining > Cardinality(clean.todo)
       /\ clean.disturbed = "no" => BestStays

(* Until a read fails, what is known of a movie is known of no other.      *)
StreamsOK ==
  used.faults = 0 =>
    /\ \A p \in Paths : Among(plex[p], Owner[p])
    /\ \A m \in Movies : Among(row[m], m)
    /\ \A s \in Scanners :
         /\ \A p \in DOMAIN scan[s].list : Among(scan[s].list[p], Owner[p])
         /\ scan[s].at = "write" => Among(scan[s].seen, Owner[scan[s].part])

IInv ==
  /\ Typed
  /\ FilesOK /\ PlexOK /\ RowOK /\ SwapOK /\ BinOK
  /\ ScanOK /\ OneScan
  /\ CleanOK /\ NoDoubtfulEstimate
  /\ StreamsOK

-----------------------------------------------------------------------------
(* At the start                                                            *)
LEMMA InitOK == Init => IInv
<1>. SUFFICES ASSUME Init PROVE IInv
  OBVIOUS
<1>1. PICK first \in FirstStates :
        /\ files = first.files
        /\ bin = [n \in BinNames |-> IF n = None THEN first.binned ELSE NoFilm]
        /\ row = [m \in Movies |->
             IF m \in {Owner[p] : p \in first.known}
             THEN LET p == CHOOSE p \in first.known : Owner[p] = m IN
                  [NoRow EXCEPT !.path = p, !.size = first.files[p].size,
                     !.streams = Streams(first.files[p]), !.original = first.files[p].size]
             ELSE NoRow]
  BY DEF Init
<1>2. /\ files \in [Paths -> Films \cup {NoFilm}] /\ first.binned \in Films \cup {NoFilm}
      /\ first.known \subseteq Held(files) /\ FilesOK
  BY <1>1, FirstStatesAreOrdinary DEF FilesOK, Held
<1>3. bin \in [BinNames -> Films \cup {NoFilm}] /\ BinOK
  <2>1. bin \in [BinNames -> Films \cup {NoFilm}]
    BY <1>1, <1>2
  <2>2. \A n \in BinNames : n # None => bin[n] = NoFilm
    BY <1>1
  <2>3. clean.part = None
    BY DEF Init, NoClean
  <2>. QED
    BY <2>1, <2>2, <2>3, NameTypes DEF BinOK
<1>4. ASSUME NEW p \in Paths
      PROVE  plex[p] \in Part /\ (plex[p] # NoPart => plex[p].size > 0) /\ Among(plex[p], Owner[p])
  <2>1. plex[p] = IF files[p] = NoFilm THEN NoPart ELSE PartOf(files[p])
    BY DEF Init
  <2>2. CASE files[p] = NoFilm
    BY <2>1, <2>2, FilmTypes DEF Among
  <2>3. CASE files[p] # NoFilm
    <3>1. files[p] \in Films /\ files[p].movie = Owner[p]
      BY <1>2, <2>3 DEF FilesOK
    <3>2. plex[p] = [size |-> files[p].size, streams |-> Streams(files[p])] /\ plex[p] \in Part
      BY <2>1, <2>3, <3>1, FilmTypes DEF PartOf
    <3>. QED
      BY <3>1, <3>2, FilmTypes DEF Among
  <2>. QED
    BY <2>2, <2>3
<1>5. plex \in [Paths -> Part] /\ PlexOK
  BY <1>4 DEF Init, PlexOK
<1>6. ASSUME NEW m \in Movies
      PROVE  /\ row[m] \in Row /\ row[m].from = 0 /\ Among(row[m], m)
             /\ row[m].path # None => Owner[row[m].path] = m /\ row[m].size > 0 /\ row[m].original > 0
  <2>1. CASE m \in {Owner[p] : p \in first.known}
    <3>1. PICK p : p = CHOOSE q \in first.known : Owner[q] = m
      OBVIOUS
    <3>2. p \in first.known /\ Owner[p] = m
      BY <2>1, <3>1
    <3>3. p \in Paths /\ files[p] \in Films /\ files[p].movie = m
      BY <1>2, <3>2 DEF Held, FilesOK
    <3>4. row[m] = [NoRow EXCEPT !.path = p, !.size = files[p].size,
                      !.streams = Streams(files[p]), !.original = files[p].size]
      BY <1>1, <2>1, <3>1
    <3>5. /\ row[m] \in Row /\ row[m].from = 0 /\ row[m].path = p /\ row[m].size = files[p].size
          /\ row[m].original = files[p].size /\ row[m].streams = Streams(files[p])
      <4>1. row[m] = [path |-> p, size |-> files[p].size, streams |-> Streams(files[p]),
                      original |-> files[p].size, from |-> 0]
        BY <3>4 DEF NoRow
      <4>. QED
        BY <3>3, <4>1, FilmTypes DEF Row
    <3>. QED
      BY <3>2, <3>3, <3>5, FilmTypes DEF Among
  <2>2. CASE m \notin {Owner[p] : p \in first.known}
    <3>1. row[m] = NoRow
      BY <1>1, <2>2
    <3>. QED
      BY <3>1, Empty, FilmTypes DEF Among
  <2>. QED
    BY <2>1, <2>2
<1>7. used \in Used /\ used.scans = 0
  BY DEF Init, Used
<1>8. row \in [Movies -> Row] /\ RowOK
  <2>1. row = [m \in Movies |-> row[m]]
    BY <1>1
  <2>2. RowOK
    BY <1>6, <1>7 DEF RowOK
  <2>. QED
    BY <1>6, <2>1, <2>2
<1>9. swap \in [Movies -> Swap] /\ SwapOK
  BY Empty DEF Init, SwapOK
<1>10. scan \in [Scanners -> Scan] /\ ScanOK /\ OneScan
  BY Empty DEF Init, ScanOK, OneScan
<1>11. CleanTyped /\ CleanOK /\ NoDoubtfulEstimate
  BY ListTypes, NameTypes DEF Init, CleanTyped, CleanOK, NoClean, NoDoubtfulEstimate
<1>12. StreamsOK
  BY <1>4, <1>6, Empty DEF StreamsOK, Init
<1>. QED
  BY <1>2, <1>3, <1>5, <1>7, <1>8, <1>9, <1>10, <1>11, <1>12 DEF IInv, Typed

-----------------------------------------------------------------------------
(* The steps of Plex                                                       *)
LEMMA PlexKeeps ==
  ASSUME IInv, plex' \in [Paths -> Part], UNCHANGED <<files, bin, row, scan, clean, swap, used>>,
         \A p \in Paths : /\ plex'[p] # NoPart => plex'[p].size > 0
                          /\ Among(plex[p], Owner[p]) => Among(plex'[p], Owner[p])
  PROVE  IInv'
<1>1. Typed'
  BY DEF IInv, Typed, CleanTyped
<1>2. FilesOK' /\ PlexOK' /\ RowOK' /\ SwapOK' /\ BinOK' /\ ScanOK' /\ OneScan' /\ NoDoubtfulEstimate'
  BY DEF IInv, FilesOK, PlexOK, RowOK, SwapOK, BinOK, ScanOK, OneScan, NoDoubtfulEstimate
<1>3. CleanOK'
  BY DEF IInv, CleanOK, Remaining, BestStays, FilesOf, Held
<1>4. StreamsOK'
  BY DEF IInv, StreamsOK, Among
<1>. QED
  BY <1>1, <1>2, <1>3, <1>4 DEF IInv

LEMMA PlexSteps ==
  ASSUME IInv, PlexRefreshes \/ \E p \in Paths : PlexAnalyses(p)
  PROVE  IInv'
<1>1. ASSUME NEW p \in Paths, files[p] # NoFilm
      PROVE  /\ PartOf(files[p]) \in Part /\ PartOf(files[p]).size > 0
             /\ Among(PartOf(files[p]), Owner[p])
  <2>1. files[p] \in Films /\ files[p].movie = Owner[p]
    BY <1>1 DEF IInv, Typed, FilesOK
  <2>. QED
    BY <2>1, FilmTypes DEF PartOf, Among
<1>2. CASE PlexRefreshes
  <2>1. ASSUME NEW p \in Paths
        PROVE  /\ plex'[p] \in Part /\ (plex'[p] # NoPart => plex'[p].size > 0)
               /\ (Among(plex[p], Owner[p]) => Among(plex'[p], Owner[p]))
    <3>1. plex'[p] = IF files[p] = NoFilm THEN NoPart
                     ELSE IF plex[p] = NoPart THEN PartOf(files[p])
                     ELSE [plex[p] EXCEPT !.size = files[p].size]
      BY <1>2 DEF PlexRefreshes
    <3>2. CASE files[p] = NoFilm
      BY <3>1, <3>2, FilmTypes DEF Among
    <3>3. CASE files[p] # NoFilm /\ plex[p] = NoPart
      BY <1>1, <3>1, <3>3
    <3>4. CASE files[p] # NoFilm /\ plex[p] # NoPart
      <4>1. files[p].size \in Nat /\ files[p].size > 0
        BY <3>4, FilmTypes DEF IInv, Typed
      <4>2. plex'[p] = [plex[p] EXCEPT !.size = files[p].size] /\ plex[p] \in Part
        BY <3>1, <3>4 DEF IInv, Typed
      <4>3. plex'[p] \in Part /\ plex'[p].size = files[p].size /\ plex'[p].streams = plex[p].streams
        BY <4>1, <4>2 DEF Part
      <4>. QED
        BY <4>1, <4>3 DEF Among
    <3>. QED
      BY <3>2, <3>3, <3>4
  <2>2. plex' \in [Paths -> Part]
    BY <1>2, <2>1 DEF PlexRefreshes
  <2>. QED
    BY <1>2, <2>1, <2>2, PlexKeeps DEF PlexRefreshes
<1>3. ASSUME NEW p \in Paths, PlexAnalyses(p)
      PROVE  IInv'
  <2>1. /\ files[p] # NoFilm /\ plex' = [plex EXCEPT ![p] = PartOf(files[p])]
        /\ UNCHANGED <<files, bin, row, scan, clean, swap, used>>
    BY <1>3 DEF PlexAnalyses
  <2>2. plex \in [Paths -> Part] /\ \A q \in Paths : plex[q] # NoPart => plex[q].size > 0
    BY DEF IInv, Typed, PlexOK
  <2>3. plex' \in [Paths -> Part]
    BY <1>1, <2>1, <2>2
  <2>4. \A q \in Paths : plex'[q] = IF q = p THEN PartOf(files[p]) ELSE plex[q]
    BY <2>1, <2>2
  <2>5. \A q \in Paths : /\ plex'[q] # NoPart => plex'[q].size > 0
                         /\ Among(plex[q], Owner[q]) => Among(plex'[q], Owner[q])
    BY <1>1, <2>1, <2>2, <2>4
  <2>. QED
    BY <2>1, <2>3, <2>5, PlexKeeps
<1>. QED
  BY <1>2, <1>3

-----------------------------------------------------------------------------
(* The steps of a scan                                                     *)
Fits(x) ==
  /\ x.at \in {"next", "write"} => x.serial = used.scans
  /\ x.at \in {"idle", "listing"} => DOMAIN x.list = {}
  /\ x.at = "write" => x.part \in DOMAIN x.list
  /\ \A p \in DOMAIN x.list :
       /\ x.list[p].size > 0
       /\ Owner[p] \in x.true => x.list[p].size = files[p].size

Own(x) ==
  /\ \A p \in DOMAIN x.list : Among(x.list[p], Owner[p])
  /\ x.at = "write" => Among(x.seen, Owner[x.part])

LEMMA ScanKeeps ==
  ASSUME IInv, NEW s \in Scanners, NEW x \in Scan, Becomes(s, x),
         UNCHANGED <<files, bin, plex, clean, swap>>,
         used' \in Used, used'.faults = 0 => used.faults = 0,
         scan[s].at # "idle" \/ ScanIdle,
         used'.scans = used.scans \/ ScanIdle,
         row' \in [Movies -> Row], RowOK',
         \A m \in Movies : row[m].path # None => row'[m].path # None,
         used'.faults = 0 => \A m \in Movies : Among(row'[m], m),
         Fits(x)', used'.faults = 0 => Own(x)
  PROVE  IInv'
<1>1. /\ scan' \in [Scanners -> Scan] /\ scan'[s] = x
      /\ \A t \in Scanners \ {s} : scan'[t] = scan[t]
  BY BecomesTyped DEF IInv
<1>2. Typed'
  BY <1>1 DEF IInv, Typed, CleanTyped
<1>3. FilesOK' /\ PlexOK' /\ BinOK' /\ NoDoubtfulEstimate'
  BY DEF IInv, FilesOK, PlexOK, BinOK, NoDoubtfulEstimate
<1>4. SwapOK'
  BY DEF IInv, SwapOK
<1>5. CleanOK'
  BY DEF IInv, CleanOK, Remaining, BestStays, FilesOf, Held
<1>6. OneScan'
  BY <1>1 DEF IInv, OneScan, ScanIdle
<1>7. ASSUME NEW t \in Scanners \ {s}
      PROVE  Fits(scan[t])'
  <2>1. Fits(scan[t])
    BY DEF IInv, ScanOK, Fits
  <2>2. CASE used'.scans = used.scans
    BY <1>1, <2>1, <2>2 DEF Fits
  <2>3. CASE ScanIdle
    BY <1>1, <2>1, <2>3 DEF Fits, ScanIdle
  <2>. QED
    BY <2>2, <2>3
<1>8. ScanOK'
  <2>1. \A t \in Scanners : Fits(scan[t])'
    BY <1>1, <1>7 DEF Fits
  <2>. QED
    BY <2>1 DEF ScanOK, Fits
<1>9. StreamsOK'
  <2>1. ASSUME used'.faults = 0, NEW t \in Scanners
        PROVE  Own(scan'[t])
    <3>1. t # s => Own(scan[t])
      BY <2>1 DEF IInv, StreamsOK, Own
    <3>. QED
      BY <1>1, <2>1, <3>1
  <2>2. used'.faults = 0 => \A p \in Paths : Among(plex'[p], Owner[p])
    BY DEF IInv, StreamsOK
  <2>. QED
    BY <2>1, <2>2 DEF StreamsOK, Own, Among
<1>. QED
  BY <1>2, <1>3, <1>4, <1>5, <1>6, <1>8, <1>9 DEF IInv

(* A step that leaves the rows alone leaves them as they should be.        *)
LEMMA RowsStay ==
  ASSUME IInv, UNCHANGED row, used' \in Used, used'.scans >= used.scans,
         used'.faults = 0 => used.faults = 0
  PROVE  /\ row' \in [Movies -> Row] /\ RowOK'
         /\ \A m \in Movies : row[m].path # None => row'[m].path # None
         /\ used'.faults = 0 => \A m \in Movies : Among(row'[m], m)
<1>1. RowOK'
  BY DEF IInv, RowOK, Typed, Row, Used
<1>. QED
  BY <1>1 DEF IInv, Typed, StreamsOK

LEMMA ScanSteps ==
  ASSUME IInv, NEW s \in Scanners,
         \/ StartScan(s) \/ PlexLists(s) \/ ReadExisting(s) \/ ReadFails(s)
         \/ WriteFails(s) \/ EndScan(s)
  PROVE  IInv'
<1>. Typed /\ used \in Used
  BY DEF IInv, Typed
<1>1. ASSUME StartScan(s)
      PROVE  IInv'
  <2>1. PICK x \in Scan :
          /\ Becomes(s, x) /\ x.at = "listing" /\ DOMAIN x.list = {}
          /\ used' \in Used /\ used'.scans = used.scans + 1 /\ used'.faults = used.faults
          /\ UNCHANGED <<files, bin, plex, row, clean, swap>>
    BY <1>1, StartScanEffect
  <2>2. Fits(x)' /\ Own(x) /\ ScanIdle
    BY <1>1, <2>1 DEF Fits, Own, StartScan, MayScan
  <2>3. used'.scans >= used.scans
    BY <2>1 DEF Used
  <2>. QED
    BY <2>1, <2>2, <2>3, RowsStay, ScanKeeps
<1>2. ASSUME PlexLists(s)
      PROVE  IInv'
  <2>1. PICK x \in Scan :
          /\ Becomes(s, x) /\ x.at = "next" /\ x.serial = used.scans
          /\ DOMAIN x.list = Listed /\ \A p \in Listed : x.list[p] = plex[p]
          /\ x.true = {m \in Movies : ListingTrue(m)}
          /\ UNCHANGED <<files, bin, plex, row, clean, swap, used>>
    BY <1>2, PlexListsEffect
  <2>2. scan[s].at # "idle"
    BY <1>2 DEF PlexLists
  <2>3. ASSUME NEW p \in Listed
        PROVE  /\ x.list[p].size > 0
               /\ Owner[p] \in x.true => x.list[p].size = files[p].size
    BY <2>1 DEF IInv, PlexOK, Listed, ListingTrue
  <2>4. Fits(x)'
    BY <2>1, <2>3 DEF Fits
  <2>5. used'.faults = 0 => Own(x)
    BY <2>1 DEF IInv, StreamsOK, Own, Listed
  <2>6. used'.scans >= used.scans
    BY <2>1 DEF Used
  <2>. QED
    BY <2>1, <2>2, <2>4, <2>5, <2>6, RowsStay, ScanKeeps
<1>3. ASSUME ReadExisting(s) \/ ReadFails(s)
      PROVE  IInv'
  <2>1. PICK p \in DOMAIN scan[s].list : \E seen \in Part :
           /\ Begin(s, p, seen) /\ scan[s].at = "next"
           /\ used' \in Used /\ used'.scans = used.scans
           /\ ((seen = SeenRow(s, p) /\ used' = used) \/ used'.faults > 0)
           /\ UNCHANGED <<files, bin, plex, row, clean, swap>>
    BY <1>3, ReadEffect
  <2>2. PICK seen \in Part :
           /\ Begin(s, p, seen) /\ scan[s].at = "next"
           /\ used' \in Used /\ used'.scans = used.scans
           /\ ((seen = SeenRow(s, p) /\ used' = used) \/ used'.faults > 0)
           /\ UNCHANGED <<files, bin, plex, row, clean, swap>>
    BY <2>1
  <2>3. PICK x \in Scan :
           /\ Becomes(s, x) /\ x.at = "write" /\ x.serial = scan[s].serial
           /\ x.list = scan[s].list /\ x.true = scan[s].true /\ x.part = p /\ x.seen = seen
    BY <2>2, BeginEffect
  <2>4. Fits(x)'
    BY <2>2, <2>3 DEF IInv, ScanOK, Fits
  <2>5. used'.faults = 0 => used.faults = 0
    BY <2>2
  <2>6. used'.faults = 0 => Own(x)
    <3>1. SUFFICES ASSUME used'.faults = 0
                   PROVE  Own(x)
      OBVIOUS
    <3>2. seen = SeenRow(s, p) /\ Owner[p] \in Movies
      BY <2>2, <3>1, ListTypes, OwnersAreMovies DEF Typed, Scan
    <3>3. Among(seen, Owner[p])
      BY <2>5, <3>1, <3>2 DEF IInv, StreamsOK, SeenRow, Known, Among
    <3>4. \A q \in DOMAIN x.list : Among(x.list[q], Owner[q])
      BY <2>3, <2>5, <3>1 DEF IInv, StreamsOK
    <3>. QED
      BY <2>3, <3>3, <3>4 DEF Own
  <2>7. used'.scans >= used.scans
    BY <2>2 DEF Used
  <2>. QED
    BY <2>2, <2>3, <2>4, <2>5, <2>6, <2>7, RowsStay, ScanKeeps
<1>4. ASSUME WriteFails(s)
      PROVE  IInv'
  <2>1. /\ NextPart(s) /\ scan[s].at = "write" /\ used' \in Used /\ used'.scans = used.scans
        /\ used'.faults > 0 /\ UNCHANGED <<files, bin, plex, row, clean, swap>>
    BY <1>4, FaultEffect DEF WriteFails
  <2>2. PICK x \in Scan :
           /\ Becomes(s, x) /\ x.at = "next" /\ x.serial = scan[s].serial
           /\ x.true = scan[s].true /\ DOMAIN x.list \subseteq DOMAIN scan[s].list
           /\ \A p \in DOMAIN x.list : x.list[p] = scan[s].list[p]
    BY <2>1, NextPartEffect
  <2>3. Fits(x)'
    BY <2>1, <2>2 DEF IInv, ScanOK, Fits
  <2>4. used'.scans >= used.scans /\ used'.faults # 0
    BY <2>1 DEF Used
  <2>. QED
    BY <2>1, <2>2, <2>3, <2>4, RowsStay, ScanKeeps
<1>5. ASSUME EndScan(s)
      PROVE  IInv'
  <2>1. Becomes(s, NoScan) /\ UNCHANGED <<files, bin, plex, row, clean, swap, used>>
    BY <1>5, EndScanEffect
  <2>2. Fits(NoScan)' /\ Own(NoScan) /\ NoScan \in Scan
    BY Empty DEF Fits, Own
  <2>3. scan[s].at # "idle" /\ used'.scans >= used.scans
    BY <1>5, <2>1 DEF EndScan, Used
  <2>. QED
    BY <2>1, <2>2, <2>3, RowsStay, ScanKeeps
<1>. QED
  BY <1>1, <1>2, <1>3, <1>4, <1>5

(* What a scan writes is of the listing it took.                           *)
LEMMA WriteStep ==
  ASSUME IInv, NEW s \in Scanners, WriteRow(s)
  PROVE  IInv'
<1>. Typed /\ used \in Used
  BY DEF IInv, Typed
<1>1. /\ NextPart(s) /\ scan[s].at = "write" /\ scan[s].part \in DOMAIN scan[s].list
      /\ UNCHANGED <<files, bin, plex, clean, swap, used>>
  BY DEF WriteRow, IInv, ScanOK
<1>2. PICK x \in Scan :
         /\ Becomes(s, x) /\ x.at = "next" /\ x.serial = scan[s].serial
         /\ x.true = scan[s].true /\ DOMAIN x.list \subseteq DOMAIN scan[s].list
         /\ \A p \in DOMAIN x.list : x.list[p] = scan[s].list[p]
  BY <1>1, NextPartEffect
<1>3. PICK p \in Paths : \E r \in Row :
         /\ p = scan[s].part /\ row' = [row EXCEPT ![Owner[p]] = r]
         /\ r.path = p /\ r.size = scan[s].list[p].size /\ r.from = scan[s].serial
         /\ r.streams \in {scan[s].list[p].streams, scan[s].seen.streams}
         /\ (r.size > 0 => r.original > 0)
  BY <1>1, WriteEffect
<1>4. PICK r \in Row :
         /\ p = scan[s].part /\ row' = [row EXCEPT ![Owner[p]] = r]
         /\ r.path = p /\ r.size = scan[s].list[p].size /\ r.from = scan[s].serial
         /\ r.streams \in {scan[s].list[p].streams, scan[s].seen.streams}
         /\ (r.size > 0 => r.original > 0)
  BY <1>3
<1>5. Fits(x)'
  BY <1>1, <1>2 DEF IInv, ScanOK, Fits
<1>6. used'.faults = 0 => Own(x)
  BY <1>1, <1>2 DEF IInv, StreamsOK, Own
<1>7. Owner[p] \in Movies /\ row \in [Movies -> Row]
  BY OwnersAreMovies DEF Typed
<1>8. /\ row' \in [Movies -> Row] /\ row'[Owner[p]] = r
      /\ \A m \in Movies \ {Owner[p]} : row'[m] = row[m]
  BY <1>4, <1>7
<1>9. r.path # None /\ r.size > 0 /\ r.original > 0 /\ r.from = used.scans
  BY <1>1, <1>4, NoneIsNothing DEF IInv, ScanOK
<1>10. RowOK'
  BY <1>1, <1>4, <1>8, <1>9 DEF IInv, RowOK, Used
<1>11. used.faults = 0 => Among(r, Owner[p])
  BY <1>1, <1>4 DEF IInv, StreamsOK, Among
<1>12. used'.faults = 0 => \A m \in Movies : Among(row'[m], m)
  BY <1>1, <1>8, <1>11 DEF IInv, StreamsOK
<1>13. \A m \in Movies : row[m].path # None => row'[m].path # None
  BY <1>8, <1>9
<1>. QED
  BY <1>1, <1>2, <1>5, <1>6, <1>8, <1>10, <1>12, <1>13, ScanKeeps

-----------------------------------------------------------------------------
(* The steps of the cleanup that touch no file                             *)
LEMMA FilesFinite ==
  ASSUME Typed
  PROVE  /\ \A m : IsFiniteSet(FilesOf(m)) /\ Cardinality(FilesOf(m)) \in Nat
         /\ IsFiniteSet(clean.todo) /\ Cardinality(clean.todo) \in Nat
<1>1. \A m : FilesOf(m) \subseteq Paths
  BY DEF FilesOf, Held
<1>2. clean.todo \subseteq Paths
  BY DEF Typed, CleanTyped
<1>. QED
  BY <1>1, <1>2, PathsAreFinite, FS_Subset, FS_CardinalityType

LEMMA CleanKeeps ==
  ASSUME IInv, UNCHANGED Others, used' \in Used, used'.scans = used.scans,
         used'.faults = 0 => used.faults = 0, CleanTyped', CleanOK', BinOK', NoDoubtfulEstimate'
  PROVE  IInv'
<1>1. Typed'
  BY DEF IInv, Typed, Others
<1>2. FilesOK' /\ PlexOK' /\ RowOK' /\ SwapOK' /\ OneScan'
  BY DEF IInv, FilesOK, PlexOK, RowOK, SwapOK, OneScan, Others
<1>3. ScanOK' /\ StreamsOK'
  BY DEF IInv, ScanOK, StreamsOK, Among, Others
<1>. QED
  BY <1>1, <1>2, <1>3 DEF IInv

LEMMA CleanSteps ==
  ASSUME IInv,
         \/ StartCleanup \/ StartPreview \/ CollectParts \/ PreviewMovie \/ EndPreview \/ EndCleanup
         \/ \E p \in Paths : ChooseName(p)
  PROVE  IInv'
<1>. Typed /\ used \in Used
  BY DEF IInv, Typed
<1>0. ASSUME UNCHANGED bin, clean'.part = None
      PROVE  BinOK'
  BY <1>0 DEF IInv, BinOK
<1>1. ASSUME NEW at \in {"next", "preview"}, StartWalk(at)
      PROVE  IInv'
  <2>1. CleanOK'
    BY <1>1, StartWalkEffect DEF CleanOK
  <2>2. BinOK'
    BY <1>0, <1>1, StartWalkEffect DEF Others
  <2>. QED
    BY <1>1, <2>1, <2>2, StartWalkEffect, CleanKeeps
<1>2. ASSUME EndPreview \/ EndCleanup
      PROVE  IInv'
  <2>1. CleanOK'
    BY <1>2, EndEffect DEF CleanOK
  <2>2. BinOK'
    BY <1>0, <1>2, EndEffect DEF Others
  <2>. QED
    BY <1>2, <2>1, <2>2, EndEffect, CleanKeeps
<1>3. ASSUME PreviewMovie
      PROVE  IInv'
  <2>1. /\ CleanTyped' /\ UNCHANGED <<Others, used>> /\ NoDoubtfulEstimate'
        /\ clean'.todo = clean.todo /\ clean'.at = clean.at
        /\ clean'.part = clean.part
    BY <1>3, PreviewEffect DEF IInv
  <2>2. clean'.todo = {}
    BY <1>3, <2>1 DEF IInv, CleanOK, PreviewMovie
  <2>3. CleanOK'
    BY <2>2 DEF CleanOK
  <2>4. BinOK'
    BY <1>0, <2>1, <2>2 DEF Others, IInv, BinOK
  <2>. QED
    BY <2>1, <2>3, <2>4, CleanKeeps
<1>4. ASSUME CollectParts
      PROVE  IInv'
  <2>1. PICK m \in Movies : \E parts \in SUBSET (FilesOf(m) \cap DOMAIN clean.list) :
           /\ CleanTyped' /\ clean'.movie = m /\ clean.at = "next" /\ clean'.at = "next"
           /\ clean'.list = clean.list /\ clean'.disturbed = "no"
           /\ clean'.estimates = clean.estimates
           /\ clean.todo = {} /\ clean'.part = clean.part
           /\ clean'.todo # {} =>
                \E best \in parts :
                  /\ clean'.todo = parts \ {best}
                  /\ \A p \in parts : ~Better(clean.list[p], clean.list[best])
           /\ UNCHANGED <<Others, used>>
    BY <1>4, CollectEffect
  <2>2. PICK parts \in SUBSET (FilesOf(m) \cap DOMAIN clean.list) :
           /\ CleanTyped' /\ clean'.movie = m /\ clean.at = "next" /\ clean'.at = "next"
           /\ clean'.list = clean.list /\ clean'.disturbed = "no"
           /\ clean'.estimates = clean.estimates
           /\ clean.todo = {} /\ clean'.part = clean.part
           /\ clean'.todo # {} =>
                \E best \in parts :
                  /\ clean'.todo = parts \ {best}
                  /\ \A p \in parts : ~Better(clean.list[p], clean.list[best])
           /\ UNCHANGED <<Others, used>>
    BY <2>1
  <2>3. FilesOf(m)' = FilesOf(m) /\ files' = files /\ swap' = swap
    BY <2>2 DEF FilesOf, Held, Others
  <2>4. NoDoubtfulEstimate'
    BY <2>2 DEF IInv, NoDoubtfulEstimate
  <2>5. ASSUME clean'.todo # {}
        PROVE  /\ \A p \in clean'.todo : Owner[p] = m /\ p \in DOMAIN clean'.list
               /\ Remaining' > Cardinality(clean'.todo)
               /\ BestStays'
    <3>1. PICK best \in parts :
            /\ clean'.todo = parts \ {best}
            /\ \A p \in parts : ~Better(clean.list[p], clean.list[best])
      BY <2>2, <2>5
    <3>2. /\ IsFiniteSet(FilesOf(m)) /\ IsFiniteSet(parts)
          /\ Cardinality(FilesOf(m)) \in Nat /\ Cardinality(parts) \in Nat
          /\ Cardinality(parts) <= Cardinality(FilesOf(m))
      BY FilesFinite, FS_Subset, FS_CardinalityType
    <3>3. Cardinality(clean'.todo) = Cardinality(parts) - 1
      BY <3>1, <3>2, FS_RemoveElement
    <3>4. Remaining' = Cardinality(FilesOf(m)) + (IF swap[m].at = "away" THEN 1 ELSE 0)
      BY <2>2, <2>3 DEF Remaining
    <3>5. Remaining' > Cardinality(clean'.todo)
      BY <3>2, <3>3, <3>4
    <3>6. \A p \in parts : Owner[p] = m /\ p \in DOMAIN clean.list /\ files[p] # NoFilm
      BY DEF FilesOf, Held
    <3>7. BestStays'
      BY <2>2, <2>3, <3>1, <3>6 DEF BestStays
    <3>. QED
      BY <2>2, <3>1, <3>5, <3>6, <3>7
  <2>6. CleanOK'
    BY <2>2, <2>5 DEF CleanOK
  <2>7. BinOK'
    BY <1>0, <2>2 DEF Others, IInv, BinOK
  <2>. QED
    BY <2>2, <2>4, <2>6, <2>7, CleanKeeps
<1>5. ASSUME NEW p \in Paths, ChooseName(p)
      PROVE  IInv'
  <2>1. /\ CleanTyped' /\ p \in clean.todo /\ clean'.part = p /\ clean'.name = BinName(clean.movie)
        /\ clean'.todo = clean.todo /\ clean'.at = clean.at /\ clean'.movie = clean.movie
        /\ clean'.list = clean.list /\ clean'.disturbed = clean.disturbed
        /\ clean'.estimates = clean.estimates
        /\ UNCHANGED <<Others, used>>
    BY <1>5, ChooseEffect
  <2>2. NoDoubtfulEstimate'
    BY <2>1 DEF IInv, NoDoubtfulEstimate
  <2>3. CleanOK'
    BY <2>1 DEF IInv, CleanOK, Remaining, BestStays, FilesOf, Held, Others
  <2>4. clean.movie # None
    BY <2>1, NameTypes DEF IInv, CleanOK
  <2>5. BinOK'
    BY <2>1, <2>4 DEF IInv, BinOK, BinName, Others
  <2>. QED
    BY <2>1, <2>2, <2>3, <2>5, CleanKeeps
<1>. QED
  BY <1>1, <1>2, <1>3, <1>4, <1>5 DEF StartCleanup, StartPreview

-----------------------------------------------------------------------------
(* The steps that change a file                                            *)

(* The files of a movie, when one is gone or has come.                     *)
LEMMA FileGone ==
  ASSUME Typed, NEW p \in Paths, files[p] # NoFilm, files' = [files EXCEPT ![p] = NoFilm]
  PROVE  /\ \A q \in Paths : files'[q] = IF q = p THEN NoFilm ELSE files[q]
         /\ \A m : m # Owner[p] => FilesOf(m)' = FilesOf(m)
         /\ Cardinality(FilesOf(Owner[p])') = Cardinality(FilesOf(Owner[p])) - 1
         /\ Cardinality(FilesOf(Owner[p])) \in Nat
<1>1. \A q \in Paths : files'[q] = IF q = p THEN NoFilm ELSE files[q]
  BY DEF Typed
<1>2. \A m : m # Owner[p] => FilesOf(m)' = FilesOf(m)
  BY <1>1 DEF FilesOf, Held
<1>3. FilesOf(Owner[p])' = FilesOf(Owner[p]) \ {p} /\ p \in FilesOf(Owner[p])
  BY <1>1 DEF FilesOf, Held
<1>. QED
  BY <1>1, <1>2, <1>3, FilesFinite, FS_RemoveElement

LEMMA FileCame ==
  ASSUME Typed, NEW p \in Paths, files[p] = NoFilm, NEW f \in Films, files' = [files EXCEPT ![p] = f]
  PROVE  /\ \A q \in Paths : files'[q] = IF q = p THEN f ELSE files[q]
         /\ \A m : m # Owner[p] => FilesOf(m)' = FilesOf(m)
         /\ Cardinality(FilesOf(Owner[p])') = Cardinality(FilesOf(Owner[p])) + 1
         /\ Cardinality(FilesOf(Owner[p])) \in Nat
<1>1. \A q \in Paths : files'[q] = IF q = p THEN f ELSE files[q]
  BY DEF Typed
<1>2. \A m : m # Owner[p] => FilesOf(m)' = FilesOf(m)
  BY <1>1 DEF FilesOf, Held
<1>3. FilesOf(Owner[p])' = FilesOf(Owner[p]) \cup {p} /\ p \notin FilesOf(Owner[p])
  BY <1>1, FilmTypes DEF FilesOf, Held
<1>. QED
  BY <1>1, <1>2, <1>3, FilesFinite, FS_AddElement

(* What such a step owes the rest: the listings of the movie are not true  *)
(* any more.                                                               *)
LEMMA FilesKeep ==
  ASSUME IInv, NEW m, scan' = Outdated(m), files' \in [Paths -> Films \cup {NoFilm}],
         \A p \in Paths : Owner[p] # m => files'[p] = files[p],
         UNCHANGED <<plex, row>>, used' \in Used, used'.scans = used.scans,
         used'.faults = 0 => used.faults = 0,
         bin' \in [BinNames -> Films \cup {NoFilm}], swap' \in [Movies -> Swap], CleanTyped',
         FilesOK', BinOK', SwapOK', CleanOK', NoDoubtfulEstimate'
  PROVE  IInv'
<1>1. /\ scan' \in [Scanners -> Scan]
      /\ \A s \in Scanners :
           /\ scan'[s].at = scan[s].at /\ scan'[s].list = scan[s].list
           /\ scan'[s].serial = scan[s].serial /\ scan'[s].part = scan[s].part
           /\ scan'[s].seen = scan[s].seen /\ scan'[s].true = scan[s].true \ {m}
  BY OutdatedEffect DEF IInv
<1>2. Typed'
  BY <1>1 DEF IInv, Typed
<1>3. PlexOK' /\ RowOK' /\ OneScan'
  BY <1>1 DEF IInv, PlexOK, RowOK, OneScan
<1>4. StreamsOK'
  BY <1>1 DEF IInv, StreamsOK, Among
<1>5. \A s \in Scanners : DOMAIN scan[s].list \subseteq Paths
  BY ListTypes DEF IInv, Typed, Scan
<1>6. ScanOK'
  BY <1>1, <1>5 DEF IInv, ScanOK
<1>. QED
  BY <1>2, <1>3, <1>4, <1>6 DEF IInv

LEMMA VanishStep ==
  ASSUME IInv, NEW p \in Paths, FileVanishes(p)
  PROVE  IInv'
<1>. Typed
  BY DEF IInv
<1>1. PICK d \in {"no", "renewed", "lost"} :
        Disturb(d) /\ d = IF clean.movie = Owner[p] THEN "lost" ELSE clean.disturbed
  BY VanishEffect
<1>2. /\ files[p] # NoFilm /\ files' = [files EXCEPT ![p] = NoFilm] /\ scan' = Outdated(Owner[p])
      /\ used' \in Used /\ used'.scans = used.scans /\ used'.faults > 0
      /\ UNCHANGED <<bin, plex, row, swap>>
  BY VanishEffect
<1>3. /\ CleanTyped' /\ clean'.disturbed = d
      /\ clean'.todo = clean.todo /\ clean'.at = clean.at /\ clean'.movie = clean.movie
      /\ clean'.list = clean.list /\ clean'.estimates = clean.estimates
      /\ clean'.part = clean.part /\ clean'.name = clean.name
  BY <1>1, DisturbEffect
<1>4. /\ \A q \in Paths : files'[q] = IF q = p THEN NoFilm ELSE files[q]
      /\ \A m : m # Owner[p] => FilesOf(m)' = FilesOf(m)
  BY <1>2, FileGone
<1>5. FilesOK' /\ BinOK' /\ SwapOK' /\ NoDoubtfulEstimate'
  BY <1>2, <1>3, <1>4 DEF IInv, FilesOK, BinOK, SwapOK, NoDoubtfulEstimate
<1>6. CASE clean.movie = Owner[p]
  <2>1. CleanOK'
    BY <1>1, <1>3, <1>6 DEF IInv, CleanOK
  <2>2. files' \in [Paths -> Films \cup {NoFilm}]
    BY <1>2 DEF Typed
  <2>. QED
    BY <1>2, <1>3, <1>4, <1>5, <2>1, <2>2, FilesKeep DEF Typed
<1>7. CASE clean.movie # Owner[p]
  <2>1. FilesOf(clean.movie)' = FilesOf(clean.movie)
    BY <1>3, <1>4, <1>7 DEF FilesOf
  <2>2. Remaining' = Remaining
    BY <1>2, <1>3, <2>1 DEF Remaining
  <2>3. clean.list \in Lists
    BY DEF Typed, CleanTyped
  <2>4. DOMAIN clean.list \subseteq Paths
    BY <2>3, ListTypes
  <2>5. BestStays => BestStays'
    BY <1>2, <1>3, <1>4, <1>7, <2>4 DEF BestStays
  <2>6. CleanOK'
    BY <1>1, <1>3, <1>7, <2>2, <2>5 DEF IInv, CleanOK
  <2>7. files' \in [Paths -> Films \cup {NoFilm}]
    BY <1>2 DEF Typed
  <2>. QED
    BY <1>2, <1>3, <1>4, <1>5, <2>6, <2>7, FilesKeep DEF Typed
<1>. QED
  BY <1>6, <1>7

LEMMA ListedAreHere ==
  ASSUME Typed
  PROVE  DOMAIN clean.list \subseteq Paths
<1>1. clean.list \in Lists
  BY DEF Typed, CleanTyped
<1>. QED
  BY <1>1, ListTypes

LEMMA PutAwayStep ==
  ASSUME IInv, NEW m \in Movies, NEW kept \in {"bin", "beside"}, PutAway(m, kept)
  PROVE  IInv'
<1>. Typed
  BY DEF IInv
<1>1. PICK q \in Paths, x \in Swap :
           /\ q = row[m].path /\ files[q] # NoFilm /\ files' = [files EXCEPT ![q] = NoFilm]
           /\ swap' = [swap EXCEPT ![m] = x] /\ swap[m].at = "idle"
           /\ x.at = "away" /\ x.loaded = q /\ x.old = files[q]
           /\ scan' = Outdated(m)
           /\ used' \in Used /\ used'.scans = used.scans /\ used'.faults = used.faults
           /\ bin' = bin \/ bin' = [bin EXCEPT ![RecycledName(m)] = files[q]]
           /\ UNCHANGED <<plex, row, clean>>
  BY PutAwayEffect
<1>2. q # None /\ Owner[q] = m /\ files[q] \in Films /\ files[q].movie = m
  BY <1>1, NoneIsNothing DEF IInv, RowOK, FilesOK, Typed
<1>3. /\ swap' \in [Movies -> Swap] /\ swap'[m] = x
      /\ \A n \in Movies \ {m} : swap'[n] = swap[n]
  BY <1>1 DEF Typed
<1>4. /\ \A p \in Paths : files'[p] = IF p = q THEN NoFilm ELSE files[p]
      /\ \A n : n # m => FilesOf(n)' = FilesOf(n)
      /\ Cardinality(FilesOf(m)') = Cardinality(FilesOf(m)) - 1
      /\ Cardinality(FilesOf(m)) \in Nat
  BY <1>1, <1>2, FileGone
<1>0. bin' \in [BinNames -> Films \cup {NoFilm}] /\ BinOK'
  <2>1. bin \in [BinNames -> Films \cup {NoFilm}] /\ RecycledName(m) \in BinNames
    BY NameTypes DEF Typed, RecycledName
  <2>2. CASE bin' = bin
    BY <1>1, <2>1, <2>2 DEF IInv, BinOK
  <2>3. CASE bin' = [bin EXCEPT ![RecycledName(m)] = files[q]]
    <3>1. bin' \in [BinNames -> Films \cup {NoFilm}]
      BY <1>2, <2>1, <2>3
    <3>2. \A n \in BinNames : bin'[n] = IF n = Folder[m] THEN files[q] ELSE bin[n]
      BY <2>1, <2>3 DEF RecycledName
    <3>3. \A n \in Movies : bin'[n] = bin[n]
      BY <3>2, NameTypes
    <3>4. None \notin Shared => bin'[None] = bin[None]
      BY <3>2, NameTypes
    <3>5. ASSUME NEW n \in Movies, Folder[n] \in Folders \ Shared, bin'[Folder[n]] # NoFilm
          PROVE  bin'[Folder[n]].movie = n
      <4>1. CASE Folder[n] = Folder[m]
        BY <1>2, <3>2, <3>5, <4>1, NameTypes
      <4>2. CASE Folder[n] # Folder[m]
        BY <3>2, <3>5, <4>2, NameTypes DEF IInv, BinOK
      <4>. QED
        BY <4>1, <4>2
    <3>6. clean' = clean
      BY <1>1
    <3>. QED
      BY <3>1, <3>3, <3>4, <3>5, <3>6 DEF IInv, BinOK
  <2>. QED
    BY <1>1, <2>2, <2>3
<1>5. FilesOK' /\ NoDoubtfulEstimate' /\ CleanTyped'
  BY <1>1, <1>4 DEF IInv, FilesOK, NoDoubtfulEstimate, CleanTyped, Typed
<1>6. SwapOK'
  BY <1>1, <1>2, <1>3 DEF IInv, SwapOK
<1>7. ASSUME clean.todo # {}
      PROVE  Remaining' = Remaining /\ (BestStays => BestStays')
  <2>0. clean.movie \in Movies
    BY <1>7 DEF IInv, CleanOK
  <2>1. CASE clean.movie = m
    <3>1. Remaining' = Remaining
      BY <1>1, <1>3, <1>4, <2>1 DEF Remaining
    <3>2. BestStays => BestStays'
      BY <1>1, <1>3, <1>4, <2>1, ListedAreHere DEF BestStays
    <3>. QED
      BY <3>1, <3>2
  <2>2. CASE clean.movie # m
    <3>1. Remaining' = Remaining
      <4>1. FilesOf(clean.movie)' = FilesOf(clean.movie)
        BY <1>1, <1>4, <2>2 DEF FilesOf
      <4>. QED
        BY <1>1, <1>3, <2>0, <2>2, <4>1 DEF Remaining
    <3>2. BestStays => BestStays'
      BY <1>1, <1>2, <1>3, <1>4, <2>0, <2>2, ListedAreHere DEF BestStays
    <3>. QED
      BY <3>1, <3>2
  <2>. QED
    BY <2>1, <2>2
<1>8. CleanOK'
  BY <1>1, <1>7 DEF IInv, CleanOK
<1>9. files' \in [Paths -> Films \cup {NoFilm}]
  BY <1>1 DEF Typed
<1>10. \A p \in Paths : Owner[p] # m => files'[p] = files[p]
  BY <1>2, <1>4
<1>. QED
  BY <1>0, <1>1, <1>3, <1>5, <1>6, <1>8, <1>9, <1>10, FilesKeep DEF Typed

LEMMA PlaceStep ==
  ASSUME IInv, NEW m \in Movies, NEW p \in Paths, NEW f \in Films, Place(m, p, f)
  PROVE  IInv'
<1>. Typed
  BY DEF IInv
<1>1. PICK x \in Swap :
           /\ swap[m].at = "away" /\ Owner[p] = m /\ files[p] = NoFilm /\ f.movie = m
           /\ swap' = [swap EXCEPT ![m] = x] /\ x.at = "placed" /\ x.path = p /\ x.film = f
           /\ x.loaded = swap[m].loaded /\ x.old = swap[m].old
           /\ files' = [files EXCEPT ![p] = f] /\ scan' = Outdated(m)
           /\ \E d \in {"no", "renewed", "lost"} :
                /\ Disturb(d)
                /\ d = IF clean.movie = m /\ clean.disturbed = "no" THEN "renewed" ELSE clean.disturbed
           /\ UNCHANGED <<bin, plex, row, used>>
  BY PlaceEffect
<1>2. PICK d \in {"no", "renewed", "lost"} :
        /\ Disturb(d)
        /\ d = IF clean.movie = m /\ clean.disturbed = "no" THEN "renewed" ELSE clean.disturbed
  BY <1>1
<1>3. /\ swap' \in [Movies -> Swap] /\ swap'[m] = x
      /\ \A n \in Movies \ {m} : swap'[n] = swap[n]
  BY <1>1 DEF Typed
<1>4. /\ \A q \in Paths : files'[q] = IF q = p THEN f ELSE files[q]
      /\ \A n : n # m => FilesOf(n)' = FilesOf(n)
      /\ Cardinality(FilesOf(m)') = Cardinality(FilesOf(m)) + 1
      /\ Cardinality(FilesOf(m)) \in Nat
  BY <1>1, FileCame
<1>5. /\ CleanTyped' /\ clean'.disturbed = d
      /\ clean'.todo = clean.todo /\ clean'.at = clean.at /\ clean'.movie = clean.movie
      /\ clean'.list = clean.list /\ clean'.estimates = clean.estimates
      /\ clean'.part = clean.part /\ clean'.name = clean.name
  BY <1>2, DisturbEffect
<1>6. FilesOK' /\ BinOK' /\ NoDoubtfulEstimate'
  BY <1>1, <1>4, <1>5 DEF IInv, FilesOK, BinOK, NoDoubtfulEstimate
<1>7. SwapOK'
  BY <1>1, <1>3 DEF IInv, SwapOK
<1>8. CleanOK'
  <2>0. clean.todo # {} => clean.movie \in Movies
    BY DEF IInv, CleanOK
  <2>1. CASE clean.movie = m
    <3>1. Remaining' = Remaining
      BY <1>1, <1>3, <1>4, <1>5, <2>1 DEF Remaining
    <3>2. d # "no" /\ (d # "lost" => clean.disturbed # "lost")
      BY <1>2, <2>1
    <3>. QED
      BY <1>5, <3>1, <3>2 DEF IInv, CleanOK
  <2>2. CASE clean.movie # m
    <3>1. clean.todo # {} => Remaining' = Remaining
      <4>1. FilesOf(clean.movie)' = FilesOf(clean.movie)
        BY <1>4, <1>5, <2>2 DEF FilesOf
      <4>. QED
        BY <1>3, <1>5, <2>0, <2>2, <4>1 DEF Remaining
    <3>2. clean.todo # {} /\ BestStays => BestStays'
      BY <1>1, <1>3, <1>4, <1>5, <2>0, <2>2, ListedAreHere DEF BestStays
    <3>. QED
      BY <1>2, <1>5, <2>2, <3>1, <3>2 DEF IInv, CleanOK
  <2>. QED
    BY <2>1, <2>2
<1>9. files' \in [Paths -> Films \cup {NoFilm}] /\ used \in Used
  BY <1>1 DEF Typed
<1>10. \A q \in Paths : Owner[q] # m => files'[q] = files[q]
  BY <1>1, <1>4
<1>. QED
  BY <1>1, <1>3, <1>5, <1>6, <1>7, <1>8, <1>9, <1>10, FilesKeep DEF Typed

LEMMA PutBackStep ==
  ASSUME IInv, NEW m \in Movies, PutBack(m)
  PROVE  IInv'
<1>. Typed
  BY DEF IInv
<1>1. PICK q, f : q = swap[m].loaded /\ f = swap[m].old
  OBVIOUS
<1>2. /\ swap[m].at = "away" /\ files[q] = NoFilm /\ files' = [files EXCEPT ![q] = f]
      /\ swap' = [swap EXCEPT ![m] = NoSwap] /\ scan' = Outdated(m)
      /\ UNCHANGED <<bin, plex, row, clean, used>>
  BY <1>1 DEF PutBack
<1>3. q \in Paths /\ Owner[q] = m /\ f \in Films /\ f.movie = m /\ f # NoFilm
  BY <1>1, <1>2, FilmTypes DEF IInv, SwapOK
<1>4. /\ swap' \in [Movies -> Swap] /\ swap'[m] = NoSwap
      /\ \A n \in Movies \ {m} : swap'[n] = swap[n]
  BY <1>2, Empty DEF Typed
<1>5. /\ \A p \in Paths : files'[p] = IF p = q THEN f ELSE files[p]
      /\ \A n : n # m => FilesOf(n)' = FilesOf(n)
      /\ Cardinality(FilesOf(m)') = Cardinality(FilesOf(m)) + 1
      /\ Cardinality(FilesOf(m)) \in Nat
  BY <1>2, <1>3, FileCame
<1>6. FilesOK' /\ BinOK' /\ NoDoubtfulEstimate' /\ CleanTyped'
  BY <1>2, <1>3, <1>5 DEF IInv, FilesOK, BinOK, NoDoubtfulEstimate, CleanTyped, Typed
<1>7. SwapOK'
  BY <1>2, <1>4, Empty DEF IInv, SwapOK
<1>8. ASSUME clean.todo # {}
      PROVE  Remaining' = Remaining /\ (BestStays => BestStays')
  <2>0. clean.movie \in Movies
    BY <1>8 DEF IInv, CleanOK
  <2>1. CASE clean.movie = m
    <3>1. Remaining' = Remaining
      BY <1>2, <1>4, <1>5, <2>1, Empty DEF Remaining
    <3>2. BestStays => BestStays'
      BY <1>1, <1>2, <1>3, <1>4, <1>5, <2>1, ListedAreHere DEF BestStays
    <3>. QED
      BY <3>1, <3>2
  <2>2. CASE clean.movie # m
    <3>1. Remaining' = Remaining
      <4>1. FilesOf(clean.movie)' = FilesOf(clean.movie)
        BY <1>2, <1>5, <2>2 DEF FilesOf
      <4>. QED
        BY <1>2, <1>4, <2>0, <2>2, <4>1 DEF Remaining
    <3>2. BestStays => BestStays'
      BY <1>2, <1>3, <1>4, <1>5, <2>0, <2>2, ListedAreHere DEF BestStays
    <3>. QED
      BY <3>1, <3>2
  <2>. QED
    BY <2>1, <2>2
<1>9. CleanOK'
  BY <1>2, <1>8 DEF IInv, CleanOK
<1>10. files' \in [Paths -> Films \cup {NoFilm}] /\ used \in Used
  BY <1>2, <1>3 DEF Typed
<1>11. \A p \in Paths : Owner[p] # m => files'[p] = files[p]
  BY <1>3, <1>5
<1>. QED
  BY <1>2, <1>4, <1>6, <1>7, <1>9, <1>10, <1>11, FilesKeep DEF Typed

LEMMA GiveUpStep ==
  ASSUME IInv, NEW m \in Movies, GiveUp(m)
  PROVE  IInv'
<1>. Typed
  BY DEF IInv
<1>1. PICK d : d = IF clean.movie = m THEN "lost" ELSE clean.disturbed
  OBVIOUS
<1>2. /\ d \in {"no", "renewed", "lost"} /\ Disturb(d)
      /\ swap' = [swap EXCEPT ![m] = NoSwap] /\ UNCHANGED <<files, bin, plex, row, scan, used>>
  BY <1>1 DEF GiveUp, Disturb, Typed, CleanTyped
<1>3. /\ CleanTyped' /\ clean'.disturbed = d
      /\ clean'.todo = clean.todo /\ clean'.at = clean.at /\ clean'.movie = clean.movie
      /\ clean'.list = clean.list /\ clean'.estimates = clean.estimates
      /\ clean'.part = clean.part /\ clean'.name = clean.name
  BY <1>2, DisturbEffect
<1>4. /\ swap' \in [Movies -> Swap] /\ swap'[m] = NoSwap
      /\ \A n \in Movies \ {m} : swap'[n] = swap[n]
  BY <1>2, Empty DEF Typed
<1>5. Typed'
  BY <1>2, <1>3, <1>4 DEF Typed
<1>6. /\ FilesOK' /\ PlexOK' /\ RowOK' /\ BinOK' /\ ScanOK' /\ OneScan' /\ NoDoubtfulEstimate'
      /\ StreamsOK'
  BY <1>2, <1>3 DEF IInv, FilesOK, PlexOK, RowOK, BinOK, ScanOK, OneScan, NoDoubtfulEstimate,
                    StreamsOK, Among
<1>7. SwapOK'
  BY <1>2, <1>4, Empty DEF IInv, SwapOK
<1>8. CleanOK'
  <2>0. clean.todo # {} => clean.movie \in Movies
    BY DEF IInv, CleanOK
  <2>1. CASE clean.movie = m
    BY <1>1, <1>3, <2>1 DEF IInv, CleanOK
  <2>2. CASE clean.movie # m
    <3>1. clean.todo # {} => Remaining' = Remaining /\ (BestStays => BestStays')
      BY <1>2, <1>3, <1>4, <2>0, <2>2 DEF Remaining, BestStays, FilesOf, Held
    <3>. QED
      BY <1>1, <1>3, <2>2, <3>1 DEF IInv, CleanOK
  <2>. QED
    BY <2>1, <2>2
<1>. QED
  BY <1>5, <1>6, <1>7, <1>8 DEF IInv

LEMMA RemoveStep ==
  ASSUME IInv, NEW p \in Paths, RemoveInferior(p)
  PROVE  IInv'
<1>. Typed
  BY DEF IInv
<1>1. /\ p \in clean.todo /\ CleanTyped' /\ clean'.todo = clean.todo \ {p}
      /\ p = clean.part /\ clean'.part = None
      /\ clean'.at = clean.at /\ clean'.movie = clean.movie /\ clean'.list = clean.list
      /\ clean'.disturbed = clean.disturbed /\ clean'.estimates = clean.estimates
      /\ used' \in Used /\ used'.scans = used.scans /\ (used' = used \/ used'.faults > 0)
      /\ UNCHANGED <<plex, row, swap>>
      /\ \/ /\ files[p] # NoFilm /\ files' = [files EXCEPT ![p] = NoFilm]
            /\ bin' = IF UseBin THEN [bin EXCEPT ![clean.name] = files[p]] ELSE bin
            /\ scan' = Outdated(clean.movie)
         \/ UNCHANGED <<files, bin, scan>>
  BY RemoveEffect
<1>2. clean.movie \in Movies /\ Owner[p] = clean.movie
  BY <1>1 DEF IInv, CleanOK
<1>0. clean.name \in {None, clean.movie}
  BY <1>1, NoneIsNothing DEF IInv, BinOK
<1>3. /\ Cardinality(clean'.todo) = Cardinality(clean.todo) - 1
      /\ Cardinality(clean.todo) \in Nat /\ Cardinality(clean'.todo) \in Nat
  BY <1>1, FilesFinite, FS_RemoveElement, FS_CardinalityType
<1>4. NoDoubtfulEstimate' /\ (used'.faults = 0 => used.faults = 0)
  BY <1>1 DEF IInv, NoDoubtfulEstimate
<1>5. CASE UNCHANGED <<files, bin, scan>>
  <2>1. Remaining' = Remaining /\ Remaining \in Nat
    BY <1>1, <1>5, FilesFinite DEF Remaining, FilesOf, Held
  <2>2. BestStays => BestStays'
    BY <1>1, <1>5 DEF BestStays
  <2>3. CleanOK'
    BY <1>1, <1>3, <2>1, <2>2 DEF IInv, CleanOK
  <2>4. BinOK'
    BY <1>1, <1>5 DEF IInv, BinOK
  <2>. QED
    BY <1>1, <1>4, <1>5, <2>3, <2>4, CleanKeeps DEF Others
<1>6. CASE /\ files[p] # NoFilm /\ files' = [files EXCEPT ![p] = NoFilm]
           /\ bin' = IF UseBin THEN [bin EXCEPT ![clean.name] = files[p]] ELSE bin
           /\ scan' = Outdated(clean.movie)
  <2>1. /\ \A q \in Paths : files'[q] = IF q = p THEN NoFilm ELSE files[q]
        /\ Cardinality(FilesOf(clean.movie)') = Cardinality(FilesOf(clean.movie)) - 1
        /\ Cardinality(FilesOf(clean.movie)) \in Nat
    <3>1. /\ Cardinality(FilesOf(Owner[p])') = Cardinality(FilesOf(Owner[p])) - 1
          /\ Cardinality(FilesOf(Owner[p])) \in Nat
          /\ \A q \in Paths : files'[q] = IF q = p THEN NoFilm ELSE files[q]
      BY <1>6, FileGone
    <3>2. FilesOf(clean.movie)' = FilesOf(Owner[p])'
      BY <1>1, <1>2 DEF FilesOf
    <3>. QED
      BY <1>2, <3>1, <3>2
  <2>2. Remaining' = Remaining - 1 /\ Remaining \in Nat
    <3>1. Remaining' = Cardinality(FilesOf(clean.movie)') + (IF swap[clean.movie].at = "away" THEN 1 ELSE 0)
      BY <1>1 DEF Remaining, FilesOf
    <3>. QED
      BY <2>1, <3>1 DEF Remaining
  <2>3. BestStays => BestStays'
    BY <1>1, <2>1, ListedAreHere DEF BestStays
  <2>4. CleanOK'
    BY <1>1, <1>3, <2>2, <2>3 DEF IInv, CleanOK
  <2>5. files[p] \in Films /\ files[p].movie = clean.movie
    BY <1>2, <1>6 DEF IInv, Typed, FilesOK
  <2>6. bin' \in [BinNames -> Films \cup {NoFilm}] /\ BinOK'
    <3>1. clean.name \in BinNames /\ clean.name \in {None, clean.movie}
      BY <1>0, <1>2, NameTypes
    <3>2. bin \in [BinNames -> Films \cup {NoFilm}] /\ Movies \subseteq BinNames /\ None \notin Movies
      BY NameTypes DEF Typed
    <3>3. CASE UseBin
      <4>1. bin' = [bin EXCEPT ![clean.name] = files[p]]
        BY <1>6, <3>3
      <4>2. bin' \in [BinNames -> Films \cup {NoFilm}]
        BY <2>5, <3>1, <3>2, <4>1
      <4>3. \A n \in BinNames : bin'[n] = IF n = clean.name THEN files[p] ELSE bin[n]
        BY <3>2, <4>1
      <4>4. \A m \in Movies : bin'[m] # NoFilm => bin'[m].movie = m
        BY <2>5, <3>1, <3>2, <4>3 DEF IInv, BinOK
      <4>5. \A n \in Folders : n \in BinNames /\ bin'[n] = bin[n]
        BY <1>2, <3>1, <4>3, NameTypes
      <4>. QED
        BY <1>1, <4>2, <4>4, <4>5 DEF IInv, BinOK
    <3>4. CASE ~UseBin
      BY <1>1, <1>6, <3>4 DEF IInv, BinOK, Typed
    <3>. QED
      BY <3>3, <3>4
  <2>7. FilesOK' /\ SwapOK'
    BY <1>1, <2>1 DEF IInv, FilesOK, SwapOK
  <2>8. files' \in [Paths -> Films \cup {NoFilm}] /\ swap' \in [Movies -> Swap]
    BY <1>1, <1>6 DEF Typed
  <2>9. \A q \in Paths : Owner[q] # clean.movie => files'[q] = files[q]
    BY <1>2, <2>1
  <2>. QED
    BY <1>1, <1>4, <1>6, <2>4, <2>6, <2>7, <2>8, <2>9, FilesKeep
<1>. QED
  BY <1>1, <1>5, <1>6

(* The row of a film that was placed.                                      *)
LEMMA CommitStep ==
  ASSUME IInv, NEW m \in Movies, CommitReplacement(m)
  PROVE  IInv'
<1>. Typed /\ used \in Used
  BY DEF IInv, Typed
<1>1. /\ swap[m].at = "placed" /\ swap[m].path \in Paths /\ Owner[swap[m].path] = m
      /\ swap[m].film \in Films /\ swap[m].film.movie = m /\ row[m].path # None
  BY DEF CommitReplacement, IInv, SwapOK
<1>2. PICK x \in Row :
           /\ row' = [row EXCEPT ![m] = x] /\ x.path \in {row[m].path, swap[m].path}
           /\ x.from = row[m].from /\ x.streams = Streams(swap[m].film)
           /\ x.size = swap[m].film.size /\ x.original = row[m].original
           /\ swap' = [swap EXCEPT ![m] = NoSwap] /\ swap[m].at = "placed"
           /\ UNCHANGED <<files, bin, plex, scan, clean, used>>
  BY <1>1, CommitEffect
<1>3. /\ row' \in [Movies -> Row] /\ row'[m] = x
      /\ \A n \in Movies \ {m} : row'[n] = row[n]
  BY <1>2 DEF Typed
<1>4. /\ swap' \in [Movies -> Swap] /\ swap'[m] = NoSwap
      /\ \A n \in Movies \ {m} : swap'[n] = swap[n]
  BY <1>2, Empty DEF Typed
<1>5. x.path # None /\ Owner[x.path] = m /\ x.size > 0 /\ x.original > 0 /\ Among(x, m)
  BY <1>1, <1>2, NoneIsNothing, FilmTypes DEF IInv, RowOK, Among
<1>6. Typed'
  BY <1>2, <1>3, <1>4 DEF Typed, CleanTyped
<1>7. FilesOK' /\ PlexOK' /\ BinOK' /\ ScanOK' /\ OneScan' /\ NoDoubtfulEstimate'
  BY <1>2 DEF IInv, FilesOK, PlexOK, BinOK, ScanOK, OneScan, NoDoubtfulEstimate
<1>8. RowOK'
  BY <1>2, <1>3, <1>5 DEF IInv, RowOK
<1>9. SwapOK'
  BY <1>3, <1>4, <1>5, Empty DEF IInv, SwapOK
<1>10. CleanOK'
  <2>1. clean.todo # {} => clean.movie \in Movies
    BY DEF IInv, CleanOK
  <2>2. clean.todo # {} => Remaining' = Remaining /\ (BestStays => BestStays')
    BY <1>1, <1>2, <1>4, <2>1, Empty DEF Remaining, BestStays, FilesOf, Held
  <2>. QED
    BY <1>2, <2>2 DEF IInv, CleanOK
<1>11. StreamsOK'
  BY <1>2, <1>3, <1>5 DEF IInv, StreamsOK, Among
<1>. QED
  BY <1>6, <1>7, <1>8, <1>9, <1>10, <1>11 DEF IInv

-----------------------------------------------------------------------------
(* Every step                                                              *)
LEMMA Unchanged ==
  ASSUME IInv, UNCHANGED vars
  PROVE  IInv'
<1>1. Typed' /\ CleanOK'
  BY DEF IInv, vars, Typed, CleanTyped, CleanOK, Remaining, BestStays, FilesOf, Held
<1>2. FilesOK' /\ PlexOK' /\ RowOK' /\ SwapOK' /\ BinOK' /\ ScanOK' /\ OneScan' /\ NoDoubtfulEstimate'
  BY DEF IInv, vars, FilesOK, PlexOK, RowOK, SwapOK, BinOK, ScanOK, OneScan, NoDoubtfulEstimate
<1>3. StreamsOK'
  BY DEF IInv, vars, StreamsOK, Among
<1>. QED
  BY <1>1, <1>2, <1>3 DEF IInv

LEMMA Preserved == IInv /\ [Next]_vars => IInv'
<1>. SUFFICES ASSUME IInv, [Next]_vars PROVE IInv'
  OBVIOUS
<1>1. CASE PlexRefreshes \/ \E p \in Paths : PlexAnalyses(p)
  BY <1>1, PlexSteps
<1>2. CASE \E p \in Paths : FileVanishes(p) \/ RemoveInferior(p)
  BY <1>2, VanishStep, RemoveStep
<1>3. CASE \E s \in Scanners :
             \/ StartScan(s) \/ PlexLists(s) \/ ReadExisting(s) \/ ReadFails(s)
             \/ WriteRow(s) \/ WriteFails(s) \/ EndScan(s)
  BY <1>3, ScanSteps, WriteStep
<1>4. CASE \E m \in Movies :
             \/ \E kept \in {"bin", "beside"} : PutAway(m, kept)
             \/ PutBack(m) \/ GiveUp(m) \/ CommitReplacement(m)
  BY <1>4, PutAwayStep, PutBackStep, GiveUpStep, CommitStep
<1>5. CASE \E m \in Movies : \E p \in Paths, f \in Films : Place(m, p, f)
  BY <1>5, PlaceStep
<1>6. CASE StartCleanup \/ StartPreview \/ CollectParts \/ PreviewMovie \/ EndPreview \/ EndCleanup
           \/ \E p \in Paths : ChooseName(p)
  BY <1>6, CleanSteps
<1>7. CASE UNCHANGED vars
  BY <1>7, Unchanged
<1>. QED
  BY <1>1, <1>2, <1>3, <1>4, <1>5, <1>6, <1>7 DEF Next

(* The inductive invariant holds in every reachable state.                 *)
THEOREM Invariant == Spec => []IInv
<1>. QED
  BY InitOK, Preserved, PTL DEF Spec

(* What the library is believed to be is of the types the columns have, of *)
(* the movie itself until a read of its row fails (the existing_* of       *)
(* _run_scan outlive their movie), and surely reclaimable where it is      *)
(* estimated (_part_score and _duplicate_confidence agree).                *)
THEOREM BeliefsAreSound == Spec => []BeliefsSound
<1>1. ASSUME IInv
      PROVE  BeliefsSound
  <2>1. TypeOK
    <3>1. /\ files \in [Paths -> Films \cup {NoFilm}] /\ bin \in [BinNames -> Films \cup {NoFilm}]
          /\ \A p \in Paths : plex[p].size \in Nat /\ plex[p].streams \in MovieStreams
      BY <1>1 DEF IInv, Typed, Part
    <3>2. \A m \in Movies :
            /\ row[m].path \in Paths \cup {None}
            /\ row[m].path # None => row[m].size > 0 /\ row[m].original > 0
            /\ row[m].streams \in MovieStreams
            /\ swap[m].at \in {"idle", "away", "placed"} /\ swap[m].kept \in {"bin", "beside"}
      BY <1>1 DEF IInv, Typed, Row, Swap, RowOK
    <3>3. \A s \in Scanners : scan[s].at \in {"idle", "listing", "next", "write"}
      BY <1>1 DEF IInv, Typed, Scan
    <3>4. clean.at \in {"idle", "next", "preview"} /\ clean.todo \subseteq DOMAIN clean.list
          /\ clean.name \in BinNames
      BY <1>1 DEF IInv, Typed, CleanTyped, CleanOK
    <3>. QED
      BY <3>1, <3>2, <3>3, <3>4 DEF TypeOK
  <2>2. OwnStreams
    BY <1>1 DEF IInv, StreamsOK, OwnStreams, Among
  <2>. QED
    BY <1>1, <2>1, <2>2 DEF IInv, BeliefsSound
<1>. QED
  BY <1>1, Invariant, PTL

(* A step that writes a row at the end of a scan's turn is WriteRow of it. *)
LEMMA OnlyWriteRowWrites ==
  ASSUME IInv, [Next]_vars, NEW s \in Scanners, NEW m \in Movies, Writes(s, m)
  PROVE  WriteRow(s) /\ Owner[scan[s].part] = m
<1>. Typed
  BY DEF IInv
<1>1. row' # row /\ scan' # scan
  BY DEF Writes
<1>2. PICK t \in Scanners : WriteRow(t)
  BY <1>1 DEF Next, vars, PlexRefreshes, PlexAnalyses, FileVanishes, ChooseName, RemoveInferior, StartScan,
              PlexLists, ReadExisting, ReadFails, WriteFails, EndScan, PutAway, PutBack, GiveUp, Place,
              CommitReplacement, StartCleanup, StartPreview, StartWalk, CollectParts, PreviewMovie,
              EndPreview, EndCleanup
<1>3. t = s
  <2>1. scan[t].at # "idle" /\ scan[s].at # "idle"
    BY <1>2 DEF WriteRow, Writes
  <2>. QED
    BY <2>1 DEF IInv, OneScan
<1>4. Owner[scan[s].part] = m
  <2>1. PICK x : row' = [row EXCEPT ![Owner[scan[s].part]] = x]
    BY <1>2, <1>3 DEF WriteRow, Scanned
  <2>. QED
    BY <2>1 DEF Writes, Typed
<1>. QED
  BY <1>2, <1>3, <1>4

(* A row that a scan writes tells the size of a file that is there, when   *)
(* the listing was true and the movie's files have not been touched since; *)
(* and no row is written from a listing that is older than the one it is   *)
(* from (_run_scan under _scan_lock).                                      *)
THEOREM ScansFollowTheDisk == Spec => ScanFollowsDisk
<1>1. ASSUME IInv, IInv', [Next]_vars, NEW s \in Scanners, NEW m \in Movies, Writes(s, m),
             m \in scan[s].true
      PROVE  files[row'[m].path].size = row'[m].size
  <2>1. WriteRow(s) /\ Owner[scan[s].part] = m /\ scan[s].part \in DOMAIN scan[s].list
    BY <1>1, OnlyWriteRowWrites DEF IInv, ScanOK, WriteRow
  <2>2. PICK p \in Paths : \E r \in Row :
           /\ p = scan[s].part /\ row' = [row EXCEPT ![Owner[p]] = r]
           /\ r.path = p /\ r.size = scan[s].list[p].size
    BY <1>1, <2>1, WriteEffect DEF IInv
  <2>3. row'[m].path = p /\ row'[m].size = scan[s].list[p].size
    BY <1>1, <2>1, <2>2 DEF IInv, Typed
  <2>. QED
    BY <1>1, <2>1, <2>2, <2>3 DEF IInv, ScanOK
<1>2. ASSUME IInv, [Next]_vars, NEW m \in Movies
      PROVE  row'[m].from >= row[m].from
  <2>1. row[m].from \in Nat /\ row[m].from <= used.scans
    BY <1>2 DEF IInv, Typed, Row, RowOK
  <2>2. CASE \E s \in Scanners : WriteRow(s)
    <3>1. PICK s \in Scanners : WriteRow(s)
      BY <2>2
    <3>2. scan[s].part \in DOMAIN scan[s].list /\ scan[s].serial = used.scans
      BY <1>2, <3>1 DEF IInv, ScanOK, WriteRow
    <3>3. PICK p \in Paths : \E r \in Row :
           /\ row' = [row EXCEPT ![Owner[p]] = r] /\ r.from = scan[s].serial
      BY <1>2, <3>1, <3>2, WriteEffect DEF IInv
    <3>. QED
      BY <1>2, <2>1, <3>2, <3>3 DEF IInv, Typed
  <2>3. CASE \E n \in Movies : CommitReplacement(n)
    <3>1. PICK n \in Movies : CommitReplacement(n)
      BY <2>3
    <3>2. swap[n].film \in Films
      BY <1>2, <3>1 DEF IInv, SwapOK, CommitReplacement
    <3>3. PICK x : row' = [row EXCEPT ![n] = x] /\ x.from = row[n].from
      BY <1>2, <3>1, <3>2, CommitEffect DEF IInv
    <3>. QED
      BY <1>2, <2>1, <3>3 DEF IInv, Typed
  <2>4. CASE row' = row
    BY <2>1, <2>4
  <2>. QED
    BY <1>2, <2>2, <2>3, <2>4
      DEF Next, vars, PlexRefreshes, PlexAnalyses, FileVanishes, ChooseName, RemoveInferior, StartScan,
          PlexLists, ReadExisting, ReadFails, WriteFails, EndScan, PutAway, PutBack, GiveUp, Place,
          StartCleanup, StartPreview, StartWalk, CollectParts, PreviewMovie, EndPreview, EndCleanup
<1>3. IInv /\ IInv' /\ [Next]_vars =>
        [/\ \A s \in Scanners, m \in Movies :
              Writes(s, m) /\ m \in scan[s].true => files[row'[m].path].size = row'[m].size
         /\ \A m \in Movies : row'[m].from >= row[m].from]_vars
  BY <1>1, <1>2
<1>. QED
  BY <1>3, Invariant, PTL DEF Spec, ScanFollowsDisk

(* Only the cleanup takes a part off its list, and only while it is there. *)
LEMMA OnlyRemoveRemoves ==
  ASSUME IInv, [Next]_vars, NEW p \in Paths, Removes(p)
  PROVE  \E q \in Paths : RemoveInferior(q)
<1>. Typed
  BY DEF IInv
<1>1. clean.todo # {} /\ clean'.todo # clean.todo /\ files' # files
  BY DEF Removes
<1>2. ASSUME NEW q \in Paths, FileVanishes(q)
      PROVE  clean'.todo = clean.todo
  BY <1>2, VanishEffect, DisturbEffect
<1>3. ASSUME NEW m \in Movies, NEW q \in Paths, NEW f \in Films, Place(m, q, f)
      PROVE  clean'.todo = clean.todo
  BY <1>3, PlaceEffect, DisturbEffect
<1>4. ASSUME NEW q \in Paths, ChooseName(q)
      PROVE  clean'.todo = clean.todo
  BY <1>4, ChooseEffect
<1>. QED
  BY <1>1, <1>2, <1>3, <1>4
    DEF Next, vars, PlexRefreshes, PlexAnalyses, StartScan, PlexLists, ReadExisting, ReadFails,
        WriteRow, WriteFails, EndScan, PutAway, PutBack, GiveUp, CommitReplacement, StartCleanup,
        StartPreview, StartWalk, CollectParts, PreviewMovie, EndPreview, EndCleanup

(* The cleanup leaves no movie without a file, unless after the parts were *)
(* collected somebody else deleted one or a replacement left one in the    *)
(* bin; and what it leaves is at least as good as what it removes while    *)
(* the listing was right about the movie's files and none was placed       *)
(* (scan_and_clean_duplicates).                                            *)
THEOREM BestCopyStays == Spec => BestCopyKept
<1>1. ASSUME IInv, [Next]_vars, NEW p \in Paths, Removes(p),
             clean.disturbed # "lost", swap[Owner[p]].at # "away"
      PROVE  \E q \in FilesOf(Owner[p]) \ {p} :
               (/\ \A r \in FilesOf(Owner[p]) : r \in DOMAIN clean.list /\ clean.list[r] = PartOf(files[r])
                /\ clean.disturbed = "no")
               => ~Better(PartOf(files[p]), PartOf(files[q]))
  <2>. Typed
    BY <1>1 DEF IInv
  <2>1. p \in clean.todo /\ files[p] # NoFilm
    BY <1>1 DEF Removes
  <2>2. Owner[p] = clean.movie /\ clean.movie \in Movies /\ Remaining > Cardinality(clean.todo)
    BY <1>1, <2>1 DEF IInv, CleanOK
  <2>3. p \in FilesOf(Owner[p])
    BY <2>1 DEF FilesOf, Held
  <2>4. PICK there : there = FilesOf(Owner[p])
    OBVIOUS
  <2>5. \E q \in there : q # p
    <3>1. Cardinality(there) > Cardinality(clean.todo)
      BY <1>1, <2>2, <2>4, FilesFinite DEF Remaining
    <3>2. Cardinality(clean.todo) # 0 /\ Cardinality(clean.todo) \in Nat
      BY <2>1, FilesFinite, FS_EmptySet
    <3>3. IsFiniteSet(there) /\ Cardinality(there) \in Nat
      BY <2>4, FilesFinite
    <3>4. Cardinality(there \ {p}) = Cardinality(there) - 1 /\ IsFiniteSet(there \ {p})
      BY <2>3, <2>4, <3>3, FS_RemoveElement
    <3>5. there \ {p} # {}
      BY <3>1, <3>2, <3>3, <3>4, FS_EmptySet
    <3>. QED
      BY <3>5
  <2>6. CASE clean.disturbed = "no" /\ \A r \in there : r \in DOMAIN clean.list /\ clean.list[r] = PartOf(files[r])
    <3>1. BestStays
      BY <1>1, <2>1, <2>6 DEF IInv, CleanOK
    <3>2. PICK best \in DOMAIN clean.list \ clean.todo :
            /\ Owner[best] = clean.movie /\ files[best] # NoFilm
            /\ ~Better(clean.list[p], clean.list[best])
      BY <1>1, <2>1, <2>2, <3>1 DEF BestStays
    <3>3. best \in there /\ best # p
      BY <2>1, <2>2, <2>4, <3>2, ListedAreHere DEF FilesOf, Held
    <3>. QED
      BY <2>3, <2>4, <2>6, <3>2, <3>3
  <2>. QED
    BY <2>4, <2>5, <2>6
<1>2. IInv /\ [Next]_vars =>
        [\A p \in Paths :
           LET there == FilesOf(Owner[p])
               listed == \A q \in there : q \in DOMAIN clean.list /\ clean.list[q] = PartOf(files[q])
           IN Removes(p) /\ clean.disturbed # "lost" /\ swap[Owner[p]].at # "away"
              => \E q \in there \ {p} :
                   listed /\ clean.disturbed = "no" => ~Better(PartOf(files[p]), PartOf(files[q]))]_vars
  BY <1>1
<1>. QED
  BY <1>2, Invariant, PTL DEF Spec, BestCopyKept

(* A copy in the bin is overwritten by none of another movie, unless the   *)
(* name is one two movies share: a cleanup's part goes under a name that   *)
(* was free, and stayed so while its move waited, or under its movie's;    *)
(* what a replacement puts there, under its folder's                       *)
(* (scan_and_clean_duplicates, replace_file).                              *)
THEOREM BinKeepsMovies == Spec => BinKeepsOtherMovies
<1>1. ASSUME IInv, [Next]_vars, NEW n \in BinNames \ Shared, bin[n] # NoFilm
      PROVE  bin'[n].movie = bin[n].movie
  <2>. Typed
    BY <1>1 DEF IInv
  <2>1. CASE bin' = bin
    BY <2>1
  <2>2. ASSUME NEW p \in Paths, RemoveInferior(p), bin' # bin
        PROVE  bin'[n].movie = bin[n].movie
    <3>1. /\ p \in clean.todo /\ p = clean.part /\ files[p] # NoFilm
          /\ bin' = [bin EXCEPT ![clean.name] = files[p]]
      BY <2>2, RemoveEffect
    <3>2. clean.movie \in Movies /\ files[p].movie = clean.movie
      BY <1>1, <3>1 DEF IInv, CleanOK, FilesOK
    <3>3. CASE n = clean.name
      <4>1. n = clean.movie
        BY <1>1, <3>1, <3>3, NoneIsNothing DEF IInv, BinOK
      <4>. QED
        BY <1>1, <3>1, <3>2, <3>3, <4>1 DEF IInv, BinOK, Typed
    <3>4. CASE n # clean.name
      BY <3>1, <3>4 DEF Typed
    <3>. QED
      BY <3>3, <3>4
  <2>3. ASSUME NEW m \in Movies, NEW kept \in {"bin", "beside"}, PutAway(m, kept), bin' # bin
        PROVE  bin'[n].movie = bin[n].movie
    <3>1. PICK q \in Paths : /\ q = row[m].path /\ files[q] # NoFilm
                             /\ bin' = [bin EXCEPT ![RecycledName(m)] = files[q]]
      BY <2>3, PutAwayEffect
    <3>2. Owner[q] = m /\ files[q].movie = m
      BY <1>1, <3>1, NoneIsNothing DEF IInv, RowOK, FilesOK
    <3>3. CASE n = RecycledName(m)
      <4>1. n = Folder[m] /\ n \in Folders \ Shared
        BY <1>1, <3>3, NameTypes DEF RecycledName
      <4>. QED
        BY <1>1, <3>1, <3>2, <3>3, <4>1 DEF IInv, BinOK, Typed
    <3>4. CASE n # RecycledName(m)
      BY <3>1, <3>4 DEF Typed
    <3>. QED
      BY <3>3, <3>4
  <2>. QED
    BY <1>1, <2>1, <2>2, <2>3
      DEF Next, vars, PlexRefreshes, PlexAnalyses, FileVanishes, ChooseName, StartScan, PlexLists,
          ReadExisting, ReadFails, WriteRow, WriteFails, EndScan, PutBack, GiveUp, Place,
          CommitReplacement, StartCleanup, StartPreview, StartWalk, CollectParts, PreviewMovie,
          EndPreview, EndCleanup
<1>2. IInv /\ [Next]_vars =>
        [\A n \in BinNames \ Shared : bin[n] # NoFilm => bin'[n].movie = bin[n].movie]_vars
  BY <1>1
<1>. QED
  BY <1>2, Invariant, PTL DEF Spec, BinKeepsOtherMovies
=============================================================================
