----------------------------- MODULE CycleProofs -----------------------------
(***************************************************************************)
(* Proofs about Cycle, for any movies, tasks, requests and indexers and    *)
(* any limits: one cycle is at work and keeps its limit, a movie that no   *)
(* request touches has one download, for the film that is installed, and   *)
(* the id that is handed on names the result that was chosen.              *)
(***************************************************************************)
EXTENDS Cycle, FiniteSetTheorems, WellFoundedInduction, TLAPS

-----------------------------------------------------------------------------
(* The inductive invariant                                                 *)
Searches == {"asking", "storing"}
Moving   == {"search", "asking", "storing", "chosen", "approved", "download"}

CycleRow == [at : {"idle", "scan", "loop"}, todo : SUBSET Movies, improved : Nat]
Proc     == [at : Places, movie : Movies \cup {None}, film : Nat, id : 0..MaxSearches,
             serial : 0..MaxSearches, got : Nat, best : {"accepted", "rejected", "empty"},
             verdict : {"found", "failed", "nothing"}, old : SUBSET Ids, search : BOOLEAN]
Film     == [status : MovieStatus, locked : BOOLEAN, film : Nat]

Use      == [searches : 0..MaxSearches, cycles : Nat, manual : Nat]

Typed ==
  /\ movie \in [Movies -> Film]
  /\ results \in [Ids -> Result \cup {NoResult}]
  /\ failed \in 0..FailLimit /\ paused \subseteq Indexers
  /\ running \in BOOLEAN /\ stop \in BOOLEAN /\ cooling \in BOOLEAN /\ inWindow \in BOOLEAN
  /\ erased \in BOOLEAN /\ byHand \subseteq Movies
  /\ cycle \in [Runners -> CycleRow]
  /\ proc \in [Actors -> Proc]
  /\ left \in [Movies -> Nat]
  /\ used \in Use

(* A task that is at a movie names it, and a result when it has chosen.    *)
PlacesOK ==
  \A a \in Actors :
    /\ proc[a].at \in Moving => proc[a].movie \in Movies
    /\ proc[a].at \in {"chosen", "approved"} => proc[a].id \in Ids
    /\ proc[a].at = "approved" => a \in Requests

(* One cycle is at work, and works only below its limit.                   *)
CyclesOK ==
  /\ \A c, d \in Runners : cycle[c].at # "idle" /\ cycle[d].at # "idle" => c = d
  /\ running <=> \E c \in Runners : cycle[c].at # "idle"
  /\ \A c \in Runners :
       /\ cycle[c].improved <= MaxDownloads
       /\ cycle[c].at # "loop" => cycle[c].todo = {}
       /\ proc[c].at # "idle" => cycle[c].at = "loop"
       /\ proc[c].at \in Moving => cycle[c].improved < MaxDownloads

(* The ids given out are no more than the searches that are not at work.   *)
Open == {proc[a].serial : a \in {b \in Actors : proc[b].at \in Searches}}

SerialsOK ==
  /\ \A a \in Actors : proc[a].at \in Searches => proc[a].serial \in 1..used.searches
  /\ \A a, b \in Actors :
       /\ proc[a].at \in Searches /\ proc[b].at \in Searches
       /\ proc[a].serial = proc[b].serial
       => a = b
  /\ HighestId + Cardinality(Open) <= used.searches

(* While no id was given out twice, an id names the result it was chosen   *)
(* for, or none any more.                                                  *)
IdsOK ==
  ~erased =>
    \A a \in Actors :
      /\ proc[a].at = "storing" => \A i \in proc[a].old : i <= HighestId
      /\ proc[a].at \in {"chosen", "approved"} =>
           /\ proc[a].id <= HighestId
           /\ \/ results[proc[a].id] = NoResult
              \/ /\ results[proc[a].id].movie = proc[a].movie
                 /\ results[proc[a].id].serial = proc[a].serial
      /\ proc[a].at = "download" => proc[a].got = proc[a].serial

(* A request that may download a movie has put its hand on it.             *)
HandsOK ==
  ~erased =>
    \A r \in Requests :
      /\ proc[r].at \in Moving /\ ~proc[r].search => proc[r].movie \in byHand
      /\ proc[r].search => proc[r].at \in {"search", "asking", "storing"}

(* The cycle and the downloads it left behind share no movie; and what the *)
(* cycle searches for, it searches for the film that is installed.         *)
Claimed(c) == cycle[c].todo \cup (IF proc[c].at \in Moving THEN {proc[c].movie} ELSE {})

MoviesOK ==
  ~erased =>
    \A m \in Movies \ byHand :
      /\ left[m] <= 1
      /\ left[m] = 1 => /\ movie[m].status = "downloading"
                        /\ \A c \in Runners : m \notin Claimed(c)
      /\ \A c \in Runners : proc[c].movie = m =>
           /\ proc[c].at \in Searches => proc[c].film = movie[m].film
           /\ proc[c].at = "chosen" =>
                results[proc[c].id] = NoResult \/ results[proc[c].id].film = movie[m].film
           /\ proc[c].at = "download" =>
                proc[c].film = movie[m].film /\ movie[m].status = "downloading"

IInv ==
  /\ Typed /\ PlacesOK /\ CyclesOK /\ SerialsOK
  /\ IdsOK /\ HandsOK /\ MoviesOK

-----------------------------------------------------------------------------
(* The highest id                                                          *)
Top(rs, n) ==
  /\ \A i \in Ids : rs[i] # NoResult => i <= n
  /\ n = 0 \/ rs[n] # NoResult

Last(rs) == CHOOSE n \in 0..MaxSearches :
              /\ \A i \in Ids : rs[i] # NoResult => i <= n
              /\ n = 0 \/ rs[n] # NoResult

LEMMA Numbers ==
  /\ MaxSearches \in Nat /\ MaxDownloads \in Nat \ {0} /\ FailLimit \in Nat \ {0}
  /\ Actors = Runners \cup Requests /\ Runners \cap Requests = {} /\ None \notin Movies
BY LimitsArePositive, BoundsAreNumbers, ActorsDiffer DEF Actors

(* There is a highest id, and there are no two.                            *)
LEMMA LastIsTop ==
  ASSUME NEW rs
  PROVE  /\ Last(rs) \in 0..MaxSearches /\ Top(rs, Last(rs))
         /\ \A n \in 0..MaxSearches : Top(rs, n) => n = Last(rs)
<1>. DEFINE Bounds == {n \in Nat : \A i \in Ids : rs[i] # NoResult => i <= n}
<1>1. MaxSearches \in Bounds
  BY Numbers DEF Ids
<1>2. PICK least \in Bounds : \A n \in Bounds : <<n, least>> \notin OpToRel(<, Nat)
  <2>1. Bounds \subseteq Nat /\ Bounds # {}
    BY <1>1
  <2>. HIDE DEF Bounds
  <2>. QED
    BY <2>1, WFMin, NatLessThanWellFounded, Zenon
<1>3. \A n \in Bounds : ~(n < least)
  BY <1>2 DEF OpToRel
<1>11. least \in Nat /\ \A i \in Ids : rs[i] # NoResult => i <= least
  BY <1>2
<1>4. least \in 0..MaxSearches
  BY <1>1, <1>3, <1>11, Numbers
<1>5. Top(rs, least)
  <2>1. ASSUME least # 0, rs[least] = NoResult
        PROVE  FALSE
    <3>1. least - 1 \in Nat
      BY <1>11, <2>1
    <3>2. \A i \in Ids : rs[i] # NoResult => i <= least - 1
      <4>1. SUFFICES ASSUME NEW i \in Ids, rs[i] # NoResult
                     PROVE  i <= least - 1
        OBVIOUS
      <4>2. i \in Nat /\ i <= least /\ i # least
        BY <1>11, <2>1, <4>1, Numbers DEF Ids
      <4>. QED
        BY <1>11, <4>2
    <3>3. least - 1 \in Bounds
      BY <3>1, <3>2
    <3>4. ~(least - 1 < least)
      BY <1>3, <3>3
    <3>. QED
      BY <1>11, <3>4
  <2>. QED
    BY <1>11, <2>1 DEF Top
<1>6. Last(rs) \in 0..MaxSearches /\ Top(rs, Last(rs))
  BY <1>4, <1>5 DEF Last, Top
<1>7. ASSUME NEW n \in 0..MaxSearches, NEW k \in 0..MaxSearches, Top(rs, n), Top(rs, k)
      PROVE  n <= k
  BY <1>7, Numbers DEF Top, Ids
<1>8. ASSUME NEW n \in 0..MaxSearches, Top(rs, n)
      PROVE  n = Last(rs)
  <2>1. n <= Last(rs) /\ Last(rs) <= n
    BY <1>6, <1>7, <1>8
  <2>. QED
    BY <1>6, <2>1, Numbers
<1>. QED
  BY <1>6, <1>8

LEMMA Highest == HighestId = Last(results) /\ HighestId' = Last(results')
BY DEF HighestId, Last

-----------------------------------------------------------------------------
(* What the steps do to a task                                             *)
Becomes(a, x) == proc' = [proc EXCEPT ![a] = x]

LEMMA BecomesEffect ==
  ASSUME Typed, NEW a \in Actors, NEW x \in Proc, Becomes(a, x)
  PROVE  /\ proc' \in [Actors -> Proc] /\ proc'[a] = x
         /\ \A b \in Actors : b # a => proc'[b] = proc[b]
BY DEF Typed, Becomes

(* A task that is at nothing.                                              *)
Rests(x) == x.at \notin Moving /\ x.movie = None /\ ~x.search

LEMMA Resting ==
  /\ NoProc \in Proc /\ NoProc.at = "idle" /\ Rests(NoProc)
  /\ \A how \in {"returned", "raised"} :
       LET x == [NoProc EXCEPT !.at = how] IN x \in Proc /\ x.at = how /\ Rests(x)
<1>1. NoProc \in Proc
  BY Numbers DEF NoProc, Proc, Places
<1>2. NoProc.at = "idle" /\ Rests(NoProc)
  BY DEF NoProc, Rests, Moving
<1>3. ASSUME NEW how \in {"returned", "raised"}
      PROVE  /\ [NoProc EXCEPT !.at = how] \in Proc
             /\ [NoProc EXCEPT !.at = how].at = how
             /\ Rests([NoProc EXCEPT !.at = how])
  <2>1. PICK x : x = [NoProc EXCEPT !.at = how]
    OBVIOUS
  <2>2. x = [at |-> how, movie |-> None, film |-> 0, id |-> 0, serial |-> 0, got |-> 0,
             best |-> "empty", verdict |-> "nothing", old |-> {}, search |-> FALSE]
    BY <2>1 DEF NoProc
  <2>3. x \in Proc
    BY <2>2, Numbers DEF Proc, Places
  <2>4. x.at = how /\ Rests(x)
    BY <2>2 DEF Rests, Moving
  <2>. QED
    BY <2>1, <2>3, <2>4
<1>. QED
  BY <1>1, <1>2, <1>3

LEMMA ReturnEffect ==
  ASSUME Typed, NEW a \in Actors, NEW how \in {"returned", "raised"}, proc' = Return(a, how)
  PROVE  \E x \in Proc : Becomes(a, x) /\ Rests(x) /\ (a \in Requests => x.at = "idle")
<1>1. CASE a \in Runners
  BY <1>1, Resting, Numbers DEF Return, Becomes
<1>2. CASE a \in Requests
  BY <1>2, Resting, Numbers DEF Return, Becomes
<1>. QED
  BY <1>1, <1>2, Numbers

-----------------------------------------------------------------------------
(* What a step of a task that stores no result owes the invariant          *)
PlaceFits(a, x) ==
  /\ x.at \in Moving => x.movie \in Movies
  /\ x.at \in {"chosen", "approved"} => x.id \in Ids
  /\ x.at = "approved" => a \in Requests

IdFits(x) ==
  /\ x.at = "storing" => \A i \in x.old : i <= HighestId
  /\ x.at \in {"chosen", "approved"} =>
       /\ x.id <= HighestId
       /\ \/ results[x.id] = NoResult
          \/ results[x.id].movie = x.movie /\ results[x.id].serial = x.serial
  /\ x.at = "download" => x.got = x.serial

HandFits(r, x) ==
  r \in Requests =>
    /\ x.at \in Moving /\ ~x.search => x.movie \in byHand
    /\ x.search => x.at \in {"search", "asking", "storing"}

LEMMA OpenIsFinite ==
  ASSUME Typed, SerialsOK
  PROVE  /\ IsFiniteSet(Open) /\ Cardinality(Open) \in Nat
         /\ Open \subseteq 1..used.searches
         /\ used.searches \in Nat /\ HighestId \in 0..MaxSearches
<1>1. Open \subseteq 1..used.searches
  BY DEF Open, SerialsOK
<1>2. used.searches \in Nat
  BY Numbers DEF Typed, Use
<1>3. IsFiniteSet(1..used.searches)
  BY <1>2, FS_Interval
<1>. QED
  BY <1>1, <1>2, <1>3, FS_Subset, FS_CardinalityType, LastIsTop, Highest

(* The serials of the searches: none is begun.                             *)
LEMMA SerialsKeep ==
  ASSUME IInv, NEW a \in Actors, NEW x \in Proc, Becomes(a, x),
         UNCHANGED results, used'.searches = used.searches,
         x.at \in Searches => proc[a].at \in Searches /\ x.serial = proc[a].serial
  PROVE  SerialsOK'
<1>1. /\ proc' \in [Actors -> Proc] /\ proc'[a] = x
      /\ \A b \in Actors : b # a => proc'[b] = proc[b]
  BY BecomesEffect DEF IInv
<1>2. Open' \subseteq Open
  BY <1>1 DEF Open
<1>3. Cardinality(Open') <= Cardinality(Open) /\ Cardinality(Open') \in Nat
  BY <1>2, OpenIsFinite, FS_Subset, FS_CardinalityType DEF IInv
<1>4. HighestId \in Nat /\ used.searches \in Nat /\ Cardinality(Open) \in Nat
  BY OpenIsFinite, Numbers DEF IInv
<1>5. HighestId' = HighestId
  BY DEF HighestId
<1>6. HighestId' + Cardinality(Open') <= used'.searches
  BY <1>3, <1>4, <1>5 DEF IInv, SerialsOK
<1>7. \A b \in Actors : proc'[b].at \in Searches =>
        proc[b].at \in Searches /\ proc'[b].serial = proc[b].serial
  BY <1>1
<1>. QED
  BY <1>6, <1>7 DEF IInv, SerialsOK

(* A step of a task, given what it makes of the cycles and the movies.     *)
LEMMA TaskKeeps ==
  ASSUME IInv, NEW a \in Actors, NEW x \in Proc, Becomes(a, x),
         UNCHANGED <<results, failed, erased>>, Typed', SerialsOK', CyclesOK', MoviesOK',
         byHand \subseteq byHand',
         PlaceFits(a, x), ~erased => IdFits(x), ~erased => HandFits(a, x)'
  PROVE  IInv'
<1>1. /\ proc' \in [Actors -> Proc] /\ proc'[a] = x
      /\ \A b \in Actors : b # a => proc'[b] = proc[b]
  BY BecomesEffect DEF IInv
<1>3. PlacesOK'
  BY <1>1 DEF IInv, PlacesOK, PlaceFits
<1>4. HighestId' = HighestId
  BY DEF HighestId
<1>6. IdsOK'
  <2>1. \A b \in Actors : ~erased => IdFits(proc[b])
    BY DEF IInv, IdsOK, IdFits
  <2>2. \A b \in Actors : ~erased => IdFits(proc'[b])
    BY <1>1, <2>1
  <2>. QED
    BY <1>4, <2>2 DEF IdsOK, IdFits
<1>7. HandsOK'
  <2>1. ASSUME ~erased, NEW r \in Requests
        PROVE  /\ proc'[r].at \in Moving /\ ~proc'[r].search => proc'[r].movie \in byHand'
               /\ proc'[r].search => proc'[r].at \in {"search", "asking", "storing"}
    <3>1. CASE r = a
      BY <1>1, <2>1, <3>1 DEF HandFits
    <3>2. CASE r # a
      <4>1. proc'[r] = proc[r]
        BY <1>1, <3>2 DEF Actors
      <4>. QED
        BY <2>1, <4>1 DEF IInv, HandsOK
    <3>. QED
      BY <3>1, <3>2
  <2>. QED
    BY <2>1 DEF HandsOK
<1>. QED
  BY <1>3, <1>6, <1>7 DEF IInv

(* A step of a task that leaves cycles and movies to themselves.           *)
Stays(a, x) ==
  a \in Runners =>
    /\ x.at # "idle" => proc[a].at # "idle"
    /\ x.at \in Moving => proc[a].at \in Moving

SameMovie(a, x) ==
  a \in Runners /\ x.at \in Moving => proc[a].at \in Moving /\ x.movie = proc[a].movie

MovieFits(a, x) ==
  a \in Runners =>
    \A m \in Movies \ byHand : x.movie = m =>
      /\ x.at \in Searches => x.film = movie[m].film
      /\ x.at = "chosen" => results[x.id] = NoResult \/ results[x.id].film = movie[m].film
      /\ x.at = "download" => x.film = movie[m].film /\ movie[m].status = "downloading"

LEMMA CyclesKeep ==
  ASSUME IInv, NEW a \in Actors, NEW x \in Proc, Becomes(a, x),
         UNCHANGED <<cycle, running>>, Stays(a, x)
  PROVE  CyclesOK'
<1>1. /\ proc' \in [Actors -> Proc] /\ proc'[a] = x
      /\ \A b \in Actors : b # a => proc'[b] = proc[b]
  BY BecomesEffect DEF IInv
<1>2. ASSUME NEW c \in Runners
      PROVE  /\ proc'[c].at # "idle" => proc[c].at # "idle"
             /\ proc'[c].at \in Moving => proc[c].at \in Moving
  BY <1>1, Numbers DEF Stays
<1>. QED
  BY <1>2 DEF IInv, CyclesOK

LEMMA MoviesKeep ==
  ASSUME IInv, NEW a \in Actors, NEW x \in Proc, Becomes(a, x),
         UNCHANGED <<cycle, movie, left, results, erased>>, byHand \subseteq byHand',
         ~erased => SameMovie(a, x), ~erased => MovieFits(a, x)
  PROVE  MoviesOK'
<1>1. /\ proc' \in [Actors -> Proc] /\ proc'[a] = x
      /\ \A b \in Actors : b # a => proc'[b] = proc[b]
  BY BecomesEffect DEF IInv
<1>2. SUFFICES ASSUME ~erased, NEW m \in Movies \ byHand
               PROVE  /\ left[m] <= 1
                      /\ left[m] = 1 => /\ movie[m].status = "downloading"
                                        /\ \A c \in Runners : m \notin Claimed(c)'
                      /\ \A c \in Runners : proc'[c].movie = m =>
                           /\ proc'[c].at \in Searches => proc'[c].film = movie[m].film
                           /\ proc'[c].at = "chosen" =>
                                \/ results[proc'[c].id] = NoResult
                                \/ results[proc'[c].id].film = movie[m].film
                           /\ proc'[c].at = "download" =>
                                /\ proc'[c].film = movie[m].film
                                /\ movie[m].status = "downloading"
  BY DEF MoviesOK
<1>3. \A c \in Runners : Claimed(c)' \subseteq Claimed(c)
  BY <1>1, <1>2, Numbers DEF Claimed, SameMovie
<1>4. ASSUME NEW c \in Runners, proc'[c].movie = m
      PROVE  /\ proc'[c].at \in Searches => proc'[c].film = movie[m].film
             /\ proc'[c].at = "chosen" =>
                  results[proc'[c].id] = NoResult \/ results[proc'[c].id].film = movie[m].film
             /\ proc'[c].at = "download" =>
                  proc'[c].film = movie[m].film /\ movie[m].status = "downloading"
  <2>1. CASE c = a
    BY <1>1, <1>2, <1>4, <2>1 DEF MovieFits
  <2>2. CASE c # a
    <3>1. proc'[c] = proc[c]
      BY <1>1, <2>2, Numbers
    <3>. QED
      BY <1>2, <1>4, <3>1 DEF IInv, MoviesOK
  <2>. QED
    BY <2>1, <2>2
<1>. QED
  BY <1>2, <1>3, <1>4 DEF IInv, MoviesOK

(* A task that rests owes nothing.                                         *)
LEMMA RestFits ==
  ASSUME NEW a \in Actors, NEW x, Rests(x)
  PROVE  /\ PlaceFits(a, x) /\ IdFits(x) /\ HandFits(a, x)' /\ SameMovie(a, x)
         /\ MovieFits(a, x) /\ x.at \notin Searches
BY Numbers DEF Rests, PlaceFits, IdFits, HandFits, SameMovie, MovieFits, Moving, Searches

-----------------------------------------------------------------------------
(* The search                                                              *)
LEMMA InitKeeps == Init => IInv
<1>. SUFFICES ASSUME Init PROVE IInv
  OBVIOUS
<1>1. \A a \in Actors : proc[a] = NoProc
  BY DEF Init
<1>2. NoProc \in Proc /\ NoProc.at = "idle" /\ NoProc.movie = None /\ ~NoProc.search
      /\ NoProc.at \notin Moving
  BY Resting DEF Rests
<1>3. Typed
  <2>1. movie \in [Movies -> Film]
    BY DEF Init, Film, MovieStatus
  <2>2. results \in [Ids -> Result \cup {NoResult}]
    BY DEF Init
  <2>3. cycle \in [Runners -> CycleRow]
    BY DEF Init, NoCycle, CycleRow
  <2>4. proc \in [Actors -> Proc]
    BY <1>2 DEF Init
  <2>5. used \in Use
    BY Numbers DEF Init, NoUse, Use
  <2>6. failed \in 0..FailLimit /\ left \in [Movies -> Nat]
    BY Numbers DEF Init
  <2>7. /\ running \in BOOLEAN /\ stop \in BOOLEAN /\ cooling \in BOOLEAN /\ inWindow \in BOOLEAN
        /\ erased \in BOOLEAN /\ byHand \subseteq Movies /\ paused \subseteq Indexers
    BY DEF Init
  <2>. QED
    BY <2>1, <2>2, <2>3, <2>4, <2>5, <2>6, <2>7 DEF Typed
<1>4. PlacesOK
  BY <1>1, <1>2 DEF PlacesOK, NoProc, Moving
<1>5. CyclesOK
  <2>1. \A c \in Runners : cycle[c].at = "idle" /\ cycle[c].improved = 0 /\ cycle[c].todo = {}
    BY DEF Init, NoCycle
  <2>. QED
    BY <1>1, <1>2, <2>1, Numbers DEF Init, CyclesOK
<1>6. SerialsOK
  <2>1. \A a \in Actors : proc[a].at \notin Searches
    BY <1>1 DEF NoProc, Searches
  <2>2. Open = {}
    BY <2>1 DEF Open
  <2>3. HighestId = 0
    <3>1. Top(results, 0)
      BY DEF Init, Top
    <3>. QED
      BY <3>1, LastIsTop, Highest, Numbers
  <2>4. used.searches = 0
    BY DEF Init, NoUse
  <2>. QED
    BY <2>1, <2>2, <2>3, <2>4, FS_EmptySet DEF SerialsOK
<1>7. IdsOK
  BY <1>1 DEF IdsOK, NoProc
<1>8. HandsOK
  BY <1>1, <1>2, Numbers DEF HandsOK
<1>9. MoviesOK
  BY <1>1, <1>2, Numbers DEF Init, MoviesOK, NoProc, Searches
<1>. QED
  BY <1>3, <1>4, <1>5, <1>6, <1>7, <1>8, <1>9 DEF IInv

(* A task that stops without having changed anything.                      *)
LEMMA ReturnKeeps ==
  ASSUME IInv, NEW a \in Actors, NEW how \in {"returned", "raised"},
         proc[a].at # "idle", proc' = Return(a, how),
         UNCHANGED <<cycle, running, movie, left, results, failed, used, erased, byHand>>,
         UNCHANGED <<paused, stop, cooling, inWindow>>
  PROVE  IInv'
<1>1. PICK x \in Proc : Becomes(a, x) /\ Rests(x) /\ (a \in Requests => x.at = "idle")
  BY ReturnEffect DEF IInv
<1>2. proc' \in [Actors -> Proc]
  BY <1>1, BecomesEffect DEF IInv
<1>3. Typed'
  BY <1>2 DEF IInv, Typed
<1>4. SerialsOK'
  BY <1>1, RestFits, SerialsKeep
<1>5. CyclesOK'
  BY <1>1, CyclesKeep DEF Stays, Rests
<1>6. MoviesOK'
  BY <1>1, RestFits, MoviesKeep
<1>. QED
  BY <1>1, <1>3, <1>4, <1>5, <1>6, RestFits, TaskKeeps

LEMMA SearchRaisesKeeps ==
  ASSUME IInv, NEW a \in Actors, SearchRaises(a)
  PROVE  IInv'
BY ReturnKeeps DEF SearchRaises, tables, health, flags, clock, history

LEMMA ReadMovieKeeps ==
  ASSUME IInv, NEW a \in Actors, ReadMovie(a)
  PROVE  IInv'
<1>0. PICK n, x : /\ n = used.searches + 1
                  /\ x = [proc[a] EXCEPT !.at = "asking", !.film = movie[proc[a].movie].film,
                                         !.serial = n]
  OBVIOUS
<1>1. /\ proc[a].at = "search" /\ proc[a] \in Proc /\ proc[a].movie \in Movies
      /\ movie[proc[a].movie] \in Film
  BY DEF ReadMovie, IInv, Typed, PlacesOK, Moving
<1>2. used.searches \in Nat /\ n \in 1..MaxSearches /\ n = used.searches + 1
  BY <1>0, OpenIsFinite, Numbers DEF ReadMovie, IInv
<1>3. /\ x \in Proc /\ x.at = "asking" /\ x.movie = proc[a].movie /\ x.serial = n
      /\ x.film = movie[proc[a].movie].film /\ x.search = proc[a].search
  <2>1. movie[proc[a].movie].film \in Nat
    BY <1>1 DEF Film
  <2>2. n \in 0..MaxSearches
    BY <1>2, Numbers
  <2>3. x \in Proc
    BY <1>0, <1>1, <2>1, <2>2 DEF Proc, Places
  <2>4. /\ x.at = "asking" /\ x.movie = proc[a].movie /\ x.serial = n
        /\ x.film = movie[proc[a].movie].film /\ x.search = proc[a].search
    BY <1>0, <1>1 DEF Proc
  <2>. QED
    BY <2>3, <2>4
<1>4. Becomes(a, x)
  BY <1>0 DEF ReadMovie, Becomes
<1>5. used' \in Use /\ used'.searches = n
  BY <1>2 DEF ReadMovie, IInv, Typed, Use
<1>6. /\ proc' \in [Actors -> Proc] /\ proc'[a] = x
      /\ \A b \in Actors : b # a => proc'[b] = proc[b]
  BY <1>3, <1>4, BecomesEffect DEF IInv
<1>7. UNCHANGED <<movie, results, left, failed, paused, running, stop, cooling, inWindow,
                  cycle, byHand, erased>>
  BY DEF ReadMovie, tables, health, flags, clock, history
<1>8. Typed'
  BY <1>5, <1>6, <1>7 DEF IInv, Typed
<1>9. SerialsOK'
  <2>1. Open' = Open \cup {n}
    BY <1>1, <1>3, <1>6 DEF Open, Searches
  <2>2. n \notin Open
    BY <1>2, OpenIsFinite DEF IInv
  <2>3. Cardinality(Open') = Cardinality(Open) + 1
    BY <2>1, <2>2, OpenIsFinite, FS_AddElement DEF IInv
  <2>4. HighestId' = HighestId /\ HighestId \in Nat /\ Cardinality(Open) \in Nat
    BY <1>7, OpenIsFinite, Numbers DEF HighestId, IInv
  <2>5. HighestId' + Cardinality(Open') <= used'.searches
    BY <1>2, <1>5, <2>3, <2>4 DEF IInv, SerialsOK
  <2>6. \A b \in Actors : proc'[b].at \in Searches =>
          \/ b = a /\ proc'[b].serial = n
          \/ b # a /\ proc'[b] = proc[b] /\ proc[b].serial \in 1..used.searches
    BY <1>3, <1>6 DEF IInv, SerialsOK
  <2>7. \A b \in Actors : proc'[b].at \in Searches => proc'[b].serial \in 1..used'.searches
    BY <1>2, <1>5, <2>6
  <2>8. ASSUME NEW b \in Actors, NEW d \in Actors,
               proc'[b].at \in Searches, proc'[d].at \in Searches,
               proc'[b].serial = proc'[d].serial
        PROVE  b = d
    BY <1>2, <2>6, <2>8 DEF IInv, SerialsOK
  <2>. QED
    BY <2>5, <2>7, <2>8 DEF SerialsOK
<1>10. CyclesOK'
  BY <1>1, <1>3, <1>4, <1>7, CyclesKeep DEF Stays, Moving
<1>11. SameMovie(a, x) /\ MovieFits(a, x)
  BY <1>1, <1>3 DEF SameMovie, MovieFits, Moving
<1>12. MoviesOK'
  BY <1>3, <1>4, <1>7, <1>11, MoviesKeep
<1>13. PlaceFits(a, x) /\ IdFits(x)
  BY <1>1, <1>3 DEF PlaceFits, IdFits
<1>14. ~erased => HandFits(a, x)'
  BY <1>1, <1>3, <1>7 DEF HandFits, IInv, HandsOK, Moving
<1>. QED
  BY <1>3, <1>4, <1>7, <1>8, <1>9, <1>10, <1>12, <1>13, <1>14, TaskKeeps

LEMMA SourcesAnswerKeeps ==
  ASSUME IInv, NEW a \in Actors, SourcesAnswer(a)
  PROVE  IInv'
<1>1. /\ proc[a].at = "asking" /\ proc[a] \in Proc /\ proc[a].movie \in Movies
  BY DEF SourcesAnswer, IInv, Typed, PlacesOK, Moving
<1>2. PICK asked :
        /\ paused' = paused \cup {i \in Indexers \cap DOMAIN asked : asked[i] = "limited"}
        /\ proc' = [proc EXCEPT ![a] =
                      [proc[a] EXCEPT !.at = "storing", !.best = Best(asked),
                                      !.verdict = Verdict(asked, Sources # {}),
                                      !.old = OldResults(proc[a].movie)]]
  BY DEF SourcesAnswer
<1>3. PICK x : x = [proc[a] EXCEPT !.at = "storing", !.best = Best(asked),
                                   !.verdict = Verdict(asked, Sources # {}),
                                   !.old = OldResults(proc[a].movie)]
  OBVIOUS
<1>4. Best(asked) \in {"accepted", "rejected", "empty"}
  BY DEF Best
<1>5. Verdict(asked, Sources # {}) \in {"found", "failed", "nothing"}
  BY DEF Verdict
<1>6. OldResults(proc[a].movie) \in SUBSET Ids
  BY DEF OldResults
<1>7. /\ x \in Proc /\ x.at = "storing" /\ x.movie = proc[a].movie /\ x.serial = proc[a].serial
      /\ x.film = proc[a].film /\ x.search = proc[a].search /\ x.old = OldResults(proc[a].movie)
  BY <1>1, <1>3, <1>4, <1>5, <1>6 DEF Proc, Places
<1>8. Becomes(a, x)
  BY <1>2, <1>3 DEF Becomes
<1>9. UNCHANGED <<movie, results, left, failed, running, stop, cooling, inWindow,
                  cycle, used, byHand, erased>>
  BY DEF SourcesAnswer, tables, flags, clock, history
<1>10. Typed'
  <2>1. proc' \in [Actors -> Proc]
    BY <1>7, <1>8, BecomesEffect DEF IInv
  <2>2. paused' \subseteq Indexers
    BY <1>2 DEF IInv, Typed
  <2>. QED
    BY <1>9, <2>1, <2>2 DEF IInv, Typed
<1>11. SerialsOK'
  BY <1>1, <1>7, <1>8, <1>9, SerialsKeep DEF Searches
<1>12. CyclesOK'
  BY <1>1, <1>7, <1>8, <1>9, CyclesKeep DEF Stays, Moving
<1>13. ~erased => MovieFits(a, x)
  BY <1>1, <1>7 DEF MovieFits, IInv, MoviesOK, Searches
<1>14. MoviesOK'
  <2>1. SameMovie(a, x)
    BY <1>1, <1>7 DEF SameMovie, Moving
  <2>. QED
    BY <1>7, <1>8, <1>9, <1>13, <2>1, MoviesKeep
<1>15. IdFits(x)
  <2>1. \A i \in x.old : results[i] # NoResult /\ i \in Ids
    <3>1. \A i \in x.old : i \in Ids /\ results[i].movie = proc[a].movie
      BY <1>7 DEF OldResults
    <3>2. NoResult.movie = None
      BY DEF NoResult
    <3>. QED
      BY <1>1, <3>1, <3>2, Numbers
  <2>2. \A i \in x.old : i <= HighestId
    BY <2>1, LastIsTop, Highest DEF Top
  <2>. QED
    BY <1>7, <2>2 DEF IdFits
<1>16. PlaceFits(a, x)
  BY <1>1, <1>7 DEF PlaceFits
<1>17. ~erased => HandFits(a, x)'
  BY <1>1, <1>7, <1>9 DEF HandFits, IInv, HandsOK, Moving
<1>. QED
  BY <1>7, <1>8, <1>9, <1>10, <1>11, <1>12, <1>14, <1>15, <1>16, <1>17, TaskKeeps

(* The row that a search stores.                                           *)
Stores(a) == [movie |-> proc[a].movie, serial |-> proc[a].serial, film |-> proc[a].film]

(* Where the highest id goes when results are stored: up by one at most,   *)
(* and not down unless the end of the table is emptied.                    *)
LEMMA StoredRows ==
  ASSUME IInv, NEW a \in Actors, StoreResults(a)
  PROVE  /\ HighestId \in Nat /\ HighestId' \in Nat /\ HighestId + 1 \in Ids
         /\ HighestId' <= HighestId + 1
         /\ results' \in [Ids -> Result \cup {NoResult}]
         /\ \A i \in Ids : i # HighestId + 1 =>
              results'[i] = NoResult \/ results'[i] = results[i]
         /\ ~erased' => HighestId <= HighestId'
         /\ ~erased' /\ proc[a].best # "empty" =>
              HighestId' = HighestId + 1 /\ results'[HighestId + 1] = Stores(a)
<1>1. /\ proc[a].at = "storing" /\ proc[a] \in Proc /\ proc[a].movie \in Movies
      /\ proc[a].serial \in 1..used.searches /\ used.searches \in 0..MaxSearches
  BY DEF StoreResults, IInv, Typed, Use, PlacesOK, Moving, SerialsOK, Searches
<1>2. PICK h : h = HighestId
  OBVIOUS
<1>3. h \in Nat /\ h + 1 \in Ids
  <2>1. Cardinality(Open) # 0
    <3>1. proc[a].serial \in Open
      BY <1>1 DEF Open, Searches
    <3>. QED
      BY <3>1, OpenIsFinite, FS_EmptySet DEF IInv
  <2>2. h \in Nat /\ used.searches \in Nat /\ Cardinality(Open) \in Nat
        /\ h + Cardinality(Open) <= used.searches
    BY <1>2, OpenIsFinite, Numbers DEF IInv, SerialsOK
  <2>. QED
    BY <1>1, <2>1, <2>2, Numbers DEF Ids
<1>4. \A i \in Ids : i \in Nat /\ i > 0
  BY Numbers DEF Ids
<1>5. Top(results, h) /\ Top(results', HighestId') /\ HighestId' \in 0..MaxSearches
  BY <1>2, LastIsTop, Highest
<1>6. Stores(a) \in Result /\ Stores(a) # NoResult
  <2>1. proc[a].serial \in 1..MaxSearches
    BY <1>1, Numbers
  <2>2. Stores(a) \in Result
    BY <1>1, <2>1 DEF Stores, Result, Proc
  <2>3. Stores(a).movie # NoResult.movie
    BY <1>1, Numbers DEF Stores, NoResult
  <2>. QED
    BY <2>2, <2>3
<1>7. PICK ins : ins = Inserted(results, a)
  OBVIOUS
<1>8. /\ proc[a].best = "empty" => ins = results
      /\ proc[a].best # "empty" => ins = [results EXCEPT ![h + 1] = Stores(a)]
  BY <1>2, <1>7 DEF Inserted, Stores
<1>9. results' = [i \in Ids |-> IF i \in proc[a].old THEN NoResult ELSE ins[i]]
  BY <1>7 DEF StoreResults, Stored, Deleted
<1>10. results \in [Ids -> Result \cup {NoResult}]
  BY DEF IInv, Typed
<1>11. ins \in [Ids -> Result \cup {NoResult}] /\ \A i \in Ids : i # h + 1 => ins[i] = results[i]
  BY <1>6, <1>8, <1>10
<1>12. results' \in [Ids -> Result \cup {NoResult}]
  BY <1>9, <1>11
<1>13. \A i \in Ids : i # h + 1 => results'[i] = NoResult \/ results'[i] = results[i]
  BY <1>9, <1>11
<1>14. HighestId' <= h + 1
  <2>1. HighestId' \in Ids /\ HighestId' # h + 1 => HighestId' <= h
    BY <1>5, <1>13 DEF Top, Ids
  <2>. QED
    BY <1>3, <1>5, <2>1, Numbers DEF Ids
<1>15. ASSUME ~erased'
       PROVE  /\ h <= HighestId'
              /\ proc[a].best # "empty" => HighestId' = h + 1 /\ results'[h + 1] = Stores(a)
  <2>1. ~erased /\ ~(proc[a].best = "empty" /\ h \in proc[a].old)
    BY <1>2, <1>15 DEF StoreResults
  <2>2. \A i \in proc[a].old : i <= h
    BY <1>1, <1>2, <2>1 DEF IInv, IdsOK
  <2>3. CASE proc[a].best = "empty"
    <3>1. CASE h = 0
      BY <1>5, <2>3, <3>1
    <3>2. CASE h # 0
      <4>1. h \in Ids /\ results[h] # NoResult
        BY <1>3, <1>5, <3>2, Numbers DEF Top, Ids
      <4>2. results'[h] = results[h]
        BY <1>8, <1>9, <2>1, <2>3, <4>1
      <4>. QED
        BY <1>5, <2>3, <4>1, <4>2 DEF Top
    <3>. QED
      BY <3>1, <3>2
  <2>4. CASE proc[a].best # "empty"
    <3>1. h + 1 \notin proc[a].old
      BY <1>3, <2>2
    <3>2. results'[h + 1] = Stores(a)
      BY <1>3, <1>8, <1>9, <1>10, <2>4, <3>1
    <3>3. h + 1 <= HighestId'
      BY <1>3, <1>5, <1>6, <3>2 DEF Top
    <3>. QED
      BY <1>3, <1>5, <1>14, <3>2, <3>3
  <2>. QED
    BY <2>3, <2>4
<1>. QED
  BY <1>2, <1>3, <1>5, <1>12, <1>13, <1>14, <1>15

LEMMA StoreResultsKeeps ==
  ASSUME IInv, NEW a \in Actors, StoreResults(a)
  PROVE  IInv'
<1>1. /\ proc[a].at = "storing" /\ proc[a] \in Proc /\ proc[a].movie \in Movies
      /\ proc[a].serial \in 1..used.searches
  BY DEF StoreResults, IInv, Typed, PlacesOK, Moving, SerialsOK, Searches
<1>2. PICK h : h = HighestId
  OBVIOUS
<1>3. /\ h \in Nat /\ HighestId' \in Nat /\ h + 1 \in Ids /\ HighestId' <= h + 1
      /\ results' \in [Ids -> Result \cup {NoResult}]
      /\ \A i \in Ids : i # h + 1 => results'[i] = NoResult \/ results'[i] = results[i]
      /\ ~erased' => h <= HighestId'
      /\ ~erased' /\ proc[a].best # "empty" =>
           HighestId' = h + 1 /\ results'[h + 1] = Stores(a)
  BY <1>2, StoredRows
<1>4. UNCHANGED <<movie, left, paused, running, stop, cooling, inWindow, cycle, used, byHand>>
  BY DEF StoreResults, flags, clock
<1>5. ~erased' => ~erased
  BY DEF StoreResults
<1>6. PICK x \in Proc :
        /\ Becomes(a, x)
        /\ \/ Rests(x) /\ (a \in Requests => x.at = "idle")
           \/ /\ x.at = "chosen" /\ x.movie = proc[a].movie /\ x.serial = proc[a].serial
              /\ x.id = h + 1 /\ ~x.search /\ ~proc[a].search /\ proc[a].best # "empty"
  <2>1. CASE proc[a].search \/ proc[a].best # "accepted" \/ mode = "dry_run"
    <3>1. proc' = Return(a, "returned")
      BY <2>1 DEF StoreResults
    <3>. QED
      BY <3>1, ReturnEffect DEF IInv
  <2>2. CASE ~(proc[a].search \/ proc[a].best # "accepted" \/ mode = "dry_run")
    <3>1. PICK x : x = [NoProc EXCEPT !.at = "chosen", !.movie = proc[a].movie,
                                      !.id = h + 1, !.serial = proc[a].serial]
      OBVIOUS
    <3>2. x = [at |-> "chosen", movie |-> proc[a].movie, film |-> 0, id |-> h + 1,
               serial |-> proc[a].serial, got |-> 0, best |-> "empty", verdict |-> "nothing",
               old |-> {}, search |-> FALSE]
      BY <3>1 DEF NoProc
    <3>3. h + 1 \in 0..MaxSearches
      BY <1>3, Numbers DEF Ids
    <3>4. x \in Proc
      BY <1>1, <3>2, <3>3 DEF Proc, Places
    <3>5. Becomes(a, x)
      BY <1>2, <2>2, <3>1 DEF StoreResults, Becomes
    <3>. QED
      BY <2>2, <3>2, <3>4, <3>5
  <2>. QED
    BY <2>1, <2>2
<1>7. /\ proc' \in [Actors -> Proc] /\ proc'[a] = x
      /\ \A b \in Actors : b # a => proc'[b] = proc[b]
  BY <1>6, BecomesEffect DEF IInv
<1>8. x.at \notin Searches /\ (x.at \in Moving => x.at = "chosen")
  BY <1>6 DEF Rests, Moving, Searches
<1>9. Typed'
  <2>1. failed' \in 0..FailLimit
    <3>1. FailedCount(failed, proc[a].verdict) \in Nat
      BY Numbers DEF IInv, Typed, FailedCount
    <3>. QED
      BY <3>1, Numbers DEF StoreResults, Capped
  <2>2. erased' \in BOOLEAN
    BY DEF StoreResults, IInv, Typed
  <2>. QED
    BY <1>3, <1>4, <1>7, <2>1, <2>2 DEF IInv, Typed
<1>10. PlacesOK'
  <2>1. PlaceFits(a, x)
    BY <1>1, <1>3, <1>6 DEF PlaceFits, Rests, Moving
  <2>. QED
    BY <1>7, <2>1 DEF IInv, PlacesOK, PlaceFits
<1>11. CyclesOK'
  BY <1>1, <1>4, <1>6, CyclesKeep DEF Stays, Moving
<1>12. SerialsOK'
  <2>1. Open' = Open \ {proc[a].serial}
    <3>1. \A b \in Actors : proc'[b].at \in Searches <=> b # a /\ proc[b].at \in Searches
      BY <1>7, <1>8
    <3>2. proc[a].at \in Searches
      BY <1>1 DEF Searches
    <3>. QED
      BY <1>7, <3>1, <3>2 DEF Open, IInv, SerialsOK
  <2>2. proc[a].serial \in Open
    BY <1>1 DEF Open, Searches
  <2>3. Cardinality(Open') = Cardinality(Open) - 1
    BY <2>1, <2>2, OpenIsFinite, FS_RemoveElement DEF IInv
  <2>4. HighestId' + Cardinality(Open') <= used'.searches
    BY <1>2, <1>3, <1>4, <2>3, OpenIsFinite DEF IInv, SerialsOK
  <2>5. \A b \in Actors : proc'[b].at \in Searches => proc'[b] = proc[b]
    BY <1>7, <1>8
  <2>. QED
    BY <1>4, <2>4, <2>5 DEF IInv, SerialsOK
<1>13. ASSUME ~erased', NEW b \in Actors
       PROVE  /\ proc'[b].at = "storing" => \A i \in proc'[b].old : i <= HighestId'
              /\ proc'[b].at \in {"chosen", "approved"} =>
                   /\ proc'[b].id <= HighestId'
                   /\ \/ results'[proc'[b].id] = NoResult
                      \/ /\ results'[proc'[b].id].movie = proc'[b].movie
                         /\ results'[proc'[b].id].serial = proc'[b].serial
              /\ proc'[b].at = "download" => proc'[b].got = proc'[b].serial
  <2>1. CASE b = a
    BY <1>3, <1>6, <1>7, <1>13, <2>1 DEF Stores, Rests, Moving
  <2>2. CASE b # a
    <3>1. proc'[b] = proc[b] /\ proc[b] \in Proc
      BY <1>7, <2>2 DEF IInv, Typed
    <3>2. ~erased /\ h <= HighestId'
      BY <1>3, <1>5, <1>13
    <3>3. proc[b].at = "storing" => \A i \in proc'[b].old : i <= HighestId'
      <4>1. SUFFICES ASSUME proc[b].at = "storing", NEW i \in proc[b].old
                     PROVE  i <= HighestId'
        BY <3>1
      <4>2. i <= h /\ i \in Nat
        BY <1>2, <3>1, <3>2, <4>1, Numbers DEF IInv, IdsOK, Proc, Ids
      <4>. QED
        BY <1>3, <3>2, <4>2
    <3>4. ASSUME proc[b].at \in {"chosen", "approved"}
          PROVE  /\ proc[b].id <= HighestId'
                 /\ \/ results'[proc[b].id] = NoResult
                    \/ /\ results'[proc[b].id].movie = proc[b].movie
                       /\ results'[proc[b].id].serial = proc[b].serial
      <4>1. proc[b].id \in Ids /\ proc[b].id \in Nat
        BY <3>4, Numbers DEF IInv, PlacesOK, Ids
      <4>2. /\ proc[b].id <= h
            /\ \/ results[proc[b].id] = NoResult
               \/ /\ results[proc[b].id].movie = proc[b].movie
                  /\ results[proc[b].id].serial = proc[b].serial
        BY <1>2, <3>2, <3>4 DEF IInv, IdsOK
      <4>3. proc[b].id # h + 1 /\ proc[b].id <= HighestId'
        BY <1>3, <3>2, <4>1, <4>2
      <4>. QED
        BY <1>3, <4>1, <4>2, <4>3
    <3>5. proc[b].at = "download" => proc[b].got = proc[b].serial
      BY <3>2 DEF IInv, IdsOK
    <3>. QED
      BY <3>1, <3>3, <3>4, <3>5
  <2>. QED
    BY <2>1, <2>2
<1>14. IdsOK'
  BY <1>13 DEF IdsOK
<1>15. HandsOK'
  <2>1. SUFFICES ASSUME ~erased, NEW r \in Requests
                 PROVE  /\ proc'[r].at \in Moving /\ ~proc'[r].search => proc'[r].movie \in byHand
                        /\ proc'[r].search => proc'[r].at \in {"search", "asking", "storing"}
    BY <1>4, <1>5 DEF HandsOK
  <2>2. CASE r = a
    BY <1>1, <1>6, <1>7, <2>1, <2>2 DEF IInv, HandsOK, Rests, Moving
  <2>3. CASE r # a
    <3>1. proc'[r] = proc[r]
      BY <1>7, <2>3, Numbers
    <3>. QED
      BY <2>1, <3>1 DEF IInv, HandsOK
  <2>. QED
    BY <2>2, <2>3
<1>16. ASSUME ~erased', NEW m \in Movies \ byHand, NEW c \in Runners, proc'[c].movie = m
       PROVE  /\ proc'[c].at \in Searches => proc'[c].film = movie[m].film
              /\ proc'[c].at = "chosen" =>
                   \/ results'[proc'[c].id] = NoResult
                   \/ results'[proc'[c].id].film = movie[m].film
              /\ proc'[c].at = "download" =>
                   proc'[c].film = movie[m].film /\ movie[m].status = "downloading"
  <2>1. CASE c = a
    <3>1. CASE Rests(x)
      BY <1>7, <2>1, <3>1 DEF Rests, Moving, Searches
    <3>2. CASE ~Rests(x)
      <4>1. /\ x.at = "chosen" /\ x.movie = proc[a].movie /\ x.id = h + 1
            /\ proc[a].best # "empty"
        BY <1>6, <3>2
      <4>2. results'[x.id].film = proc[a].film
        BY <1>3, <1>16, <4>1 DEF Stores
      <4>3. proc[a].film = movie[m].film
        BY <1>1, <1>5, <1>7, <1>16, <2>1, <4>1 DEF IInv, MoviesOK, Searches
      <4>. QED
        BY <1>7, <1>8, <2>1, <4>1, <4>2, <4>3
    <3>. QED
      BY <3>1, <3>2
  <2>2. CASE c # a
    <3>1. proc'[c] = proc[c] /\ c \in Actors
      BY <1>7, <2>2, Numbers
    <3>2. /\ proc[c].at \in Searches => proc[c].film = movie[m].film
          /\ proc[c].at = "chosen" =>
               results[proc[c].id] = NoResult \/ results[proc[c].id].film = movie[m].film
          /\ proc[c].at = "download" =>
               proc[c].film = movie[m].film /\ movie[m].status = "downloading"
      BY <1>5, <1>16, <3>1 DEF IInv, MoviesOK
    <3>3. proc[c].at = "chosen" =>
            results'[proc[c].id] = NoResult \/ results'[proc[c].id] = results[proc[c].id]
      <4>1. SUFFICES ASSUME proc[c].at = "chosen"
                     PROVE  results'[proc[c].id] = NoResult \/ results'[proc[c].id] = results[proc[c].id]
        OBVIOUS
      <4>2. proc[c].id \in Ids /\ proc[c].id \in Nat /\ proc[c].id <= h
        BY <1>2, <1>5, <1>16, <3>1, <4>1, Numbers DEF IInv, PlacesOK, IdsOK, Ids
      <4>. QED
        BY <1>3, <4>2
    <3>. QED
      BY <3>1, <3>2, <3>3
  <2>. QED
    BY <2>1, <2>2
<1>17. MoviesOK'
  <2>1. \A c \in Runners : Claimed(c)' \subseteq Claimed(c)
    BY <1>1, <1>4, <1>6, <1>7, Numbers DEF Claimed, Rests, Moving
  <2>. QED
    BY <1>4, <1>5, <1>16, <2>1 DEF IInv, MoviesOK
<1>. QED
  BY <1>9, <1>10, <1>11, <1>12, <1>14, <1>15, <1>17 DEF IInv

-----------------------------------------------------------------------------
(* The download                                                            *)

(* Of two cycles that are at a movie, there is one.                        *)
LEMMA OneRunner ==
  ASSUME IInv, NEW c \in Runners, NEW d \in Runners, proc[c].at # "idle", proc[d].at # "idle"
  PROVE  c = d
<1>1. cycle[c].at = "loop" /\ cycle[d].at = "loop"
  BY DEF IInv, CyclesOK
<1>. QED
  BY <1>1 DEF IInv, CyclesOK

(* A movie whose status changes while its task returns.                    *)
LEMMA AskForReviewKeeps ==
  ASSUME IInv, NEW a \in Actors, AskForReview(a)
  PROVE  IInv'
<1>1. PICK m : m = proc[a].movie
  OBVIOUS
<1>2. proc[a].at = "chosen" /\ m \in Movies
  BY <1>1 DEF AskForReview, IInv, PlacesOK, Moving
<1>3. PICK x \in Proc : Becomes(a, x) /\ Rests(x) /\ (a \in Requests => x.at = "idle")
  BY ReturnEffect DEF AskForReview, IInv
<1>4. UNCHANGED <<results, left, failed, paused, running, stop, cooling, inWindow, cycle,
                  used, byHand, erased>>
  BY DEF AskForReview, health, flags, clock, history
<1>5. /\ movie' \in [Movies -> Film]
      /\ \A k \in Movies : movie'[k].film = movie[k].film /\ (k # m => movie'[k] = movie[k])
  BY <1>1, <1>2 DEF AskForReview, IInv, Typed, Film, MovieStatus
<1>6. /\ proc' \in [Actors -> Proc] /\ proc'[a] = x
      /\ \A b \in Actors : b # a => proc'[b] = proc[b]
  BY <1>3, BecomesEffect DEF IInv
<1>7. Typed'
  BY <1>4, <1>5, <1>6 DEF IInv, Typed
<1>8. SerialsOK'
  BY <1>3, <1>4, RestFits, SerialsKeep
<1>9. CyclesOK'
  BY <1>2, <1>3, <1>4, CyclesKeep DEF Stays, Rests
<1>10. MoviesOK'
  <2>1. SUFFICES ASSUME ~erased, NEW k \in Movies \ byHand
                 PROVE  /\ left[k] <= 1
                        /\ left[k] = 1 => /\ movie'[k].status = "downloading"
                                          /\ \A c \in Runners : k \notin Claimed(c)'
                        /\ \A c \in Runners : proc'[c].movie = k =>
                             /\ proc'[c].at \in Searches => proc'[c].film = movie'[k].film
                             /\ proc'[c].at = "chosen" =>
                                  \/ results[proc'[c].id] = NoResult
                                  \/ results[proc'[c].id].film = movie'[k].film
                             /\ proc'[c].at = "download" =>
                                  /\ proc'[c].film = movie'[k].film
                                  /\ movie'[k].status = "downloading"
    BY <1>4 DEF MoviesOK
  <2>2. k = m => a \in Runners
    BY <1>1, <1>2, <2>1, Numbers DEF IInv, HandsOK, Moving
  <2>3. \A c \in Runners : Claimed(c)' \subseteq Claimed(c)
    BY <1>3, <1>4, <1>6, Numbers DEF Claimed, Rests
  <2>4. k = m => left[k] # 1
    BY <1>1, <1>2, <2>1, <2>2 DEF IInv, MoviesOK, Claimed, Moving
  <2>5. ASSUME NEW c \in Runners, proc'[c].movie = k
        PROVE  c # a /\ proc'[c] = proc[c] /\ (k = m => proc[c].at = "idle")
    <3>1. c # a
      BY <1>3, <1>6, <2>1, <2>5, Numbers DEF Rests
    <3>2. k = m => proc[c].at = "idle"
      BY <1>2, <2>2, <3>1, OneRunner
    <3>. QED
      BY <1>6, <3>1, <3>2, Numbers
  <2>6. ASSUME NEW c \in Runners, proc'[c].movie = k
        PROVE  /\ proc'[c].at \in Searches => proc'[c].film = movie'[k].film
               /\ proc'[c].at = "chosen" =>
                    \/ results[proc'[c].id] = NoResult
                    \/ results[proc'[c].id].film = movie'[k].film
               /\ proc'[c].at = "download" =>
                    proc'[c].film = movie'[k].film /\ movie'[k].status = "downloading"
    BY <1>5, <2>1, <2>5, <2>6 DEF IInv, MoviesOK
  <2>. QED
    BY <1>5, <2>1, <2>3, <2>4, <2>6 DEF IInv, MoviesOK
<1>. QED
  BY <1>3, <1>4, <1>7, <1>8, <1>9, <1>10, RestFits, TaskKeeps

LEMMA StartDownloadKeeps ==
  ASSUME IInv, NEW a \in Actors, StartDownload(a)
  PROVE  IInv'
<1>1. PICK r : r = results[proc[a].id]
  OBVIOUS
<1>2. /\ proc[a].at \in {"chosen", "approved"} /\ proc[a] \in Proc /\ proc[a].id \in Ids
      /\ (proc[a].at = "approved" => a \in Requests)
  BY DEF StartDownload, IInv, Typed, PlacesOK
<1>3. UNCHANGED <<results, left, failed, paused, running, stop, cooling, inWindow, cycle,
                  used, byHand, erased>>
  BY DEF StartDownload, health, flags, clock, history
<1>4. CASE r = NoResult
  <2>1. proc' = Return(a, "raised") /\ UNCHANGED movie
    BY <1>1, <1>4 DEF StartDownload
  <2>. QED
    BY <1>2, <1>3, <2>1, ReturnKeeps
<1>5. CASE r # NoResult
  <2>1. /\ movie' = Taken(r.movie)
        /\ proc' = [proc EXCEPT ![a] = [proc[a] EXCEPT !.at = "download", !.movie = r.movie, !.id = 0,
                                                       !.film = r.film, !.got = r.serial]]
    BY <1>1, <1>5 DEF StartDownload
  <2>2. PICK x : x = [proc[a] EXCEPT !.at = "download", !.movie = r.movie, !.id = 0,
                                     !.film = r.film, !.got = r.serial]
    OBVIOUS
  <2>3. r \in Result
    BY <1>1, <1>2, <1>5 DEF IInv, Typed
  <2>4. x \in Proc
    <3>1. 0 \in 0..MaxSearches /\ r.serial \in Nat /\ r.film \in Nat /\ r.movie \in Movies
      BY <2>3, Numbers DEF Result
    <3>. QED
      BY <1>2, <2>2, <3>1 DEF Proc, Places
  <2>5. /\ x.at = "download" /\ x.movie = r.movie /\ x.film = r.film /\ x.got = r.serial
        /\ x.serial = proc[a].serial /\ x.search = proc[a].search
    BY <1>2, <2>2 DEF Proc
  <2>6. Becomes(a, x)
    BY <2>1, <2>2 DEF Becomes
  <2>7. /\ proc' \in [Actors -> Proc] /\ proc'[a] = x
        /\ \A b \in Actors : b # a => proc'[b] = proc[b]
    BY <2>4, <2>6, BecomesEffect DEF IInv
  <2>8. /\ movie' \in [Movies -> Film]
        /\ \A k \in Movies : /\ movie'[k].film = movie[k].film
                             /\ movie[k].status = "downloading" => movie'[k].status = "downloading"
        /\ movie'[r.movie].status = "downloading"
    BY <2>1, <2>3 DEF Taken, IInv, Typed, Film, MovieStatus, Result
  <2>9. ~erased => r.movie = proc[a].movie /\ r.serial = proc[a].serial
    BY <1>1, <1>2, <1>5 DEF IInv, IdsOK
  <2>10. Typed'
    BY <1>3, <2>7, <2>8 DEF IInv, Typed
  <2>11. SerialsOK'
    BY <1>3, <2>4, <2>5, <2>6, SerialsKeep DEF Searches
  <2>12. CyclesOK'
    BY <1>2, <1>3, <2>4, <2>5, <2>6, CyclesKeep DEF Stays, Moving
  <2>13. MoviesOK'
    <3>1. SUFFICES ASSUME ~erased, NEW k \in Movies \ byHand
                   PROVE  /\ left[k] <= 1
                          /\ left[k] = 1 => /\ movie'[k].status = "downloading"
                                            /\ \A c \in Runners : k \notin Claimed(c)'
                          /\ \A c \in Runners : proc'[c].movie = k =>
                               /\ proc'[c].at \in Searches => proc'[c].film = movie'[k].film
                               /\ proc'[c].at = "chosen" =>
                                    \/ results[proc'[c].id] = NoResult
                                    \/ results[proc'[c].id].film = movie'[k].film
                               /\ proc'[c].at = "download" =>
                                    /\ proc'[c].film = movie'[k].film
                                    /\ movie'[k].status = "downloading"
      BY <1>3 DEF MoviesOK
    <3>2. \A c \in Runners : Claimed(c)' \subseteq Claimed(c)
      BY <1>2, <1>3, <2>5, <2>7, <2>9, <3>1, Numbers DEF Claimed, Moving
    <3>3. ASSUME NEW c \in Runners, proc'[c].movie = k
          PROVE  /\ proc'[c].at \in Searches => proc'[c].film = movie'[k].film
                 /\ proc'[c].at = "chosen" =>
                      \/ results[proc'[c].id] = NoResult
                      \/ results[proc'[c].id].film = movie'[k].film
                 /\ proc'[c].at = "download" =>
                      proc'[c].film = movie'[k].film /\ movie'[k].status = "downloading"
      <4>1. CASE c = a
        <5>1. proc[a].at = "chosen" /\ proc[a].movie = k /\ r.movie = k
          BY <1>2, <2>5, <2>7, <2>9, <3>1, <3>3, <4>1, Numbers
        <5>2. r.film = movie[k].film
          BY <1>1, <1>5, <3>1, <3>3, <4>1, <5>1 DEF IInv, MoviesOK
        <5>. QED
          BY <2>5, <2>7, <2>8, <3>1, <4>1, <5>1, <5>2 DEF Searches
      <4>2. CASE c # a
        <5>1. proc'[c] = proc[c]
          BY <2>7, <4>2, Numbers
        <5>. QED
          BY <2>8, <3>1, <3>3, <5>1 DEF IInv, MoviesOK
      <4>. QED
        BY <4>1, <4>2
    <3>. QED
      BY <2>8, <3>1, <3>2, <3>3 DEF IInv, MoviesOK
  <2>14. PlaceFits(a, x) /\ (~erased => IdFits(x))
    BY <2>3, <2>5, <2>9 DEF PlaceFits, IdFits, Result
  <2>15. ~erased => HandFits(a, x)'
    BY <1>2, <1>3, <2>5, <2>9 DEF HandFits, IInv, HandsOK, Moving
  <2>. QED
    BY <1>3, <2>4, <2>6, <2>10, <2>11, <2>12, <2>13, <2>14, <2>15, TaskKeeps
<1>. QED
  BY <1>4, <1>5

(* What the end of a download makes of the movies.                         *)
LEMMA OutcomeEffect ==
  ASSUME Typed, NEW m \in Movies, NEW replaced \in BOOLEAN, movie' = Outcome(m, replaced)
  PROVE  movie' \in [Movies -> Film] /\ \A k \in Movies : k # m => movie'[k] = movie[k]
<1>1. PICK s, n : /\ s = IF replaced THEN "improved" ELSE "failed"
                  /\ n = movie[m].film + IF replaced THEN 1 ELSE 0
  OBVIOUS
<1>2. s \in MovieStatus /\ n \in Nat /\ movie[m] \in Film
  BY <1>1 DEF Typed, Film, MovieStatus
<1>3. PICK f : f = [movie[m] EXCEPT !.status = s, !.film = n]
  OBVIOUS
<1>4. f \in Film
  BY <1>2, <1>3 DEF Film
<1>5. movie' = [movie EXCEPT ![m] = f]
  BY <1>1, <1>3 DEF Outcome
<1>. QED
  BY <1>4, <1>5 DEF Typed

LEMMA DownloadEndsKeeps ==
  ASSUME IInv, NEW a \in Actors, NEW replaced \in BOOLEAN, DownloadEnds(a, replaced)
  PROVE  IInv'
<1>1. PICK m : m = proc[a].movie
  OBVIOUS
<1>2. proc[a].at = "download" /\ m \in Movies
  BY <1>1 DEF DownloadEnds, IInv, PlacesOK, Moving
<1>3. PICK x \in Proc : Becomes(a, x) /\ Rests(x) /\ (a \in Requests => x.at = "idle")
  BY ReturnEffect DEF DownloadEnds, IInv
<1>4. UNCHANGED <<results, left, failed, paused, running, stop, cooling, inWindow,
                  used, byHand, erased>>
  BY DEF DownloadEnds, health, flags, clock, history
<1>5. movie' \in [Movies -> Film] /\ \A k \in Movies : k # m => movie'[k] = movie[k]
  BY <1>1, <1>2, OutcomeEffect DEF DownloadEnds, IInv
<1>6. /\ proc' \in [Actors -> Proc] /\ proc'[a] = x
      /\ \A b \in Actors : b # a => proc'[b] = proc[b]
  BY <1>3, BecomesEffect DEF IInv
<1>7. /\ cycle' \in [Runners -> CycleRow]
      /\ \A c \in Runners : /\ cycle'[c].at = cycle[c].at /\ cycle'[c].todo = cycle[c].todo
                            /\ cycle'[c].improved \in {cycle[c].improved, cycle[c].improved + 1}
                            /\ cycle'[c].improved # cycle[c].improved => c = a
  BY DEF DownloadEnds, IInv, Typed, CycleRow
<1>8. Typed'
  BY <1>4, <1>5, <1>6, <1>7 DEF IInv, Typed
<1>9. SerialsOK'
  BY <1>3, <1>4, RestFits, SerialsKeep
<1>10. CyclesOK'
  <2>1. ASSUME NEW c \in Runners
        PROVE  /\ cycle'[c].improved <= MaxDownloads
               /\ cycle'[c].at # "loop" => cycle'[c].todo = {}
               /\ proc'[c].at # "idle" => cycle'[c].at = "loop"
               /\ proc'[c].at \in Moving => cycle'[c].improved < MaxDownloads
    <3>1. cycle[c].improved \in Nat
      BY DEF IInv, Typed, CycleRow
    <3>2. CASE c = a
      BY <1>2, <1>3, <1>6, <1>7, <2>1, <3>1, <3>2, Numbers DEF IInv, CyclesOK, Rests, Moving
    <3>3. CASE c # a
      BY <1>6, <1>7, <2>1, <3>3, Numbers DEF IInv, CyclesOK
    <3>. QED
      BY <3>2, <3>3
  <2>2. \A c, d \in Runners : cycle'[c].at # "idle" /\ cycle'[d].at # "idle" => c = d
    BY <1>7 DEF IInv, CyclesOK
  <2>3. running' <=> \E c \in Runners : cycle'[c].at # "idle"
    BY <1>4, <1>7 DEF IInv, CyclesOK
  <2>. QED
    BY <2>1, <2>2, <2>3 DEF CyclesOK
<1>11. MoviesOK'
  <2>1. SUFFICES ASSUME ~erased, NEW k \in Movies \ byHand
                 PROVE  /\ left[k] <= 1
                        /\ left[k] = 1 => /\ movie'[k].status = "downloading"
                                          /\ \A c \in Runners : k \notin Claimed(c)'
                        /\ \A c \in Runners : proc'[c].movie = k =>
                             /\ proc'[c].at \in Searches => proc'[c].film = movie'[k].film
                             /\ proc'[c].at = "chosen" =>
                                  \/ results[proc'[c].id] = NoResult
                                  \/ results[proc'[c].id].film = movie'[k].film
                             /\ proc'[c].at = "download" =>
                                  /\ proc'[c].film = movie'[k].film
                                  /\ movie'[k].status = "downloading"
    BY <1>4 DEF MoviesOK
  <2>2. k = m => a \in Runners
    BY <1>1, <1>2, <2>1, Numbers DEF IInv, HandsOK, Moving
  <2>3. \A c \in Runners : Claimed(c)' \subseteq Claimed(c)
    BY <1>3, <1>6, <1>7, Numbers DEF Claimed, Rests
  <2>4. k = m => left[k] # 1
    BY <1>1, <1>2, <2>1, <2>2 DEF IInv, MoviesOK, Claimed, Moving
  <2>5. ASSUME NEW c \in Runners, proc'[c].movie = k
        PROVE  c # a /\ proc'[c] = proc[c] /\ (k = m => proc[c].at = "idle")
    <3>1. c # a
      BY <1>3, <1>6, <2>1, <2>5, Numbers DEF Rests
    <3>2. k = m => proc[c].at = "idle"
      BY <1>2, <2>2, <3>1, OneRunner
    <3>. QED
      BY <1>6, <3>1, <3>2, Numbers
  <2>6. ASSUME NEW c \in Runners, proc'[c].movie = k
        PROVE  /\ proc'[c].at \in Searches => proc'[c].film = movie'[k].film
               /\ proc'[c].at = "chosen" =>
                    \/ results[proc'[c].id] = NoResult
                    \/ results[proc'[c].id].film = movie'[k].film
               /\ proc'[c].at = "download" =>
                    proc'[c].film = movie'[k].film /\ movie'[k].status = "downloading"
    <3>1. CASE k = m
      BY <2>5, <2>6, <3>1 DEF Searches
    <3>2. CASE k # m
      BY <1>5, <2>1, <2>5, <2>6, <3>2 DEF IInv, MoviesOK
    <3>. QED
      BY <3>1, <3>2
  <2>. QED
    BY <1>5, <2>1, <2>3, <2>4, <2>6 DEF IInv, MoviesOK
<1>. QED
  BY <1>3, <1>4, <1>8, <1>9, <1>10, <1>11, RestFits, TaskKeeps

-----------------------------------------------------------------------------
(* The cycle, the recovery, and the clock                                  *)

(* A step that moves no task.                                              *)
LEMMA StillKeeps ==
  ASSUME IInv, UNCHANGED <<proc, results, erased, byHand>>, used'.searches = used.searches,
         Typed', CyclesOK', MoviesOK'
  PROVE  IInv'
<1>1. HighestId' = HighestId /\ Open' = Open
  BY DEF HighestId, Open
<1>2. PlacesOK' /\ SerialsOK' /\ IdsOK' /\ HandsOK'
  BY <1>1 DEF IInv, PlacesOK, SerialsOK, IdsOK, HandsOK
<1>. QED
  BY <1>2 DEF IInv

(* Films keep what the invariant looks at.                                 *)
LEMMA SameMovies ==
  ASSUME IInv, UNCHANGED <<proc, results, erased, byHand, left>>,
         \A m \in Movies : movie'[m].film = movie[m].film /\ movie'[m].status = movie[m].status,
         \A c \in Runners : Claimed(c)' \subseteq Claimed(c)
  PROVE  MoviesOK'
BY DEF IInv, MoviesOK

LEMMA RecoveredEndsKeeps ==
  ASSUME IInv, NEW m \in Movies, NEW replaced \in BOOLEAN, RecoveredEnds(m, replaced)
  PROVE  IInv'
<1>1. /\ left[m] > 0 /\ left' = [left EXCEPT ![m] = left[m] - 1]
      /\ movie' = Outcome(m, replaced)
      /\ UNCHANGED <<results, failed, paused, running, stop, cooling, inWindow, cycle, proc,
                     used, byHand, erased>>
  BY DEF RecoveredEnds, health, flags, clock, history
<1>2. movie' \in [Movies -> Film] /\ \A k \in Movies : k # m => movie'[k] = movie[k]
  BY <1>1, OutcomeEffect DEF IInv
<1>3. left[m] \in Nat /\ left' \in [Movies -> Nat]
      /\ left'[m] = left[m] - 1 /\ \A k \in Movies : k # m => left'[k] = left[k]
  BY <1>1 DEF IInv, Typed
<1>4. Typed'
  BY <1>1, <1>2, <1>3 DEF IInv, Typed
<1>5. CyclesOK'
  BY <1>1 DEF IInv, CyclesOK
<1>6. MoviesOK'
  <2>1. SUFFICES ASSUME ~erased, NEW k \in Movies \ byHand
                 PROVE  /\ left'[k] <= 1
                        /\ left'[k] = 1 => /\ movie'[k].status = "downloading"
                                           /\ \A c \in Runners : k \notin Claimed(c)
                        /\ \A c \in Runners : proc[c].movie = k =>
                             /\ proc[c].at \in Searches => proc[c].film = movie'[k].film
                             /\ proc[c].at = "chosen" =>
                                  \/ results[proc[c].id] = NoResult
                                  \/ results[proc[c].id].film = movie'[k].film
                             /\ proc[c].at = "download" =>
                                  /\ proc[c].film = movie'[k].film
                                  /\ movie'[k].status = "downloading"
    BY <1>1 DEF MoviesOK, Claimed
  <2>2. CASE k = m
    <3>1. left[m] = 1 /\ left'[k] = 0 /\ \A c \in Runners : m \notin Claimed(c)
      BY <1>1, <1>3, <2>1, <2>2 DEF IInv, MoviesOK
    <3>2. \A c \in Runners : proc[c].movie = k => proc[c].at \notin Moving
      BY <2>2, <3>1 DEF Claimed
    <3>. QED
      BY <3>1, <3>2 DEF Searches, Moving
  <2>3. CASE k # m
    BY <1>2, <1>3, <2>1, <2>3 DEF IInv, MoviesOK
  <2>. QED
    BY <2>2, <2>3
<1>. QED
  BY <1>1, <1>4, <1>5, <1>6, StillKeeps

LEMMA StartCycleKeeps ==
  ASSUME IInv, NEW c \in Runners, StartCycle(c)
  PROVE  IInv'
<1>1. /\ cycle[c].at = "idle" /\ ~running /\ running' = TRUE /\ stop' = FALSE /\ cooling' = TRUE
      /\ UNCHANGED <<movie, results, left, failed, paused, inWindow, proc, byHand, erased>>
  BY DEF StartCycle, tables, health, history
<1>2. PICK n : n = [NoCycle EXCEPT !.at = "scan"]
  OBVIOUS
<1>3. n = [at |-> "scan", todo |-> {}, improved |-> 0]
  BY <1>2 DEF NoCycle
<1>4. n \in CycleRow
  BY <1>3 DEF CycleRow
<1>5. /\ cycle' \in [Runners -> CycleRow] /\ cycle'[c] = n
      /\ \A d \in Runners : d # c => cycle'[d] = cycle[d]
  BY <1>2, <1>4 DEF StartCycle, IInv, Typed
<1>6. used' \in Use /\ used'.searches = used.searches
  BY DEF StartCycle, IInv, Typed, Use
<1>7. Typed'
  BY <1>1, <1>5, <1>6 DEF IInv, Typed
<1>8. \A d \in Runners : cycle[d].at = "idle" /\ proc[d].at = "idle"
  BY <1>1 DEF IInv, CyclesOK
<1>9. CyclesOK'
  <2>1. \A d \in Runners : proc'[d].at = "idle" /\ proc'[d].at \notin Moving
    BY <1>1, <1>8 DEF Moving
  <2>2. /\ \A d \in Runners : cycle'[d].at # "idle" => d = c
        /\ cycle'[c].at = "scan"
    BY <1>3, <1>5, <1>8
  <2>3. \A d \in Runners : /\ cycle'[d].improved <= MaxDownloads
                           /\ cycle'[d].at # "loop" => cycle'[d].todo = {}
    BY <1>3, <1>5, Numbers DEF IInv, CyclesOK
  <2>. QED
    BY <1>1, <2>1, <2>2, <2>3 DEF CyclesOK
<1>10. \A d \in Runners : Claimed(d)' \subseteq Claimed(d)
  BY <1>1, <1>3, <1>5 DEF Claimed
<1>11. MoviesOK'
  BY <1>1, <1>10, SameMovies
<1>. QED
  BY <1>1, <1>6, <1>7, <1>9, <1>11, StillKeeps

LEMMA ListMoviesKeeps ==
  ASSUME IInv, NEW c \in Runners, ListMovies(c)
  PROVE  IInv'
<1>1. /\ cycle[c].at = "scan"
      /\ cycle' = [cycle EXCEPT ![c] = [cycle[c] EXCEPT !.at = "loop", !.todo = Listed]]
      /\ UNCHANGED <<movie, results, left, failed, paused, running, stop, cooling, inWindow,
                     proc, used, byHand, erased>>
  BY DEF ListMovies, tables, health, flags, clock, history
<1>2. Listed \in SUBSET Movies
  BY DEF Listed
<1>3. /\ cycle' \in [Runners -> CycleRow]
      /\ cycle'[c].at = "loop" /\ cycle'[c].todo = Listed /\ cycle'[c].improved = cycle[c].improved
      /\ \A d \in Runners : d # c => cycle'[d] = cycle[d]
  BY <1>1, <1>2 DEF IInv, Typed, CycleRow
<1>4. Typed'
  BY <1>1, <1>3 DEF IInv, Typed
<1>5. CyclesOK'
  <2>1. \A d \in Runners : (cycle'[d].at # "idle" <=> cycle[d].at # "idle")
    BY <1>1, <1>3
  <2>2. ASSUME NEW d \in Runners
        PROVE  /\ cycle'[d].improved <= MaxDownloads
               /\ cycle'[d].at # "loop" => cycle'[d].todo = {}
               /\ proc'[d].at # "idle" => cycle'[d].at = "loop"
               /\ proc'[d].at \in Moving => cycle'[d].improved < MaxDownloads
    BY <1>1, <1>3 DEF IInv, CyclesOK
  <2>3. /\ \A d, e \in Runners : cycle'[d].at # "idle" /\ cycle'[e].at # "idle" => d = e
        /\ running' <=> \E d \in Runners : cycle'[d].at # "idle"
    BY <1>1, <2>1 DEF IInv, CyclesOK
  <2>. QED
    BY <2>2, <2>3 DEF CyclesOK
<1>6. \A d \in Runners : Claimed(d)' \subseteq Claimed(d) \cup Listed
  BY <1>1, <1>3 DEF Claimed
<1>7. \A m \in Movies : movie[m].status = "downloading" => m \notin Listed
  BY DEF Listed
<1>8. MoviesOK'
  BY <1>1, <1>6, <1>7 DEF IInv, MoviesOK
<1>. QED
  BY <1>1, <1>4, <1>5, <1>8, StillKeeps

LEMMA TakeMovieKeeps ==
  ASSUME IInv, NEW c \in Runners, TakeMovie(c)
  PROVE  IInv'
<1>1. PICK m \in cycle[c].todo :
        /\ cycle' = [cycle EXCEPT ![c].todo = cycle[c].todo \ {m}]
        /\ proc' = [proc EXCEPT ![c] =
                      IF Protected(m) THEN [NoProc EXCEPT !.at = "returned"]
                      ELSE [NoProc EXCEPT !.at = "search", !.movie = m]]
  BY DEF TakeMovie
<1>2. /\ cycle[c].at = "loop" /\ cycle[c].improved < MaxDownloads
      /\ UNCHANGED <<movie, results, left, failed, paused, running, stop, cooling, inWindow,
                     used, byHand, erased>>
  BY DEF TakeMovie, AtHead, MayContinue, tables, health, flags, clock, history
<1>3. c \in Actors /\ m \in Movies /\ cycle[c] \in CycleRow
  BY Numbers DEF IInv, Typed, CycleRow
<1>4. PICK x \in Proc : /\ Becomes(c, x)
                        /\ \/ Rests(x)
                           \/ x.at = "search" /\ x.movie = m /\ ~x.search
  <2>1. PICK x : x = IF Protected(m) THEN [NoProc EXCEPT !.at = "returned"]
                     ELSE [NoProc EXCEPT !.at = "search", !.movie = m]
    OBVIOUS
  <2>2. CASE Protected(m)
    <3>1. x = [NoProc EXCEPT !.at = "returned"]
      BY <2>1, <2>2
    <3>2. x \in Proc /\ Rests(x)
      BY <3>1, Resting
    <3>3. Becomes(c, x)
      BY <1>1, <2>1 DEF Becomes
    <3>. QED
      BY <3>2, <3>3
  <2>3. CASE ~Protected(m)
    <3>1. x = [at |-> "search", movie |-> m, film |-> 0, id |-> 0, serial |-> 0, got |-> 0,
               best |-> "empty", verdict |-> "nothing", old |-> {}, search |-> FALSE]
      BY <2>1, <2>3 DEF NoProc
    <3>2. x \in Proc
      BY <1>3, <3>1, Numbers DEF Proc, Places
    <3>3. Becomes(c, x)
      BY <1>1, <2>1 DEF Becomes
    <3>4. x.at = "search" /\ x.movie = m /\ ~x.search
      BY <3>1
    <3>. QED
      BY <3>2, <3>3, <3>4
  <2>. QED
    BY <2>2, <2>3
<1>5. /\ proc' \in [Actors -> Proc] /\ proc'[c] = x
      /\ \A b \in Actors : b # c => proc'[b] = proc[b]
  BY <1>3, <1>4, BecomesEffect DEF IInv
<1>6. /\ cycle' \in [Runners -> CycleRow]
      /\ cycle'[c].at = cycle[c].at /\ cycle'[c].todo = cycle[c].todo \ {m}
      /\ cycle'[c].improved = cycle[c].improved
      /\ \A d \in Runners : d # c => cycle'[d] = cycle[d]
  BY <1>1, <1>3 DEF IInv, Typed, CycleRow
<1>7. Typed'
  BY <1>2, <1>5, <1>6 DEF IInv, Typed
<1>8. SerialsOK'
  BY <1>2, <1>3, <1>4, RestFits, SerialsKeep DEF Searches
<1>9. CyclesOK'
  <2>1. \A d \in Runners : cycle'[d].at = cycle[d].at
    BY <1>6
  <2>2. ASSUME NEW d \in Runners
        PROVE  /\ cycle'[d].improved <= MaxDownloads
               /\ cycle'[d].at # "loop" => cycle'[d].todo = {}
               /\ proc'[d].at # "idle" => cycle'[d].at = "loop"
               /\ proc'[d].at \in Moving => cycle'[d].improved < MaxDownloads
    <3>1. CASE d = c
      BY <1>2, <1>6, <3>1 DEF IInv, CyclesOK
    <3>2. CASE d # c
      BY <1>5, <1>6, <3>2, Numbers DEF IInv, CyclesOK
    <3>. QED
      BY <3>1, <3>2
  <2>3. /\ \A d, e \in Runners : cycle'[d].at # "idle" /\ cycle'[e].at # "idle" => d = e
        /\ running' <=> \E d \in Runners : cycle'[d].at # "idle"
    BY <1>2, <2>1 DEF IInv, CyclesOK
  <2>. QED
    BY <2>2, <2>3 DEF CyclesOK
<1>10. MoviesOK'
  <2>1. \A d \in Runners : Claimed(d)' \subseteq Claimed(d)
    BY <1>3, <1>4, <1>5, <1>6, Numbers DEF Claimed, Rests
  <2>2. \A d \in Runners : proc'[d] = proc[d] \/ proc'[d].at \notin Searches \cup {"chosen", "download"}
    BY <1>4, <1>5, Numbers DEF Rests, Moving, Searches
  <2>3. SUFFICES ASSUME ~erased, NEW k \in Movies \ byHand
                 PROVE  /\ left[k] <= 1
                        /\ left[k] = 1 => /\ movie[k].status = "downloading"
                                          /\ \A d \in Runners : k \notin Claimed(d)'
                        /\ \A d \in Runners : proc'[d].movie = k =>
                             /\ proc'[d].at \in Searches => proc'[d].film = movie[k].film
                             /\ proc'[d].at = "chosen" =>
                                  \/ results[proc'[d].id] = NoResult
                                  \/ results[proc'[d].id].film = movie[k].film
                             /\ proc'[d].at = "download" =>
                                  /\ proc'[d].film = movie[k].film
                                  /\ movie[k].status = "downloading"
    BY <1>2 DEF MoviesOK
  <2>. QED
    BY <2>1, <2>2, <2>3 DEF IInv, MoviesOK
<1>11. PlaceFits(c, x) /\ IdFits(x) /\ HandFits(c, x)'
  BY <1>3, <1>4, Numbers DEF PlaceFits, IdFits, HandFits, Rests, Moving
<1>. QED
  BY <1>2, <1>3, <1>4, <1>7, <1>8, <1>9, <1>10, <1>11, TaskKeeps

(* The end of a cycle, whoever has it.                                     *)
LEMMA FinishEffect ==
  ASSUME IInv, NEW c \in Runners, Finish(c), cycle[c].at # "idle"
  PROVE  /\ cycle' \in [Runners -> CycleRow]
         /\ \A d \in Runners : cycle'[d].todo = {} /\ Claimed(d)' = {}
         /\ Becomes(c, NoProc) /\ running' = FALSE /\ stop' = FALSE
         /\ CyclesOK'
<1>1. /\ cycle' = [cycle EXCEPT ![c] = NoCycle] /\ Becomes(c, NoProc)
      /\ running' = FALSE /\ stop' = FALSE /\ c \in Actors
  BY Numbers DEF Finish, Becomes
<1>2. NoCycle \in CycleRow /\ NoCycle.at = "idle" /\ NoCycle.todo = {} /\ NoCycle.improved = 0
  BY DEF NoCycle, CycleRow
<1>3. /\ cycle' \in [Runners -> CycleRow] /\ cycle'[c] = NoCycle
      /\ \A d \in Runners : d # c => cycle'[d] = cycle[d]
  BY <1>1, <1>2 DEF IInv, Typed
<1>4. NoProc \in Proc /\ NoProc.at = "idle" /\ NoProc.at \notin Moving
  BY Resting DEF Rests
<1>5. proc'[c] = NoProc /\ \A b \in Actors : b # c => proc'[b] = proc[b]
  BY <1>1, <1>4, BecomesEffect DEF IInv
<1>6. ASSUME NEW d \in Runners
      PROVE  /\ cycle'[d].at = "idle" /\ cycle'[d].todo = {} /\ proc'[d].at = "idle"
             /\ proc'[d].at \notin Moving /\ cycle'[d].improved <= MaxDownloads
  <2>1. CASE d = c
    BY <1>2, <1>3, <1>4, <1>5, <2>1, Numbers
  <2>2. CASE d # c
    <3>1. cycle[d].at = "idle" /\ cycle[d].todo = {} /\ cycle[d].improved <= MaxDownloads
      BY <2>2 DEF IInv, CyclesOK
    <3>2. proc[d].at = "idle"
      BY <3>1 DEF IInv, CyclesOK
    <3>. QED
      BY <1>3, <1>5, <2>2, <3>1, <3>2, Numbers DEF Moving
  <2>. QED
    BY <2>1, <2>2
<1>7. CyclesOK'
  BY <1>1, <1>6 DEF CyclesOK
<1>. QED
  BY <1>1, <1>3, <1>6, <1>7 DEF Claimed

LEMMA EndCycleKeeps ==
  ASSUME IInv, NEW c \in Runners, EndCycle(c)
  PROVE  IInv'
<1>1. /\ Finish(c) /\ cycle[c].at # "idle" /\ c \in Actors
      /\ UNCHANGED <<movie, results, left, failed, paused, cooling, inWindow, used, byHand, erased>>
  BY Numbers DEF EndCycle, AtHead, tables, health, clock, history
<1>2. /\ cycle' \in [Runners -> CycleRow] /\ Becomes(c, NoProc)
      /\ running' = FALSE /\ stop' = FALSE /\ CyclesOK'
      /\ \A d \in Runners : Claimed(d)' = {}
  BY <1>1, FinishEffect
<1>3. NoProc \in Proc /\ Rests(NoProc)
  BY Resting
<1>4. proc' \in [Actors -> Proc] /\ proc'[c] = NoProc /\ \A b \in Actors : b # c => proc'[b] = proc[b]
  BY <1>1, <1>2, <1>3, BecomesEffect DEF IInv
<1>5. Typed'
  BY <1>1, <1>2, <1>4 DEF IInv, Typed
<1>6. SerialsOK'
  BY <1>1, <1>2, <1>3, RestFits, SerialsKeep
<1>7. MoviesOK'
  <2>1. \A d \in Runners : proc'[d] = proc[d] \/ Rests(proc'[d])
    BY <1>3, <1>4, Numbers
  <2>. QED
    BY <1>1, <1>2, <2>1 DEF IInv, MoviesOK, Rests, Moving, Searches
<1>. QED
  BY <1>1, <1>2, <1>3, <1>5, <1>6, <1>7, RestFits, TaskKeeps

LEMMA CancelCycleKeeps ==
  ASSUME IInv, NEW c \in Runners, CancelCycle(c)
  PROVE  IInv'
<1>1. /\ Finish(c) /\ cycle[c].at # "idle" /\ c \in Actors
      /\ UNCHANGED <<movie, results, failed, paused, cooling, inWindow, used, byHand, erased>>
      /\ left' = IF proc[c].at = "download"
                 THEN [left EXCEPT ![proc[c].movie] = left[proc[c].movie] + 1] ELSE left
  BY Numbers DEF CancelCycle, health, clock, history
<1>2. /\ cycle' \in [Runners -> CycleRow] /\ Becomes(c, NoProc)
      /\ running' = FALSE /\ stop' = FALSE /\ CyclesOK'
      /\ \A d \in Runners : Claimed(d)' = {}
  BY <1>1, FinishEffect
<1>3. NoProc \in Proc /\ Rests(NoProc)
  BY Resting
<1>4. proc' \in [Actors -> Proc] /\ proc'[c] = NoProc /\ \A b \in Actors : b # c => proc'[b] = proc[b]
  BY <1>1, <1>2, <1>3, BecomesEffect DEF IInv
<1>5. proc[c].at = "download" => proc[c].movie \in Movies
  BY <1>1 DEF IInv, PlacesOK, Moving
<1>6. /\ left' \in [Movies -> Nat]
      /\ \A m \in Movies : \/ left'[m] = left[m]
                           \/ /\ proc[c].at = "download" /\ proc[c].movie = m
                              /\ left'[m] = left[m] + 1
  BY <1>1, <1>5 DEF IInv, Typed
<1>7. Typed'
  BY <1>1, <1>2, <1>4, <1>6 DEF IInv, Typed
<1>8. SerialsOK'
  BY <1>1, <1>2, <1>3, RestFits, SerialsKeep
<1>9. MoviesOK'
  <2>1. \A d \in Runners : proc'[d] = proc[d] \/ Rests(proc'[d])
    BY <1>3, <1>4, Numbers
  <2>2. ASSUME ~erased, NEW m \in Movies \ byHand
        PROVE  left'[m] <= 1 /\ (left'[m] = 1 => movie[m].status = "downloading")
    <3>1. left[m] \in Nat /\ left[m] <= 1 /\ (left[m] = 1 => movie[m].status = "downloading")
      BY <2>2 DEF IInv, Typed, MoviesOK
    <3>2. CASE left'[m] = left[m]
      BY <3>1, <3>2
    <3>3. CASE proc[c].at = "download" /\ proc[c].movie = m /\ left'[m] = left[m] + 1
      <4>1. m \in Claimed(c)
        BY <3>3 DEF Claimed, Moving
      <4>2. left[m] # 1 /\ movie[m].status = "downloading"
        BY <2>2, <3>3, <4>1 DEF IInv, MoviesOK
      <4>. QED
        BY <3>1, <3>3, <4>2
    <3>. QED
      BY <1>6, <3>2, <3>3
  <2>3. SUFFICES ASSUME ~erased, NEW k \in Movies \ byHand, NEW d \in Runners, proc'[d].movie = k
                 PROVE  /\ proc'[d].at \in Searches => proc'[d].film = movie[k].film
                        /\ proc'[d].at = "chosen" =>
                             \/ results[proc'[d].id] = NoResult
                             \/ results[proc'[d].id].film = movie[k].film
                        /\ proc'[d].at = "download" =>
                             /\ proc'[d].film = movie[k].film
                             /\ movie[k].status = "downloading"
    BY <1>1, <1>2, <2>2 DEF MoviesOK
  <2>. QED
    BY <2>1, <2>3 DEF IInv, MoviesOK, Rests, Moving, Searches
<1>. QED
  BY <1>1, <1>2, <1>3, <1>7, <1>8, <1>9, RestFits, TaskKeeps

-----------------------------------------------------------------------------
(* The requests                                                            *)

(* What a request does first: it has a task, and maybe its hand on a       *)
(* movie.                                                                  *)
LEMMA RequestKeeps ==
  ASSUME IInv, NEW r \in Requests, NEW x \in Proc, Becomes(r, x),
         UNCHANGED <<movie, results, left, failed, paused, running, stop, cooling, inWindow,
                     cycle, erased>>,
         used' = [used EXCEPT !.manual = used.manual + 1],
         byHand \subseteq byHand', byHand' \subseteq Movies,
         x.movie \in Movies, x.at \in {"search", "approved"},
         x.search \/ x.movie \in byHand', x.search => x.at = "search",
         x.at = "approved" =>
           /\ x.id \in Ids /\ results[x.id] # NoResult
           /\ results[x.id].movie = x.movie /\ results[x.id].serial = x.serial
  PROVE  IInv'
<1>1. r \in Actors /\ r \notin Runners
  BY Numbers
<1>2. used' \in Use /\ used'.searches = used.searches
  BY DEF IInv, Typed, Use
<1>3. proc' \in [Actors -> Proc]
  BY <1>1, BecomesEffect DEF IInv
<1>4. Typed'
  BY <1>2, <1>3 DEF IInv, Typed
<1>5. SerialsOK'
  BY <1>1, <1>2, SerialsKeep DEF Searches
<1>6. CyclesOK'
  BY <1>1, CyclesKeep DEF Stays
<1>7. MoviesOK'
  BY <1>1, MoviesKeep DEF SameMovie, MovieFits
<1>8. PlaceFits(r, x) /\ HandFits(r, x)'
  BY DEF PlaceFits, HandFits
<1>9. IdFits(x)
  BY LastIsTop, Highest DEF IdFits, Top
<1>. QED
  BY <1>1, <1>4, <1>5, <1>6, <1>7, <1>8, <1>9, TaskKeeps

LEMMA RequestSearchKeeps ==
  ASSUME IInv, NEW r \in Requests, NEW m \in Movies, RequestSearch(r, m)
  PROVE  IInv'
<1>1. PICK x : x = [NoProc EXCEPT !.at = "search", !.movie = m, !.search = TRUE]
  OBVIOUS
<1>2. x = [at |-> "search", movie |-> m, film |-> 0, id |-> 0, serial |-> 0, got |-> 0,
           best |-> "empty", verdict |-> "nothing", old |-> {}, search |-> TRUE]
  BY <1>1 DEF NoProc
<1>3. x \in Proc
  BY <1>2, Numbers DEF Proc, Places
<1>4. /\ Becomes(r, x) /\ used' = [used EXCEPT !.manual = used.manual + 1]
      /\ UNCHANGED <<movie, results, left, failed, paused, running, stop, cooling, inWindow,
                     cycle, erased, byHand>>
  BY <1>1 DEF RequestSearch, Becomes, tables, health, flags, clock, history
<1>. QED
  BY <1>2, <1>3, <1>4, RequestKeeps DEF IInv, Typed

LEMMA RequestProcessKeeps ==
  ASSUME IInv, NEW r \in Requests, NEW m \in Movies, RequestProcess(r, m)
  PROVE  IInv'
<1>1. PICK x : x = [NoProc EXCEPT !.at = "search", !.movie = m]
  OBVIOUS
<1>2. x = [at |-> "search", movie |-> m, film |-> 0, id |-> 0, serial |-> 0, got |-> 0,
           best |-> "empty", verdict |-> "nothing", old |-> {}, search |-> FALSE]
  BY <1>1 DEF NoProc
<1>3. x \in Proc
  BY <1>2, Numbers DEF Proc, Places
<1>4. /\ Becomes(r, x) /\ used' = [used EXCEPT !.manual = used.manual + 1]
      /\ byHand' = byHand \cup {m}
      /\ UNCHANGED <<movie, results, left, failed, paused, running, stop, cooling, inWindow,
                     cycle, erased>>
  BY <1>1 DEF RequestProcess, Becomes, tables, health, flags, clock
<1>5. byHand' \subseteq Movies
  BY <1>4 DEF IInv, Typed
<1>. QED
  BY <1>2, <1>3, <1>4, <1>5, RequestKeeps

LEMMA RequestDownloadKeeps ==
  ASSUME IInv, NEW r \in Requests, NEW i \in Ids, RequestDownload(r, i)
  PROVE  IInv'
<1>1. PICK x : x = [NoProc EXCEPT !.at = "approved", !.movie = results[i].movie,
                                  !.id = i, !.serial = results[i].serial]
  OBVIOUS
<1>2. x = [at |-> "approved", movie |-> results[i].movie, film |-> 0, id |-> i,
           serial |-> results[i].serial, got |-> 0,
           best |-> "empty", verdict |-> "nothing", old |-> {}, search |-> FALSE]
  BY <1>1 DEF NoProc
<1>3. results[i] # NoResult /\ results[i] \in Result
  BY DEF RequestDownload, IInv, Typed
<1>4. x \in Proc
  <2>1. /\ results[i].movie \in Movies
        /\ results[i].serial \in 0..MaxSearches /\ i \in 0..MaxSearches
    BY <1>3, Numbers DEF Result, Ids
  <2>. QED
    BY <1>2, <2>1, Numbers DEF Proc, Places
<1>5. /\ Becomes(r, x) /\ used' = [used EXCEPT !.manual = used.manual + 1]
      /\ byHand' = byHand \cup {results[i].movie}
      /\ UNCHANGED <<movie, results, left, failed, paused, running, stop, cooling, inWindow,
                     cycle, erased>>
  BY <1>1 DEF RequestDownload, Becomes, tables, health, flags, clock
<1>6. results[i].movie \in Movies /\ byHand' \subseteq Movies
  BY <1>3, <1>5 DEF IInv, Typed, Result
<1>. QED
  BY <1>2, <1>3, <1>4, <1>5, <1>6, RequestKeeps

LEMMA ToggleLockKeeps ==
  ASSUME IInv, NEW m \in Movies, ToggleLock(m)
  PROVE  IInv'
<1>1. /\ movie' = [movie EXCEPT ![m].locked = ~movie[m].locked]
      /\ UNCHANGED <<results, left, failed, paused, running, stop, cooling, inWindow,
                     cycle, proc, byHand, erased>>
  BY DEF ToggleLock, health, flags, clock, history
<1>2. used' \in Use /\ used'.searches = used.searches
  BY DEF ToggleLock, IInv, Typed, Use
<1>3. /\ movie' \in [Movies -> Film]
      /\ \A k \in Movies : movie'[k].film = movie[k].film /\ movie'[k].status = movie[k].status
  <2>1. PICK b \in BOOLEAN : b = ~movie[m].locked
    BY DEF IInv, Typed, Film
  <2>2. movie' = [movie EXCEPT ![m].locked = b]
    BY <1>1, <2>1
  <2>. QED
    BY <2>2 DEF IInv, Typed, Film
<1>4. Typed'
  BY <1>1, <1>2, <1>3 DEF IInv, Typed
<1>5. CyclesOK'
  BY <1>1 DEF IInv, CyclesOK
<1>6. MoviesOK'
  BY <1>1, <1>3, SameMovies DEF Claimed
<1>. QED
  BY <1>1, <1>2, <1>4, <1>5, <1>6, StillKeeps

(* The stop and the clock turn switches that the invariant does not read.  *)
LEMMA SwitchesKeep ==
  ASSUME IInv,
         UNCHANGED <<movie, results, left, failed, running, cycle, proc, used, byHand, erased>>,
         paused' \subseteq paused, stop' \in BOOLEAN, cooling' \in BOOLEAN, inWindow' \in BOOLEAN
  PROVE  IInv'
<1>1. Typed'
  BY DEF IInv, Typed
<1>2. CyclesOK' /\ MoviesOK'
  BY DEF IInv, CyclesOK, MoviesOK, Claimed
<1>. QED
  BY <1>1, <1>2, StillKeeps

-----------------------------------------------------------------------------
LEMMA StepKeeps == IInv /\ [Next]_vars => IInv'
<1>. SUFFICES ASSUME IInv, [Next]_vars PROVE IInv'
  OBVIOUS
<1>1. ASSUME NEW a \in Actors, ProcStep(a) \/ SearchRaises(a)
      PROVE  IInv'
  BY <1>1, ReadMovieKeeps, SourcesAnswerKeeps, StoreResultsKeeps, SearchRaisesKeeps,
     AskForReviewKeeps, StartDownloadKeeps, DownloadEndsKeeps DEF ProcStep
<1>2. ASSUME NEW c \in Runners, CycleStep(c) \/ StartCycle(c) \/ CancelCycle(c)
      PROVE  IInv'
  BY <1>2, ListMoviesKeeps, TakeMovieKeeps, EndCycleKeeps, StartCycleKeeps, CancelCycleKeeps
     DEF CycleStep
<1>3. ASSUME NEW r \in Requests,
             \/ \E m \in Movies : RequestSearch(r, m) \/ RequestProcess(r, m)
             \/ \E i \in Ids : RequestDownload(r, i)
      PROVE  IInv'
  BY <1>3, RequestSearchKeeps, RequestProcessKeeps, RequestDownloadKeeps
<1>4. ASSUME NEW m \in Movies, \/ ToggleLock(m)
                               \/ \E replaced \in BOOLEAN : RecoveredEnds(m, replaced)
      PROVE  IInv'
  BY <1>4, ToggleLockKeeps, RecoveredEndsKeeps
<1>5. ASSUME NEW i \in Indexers, PauseEnds(i)
      PROVE  IInv'
  BY <1>5, SwitchesKeep DEF PauseEnds, tables, flags, clock, history, IInv, Typed
<1>6. CASE RequestStop
  BY <1>6, SwitchesKeep DEF RequestStop, tables, health, clock, history, IInv, Typed
<1>7. CASE CooldownEnds
  BY <1>7, SwitchesKeep DEF CooldownEnds, tables, health, flags, history, IInv, Typed
<1>8. CASE WindowCloses
  BY <1>8, SwitchesKeep DEF WindowCloses, tables, health, flags, history, IInv, Typed
<1>9. CASE UNCHANGED vars
  BY <1>9, SwitchesKeep DEF vars, IInv, Typed
<1>. QED
  BY <1>1, <1>2, <1>3, <1>4, <1>5, <1>6, <1>7, <1>8, <1>9 DEF Next

(* The parts of the invariant hold of every reachable state of the cycle   *)
(* and of the requests beside it (run_full_cycle, process_single_movie,    *)
(* search_for_movie, start_download).                                      *)
THEOREM Invariant == Spec => []IInv
BY InitKeeps, StepKeeps, PTL DEF Spec

(* The flag is up for a cycle at work exactly when a stop was requested of *)
(* it; nobody else was told.                                               *)
ToldOK ==
  /\ told \subseteq Runners
  /\ \A c \in told : cycle[c].at # "idle"
  /\ \A c \in Runners : cycle[c].at # "idle" => (stop <=> c \in told)

LEMMA ToldKeeps ==
  ASSUME IInv, ToldOK, [Next]_vars
  PROVE  ToldOK'
<1>1. cycle \in [Runners -> CycleRow]
  BY DEF IInv, Typed
<1>2. CASE \E c \in Runners : StartCycle(c)
  <2>1. PICK c \in Runners : StartCycle(c)
    BY <1>2
  <2>2. /\ ~running /\ cycle[c].at = "idle" /\ stop' = FALSE /\ told' = told
        /\ \A d \in Runners : d # c => cycle'[d] = cycle[d]
    BY <1>1, <2>1 DEF StartCycle
  <2>3. \A d \in Runners : cycle[d].at = "idle"
    BY <2>2 DEF IInv, CyclesOK
  <2>4. told' = {}
    BY <2>2, <2>3 DEF ToldOK
  <2>. QED
    BY <2>2, <2>3, <2>4 DEF ToldOK
<1>3. CASE \E c \in Runners : EndCycle(c) \/ CancelCycle(c)
  <2>1. PICK c \in Runners : cycle[c].at # "idle" /\ Finish(c)
    BY <1>3 DEF EndCycle, CancelCycle, AtHead
  <2>2. /\ told' = {} /\ stop' = FALSE
    BY <2>1 DEF Finish
  <2>. QED
    BY <2>2 DEF ToldOK
<1>4. CASE RequestStop
  <2>1. /\ stop' = TRUE /\ told' = {c \in Runners : cycle[c].at # "idle"} /\ cycle' = cycle
    BY <1>4 DEF RequestStop
  <2>. QED
    BY <2>1 DEF ToldOK
<1>5. CASE /\ UNCHANGED flags
           /\ \A c \in Runners : cycle'[c].at # "idle" <=> cycle[c].at # "idle"
  BY <1>5 DEF ToldOK, flags
<1>6. CASE UNCHANGED <<flags, cycle>>
  BY <1>5, <1>6
<1>7. CASE \E c \in Runners : ListMovies(c) \/ TakeMovie(c)
  <2>1. PICK c \in Runners : ListMovies(c) \/ TakeMovie(c)
    BY <1>7
  <2>2. UNCHANGED flags /\ cycle[c].at # "idle"
    BY <2>1 DEF ListMovies, TakeMovie, AtHead
  <2>3. cycle'[c].at = "loop" /\ \A d \in Runners : d # c => cycle'[d] = cycle[d]
    BY <1>1, <2>1 DEF ListMovies, TakeMovie, AtHead, CycleRow
  <2>4. \A d \in Runners : cycle'[d].at # "idle" <=> cycle[d].at # "idle"
    BY <2>2, <2>3
  <2>. QED
    BY <1>5, <2>2, <2>4
<1>8. CASE \E a \in Actors, replaced \in BOOLEAN : DownloadEnds(a, replaced)
  <2>1. UNCHANGED flags /\ \A c \in Runners : cycle'[c].at = cycle[c].at
    BY <1>1, <1>8 DEF DownloadEnds, CycleRow
  <2>. QED
    BY <1>5, <2>1
<1>. QED
  BY <1>2, <1>3, <1>4, <1>6, <1>7, <1>8 DEF Next, vars, ProcStep, CycleStep, flags, ReadMovie,
     SourcesAnswer, StoreResults, SearchRaises, AskForReview, StartDownload, RecoveredEnds,
     RequestSearch, RequestProcess, RequestDownload, ToggleLock, CooldownEnds, WindowCloses,
     PauseEnds

LEMMA ToldInvariant == Spec => [](IInv /\ ToldOK)
<1>1. Init => ToldOK
  BY DEF Init, ToldOK, NoCycle
<1>. QED
  BY Invariant, <1>1, ToldKeeps, PTL DEF Spec

(* One cycle is at work at a time, its flag tells of it, and it replaces   *)
(* no more films than its limit, whoever cancels what (run_full_cycle).    *)
THEOREM OneCycle == Spec => []CyclesSound
<1>1. ASSUME IInv, ToldOK PROVE TypeOK
  <2>1. \A c \in Runners : cycle[c] \in CycleRow
    BY <1>1 DEF IInv, Typed
  <2>2. \A a \in Actors : proc[a] \in Proc
    BY <1>1 DEF IInv, Typed
  <2>. QED
    BY <1>1, <2>1, <2>2 DEF IInv, ToldOK, Typed, TypeOK, PlacesOK, CycleRow, Proc, Film
<1>2. ASSUME IInv PROVE RunningIsTrue
  <2>1. PICK busy : busy = {c \in Runners : cycle[c].at # "idle"}
    OBVIOUS
  <2>2. CASE running
    <3>1. \E c : busy = {c}
      BY <1>2, <2>1, <2>2 DEF IInv, CyclesOK
    <3>. QED
      BY <2>1, <2>2, <3>1, FS_Singleton DEF RunningIsTrue
  <2>3. CASE ~running
    <3>1. busy = {}
      BY <1>2, <2>1, <2>3 DEF IInv, CyclesOK
    <3>. QED
      BY <2>1, <2>3, <3>1, FS_EmptySet DEF RunningIsTrue
  <2>. QED
    BY <1>2, <2>2, <2>3 DEF IInv, Typed
<1>3. ASSUME IInv PROVE CycleWithinLimit
  BY <1>3 DEF IInv, CyclesOK, CycleWithinLimit
<1>. QED
  BY ToldInvariant, <1>1, <1>2, <1>3, PTL DEF CyclesSound

(* A movie that no request processed or downloaded has one download at     *)
(* most, over all cycles and those whose job was cancelled                 *)
(* (run_full_cycle, process_single_movie).                                 *)
THEOREM NoSecondDownload == Spec => []OneDownloadPerMovie
<1>1. ASSUME IInv PROVE OneDownloadPerMovie
  <2>1. SUFFICES ASSUME NEW m \in Movies \ byHand, ~erased
                 PROVE  Cardinality({a \in Actors : Downloading(a, m)}) + left[m] <= 1
    BY DEF OneDownloadPerMovie
  <2>2. PICK D : D = {a \in Actors : Downloading(a, m)}
    OBVIOUS
  <2>3. \A a \in D : a \in Runners /\ proc[a].at = "download" /\ proc[a].movie = m
    BY <1>1, <2>1, <2>2, Numbers DEF Downloading, IInv, HandsOK, Moving
  <2>4. left[m] \in Nat /\ left[m] <= 1
    BY <1>1, <2>1 DEF IInv, Typed, MoviesOK
  <2>5. CASE D = {}
    BY <2>2, <2>4, <2>5, FS_EmptySet
  <2>6. CASE D # {}
    <3>1. PICK a \in D : TRUE
      BY <2>6
    <3>2. D = {a}
      BY <1>1, <2>3, <3>1, OneRunner
    <3>3. m \in Claimed(a)
      BY <2>3, <3>1 DEF Claimed, Moving
    <3>4. left[m] = 0
      BY <1>1, <2>1, <2>3, <2>4, <3>1, <3>3 DEF IInv, MoviesOK
    <3>5. Cardinality(D) = 1
      BY <3>2, FS_Singleton
    <3>. QED
      BY <2>2, <3>4, <3>5
  <2>. QED
    BY <2>5, <2>6
<1>. QED
  BY Invariant, <1>1, PTL

(* What a cycle downloads was compared with the film that is installed     *)
(* now (search_for_movie, start_download).                                 *)
THEOREM FilmIsCurrent == Spec => []ComparedWithInstalled
<1>1. ASSUME IInv PROVE ComparedWithInstalled
  <2>1. SUFFICES ASSUME NEW a \in Actors, NEW m \in Movies \ byHand, Downloading(a, m), ~erased
                 PROVE  proc[a].film = movie[m].film
    BY DEF ComparedWithInstalled
  <2>2. a \in Runners
    BY <1>1, <2>1, Numbers DEF Downloading, IInv, HandsOK, Moving
  <2>. QED
    BY <1>1, <2>1, <2>2 DEF Downloading, IInv, MoviesOK
<1>. QED
  BY Invariant, <1>1, PTL

(* The id that is handed on still names the release that was chosen, or    *)
(* none, while SQLite gives no id out twice (start_download).              *)
THEOREM IdsAreStable == Spec => []ChosenIsStarted
<1>1. IInv => ChosenIsStarted
  BY DEF IInv, IdsOK, ChosenIsStarted
<1>. QED
  BY Invariant, <1>1, PTL

(* A stop reaches the cycle that was running when it was requested, which  *)
(* takes no movie from then on, and no other cycle, whatever starts are    *)
(* refused and whatever ends the cycle (request_stop, run_full_cycle).     *)
THEOREM StopsAreHeeded == Spec => StopsHeeded
<1>1. ASSUME IInv, ToldOK, [Next]_vars, NEW c \in Runners, Takes(c)
      PROVE  c \notin told
  <2>1. cycle \in [Runners -> CycleRow]
    BY <1>1 DEF IInv, Typed
  <2>2. CASE \E d \in Runners : TakeMovie(d)
    <3>1. PICK d \in Runners : TakeMovie(d)
      BY <2>2
    <3>2. d = c
      BY <1>1, <2>1, <3>1 DEF TakeMovie, Takes
    <3>3. ~stop /\ cycle[c].at # "idle"
      BY <3>1, <3>2 DEF TakeMovie, MayContinue, AtHead
    <3>. QED
      BY <1>1, <3>3 DEF ToldOK
  <2>3. CASE \E d \in Runners : StartCycle(d) \/ ListMovies(d)
    <3>1. PICK d \in Runners : StartCycle(d) \/ ListMovies(d)
      BY <2>3
    <3>2. cycle[d].at # "loop" /\ \A e \in Runners : e # d => cycle'[e] = cycle[e]
      BY <2>1, <3>1 DEF StartCycle, ListMovies
    <3>. QED
      BY <1>1, <3>2 DEF Takes
  <2>4. CASE \E d \in Runners : EndCycle(d) \/ CancelCycle(d)
    <3>1. PICK d \in Runners : Finish(d)
      BY <2>4 DEF EndCycle, CancelCycle
    <3>2. cycle'[d].at = "idle" /\ \A e \in Runners : e # d => cycle'[e] = cycle[e]
      BY <2>1, <3>1 DEF Finish, NoCycle
    <3>. QED
      BY <1>1, <3>2 DEF Takes
  <2>5. CASE \E a \in Actors, replaced \in BOOLEAN : DownloadEnds(a, replaced)
    <3>1. \A d \in Runners : cycle'[d].todo = cycle[d].todo
      BY <2>1, <2>5 DEF DownloadEnds, CycleRow
    <3>. QED
      BY <1>1, <3>1 DEF Takes
  <2>6. CASE UNCHANGED cycle
    BY <1>1, <2>6 DEF Takes
  <2>7. \/ UNCHANGED cycle
        \/ \E d \in Runners : TakeMovie(d) \/ StartCycle(d) \/ ListMovies(d) \/ EndCycle(d)
                              \/ CancelCycle(d)
        \/ \E a \in Actors, replaced \in BOOLEAN : DownloadEnds(a, replaced)
    BY <1>1 DEF Next, vars, ProcStep, CycleStep, ReadMovie, SourcesAnswer, StoreResults,
       SearchRaises, AskForReview, StartDownload, RecoveredEnds, RequestSearch, RequestProcess,
       RequestDownload, ToggleLock, RequestStop, CooldownEnds, WindowCloses, PauseEnds
  <2>. QED
    BY <2>2, <2>3, <2>4, <2>5, <2>6, <2>7
<1>3. ASSUME IInv, ToldOK, [Next]_vars
      PROVE  [\A c \in Runners : Takes(c) => c \notin told]_vars
  BY <1>1, <1>3
<1>4. ToldOK => \A c \in Runners : cycle[c].at # "idle" => (stop <=> c \in told)
  BY DEF ToldOK
<1>. QED
  BY ToldInvariant, <1>3, <1>4, PTL DEF Spec, StopsHeeded
=============================================================================
