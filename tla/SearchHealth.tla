---------------------------- MODULE SearchHealth ----------------------------
(***************************************************************************)
(* The counters of core/search_diagnostics.py that tell an empty library   *)
(* of indexers from a broken one, and what a search adds to them.          *)
(***************************************************************************)
EXTENDS Naturals, FiniteSets

(* What one source (Prowlarr or a direct indexer) answers to a search:     *)
(* releases of which one is accepted, releases that are all rejected,      *)
(* releases without a title or a size, none at all, an error, or an error  *)
(* that says the quota is used up.                                         *)
Raw     == {"accepted", "rejected", "unusable"}
Failure == {"error", "limited"}

(* What can come over the wire: nothing in time, a status that is an       *)
(* error, one that says or whose text says that the quota is used up, text *)
(* that is not the format of the API and may speak of the quota too, an    *)
(* error element of the Newznab format, entries of which one cannot be     *)
(* read, or a list of releases.                                            *)
Refusal    == {"timeout", "http error", "too many requests"}
Unreadable == {"garbled", "quota in plain text"}
Element    == {"error element", "quota element"}
Odd        == {"odd entry"}
Listing    == Raw \cup {"empty"}
Wire       == Refusal \cup Unreadable \cup Element \cup Odd \cup Listing

(* is_rate_limit_signal: a status 429, or words about a limit or a quota.  *)
RateLimitSignal(w) ==
  w \in {"too many requests", "quota in plain text", "quota element"}

Failed(w) == IF RateLimitSignal(w) THEN "limited" ELSE "error"

(* NewznabClient.search_detailed.  Text that is not XML is an error of the *)
(* parser, whatever it says; an entry that cannot be read raises.          *)
NewznabAnswer(w) ==
  IF w \in Refusal \cup Element THEN Failed(w)
  ELSE IF w \in Unreadable \cup Odd THEN "error" ELSE w

(* ProwlarrClient.search_detailed, whose format has no error element: the  *)
(* text of what is no JSON is looked at, like that of a bad status.        *)
ProwlarrAnswer(w) ==
  IF w \in Refusal \cup Unreadable THEN Failed(w)
  ELSE IF w \in Odd THEN "error" ELSE w

NewznabAnswers  == {NewznabAnswer(w) : w \in Wire}
ProwlarrAnswers == {ProwlarrAnswer(w) : w \in Wire \ Element}

(* record_movie_search_completed.  asked is the answer of every source     *)
(* that was attempted: none when each of them is paused.                   *)
AllFailed(asked) ==
  /\ DOMAIN asked # {}
  /\ \A s \in DOMAIN asked : asked[s] \in Failure

Verdict(asked, configured) ==
  IF \E s \in DOMAIN asked : asked[s] \in Raw THEN "found"
  ELSE IF ~configured \/ AllFailed(asked) THEN "failed" ELSE "nothing"

(* The count of consecutive searches whose every source failed.            *)
FailedCount(n, verdict) == IF verdict = "failed" THEN n + 1 ELSE 0

(* degradation_status, raise_if_degraded: only failures block.             *)
Blocking(failed, failLimit) == failed >= failLimit
=============================================================================
