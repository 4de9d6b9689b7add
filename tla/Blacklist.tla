------------------------------ MODULE Blacklist ------------------------------
(***************************************************************************)
(* The table download_blacklist (core/blacklist.py).                       *)
(*                                                                         *)
(* An entry has a title, an uploader and an indexer, "" where none was     *)
(* given, and it expires later, expired in the past, or never.  It is      *)
(* found by the hash of the three.  A release has a title (name), the      *)
(* uploader that its title tells (by) and the indexer that offers it.      *)
(***************************************************************************)

Entry(title, by, indexer, expires) ==
  [title |-> title, by |-> by, indexer |-> indexer, expires |-> expires]

Hash(e) == <<e.title, e.by, e.indexer>>

HashesOwn(r) == {<<r.name, r.by, r.indexer>>}

(* Those of the release from its own indexer, and from any.                *)
Hashes(r) == {<<r.name, r.by, r.indexer>>, <<r.name, r.by, "">>}

(* add_to_blacklist: the hash is unique, and an entry that has it already, *)
(* expired or not, stays as it is.                                         *)
Added(listed, e) ==
  IF \E x \in listed : Hash(x) = Hash(e) THEN listed ELSE listed \cup {e}

(* get_blacklist_reasons.  An expiry that was loaded has no time zone and  *)
(* cannot be compared with the time of the query, which has one: the call  *)
(* raises.  Every entry tells a reason.                                    *)
Matching(listed, releases) == {e \in listed : \E r \in releases : Hash(e) \in Hashes(r)}

Raises(listed, releases) == \E e \in Matching(listed, releases) : e.expires # "never"

Banned(listed, r) == Matching(listed, {r}) # {}

(* get_all_blacklist_entries: what the operator is shown.                  *)
Shown(listed) == {e \in listed : e.expires # "past"}

Expired(listed, e) == (listed \ {e}) \cup {[e EXCEPT !.expires = "past"]}
=============================================================================
