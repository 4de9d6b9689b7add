--------------------------- MODULE StoragePolicy ---------------------------
(***************************************************************************)
(* The locks and the NAS policy around every move and removal              *)
(* (backend/core/storage.py: _storage_operation_lock, _nas_policy_scope,   *)
(* move_path, remove_path).  A call takes the lock of each of its paths in *)
(* sorted order, enters the policy scope, works in a thread, leaves the    *)
(* scope, is recorded in memory, then in the database, and gives its locks *)
(* back.  The scope refuses a call while a cooldown runs, when too many    *)
(* NAS operations are active, or when a daily budget would be exceeded.    *)
(*                                                                         *)
(* The calls are coroutines of one event loop: a step is what runs between *)
(* two suspensions.  What they do to the files is Storage's subject.  All  *)
(* of it happens within one window of 24 hours.                            *)
(***************************************************************************)
EXTENDS Integers, FiniteSets

CONSTANTS
  Calls,            \* the calls of move_path and remove_path
  Paths,            \* normalised paths, as their ranks in sorted order
  KeysOf,           \* KeysOf[c]: the paths c locks
  Replacing,        \* moves onto the NAS that place a replacement
  Writing,          \* all moves onto the NAS, Replacing included
  OnNas,            \* all calls that touch the NAS, Writing included
  Size,             \* Size[c]: bytes of what c moves
  MaxConcurrent,    \* files.nas_max_concurrent_operations
  MaxReplacements,  \* files.nas_max_replacements_per_day
  MaxWrite,         \* files.nas_max_write_gb_per_day
  MaxFaults,        \* bound: failed operations, lost rows, failed queries
  MaxCancels,       \* bound: cancellations of the task that makes a call
  MaxRestarts       \* bound: restarts of the application

Nobody == "nobody"

ASSUME PolicyAssumption ==
  /\ IsFiniteSet(Calls) /\ Nobody \notin Calls
  /\ Paths \subseteq Nat
  /\ KeysOf \in [Calls -> (SUBSET Paths) \ {{}}]
  /\ Replacing \subseteq Writing /\ Writing \subseteq OnNas
  /\ OnNas \subseteq Calls
  /\ Size \in [Calls -> Nat]
  /\ MaxConcurrent \in Nat \ {0} /\ MaxReplacements \in Nat \ {0}
  /\ MaxWrite \in Nat \ {0}
  /\ MaxFaults \in Nat /\ MaxCancels \in Nat /\ MaxRestarts \in Nat

VARIABLES
  pc,            \* where each call stands
  want,          \* paths whose lock the call has still to take
  owner,         \* _operation_locks: the call that holds each lock, or Nobody
  guard,         \* holder of _nas_policy_guard, or Nobody
  active,        \* _nas_active_operations
  resWrite,      \* _nas_reserved_write_bytes
  resRepl,       \* _nas_reserved_replacements
  cooling,       \* _nas_cooldown_until lies in the future
  outcome,       \* how the operation of a call ended
  memory,        \* completed calls in _operation_history
  durable,       \* completed calls in storage_operation_log
  cache,         \* _nas_persisted_usage_cache, as the calls it counts
  threads,       \* calls whose worker thread is at the disk
  written,       \* moves onto the NAS that have taken place
  faults, cancels, restarts

vars == <<pc, want, owner, guard, active, resWrite, resRepl, cooling, outcome,
          memory, durable, cache, threads, written, faults, cancels, restarts>>
counters == <<active, resWrite, resRepl>>
ledgers == <<memory, durable, cache>>
bounds == <<faults, cancels, restarts>>

(* Their sum, as the number of the bytes that these calls move.            *)
BytesOf(c) == {c} \X (1..Size[c])
Bytes(S) == Cardinality(UNION {BytesOf(c) : c \in S \cap Writing})
Replacements(S) == Cardinality(S \cap Replacing)
Larger(m, n) == IF m > n THEN m ELSE n
Lowest(S) == CHOOSE k \in S : \A j \in S : k <= j

Goto(c, l) == pc' = [pc EXCEPT ![c] = l]
Fault == faults < MaxFaults /\ faults' = faults + 1

(* The finally of _storage_operation_lock.                                 *)
Unlock(c) ==
  owner' = [k \in Paths |-> IF owner[k] = c THEN Nobody ELSE owner[k]]

Init ==
  /\ pc = [c \in Calls |-> "idle"]
  /\ want = [c \in Calls |-> {}]
  /\ owner = [k \in Paths |-> Nobody]
  /\ guard = Nobody
  /\ active = 0 /\ resWrite = 0 /\ resRepl = 0
  /\ cooling = FALSE
  /\ outcome = [c \in Calls |-> "none"]
  /\ memory = {} /\ durable = {} /\ cache = {}
  /\ threads = {} /\ written = {}
  /\ faults = 0 /\ cancels = 0 /\ restarts = 0
-----------------------------------------------------------------------------
(* Mutant: only the source of a move is locked.                            *)
CallSourceOnly(c) ==
  /\ pc[c] = "idle"
  /\ want' = [want EXCEPT ![c] = {Lowest(KeysOf[c])}]
  /\ Goto(c, "lock")
  /\ UNCHANGED <<owner, guard, counters, cooling, outcome, ledgers, threads,
                 written, bounds>>

Call(c) ==
  /\ pc[c] = "idle"
  /\ want' = [want EXCEPT ![c] = KeysOf[c]]
  /\ Goto(c, "lock")
  /\ UNCHANGED <<owner, guard, counters, cooling, outcome, ledgers, threads,
                 written, bounds>>

(* Mutant: the paths are locked in the order in which they are found free. *)
AcquireUnsorted(c) ==
  /\ pc[c] = "lock"
  /\ \E k \in want[c] :
       /\ owner[k] = Nobody
       /\ owner' = [owner EXCEPT ![k] = c]
       /\ want' = [want EXCEPT ![c] = @ \ {k}]
  /\ IF want'[c] # {} THEN UNCHANGED <<pc, threads>>
     ELSE IF c \in OnNas THEN Goto(c, "enter") /\ UNCHANGED threads
     ELSE Goto(c, "run") /\ threads' = threads \cup {c}
  /\ UNCHANGED <<guard, counters, cooling, outcome, ledgers, written, bounds>>

(* The next lock in sorted order; after the last, a call that does not     *)
(* touch the NAS goes straight to its thread.                              *)
Acquire(c) ==
  /\ pc[c] = "lock"
  /\ LET k == Lowest(want[c]) IN
       /\ owner[k] = Nobody
       /\ owner' = [owner EXCEPT ![k] = c]
       /\ want' = [want EXCEPT ![c] = @ \ {k}]
  /\ IF want'[c] # {} THEN UNCHANGED <<pc, threads>>
     ELSE IF c \in OnNas THEN Goto(c, "enter") /\ UNCHANGED threads
     ELSE Goto(c, "run") /\ threads' = threads \cup {c}
  /\ UNCHANGED <<guard, counters, cooling, outcome, ledgers, written, bounds>>

(***************************************************************************)
(* The policy scope.  Its guard is held over the query of the database.    *)
(***************************************************************************)
Admit(c, bytes, repl) ==
  /\ active' = active + 1
  /\ resWrite' = resWrite + bytes
  /\ resRepl' = resRepl + repl
  /\ threads' = threads \cup {c}
  /\ Goto(c, "run")

Refuse(c) ==
  /\ outcome' = [outcome EXCEPT ![c] = "refused"]
  /\ Goto(c, "persist")

RefuseAtOnce(c) ==
  /\ pc[c] = "enter" /\ guard = Nobody
  /\ cooling \/ active >= MaxConcurrent
  /\ Refuse(c)
  /\ UNCHANGED <<want, owner, guard, counters, cooling, ledgers, threads,
                 written, bounds>>

(* Mutant: only calls that write are counted against the limit.            *)
AdmitUnlimited(c) ==
  /\ pc[c] = "enter" /\ guard = Nobody
  /\ ~cooling
  /\ c \notin Writing
  /\ Admit(c, 0, 0)
  /\ UNCHANGED <<want, owner, guard, cooling, outcome, ledgers, written,
                 bounds>>

AdmitUncounted(c) ==
  /\ pc[c] = "enter" /\ guard = Nobody
  /\ ~cooling /\ active < MaxConcurrent
  /\ c \notin Writing
  /\ Admit(c, 0, 0)
  /\ UNCHANGED <<want, owner, guard, cooling, outcome, ledgers, written,
                 bounds>>

(* Mutant: the guard is not held over the query.                           *)
AskUsageUnguarded(c) ==
  /\ pc[c] = "enter" /\ guard = Nobody
  /\ ~cooling /\ active < MaxConcurrent
  /\ c \in Writing
  /\ Goto(c, "query")
  /\ UNCHANGED <<want, owner, guard, counters, cooling, outcome, ledgers,
                 threads, written, bounds>>

AskUsage(c) ==
  /\ pc[c] = "enter" /\ guard = Nobody
  /\ ~cooling /\ active < MaxConcurrent
  /\ c \in Writing
  /\ guard' = c
  /\ Goto(c, "query")
  /\ UNCHANGED <<want, owner, counters, cooling, outcome, ledgers, threads,
                 written, bounds>>

(* A query that fails leaves what the last one read.                       *)
Query(c) ==
  /\ pc[c] = "query"
  /\ \/ cache' = durable /\ UNCHANGED faults
     \/ Fault /\ UNCHANGED cache
  /\ Goto(c, "decide")
  /\ UNCHANGED <<want, owner, guard, counters, cooling, outcome, memory,
                 durable, threads, written, cancels, restarts>>

(* Mutants: of what other calls have reserved, the replacements are not    *)
(* counted, or the bytes.                                                  *)
FitsUnreserved(c) ==
  /\ Larger(Bytes(memory), Bytes(cache)) + resWrite + Size[c] <= MaxWrite
  /\ c \in Replacing =>
       Larger(Replacements(memory), Replacements(cache)) + 1
         <= MaxReplacements

FitsUnreservedBytes(c) ==
  /\ Larger(Bytes(memory), Bytes(cache)) + Size[c] <= MaxWrite
  /\ c \in Replacing =>
       Larger(Replacements(memory), Replacements(cache)) + resRepl + 1
         <= MaxReplacements

Fits(c) ==
  /\ Larger(Bytes(memory), Bytes(cache)) + resWrite + Size[c] <= MaxWrite
  /\ c \in Replacing =>
       Larger(Replacements(memory), Replacements(cache)) + resRepl + 1
         <= MaxReplacements

Decide(c) ==
  /\ pc[c] = "decide"
  /\ guard' = Nobody
  /\ \/ /\ Fits(c)
        /\ Admit(c, Size[c], IF c \in Replacing THEN 1 ELSE 0)
        /\ UNCHANGED outcome
     \/ /\ ~Fits(c)
        /\ Refuse(c)
        /\ UNCHANGED <<counters, threads>>
  /\ UNCHANGED <<want, owner, cooling, ledgers, written, bounds>>

(***************************************************************************)
(* The worker thread ends.  A task that was cancelled no longer waits for  *)
(* it.                                                                     *)
(***************************************************************************)
Returned(c, result, next) ==
  IF pc[c] = "run"
  THEN /\ outcome' = [outcome EXCEPT ![c] = result]
       /\ Goto(c, IF c \in OnNas THEN next ELSE "persist")
  ELSE UNCHANGED <<outcome, pc>>

Done(c) ==
  /\ c \in threads
  /\ threads' = threads \ {c}
  /\ written' = written \cup ({c} \cap Writing)
  /\ Returned(c, "completed", "leave")
  /\ UNCHANGED <<want, owner, guard, counters, cooling, ledgers, bounds>>

Fail(c) ==
  /\ c \in threads
  /\ Fault
  /\ threads' = threads \ {c}
  /\ Returned(c, "failed", "cool")
  /\ UNCHANGED <<want, owner, guard, counters, cooling, ledgers, written,
                 cancels, restarts>>

StartCooldown(c) ==
  /\ pc[c] = "cool" /\ guard = Nobody
  /\ cooling' = TRUE
  /\ Goto(c, "leave")
  /\ UNCHANGED <<want, owner, guard, counters, outcome, ledgers, threads,
                 written, bounds>>

(* The scope is left and the result recorded in memory without a           *)
(* suspension in between; a cancelled task records nothing.                *)
Leave(c) ==
  /\ pc[c] = "leave" /\ guard = Nobody
  /\ active' = Larger(0, active - 1)
  /\ resWrite' = IF c \in Writing THEN Larger(0, resWrite - Size[c])
                                 ELSE resWrite
  /\ resRepl' = IF c \in Replacing THEN Larger(0, resRepl - 1) ELSE resRepl
  /\ memory' = IF outcome[c] = "completed" THEN memory \cup {c} ELSE memory
  /\ IF outcome[c] = "cancelled"
     THEN Goto(c, "cancelled") /\ Unlock(c)
     ELSE Goto(c, "persist") /\ UNCHANGED owner
  /\ UNCHANGED <<want, guard, cooling, outcome, durable, cache, threads,
                 written, bounds>>

(* A row that cannot be written is given up silently.                      *)
Persist(c) ==
  /\ pc[c] = "persist"
  /\ \/ /\ durable' = IF outcome[c] = "completed" THEN durable \cup {c}
                      ELSE durable
        /\ UNCHANGED faults
     \/ Fault /\ UNCHANGED durable
  /\ Unlock(c)
  /\ Goto(c, "done")
  /\ UNCHANGED <<want, guard, counters, cooling, outcome, memory, cache,
                 threads, written, cancels, restarts>>

(* time.monotonic() passes _nas_cooldown_until.                            *)
CooldownEnds ==
  /\ cooling
  /\ cooling' = FALSE
  /\ UNCHANGED <<pc, want, owner, guard, counters, outcome, ledgers, threads,
                 written, bounds>>

Step(c) ==
  \/ Call(c) \/ Acquire(c)
  \/ RefuseAtOnce(c) \/ AdmitUncounted(c)
  \/ AskUsage(c) \/ Query(c) \/ Decide(c)
  \/ Done(c) \/ Fail(c) \/ StartCooldown(c) \/ Leave(c) \/ Persist(c)
-----------------------------------------------------------------------------
(***************************************************************************)
(* Cancellation of the task (a job is cancelled, a client disconnects)     *)
(* while the call is suspended.                                            *)
(***************************************************************************)
Cancellation == cancels < MaxCancels /\ cancels' = cancels + 1

(* Waiting for a lock: the locks taken so far are outside the try block    *)
(* whose finally gives them back.                                          *)
CancelLocking(c) ==
  /\ pc[c] = "lock"
  /\ Cancellation
  /\ Goto(c, "cancelled")
  /\ UNCHANGED <<want, owner, guard, counters, cooling, outcome, ledgers,
                 threads, written, faults, restarts>>

(* Before the scope is entered, or while recording: the locks are given    *)
(* back, and the guard if this call holds it.                              *)
CancelOutside(c) ==
  /\ pc[c] \in {"enter", "query", "decide", "persist"}
  /\ Cancellation
  /\ guard' = IF guard = c THEN Nobody ELSE guard
  /\ Unlock(c)
  /\ Goto(c, "cancelled")
  /\ UNCHANGED <<want, counters, cooling, outcome, ledgers, threads, written,
                 faults, restarts>>

(* The thread is not stopped by the cancellation of the task that awaits   *)
(* it; the scope is left and no cooldown starts.                           *)
CancelWorking(c) ==
  /\ \/ pc[c] = "run"
     \/ pc[c] = "cool" /\ guard # Nobody
  /\ Cancellation
  /\ outcome' = [outcome EXCEPT ![c] = "cancelled"]
  /\ IF c \in OnNas THEN Goto(c, "leave") /\ UNCHANGED owner
                    ELSE Goto(c, "cancelled") /\ Unlock(c)
  /\ UNCHANGED <<want, guard, counters, cooling, ledgers, threads, written,
                 faults, restarts>>

(* Waiting for the guard in the finally that would return the counters.    *)
CancelLeaving(c) ==
  /\ pc[c] = "leave" /\ guard # Nobody
  /\ Cancellation
  /\ Unlock(c)
  /\ Goto(c, "cancelled")
  /\ UNCHANGED <<want, guard, counters, cooling, outcome, ledgers, threads,
                 written, faults, restarts>>

Cancel(c) ==
  CancelLocking(c) \/ CancelOutside(c) \/ CancelWorking(c) \/ CancelLeaving(c)

(* The process ends, and its threads with it; a fresh one has the database *)
(* and nothing else.                                                       *)
Restart ==
  /\ restarts < MaxRestarts
  /\ restarts' = restarts + 1
  /\ pc' = [c \in Calls |-> IF pc[c] \in {"idle", "done", "cancelled"}
                            THEN pc[c] ELSE "lost"]
  /\ want' = [c \in Calls |-> {}]
  /\ owner' = [k \in Paths |-> Nobody]
  /\ guard' = Nobody
  /\ active' = 0 /\ resWrite' = 0 /\ resRepl' = 0
  /\ cooling' = FALSE
  /\ memory' = {} /\ cache' = {}
  /\ threads' = {}
  /\ UNCHANGED <<outcome, durable, written, faults, cancels>>

Next ==
  \/ \E c \in Calls : Step(c) \/ Cancel(c)
  \/ CooldownEnds \/ Restart

(* The event loop runs every coroutine that is ready and every thread      *)
(* ends.  An asyncio.Lock is first come, first served; as each call asks   *)
(* for a lock once, weak fairness of each call is all that is needed.      *)
Fairness == \A c \in Calls : WF_vars(Step(c))

Spec == Init /\ [][Next]_vars /\ Fairness
-----------------------------------------------------------------------------
(***************************************************************************)
(* Properties.                                                             *)
(***************************************************************************)

Ended == {"done", "cancelled", "lost"}
InScope == {"run", "cool", "leave"}

(* Every variable keeps the shape the code gives it.                       *)
TypeOK ==
  /\ pc \in [Calls -> {"idle", "lock", "enter", "query", "decide", "persist"}
                        \cup InScope \cup Ended]
  /\ want \in [Calls -> SUBSET Paths]
  /\ owner \in [Paths -> Calls \cup {Nobody}]
  /\ guard \in Calls \cup {Nobody}
  /\ active \in Nat /\ resWrite \in Nat /\ resRepl \in Nat
  /\ cooling \in BOOLEAN
  /\ outcome \in [Calls -> {"none", "completed", "failed", "refused",
                             "cancelled"}]
  /\ memory \subseteq Calls /\ durable \subseteq Calls /\ cache \subseteq Calls
  /\ threads \subseteq Calls /\ written \subseteq Writing
  /\ faults \in 0..MaxFaults /\ cancels \in 0..MaxCancels
  /\ restarts \in 0..MaxRestarts

(* Two threads never work on the same path at once: what the locks of      *)
(* _storage_operation_lock are for.                                        *)
PathsExclusive ==
  \A c, d \in threads : c # d => KeysOf[c] \cap KeysOf[d] = {}

(* At no time are more threads at work on the NAS than                     *)
(* nas_max_concurrent_operations, although the check and the increment of  *)
(* the counter are separated by a query of the database.                   *)
ConcurrencyKept == Cardinality(threads \cap OnNas) <= MaxConcurrent

(* A call between its last lock and their release.                         *)
Working(c) == pc[c] \in {"enter", "query", "decide", "persist"} \cup InScope

(* The same of the tasks: also when tasks are cancelled and the process    *)
(* restarts, no two of them work on the same path.  (Their threads may.)   *)
TasksExclusive ==
  \A c, d \in Calls :
    Working(c) /\ Working(d) /\ c # d => KeysOf[c] \cap KeysOf[d] = {}

Scope == {c \in OnNas : pc[c] \in InScope}

(* And no more of them are in the policy scope than the limit allows:      *)
(* a cancellation can lose a place in the scope, never create one.         *)
ScopeKept == Cardinality(Scope) <= MaxConcurrent

(* The replacements that have taken place within the day are no more than  *)
(* nas_max_replacements_per_day allows, also after a restart.              *)
DailyLimit == Replacements(written) <= MaxReplacements

(* As long as no task is cancelled and the process goes on, that is so:    *)
(* the reservation covers a move until it is recorded.                     *)
ReplacementsKept == cancels = 0 /\ restarts = 0 => DailyLimit

(* Nor is the volume moved more than nas_max_write_gb_per_day allows: of   *)
(* moves that place replacements, of backups and of recycled files alike,  *)
(* however few of them are replacements.                                   *)
WritesKept == cancels = 0 /\ restarts = 0 => Bytes(written) <= MaxWrite

(* When every call has ended, the policy state is as if none had run: no   *)
(* lock held, no operation active, nothing reserved.                       *)
AllReturned ==
  (\A c \in Calls : pc[c] \in Ended) =>
    /\ \A k \in Paths : owner[k] = Nobody
    /\ guard = Nobody
    /\ active = 0 /\ resWrite = 0 /\ resRepl = 0

(* Every call ends: it is refused, fails or completes, and never waits     *)
(* for ever for a lock or the guard.                                       *)
EveryCallEnds == \A c \in Calls : pc[c] = "lock" ~> pc[c] \in Ended

(* The two together: every call ends, and those that have ended hold       *)
(* nothing that another one could wait for.                                *)
CallsSettle == EveryCallEnds /\ []AllReturned
=============================================================================
