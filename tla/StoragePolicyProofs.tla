------------------------ MODULE StoragePolicyProofs ------------------------
(***************************************************************************)
(* What the locks and the policy scope guarantee for every set of calls,   *)
(* paths and limits, and any number of faults; the results about tasks     *)
(* hold with any number of cancellations and restarts, those about threads *)
(* need that no task is cancelled, and the daily number and volume of      *)
(* replacements also that the process does not restart.  Runs show why.    *)
(***************************************************************************)
EXTENDS StoragePolicy, FiniteSetTheorems, TLAPS

ReplScope == Scope \cap Replacing

(* Only calls that touch the NAS meet the guard and the counters.          *)
Routes ==
  \A c \in Calls :
    /\ pc[c] \in {"enter", "query", "decide", "cool", "leave"} => c \in OnNas
    /\ pc[c] \in {"query", "decide"} => guard = c /\ c \in Writing

(* A call holds the locks it no longer wants, until it is over.            *)
Holds ==
  \A c \in Calls :
    /\ pc[c] = "lock" =>
         /\ want[c] # {} /\ want[c] \subseteq KeysOf[c]
         /\ \A k \in KeysOf[c] \ want[c] : owner[k] = c
    /\ Working(c) => \A k \in KeysOf[c] : owner[k] = c

(* The holder of the guard found a place in the scope, and it is still     *)
(* there; the counters count at least the calls in the scope.              *)
Counted ==
  /\ guard # Nobody =>
       /\ guard \in Calls /\ pc[guard] \in {"query", "decide"}
       /\ active < MaxConcurrent
  /\ Cardinality(Scope) <= active /\ active <= MaxConcurrent
  /\ Cardinality(ReplScope) <= resRepl

(* While no task is cancelled, a thread works for the task that awaits it. *)
Awaited == cancels = 0 => \A c \in threads : pc[c] = "run"

(* And what has been written is recorded or still reserved.                *)
Booked ==
  cancels = 0 /\ restarts = 0 =>
    /\ \A c \in written \cap Replacing :
         c \in memory \/ (pc[c] = "leave" /\ outcome[c] = "completed")
    /\ Replacements(memory) + resRepl <= MaxReplacements

(* The same of the volume: what is reserved covers the moves in the scope, *)
(* and with what is recorded it stays within the limit.                    *)
Measured ==
  /\ Bytes(Scope) <= resWrite
  /\ cancels = 0 /\ restarts = 0 =>
       /\ \A c \in written :
            c \in memory \/ (pc[c] = "leave" /\ outcome[c] = "completed")
       /\ Bytes(memory) + resWrite <= MaxWrite

(* Where no task is cancelled, nothing is held or counted that does not    *)
(* belong to a call on its way.                                            *)
Exact ==
  cancels = 0 =>
    /\ \A k \in Paths, d \in Calls :
         owner[k] = d => pc[d] = "lock" \/ Working(d)
    /\ active = Cardinality(Scope)
    /\ resWrite = Bytes(Scope)
    /\ resRepl = Cardinality(ReplScope)

IInv ==
  /\ TypeOK /\ Routes /\ Holds /\ Counted /\ Awaited /\ Booked
  /\ Measured /\ Exact
-----------------------------------------------------------------------------
(* The bytes that some calls move are finitely many.                       *)
LEMMA BytesFinite ==
  ASSUME NEW S \in SUBSET Calls
  PROVE  IsFiniteSet(UNION {BytesOf(d) : d \in S \cap Writing})
<1>. DEFINE P == {BytesOf(d) : d \in S \cap Writing}
<1>. DEFINE f == [d \in S \cap Writing |-> BytesOf(d)]
<1>1. f \in Surjection(S \cap Writing, P)
  BY DEF Surjection
<1>2. IsFiniteSet(S \cap Writing)
  BY FS_Subset, PolicyAssumption
<1>3. IsFiniteSet(P)
  <2>. HIDE DEF f, P
  <2>. QED
    BY <1>1, <1>2, FS_Surjection
<1>4. ASSUME NEW d \in Calls PROVE IsFiniteSet(BytesOf(d))
  <2>1. Size[d] \in Int
    BY PolicyAssumption
  <2>2. IsFiniteSet(1..Size[d])
    BY <2>1, FS_Interval
  <2>3. IsFiniteSet({d})
    BY FS_Singleton
  <2>. QED
    BY <2>2, <2>3, FS_Product DEF BytesOf
<1>5. \A X \in P : IsFiniteSet(X)
  BY <1>4
<1>. HIDE DEF P
<1>6. IsFiniteSet(UNION P)
  BY <1>3, <1>5, FS_UNION
<1>. QED
  BY <1>6 DEF P

(* Any calls move a natural number of bytes; fewer calls move no more.     *)
LEMMA BytesType ==
  ASSUME NEW S \in SUBSET Calls, NEW T \in SUBSET S
  PROVE  Bytes(S) \in Nat /\ Bytes(T) \in Nat /\ Bytes(T) <= Bytes(S)
<1>. DEFINE U == UNION {BytesOf(d) : d \in S \cap Writing}
<1>. DEFINE V == UNION {BytesOf(d) : d \in T \cap Writing}
<1>1. IsFiniteSet(U)
  BY BytesFinite
<1>2. V \subseteq U
  OBVIOUS
<1>. HIDE DEF U, V
<1>3. IsFiniteSet(V) /\ Cardinality(V) <= Cardinality(U)
  BY <1>1, <1>2, FS_Subset
<1>4. Cardinality(U) \in Nat /\ Cardinality(V) \in Nat
  BY <1>1, <1>3, FS_CardinalityType
<1>. QED
  BY <1>3, <1>4 DEF Bytes, U, V

(* The bytes of one more call are its size, if it writes to the NAS.       *)
LEMMA BytesGrow ==
  ASSUME NEW S \in SUBSET Calls, NEW c \in Calls, c \notin S
  PROVE  Bytes(S \cup {c}) =
           Bytes(S) + IF c \in Writing THEN Size[c] ELSE 0
<1>1. CASE c \notin Writing
  <2>1. (S \cup {c}) \cap Writing = S \cap Writing
    BY <1>1
  <2>2. Bytes(S \cup {c}) = Bytes(S)
    BY <2>1 DEF Bytes
  <2>3. Bytes(S) \in Nat
    BY BytesType
  <2>. QED
    BY <1>1, <2>2, <2>3
<1>2. CASE c \in Writing
  <2>. DEFINE U == UNION {BytesOf(d) : d \in S \cap Writing}
  <2>1. (S \cup {c}) \cap Writing = (S \cap Writing) \cup {c}
    BY <1>2
  <2>2. UNION {BytesOf(d) : d \in (S \cup {c}) \cap Writing} = U \cup BytesOf(c)
    BY <2>1
  <2>3. U \cap BytesOf(c) = {}
    BY DEF BytesOf
  <2>4. Size[c] \in Nat
    BY PolicyAssumption
  <2>5. /\ IsFiniteSet(BytesOf(c))
        /\ Cardinality(BytesOf(c)) = Size[c]
    <3>1. IsFiniteSet({c}) /\ Cardinality({c}) = 1
      BY FS_Singleton
    <3>2. IsFiniteSet(1..Size[c]) /\ Cardinality(1..Size[c]) = Size[c]
      BY <2>4, FS_Interval
    <3>3. /\ IsFiniteSet(BytesOf(c))
          /\ Cardinality(BytesOf(c)) =
               Cardinality({c}) * Cardinality(1..Size[c])
      BY <3>1, <3>2, FS_Product DEF BytesOf
    <3>. QED
      BY <2>4, <3>1, <3>2, <3>3
  <2>6. IsFiniteSet(U)
    BY BytesFinite
  <2>7. Bytes(S \cup {c}) = Cardinality(U \cup BytesOf(c))
    BY <2>2 DEF Bytes
  <2>. HIDE DEF U
  <2>8. Cardinality(U \cup BytesOf(c)) = Cardinality(U) + Size[c] - 0
    BY <2>3, <2>5, <2>6, FS_Union, FS_EmptySet
  <2>9. Cardinality(U) = Bytes(S) /\ Bytes(S) \in Nat
    BY BytesType DEF Bytes, U
  <2>. QED
    BY <1>2, <2>4, <2>7, <2>8, <2>9
<1>. QED
  BY <1>1, <1>2

(* No calls move no bytes.                                                 *)
LEMMA BytesNone == Bytes({}) = 0
<1>1. UNION {BytesOf(d) : d \in {} \cap Writing} = {}
  OBVIOUS
<1>. QED
  BY <1>1, FS_EmptySet DEF Bytes

(* Calls that need not be different move no more together than apart.      *)
LEMMA BytesJoin ==
  ASSUME NEW S \in SUBSET Calls, NEW T \in SUBSET Calls
  PROVE  Bytes(S \cup T) <= Bytes(S) + Bytes(T)
<1>. DEFINE U == UNION {BytesOf(d) : d \in S \cap Writing}
<1>. DEFINE V == UNION {BytesOf(d) : d \in T \cap Writing}
<1>1. UNION {BytesOf(d) : d \in (S \cup T) \cap Writing} = U \cup V
  OBVIOUS
<1>2. IsFiniteSet(U) /\ IsFiniteSet(V)
  BY BytesFinite
<1>3. Bytes(S) = Cardinality(U) /\ Bytes(T) = Cardinality(V)
  BY DEF Bytes
<1>4. Bytes(S \cup T) = Cardinality(U \cup V)
  BY <1>1 DEF Bytes
<1>. HIDE DEF U, V
<1>5. IsFiniteSet(U \cap V)
  BY <1>2, FS_Intersection
<1>6. /\ Cardinality(U) \in Nat /\ Cardinality(V) \in Nat
      /\ Cardinality(U \cap V) \in Nat
  BY <1>2, <1>5, FS_CardinalityType
<1>7. Cardinality(U \cup V) =
        Cardinality(U) + Cardinality(V) - Cardinality(U \cap V)
  BY <1>2, FS_Union
<1>. QED
  BY <1>3, <1>4, <1>6, <1>7
-----------------------------------------------------------------------------
(* The initial state satisfies the invariant: no call has started.         *)
LEMMA InitInv == Init => IInv
<1>. SUFFICES ASSUME Init PROVE IInv
  OBVIOUS
<1>. USE PolicyAssumption
<1>1. TypeOK
  <2>1. cooling \in BOOLEAN
    BY Zenon DEF Init
  <2>. QED
    BY <2>1 DEF Init, TypeOK
<1>2. Scope = {} /\ ReplScope = {} /\ Replacements(memory) = 0
  BY FS_EmptySet DEF Init, Scope, InScope, ReplScope, Replacements
<1>3. Counted
  BY <1>2, FS_EmptySet DEF Init, Counted
<1>4. Routes /\ Holds
  BY DEF Init, Routes, Holds, Working, InScope
<1>5. Awaited /\ Booked
  BY <1>2 DEF Init, Awaited, Booked
<1>6. Measured
  <2>1. Bytes(Scope) = 0 /\ Bytes(memory) = 0
    BY <1>2, BytesNone DEF Init
  <2>. QED
    BY <2>1 DEF Init, Measured
<1>7. Exact
  <2>1. Bytes(Scope) = 0
    BY <1>2, BytesNone
  <2>. QED
    BY <1>2, <2>1, FS_EmptySet DEF Init, Exact
<1>. QED
  BY <1>1, <1>3, <1>4, <1>5, <1>6, <1>7 DEF IInv

(* A step keeps every variable within its type.                            *)
LEMMA TypeStep == TypeOK /\ [Next]_vars => TypeOK'
<1>. SUFFICES ASSUME TypeOK, [Next]_vars PROVE TypeOK'
  OBVIOUS
<1>. USE PolicyAssumption DEF TypeOK
<1>1. ASSUME NEW c \in Calls, Call(c) PROVE TypeOK'
  BY <1>1 DEF Call, Goto, counters, ledgers, bounds
<1>2. ASSUME NEW c \in Calls, Acquire(c) PROVE TypeOK'
  BY <1>2 DEF Acquire, Goto, InScope, counters, ledgers, bounds
<1>3. ASSUME NEW c \in Calls, RefuseAtOnce(c) PROVE TypeOK'
  BY <1>3 DEF RefuseAtOnce, Refuse, Goto, counters, ledgers, bounds
<1>4. ASSUME NEW c \in Calls, AdmitUncounted(c) PROVE TypeOK'
  BY <1>4 DEF AdmitUncounted, Admit, Goto, InScope, ledgers, bounds
<1>5. ASSUME NEW c \in Calls, AskUsage(c) PROVE TypeOK'
  BY <1>5 DEF AskUsage, Goto, counters, ledgers, bounds
<1>6. ASSUME NEW c \in Calls, Query(c) PROVE TypeOK'
  BY <1>6 DEF Query, Goto, Fault, counters
<1>7. ASSUME NEW c \in Calls, Decide(c) PROVE TypeOK'
  BY <1>7 DEF Decide, Admit, Refuse, Goto, InScope, counters, ledgers, bounds
<1>8. ASSUME NEW c \in Calls, Done(c) PROVE TypeOK'
  BY <1>8 DEF Done, Returned, Goto, InScope, counters, ledgers, bounds
<1>9. ASSUME NEW c \in Calls, Fail(c) PROVE TypeOK'
  BY <1>9 DEF Fail, Fault, Returned, Goto, InScope, counters, ledgers
<1>10. ASSUME NEW c \in Calls, StartCooldown(c) PROVE TypeOK'
  BY <1>10 DEF StartCooldown, Goto, InScope, counters, ledgers, bounds
<1>11. ASSUME NEW c \in Calls, Leave(c) PROVE TypeOK'
  BY <1>11 DEF Leave, Unlock, Goto, Ended, Larger, bounds
<1>12. ASSUME NEW c \in Calls, Persist(c) PROVE TypeOK'
  BY <1>12 DEF Persist, Fault, Unlock, Goto, Ended, counters
<1>13. ASSUME NEW c \in Calls, Cancel(c) PROVE TypeOK'
  <2>1. CASE CancelLocking(c)
    BY <2>1 DEF CancelLocking, Cancellation, Goto, Ended, counters, ledgers
  <2>2. CASE CancelOutside(c)
    BY <2>2 DEF CancelOutside, Cancellation, Unlock, Goto, Ended, counters,
       ledgers
  <2>3. CASE CancelWorking(c)
    BY <2>3 DEF CancelWorking, Cancellation, Unlock, Goto, InScope, Ended,
       counters, ledgers
  <2>4. CASE CancelLeaving(c)
    BY <2>4 DEF CancelLeaving, Cancellation, Unlock, Goto, Ended, counters,
       ledgers
  <2>. QED
    BY <1>13, <2>1, <2>2, <2>3, <2>4 DEF Cancel
<1>14. CASE CooldownEnds
  BY <1>14 DEF CooldownEnds, counters, ledgers, bounds
<1>15. CASE Restart
  <2>1. cooling' \in BOOLEAN
    BY <1>15, Zenon DEF Restart
  <2>. QED
    BY <1>15, <2>1 DEF Restart, Ended
<1>16. CASE UNCHANGED vars
  BY <1>16 DEF vars
<1>. HIDE DEF TypeOK
<1>17. ASSUME NEW c \in Calls, Step(c) PROVE TypeOK'
  BY <1>1, <1>2, <1>3, <1>4, <1>5, <1>6, <1>7, <1>8, <1>9, <1>10, <1>11,
     <1>12, <1>17, Zenon DEF Step
<1>. QED
  BY <1>13, <1>14, <1>15, <1>16, <1>17, Zenon DEF Next

(* Only AskUsage, which takes the guard, leads to the query.               *)
LEMMA RoutesStep == TypeOK /\ Routes /\ [Next]_vars => Routes'
<1>. SUFFICES ASSUME TypeOK, Routes, [Next]_vars PROVE Routes'
  OBVIOUS
<1>. USE PolicyAssumption DEF TypeOK, Routes, InScope, Ended
<1>1. ASSUME NEW c \in Calls, Call(c) PROVE Routes'
  BY <1>1 DEF Call, Goto, counters, ledgers, bounds
<1>2. ASSUME NEW c \in Calls, Acquire(c) PROVE Routes'
  BY <1>2 DEF Acquire, Goto, counters, ledgers, bounds
<1>3. ASSUME NEW c \in Calls, RefuseAtOnce(c) PROVE Routes'
  BY <1>3 DEF RefuseAtOnce, Refuse, Goto, counters, ledgers, bounds
<1>4. ASSUME NEW c \in Calls, AdmitUncounted(c) PROVE Routes'
  BY <1>4 DEF AdmitUncounted, Admit, Goto, ledgers, bounds
<1>5. ASSUME NEW c \in Calls, AskUsage(c) PROVE Routes'
  BY <1>5 DEF AskUsage, Goto, counters, ledgers, bounds
<1>6. ASSUME NEW c \in Calls, Query(c) PROVE Routes'
  BY <1>6 DEF Query, Fault, Goto, counters
<1>7. ASSUME NEW c \in Calls, Decide(c) PROVE Routes'
  BY <1>7 DEF Decide, Admit, Refuse, Goto, counters, ledgers, bounds
<1>8. ASSUME NEW c \in Calls, Done(c) PROVE Routes'
  BY <1>8 DEF Done, Returned, Goto, counters, ledgers, bounds
<1>9. ASSUME NEW c \in Calls, Fail(c) PROVE Routes'
  BY <1>9 DEF Fail, Fault, Returned, Goto, counters, ledgers
<1>10. ASSUME NEW c \in Calls, StartCooldown(c) PROVE Routes'
  BY <1>10 DEF StartCooldown, Goto, counters, ledgers, bounds
<1>11. ASSUME NEW c \in Calls, Leave(c) PROVE Routes'
  BY <1>11 DEF Leave, Unlock, Goto, bounds
<1>12. ASSUME NEW c \in Calls, Persist(c) PROVE Routes'
  BY <1>12 DEF Persist, Fault, Unlock, Goto, counters
<1>13. ASSUME NEW c \in Calls, CancelLocking(c) PROVE Routes'
  BY <1>13 DEF CancelLocking, Cancellation, Goto, counters, ledgers
<1>14. ASSUME NEW c \in Calls, CancelOutside(c) PROVE Routes'
  BY <1>14 DEF CancelOutside, Cancellation, Unlock, Goto, counters, ledgers
<1>15. ASSUME NEW c \in Calls, CancelWorking(c) PROVE Routes'
  BY <1>15 DEF CancelWorking, Cancellation, Unlock, Goto, counters, ledgers
<1>16. ASSUME NEW c \in Calls, CancelLeaving(c) PROVE Routes'
  BY <1>16 DEF CancelLeaving, Cancellation, Unlock, Goto, counters, ledgers
<1>17. CASE CooldownEnds
  BY <1>17 DEF CooldownEnds, counters, ledgers, bounds
<1>18. CASE Restart
  BY <1>18 DEF Restart
<1>19. CASE UNCHANGED vars
  BY <1>19 DEF vars, counters, ledgers, bounds
<1>. HIDE DEF TypeOK, Routes, InScope, Ended
<1>20. ASSUME NEW c \in Calls, Step(c) \/ Cancel(c) PROVE Routes'
  BY <1>1, <1>2, <1>3, <1>4, <1>5, <1>6, <1>7, <1>8, <1>9, <1>10, <1>11,
     <1>12, <1>13, <1>14, <1>15, <1>16, <1>20, Zenon DEF Step, Cancel
<1>. QED
  BY <1>17, <1>18, <1>19, <1>20, Zenon DEF Next

(* A lock that is held is given back by its owner alone.                   *)
LEMMA HoldsStep == TypeOK /\ Holds /\ [Next]_vars => Holds'
<1>. SUFFICES ASSUME TypeOK, Holds, [Next]_vars PROVE Holds'
  OBVIOUS
<1>. USE PolicyAssumption DEF TypeOK, Holds, Working, InScope, Ended
<1>1. ASSUME NEW c \in Calls, Call(c) PROVE Holds'
  BY <1>1 DEF Call, Goto, counters, ledgers, bounds
<1>2. ASSUME NEW c \in Calls, Acquire(c) PROVE Holds'
  <2>1. PICK k : /\ pc[c] = "lock" /\ owner[k] = Nobody
                 /\ owner' = [owner EXCEPT ![k] = c]
                 /\ want' = [want EXCEPT ![c] = @ \ {k}]
    BY <1>2 DEF Acquire
  <2>2. want'[c] # {} => pc' = pc
    BY <1>2 DEF Acquire
  <2>3. pc' = pc \/ pc' = [pc EXCEPT ![c] = "enter"]
                 \/ pc' = [pc EXCEPT ![c] = "run"]
    BY <1>2 DEF Acquire, Goto
  <2>4. \A d \in Calls : \A j \in KeysOf[d] : owner[j] = d => owner'[j] = d
    BY <2>1
  <2>5. \A j \in KeysOf[c] \ want'[c] :
          pc[c] = "lock" => owner'[j] = c
    BY <2>1, <2>4
  <2>6. \A d \in Calls : d # c => pc'[d] = pc[d] /\ want'[d] = want[d]
    BY <2>1, <2>3
  <2>7. want'[c] \subseteq KeysOf[c]
    BY <2>1
  <2>8. CASE want'[c] # {}
    BY <2>1, <2>2, <2>4, <2>5, <2>6, <2>7, <2>8
  <2>9. CASE want'[c] = {}
    <3>1. pc'[c] \in {"enter", "run"}
      BY <1>2, <2>9 DEF Acquire, Goto
    <3>. QED
      BY <2>1, <2>4, <2>5, <2>6, <2>9, <3>1
  <2>. QED
    BY <2>8, <2>9
<1>3. ASSUME NEW c \in Calls, RefuseAtOnce(c) PROVE Holds'
  BY <1>3 DEF RefuseAtOnce, Refuse, Goto, counters, ledgers, bounds
<1>4. ASSUME NEW c \in Calls, AdmitUncounted(c) PROVE Holds'
  BY <1>4 DEF AdmitUncounted, Admit, Goto, ledgers, bounds
<1>5. ASSUME NEW c \in Calls, AskUsage(c) PROVE Holds'
  BY <1>5 DEF AskUsage, Goto, counters, ledgers, bounds
<1>6. ASSUME NEW c \in Calls, Query(c) PROVE Holds'
  BY <1>6 DEF Query, Fault, Goto, counters
<1>7. ASSUME NEW c \in Calls, Decide(c) PROVE Holds'
  BY <1>7 DEF Decide, Admit, Refuse, Goto, counters, ledgers, bounds
<1>8. ASSUME NEW c \in Calls, Done(c) PROVE Holds'
  BY <1>8 DEF Done, Returned, Goto, counters, ledgers, bounds
<1>9. ASSUME NEW c \in Calls, Fail(c) PROVE Holds'
  BY <1>9 DEF Fail, Fault, Returned, Goto, counters, ledgers
<1>10. ASSUME NEW c \in Calls, StartCooldown(c) PROVE Holds'
  BY <1>10 DEF StartCooldown, Goto, counters, ledgers, bounds
<1>11. ASSUME NEW c \in Calls, Leave(c) PROVE Holds'
  BY <1>11 DEF Leave, Unlock, Goto, bounds
<1>12. ASSUME NEW c \in Calls, Persist(c) PROVE Holds'
  BY <1>12 DEF Persist, Fault, Unlock, Goto, counters
<1>13. ASSUME NEW c \in Calls, CancelLocking(c) PROVE Holds'
  BY <1>13 DEF CancelLocking, Cancellation, Goto, counters, ledgers
<1>14. ASSUME NEW c \in Calls, CancelOutside(c) PROVE Holds'
  BY <1>14 DEF CancelOutside, Cancellation, Unlock, Goto, counters, ledgers
<1>15. ASSUME NEW c \in Calls, CancelWorking(c) PROVE Holds'
  BY <1>15 DEF CancelWorking, Cancellation, Unlock, Goto, counters, ledgers
<1>16. ASSUME NEW c \in Calls, CancelLeaving(c) PROVE Holds'
  BY <1>16 DEF CancelLeaving, Cancellation, Unlock, Goto, counters, ledgers
<1>17. CASE CooldownEnds
  BY <1>17 DEF CooldownEnds, counters, ledgers, bounds
<1>18. CASE Restart
  BY <1>18 DEF Restart
<1>19. CASE UNCHANGED vars
  BY <1>19 DEF vars, counters, ledgers, bounds
<1>. HIDE DEF TypeOK, Holds, Working, InScope, Ended
<1>20. ASSUME NEW c \in Calls, Step(c) \/ Cancel(c) PROVE Holds'
  BY <1>1, <1>2, <1>3, <1>4, <1>5, <1>6, <1>7, <1>8, <1>9, <1>10, <1>11,
     <1>12, <1>13, <1>14, <1>15, <1>16, <1>20, Zenon DEF Step, Cancel
<1>. QED
  BY <1>17, <1>18, <1>19, <1>20, Zenon DEF Next

(* Only a cancellation takes a task away from its thread.                  *)
LEMMA AwaitedStep == TypeOK /\ Awaited /\ [Next]_vars => Awaited'
<1>. SUFFICES ASSUME TypeOK, Awaited, [Next]_vars PROVE Awaited'
  OBVIOUS
<1>. USE PolicyAssumption DEF TypeOK, Awaited, InScope, Ended
<1>1. ASSUME NEW c \in Calls, Call(c) PROVE Awaited'
  BY <1>1 DEF Call, Goto, counters, ledgers, bounds
<1>2. ASSUME NEW c \in Calls, Acquire(c) PROVE Awaited'
  BY <1>2 DEF Acquire, Goto, counters, ledgers, bounds
<1>3. ASSUME NEW c \in Calls, RefuseAtOnce(c) PROVE Awaited'
  BY <1>3 DEF RefuseAtOnce, Refuse, Goto, counters, ledgers, bounds
<1>4. ASSUME NEW c \in Calls, AdmitUncounted(c) PROVE Awaited'
  BY <1>4 DEF AdmitUncounted, Admit, Goto, ledgers, bounds
<1>5. ASSUME NEW c \in Calls, AskUsage(c) PROVE Awaited'
  BY <1>5 DEF AskUsage, Goto, counters, ledgers, bounds
<1>6. ASSUME NEW c \in Calls, Query(c) PROVE Awaited'
  BY <1>6 DEF Query, Fault, Goto, counters
<1>7. ASSUME NEW c \in Calls, Decide(c) PROVE Awaited'
  BY <1>7 DEF Decide, Admit, Refuse, Goto, counters, ledgers, bounds
<1>8. ASSUME NEW c \in Calls, Done(c) PROVE Awaited'
  BY <1>8 DEF Done, Returned, Goto, counters, ledgers, bounds
<1>9. ASSUME NEW c \in Calls, Fail(c) PROVE Awaited'
  BY <1>9 DEF Fail, Fault, Returned, Goto, counters, ledgers
<1>10. ASSUME NEW c \in Calls, StartCooldown(c) PROVE Awaited'
  BY <1>10 DEF StartCooldown, Goto, counters, ledgers, bounds
<1>11. ASSUME NEW c \in Calls, Leave(c) PROVE Awaited'
  BY <1>11 DEF Leave, Unlock, Goto, bounds
<1>12. ASSUME NEW c \in Calls, Persist(c) PROVE Awaited'
  BY <1>12 DEF Persist, Fault, Unlock, Goto, counters
<1>13. ASSUME NEW c \in Calls, CancelLocking(c) PROVE Awaited'
  BY <1>13 DEF CancelLocking, Cancellation, Goto, counters, ledgers
<1>14. ASSUME NEW c \in Calls, CancelOutside(c) PROVE Awaited'
  BY <1>14 DEF CancelOutside, Cancellation, Unlock, Goto, counters, ledgers
<1>15. ASSUME NEW c \in Calls, CancelWorking(c) PROVE Awaited'
  BY <1>15 DEF CancelWorking, Cancellation, Unlock, Goto, counters, ledgers
<1>16. ASSUME NEW c \in Calls, CancelLeaving(c) PROVE Awaited'
  BY <1>16 DEF CancelLeaving, Cancellation, Unlock, Goto, counters, ledgers
<1>17. CASE CooldownEnds
  BY <1>17 DEF CooldownEnds, counters, ledgers, bounds
<1>18. CASE Restart
  BY <1>18 DEF Restart
<1>19. CASE UNCHANGED vars
  BY <1>19 DEF vars, counters, ledgers, bounds
<1>. HIDE DEF TypeOK, Awaited, InScope, Ended
<1>20. ASSUME NEW c \in Calls, Step(c) \/ Cancel(c) PROVE Awaited'
  BY <1>1, <1>2, <1>3, <1>4, <1>5, <1>6, <1>7, <1>8, <1>9, <1>10, <1>11,
     <1>12, <1>13, <1>14, <1>15, <1>16, <1>20, Zenon DEF Step, Cancel
<1>. QED
  BY <1>17, <1>18, <1>19, <1>20, Zenon DEF Next

-----------------------------------------------------------------------------
(* The sets the counters count are finite.                                 *)
LEMMA ScopeFinite ==
  /\ IsFiniteSet(Scope) /\ Cardinality(Scope) \in Nat
  /\ IsFiniteSet(ReplScope) /\ Cardinality(ReplScope) \in Nat
<1>1. Scope \subseteq Calls /\ ReplScope \subseteq Calls
  BY PolicyAssumption DEF Scope, ReplScope
<1>2. IsFiniteSet(Scope) /\ IsFiniteSet(ReplScope)
  BY <1>1, FS_Subset, PolicyAssumption
<1>. QED
  BY <1>2, FS_CardinalityType

(* A call that moves on within the scope, or outside it, changes neither.  *)
LEMMA ScopeStays ==
  ASSUME TypeOK, NEW c \in Calls, NEW l, Goto(c, l),
         c \in Scope <=> c \in OnNas /\ l \in InScope
  PROVE  Scope' = Scope /\ ReplScope' = ReplScope
BY DEF TypeOK, Goto, Scope, ReplScope

(* A call that enters the scope is one more of its kind.                   *)
LEMMA ScopeGrows ==
  ASSUME TypeOK, NEW c \in OnNas, pc[c] \notin InScope, Goto(c, "run")
  PROVE  /\ Cardinality(Scope') = Cardinality(Scope) + 1
         /\ Cardinality(ReplScope') =
              Cardinality(ReplScope) + IF c \in Replacing THEN 1 ELSE 0
<1>1. Scope' = Scope \cup {c} /\ c \notin Scope
  BY PolicyAssumption DEF TypeOK, Goto, Scope, InScope
<1>2. ReplScope' = IF c \in Replacing THEN ReplScope \cup {c} ELSE ReplScope
  BY <1>1 DEF ReplScope
<1>3. c \notin ReplScope
  BY <1>1 DEF ReplScope
<1>4. Cardinality(Scope') = Cardinality(Scope) + 1
  BY <1>1, ScopeFinite, FS_AddElement
<1>5. CASE c \in Replacing
  BY <1>2, <1>3, <1>4, <1>5, ScopeFinite, FS_AddElement
<1>6. CASE c \notin Replacing
  BY <1>2, <1>4, <1>6, ScopeFinite
<1>. QED
  BY <1>5, <1>6

(* A call that leaves it is one less.                                      *)
LEMMA ScopeShrinks ==
  ASSUME TypeOK, NEW c \in OnNas, pc[c] \in InScope,
         NEW l, l \notin InScope, Goto(c, l)
  PROVE  /\ Cardinality(Scope') = Cardinality(Scope) - 1
         /\ Cardinality(ReplScope') =
              Cardinality(ReplScope) - IF c \in Replacing THEN 1 ELSE 0
<1>1. Scope' = Scope \ {c} /\ c \in Scope
  BY PolicyAssumption DEF TypeOK, Goto, Scope
<1>2. ReplScope' = IF c \in Replacing THEN ReplScope \ {c} ELSE ReplScope
  BY <1>1 DEF ReplScope
<1>3. c \in Replacing => c \in ReplScope
  BY <1>1 DEF ReplScope
<1>4. Cardinality(Scope') = Cardinality(Scope) - 1
  BY <1>1, ScopeFinite, FS_RemoveElement
<1>5. CASE c \in Replacing
  BY <1>2, <1>3, <1>4, <1>5, ScopeFinite, FS_RemoveElement
<1>6. CASE c \notin Replacing
  BY <1>2, <1>4, <1>6, ScopeFinite
<1>. QED
  BY <1>5, <1>6

(* Recording a call adds at most one replacement.                          *)
LEMMA RecordOne ==
  ASSUME NEW S \in SUBSET Calls, NEW c \in Calls
  PROVE  /\ Replacements(S) \in Nat
         /\ Replacements(S \cup {c}) <=
              Replacements(S) + IF c \in Replacing THEN 1 ELSE 0
<1>. DEFINE R == S \cap Replacing
<1>1. IsFiniteSet(R) /\ Cardinality(R) \in Nat
  BY FS_Subset, FS_CardinalityType, PolicyAssumption
<1>2. (S \cup {c}) \cap Replacing = IF c \in Replacing THEN R \cup {c} ELSE R
  OBVIOUS
<1>3. Cardinality(R \cup {c}) <= Cardinality(R) + 1
  BY <1>1, FS_AddElement
<1>. QED
  BY <1>1, <1>2, <1>3 DEF Replacements

(* The counters cover the scope, and the guard keeps a place in it.        *)
LEMMA CountedStep == TypeOK /\ Routes /\ Counted /\ [Next]_vars => Counted'
<1>. SUFFICES ASSUME TypeOK, Routes, Counted, [Next]_vars PROVE Counted'
  OBVIOUS
<1>. USE PolicyAssumption DEF TypeOK, Routes, Counted
<1>1. ASSUME NEW c \in Calls, Call(c) PROVE Counted'
  <2>1. Scope' = Scope /\ ReplScope' = ReplScope
    BY <1>1, ScopeStays DEF Call, Goto, counters, ledgers, bounds, Scope,
       InScope
  <2>. QED
    BY <1>1, <2>1 DEF Call, Goto, counters, ledgers, bounds
<1>2. ASSUME NEW c \in Calls, Acquire(c) PROVE Counted'
  <2>1. Scope' = Scope /\ ReplScope' = ReplScope
    BY <1>2, ScopeStays DEF Acquire, Goto, counters, ledgers, bounds,
       Scope, InScope
  <2>. QED
    BY <1>2, <2>1 DEF Acquire, Goto, counters, ledgers, bounds
<1>3. ASSUME NEW c \in Calls, RefuseAtOnce(c) PROVE Counted'
  <2>1. Scope' = Scope /\ ReplScope' = ReplScope
    BY <1>3, ScopeStays DEF RefuseAtOnce, Refuse, Goto, counters, ledgers,
       bounds, Scope, InScope
  <2>. QED
    BY <1>3, <2>1 DEF RefuseAtOnce, Refuse, Goto, counters, ledgers, bounds
<1>4. ASSUME NEW c \in Calls, AdmitUncounted(c) PROVE Counted'
  <2>1. c \in OnNas /\ c \notin Replacing
    BY <1>4 DEF AdmitUncounted
  <2>2. Goto(c, "run") /\ pc[c] \notin InScope
    BY <1>4 DEF AdmitUncounted, Admit, InScope
  <2>3. /\ Cardinality(Scope') = Cardinality(Scope) + 1
        /\ Cardinality(ReplScope') = Cardinality(ReplScope)
    BY <2>1, <2>2, ScopeGrows, ScopeFinite
  <2>. QED
    BY <1>4, <2>3, ScopeFinite DEF AdmitUncounted, Admit, Goto
<1>5. ASSUME NEW c \in Calls, AskUsage(c) PROVE Counted'
  <2>1. Scope' = Scope /\ ReplScope' = ReplScope
    BY <1>5, ScopeStays DEF AskUsage, Goto, counters, ledgers, bounds,
       Scope, InScope
  <2>. QED
    BY <1>5, <2>1 DEF AskUsage, Goto, counters, ledgers, bounds
<1>6. ASSUME NEW c \in Calls, Query(c) PROVE Counted'
  <2>1. Scope' = Scope /\ ReplScope' = ReplScope
    BY <1>6, ScopeStays DEF Query, Fault, Goto, counters, Scope, InScope
  <2>. QED
    BY <1>6, <2>1 DEF Query, Fault, Goto, counters
<1>7. ASSUME NEW c \in Calls, Decide(c) PROVE Counted'
  <2>1. c \in OnNas /\ guard = c /\ pc[c] \notin InScope
    BY <1>7 DEF Decide, InScope
  <2>2. CASE Fits(c)
    <3>1. Goto(c, "run") /\ guard' = Nobody /\ active' = active + 1
      BY <1>7, <2>2 DEF Decide, Admit
    <3>2. resRepl' = resRepl + IF c \in Replacing THEN 1 ELSE 0
      BY <1>7, <2>2 DEF Decide, Admit
    <3>. QED
      BY <2>1, <3>1, <3>2, ScopeGrows, ScopeFinite
  <2>3. CASE ~Fits(c)
    <3>1. Goto(c, "persist") /\ guard' = Nobody /\ UNCHANGED counters
      BY <1>7, <2>3 DEF Decide, Refuse
    <3>2. Scope' = Scope /\ ReplScope' = ReplScope
      BY <2>1, <3>1, ScopeStays DEF Scope, InScope
    <3>. QED
      BY <3>1, <3>2 DEF counters
  <2>. QED
    BY <2>2, <2>3
<1>8. ASSUME NEW c \in Calls, Done(c) PROVE Counted'
  <2>1. Scope' = Scope /\ ReplScope' = ReplScope
    BY <1>8, ScopeStays DEF Done, Returned, Goto, counters, ledgers,
       bounds, Scope, InScope
  <2>. QED
    BY <1>8, <2>1 DEF Done, Returned, Goto, counters, ledgers, bounds
<1>9. ASSUME NEW c \in Calls, Fail(c) PROVE Counted'
  <2>1. Scope' = Scope /\ ReplScope' = ReplScope
    BY <1>9, ScopeStays DEF Fail, Fault, Returned, Goto, counters, ledgers,
       Scope, InScope
  <2>. QED
    BY <1>9, <2>1 DEF Fail, Fault, Returned, Goto, counters, ledgers
<1>10. ASSUME NEW c \in Calls, StartCooldown(c) PROVE Counted'
  <2>1. Scope' = Scope /\ ReplScope' = ReplScope
    BY <1>10, ScopeStays DEF StartCooldown, Goto, counters, ledgers, bounds,
       Scope, InScope
  <2>. QED
    BY <1>10, <2>1 DEF StartCooldown, Goto, counters, ledgers, bounds
<1>11. ASSUME NEW c \in Calls, Leave(c) PROVE Counted'
  <2>1. c \in OnNas /\ guard = Nobody /\ guard' = Nobody
    BY <1>11 DEF Leave
  <2>2. pc[c] \in InScope
    BY <1>11 DEF Leave, InScope
  <2>3. \E l : l \notin InScope /\ Goto(c, l)
    BY <1>11 DEF Leave, InScope
  <2>4. /\ Cardinality(Scope') = Cardinality(Scope) - 1
        /\ Cardinality(ReplScope') =
             Cardinality(ReplScope) - IF c \in Replacing THEN 1 ELSE 0
        /\ Cardinality(Scope') \in Int /\ Cardinality(ReplScope') \in Int
    BY <2>1, <2>2, <2>3, ScopeShrinks, ScopeFinite
  <2>5. /\ active' = Larger(0, active - 1)
        /\ resRepl' = IF c \in Replacing THEN Larger(0, resRepl - 1)
                                          ELSE resRepl
    BY <1>11 DEF Leave
  <2>. QED
    BY <2>1, <2>4, <2>5, ScopeFinite DEF Larger
<1>12. ASSUME NEW c \in Calls, Persist(c) PROVE Counted'
  <2>1. Scope' = Scope /\ ReplScope' = ReplScope
    BY <1>12, ScopeStays DEF Persist, Fault, Unlock, Goto, counters, Scope,
       InScope
  <2>. QED
    BY <1>12, <2>1 DEF Persist, Fault, Unlock, Goto, counters
<1>13. ASSUME NEW c \in Calls, CancelLocking(c) PROVE Counted'
  <2>1. Scope' = Scope /\ ReplScope' = ReplScope
    BY <1>13, ScopeStays DEF CancelLocking, Cancellation, Goto, counters,
       ledgers, Scope, InScope
  <2>. QED
    BY <1>13, <2>1 DEF CancelLocking, Cancellation, Goto, counters, ledgers
<1>14. ASSUME NEW c \in Calls, CancelOutside(c) PROVE Counted'
  <2>1. Scope' = Scope /\ ReplScope' = ReplScope
    BY <1>14, ScopeStays DEF CancelOutside, Cancellation, Unlock, Goto,
       counters, ledgers, Scope, InScope
  <2>. QED
    BY <1>14, <2>1 DEF CancelOutside, Cancellation, Unlock, Goto, counters,
       ledgers
<1>15. ASSUME NEW c \in Calls, CancelWorking(c) PROVE Counted'
  <2>1. Scope' = Scope /\ ReplScope' = ReplScope
    BY <1>15, ScopeStays DEF CancelWorking, Cancellation, Unlock, Goto,
       counters, ledgers, Scope, InScope
  <2>. QED
    BY <1>15, <2>1 DEF CancelWorking, Cancellation, Unlock, Goto, counters,
       ledgers
<1>16. ASSUME NEW c \in Calls, CancelLeaving(c) PROVE Counted'
  <2>1. c \in OnNas /\ pc[c] \in InScope /\ Goto(c, "cancelled")
    BY <1>16 DEF CancelLeaving, InScope
  <2>2. "cancelled" \notin InScope
    BY DEF InScope
  <2>3. /\ Cardinality(Scope') <= Cardinality(Scope)
        /\ Cardinality(ReplScope') <= Cardinality(ReplScope)
    BY <2>1, <2>2, ScopeShrinks, ScopeFinite
  <2>4. guard' # Nobody =>
          /\ guard' \in Calls /\ pc'[guard'] \in {"query", "decide"}
          /\ active' < MaxConcurrent
    BY <1>16 DEF CancelLeaving, Goto, counters
  <2>5. Cardinality(Scope') \in Int /\ Cardinality(ReplScope') \in Int
    BY <2>1, <2>2, ScopeShrinks, ScopeFinite
  <2>. QED
    BY <1>16, <2>3, <2>4, <2>5, ScopeFinite DEF CancelLeaving, counters
<1>17. CASE CooldownEnds
  BY <1>17 DEF CooldownEnds, counters, ledgers, bounds, Scope,
     ReplScope
<1>18. CASE Restart
  <2>1. Scope' = {} /\ ReplScope' = {}
    BY <1>18 DEF Restart, Scope, ReplScope, InScope
  <2>. QED
    BY <1>18, <2>1, FS_EmptySet DEF Restart
<1>19. CASE UNCHANGED vars
  BY <1>19 DEF vars, counters, ledgers, bounds, Scope,
     ReplScope
<1>. HIDE DEF TypeOK, Routes, Counted
<1>20. ASSUME NEW c \in Calls, Step(c) \/ Cancel(c) PROVE Counted'
  BY <1>1, <1>2, <1>3, <1>4, <1>5, <1>6, <1>7, <1>8, <1>9, <1>10, <1>11,
     <1>12, <1>13, <1>14, <1>15, <1>16, <1>20, Zenon DEF Step, Cancel
<1>. QED
  BY <1>17, <1>18, <1>19, <1>20, Zenon DEF Next

(* A replacement is admitted only within the limit, and recorded before its*)
(* reservation ends.                                                       *)
LEMMA BookedStep ==
  TypeOK /\ Routes /\ Counted /\ Awaited /\ Booked /\ [Next]_vars => Booked'
<1>. SUFFICES ASSUME TypeOK, Routes, Counted, Awaited, Booked, [Next]_vars
              PROVE  Booked'
  OBVIOUS
<1>. USE PolicyAssumption DEF TypeOK, Routes, Awaited, Booked
<1>1. ASSUME NEW c \in Calls, Call(c) PROVE Booked'
  BY <1>1 DEF Call, Goto, counters, ledgers, bounds
<1>2. ASSUME NEW c \in Calls, Acquire(c) PROVE Booked'
  BY <1>2 DEF Acquire, Goto, counters, ledgers, bounds
<1>3. ASSUME NEW c \in Calls, RefuseAtOnce(c) PROVE Booked'
  BY <1>3 DEF RefuseAtOnce, Refuse, Goto, counters, ledgers, bounds
<1>4. ASSUME NEW c \in Calls, AdmitUncounted(c) PROVE Booked'
  BY <1>4 DEF AdmitUncounted, Admit, Goto, ledgers, bounds
<1>5. ASSUME NEW c \in Calls, AskUsage(c) PROVE Booked'
  BY <1>5 DEF AskUsage, Goto, counters, ledgers, bounds
<1>6. ASSUME NEW c \in Calls, Query(c) PROVE Booked'
  BY <1>6 DEF Query, Fault, Goto, counters
<1>7. ASSUME NEW c \in Calls, Decide(c) PROVE Booked'
  <2>1. UNCHANGED <<memory, written, cancels, restarts>>
    BY <1>7 DEF Decide, ledgers, bounds
  <2>2. \A d \in Calls : d # c => pc'[d] = pc[d] /\ outcome'[d] = outcome[d]
    BY <1>7 DEF Decide, Admit, Refuse, Goto
  <2>3. pc[c] # "leave"
    BY <1>7 DEF Decide
  <2>4. Replacements(memory) \in Nat /\ Replacements(cache) \in Nat
    BY RecordOne, <1>7
  <2>5. Replacements(memory) + resRepl <= MaxReplacements =>
          Replacements(memory) + resRepl' <= MaxReplacements
    BY <1>7, <2>4 DEF Decide, Admit, Refuse, Fits, Larger, counters
  <2>. QED
    BY <2>1, <2>2, <2>3, <2>5
<1>8. ASSUME NEW c \in Calls, Done(c) PROVE Booked'
  <2>1. CASE cancels = 0
    <3>1. pc[c] = "run"
      BY <1>8, <2>1 DEF Done
    <3>2. /\ outcome' = [outcome EXCEPT ![c] = "completed"]
          /\ c \in Writing => pc' = [pc EXCEPT ![c] = "leave"]
          /\ \A d \in Calls : d # c => pc'[d] = pc[d]
      BY <1>8, <3>1 DEF Done, Returned, Goto
    <3>. QED
      BY <1>8, <3>1, <3>2 DEF Done, counters, ledgers, bounds
  <2>2. CASE cancels # 0
    BY <1>8, <2>2 DEF Done, bounds
  <2>. QED
    BY <2>1, <2>2
<1>9. ASSUME NEW c \in Calls, Fail(c) PROVE Booked'
  BY <1>9 DEF Fail, Fault, Returned, Goto, counters, ledgers
<1>10. ASSUME NEW c \in Calls, StartCooldown(c) PROVE Booked'
  BY <1>10 DEF StartCooldown, Goto, counters, ledgers, bounds
<1>11. ASSUME NEW c \in Calls, Leave(c) PROVE Booked'
  <2>1. /\ UNCHANGED <<outcome, written, cancels, restarts>>
        /\ resRepl' = IF c \in Replacing THEN Larger(0, resRepl - 1)
                                          ELSE resRepl
        /\ memory' = IF outcome[c] = "completed" THEN memory \cup {c}
                                                  ELSE memory
        /\ \A d \in Calls : d # c => pc'[d] = pc[d]
    BY <1>11 DEF Leave, Goto, bounds
  <2>2. Replacements(memory) \in Nat
    BY RecordOne, <1>11
  <2>3. Replacements(memory') <=
          Replacements(memory) + IF c \in Replacing THEN 1 ELSE 0
    BY <2>1, <2>2, RecordOne
  <2>4. Replacements(memory') \in Nat
    BY <2>1, RecordOne, <1>11
  <2>5. c \in Replacing => resRepl >= 1
    <3>1. c \in Replacing => c \in ReplScope
      BY <1>11 DEF Leave, ReplScope, Scope, InScope
    <3>2. c \in ReplScope => Cardinality(ReplScope) # 0
      BY ScopeFinite, FS_EmptySet
    <3>. QED
      BY <3>1, <3>2, ScopeFinite DEF Counted
  <2>6. Replacements(memory) + resRepl <= MaxReplacements =>
          Replacements(memory') + resRepl' <= MaxReplacements
    BY <2>1, <2>2, <2>3, <2>4, <2>5 DEF Larger
  <2>. QED
    BY <2>1, <2>6
<1>12. ASSUME NEW c \in Calls, Persist(c) PROVE Booked'
  BY <1>12 DEF Persist, Fault, Unlock, Goto, counters
<1>13. ASSUME NEW c \in Calls, CancelLocking(c) PROVE Booked'
  BY <1>13 DEF CancelLocking, Cancellation, Goto, counters, ledgers
<1>14. ASSUME NEW c \in Calls, CancelOutside(c) PROVE Booked'
  BY <1>14 DEF CancelOutside, Cancellation, Unlock, Goto, counters, ledgers
<1>15. ASSUME NEW c \in Calls, CancelWorking(c) PROVE Booked'
  BY <1>15 DEF CancelWorking, Cancellation, Unlock, Goto, counters, ledgers
<1>16. ASSUME NEW c \in Calls, CancelLeaving(c) PROVE Booked'
  BY <1>16 DEF CancelLeaving, Cancellation, Unlock, Goto, counters, ledgers
<1>17. CASE CooldownEnds
  BY <1>17 DEF CooldownEnds, counters, ledgers, bounds
<1>18. CASE Restart
  BY <1>18 DEF Restart
<1>19. CASE UNCHANGED vars
  BY <1>19 DEF vars, counters, ledgers, bounds
<1>. HIDE DEF TypeOK, Routes, Awaited, Booked
<1>20. ASSUME NEW c \in Calls, Step(c) \/ Cancel(c) PROVE Booked'
  BY <1>1, <1>2, <1>3, <1>4, <1>5, <1>6, <1>7, <1>8, <1>9, <1>10, <1>11,
     <1>12, <1>13, <1>14, <1>15, <1>16, <1>20, Zenon DEF Step, Cancel
<1>. QED
  BY <1>17, <1>18, <1>19, <1>20, Zenon DEF Next
(* The bytes a move reserves are within the limit, and recorded before     *)
(* the reservation ends.                                                   *)
LEMMA MeasuredStep ==
  TypeOK /\ Routes /\ Awaited /\ Measured /\ [Next]_vars => Measured'
<1>. SUFFICES ASSUME TypeOK, Routes, Awaited, Measured, [Next]_vars
              PROVE  Measured'
  OBVIOUS
<1>. USE PolicyAssumption DEF TypeOK, Routes, Awaited, Measured
<1>0. /\ Scope \in SUBSET Calls /\ memory \in SUBSET Calls
      /\ Bytes(Scope) \in Nat /\ Bytes(memory) \in Nat
  BY BytesType DEF Scope
<1>1. ASSUME NEW c \in Calls, Call(c) PROVE Measured'
  <2>1. Scope' = Scope
    BY <1>1, ScopeStays DEF Call, Goto, counters, ledgers, bounds, Scope,
       InScope
  <2>. QED
    BY <1>1, <2>1 DEF Call, Goto, counters, ledgers, bounds
<1>2. ASSUME NEW c \in Calls, Acquire(c) PROVE Measured'
  <2>1. Scope' = Scope
    BY <1>2, ScopeStays DEF Acquire, Goto, counters, ledgers, bounds, Scope,
       InScope
  <2>. QED
    BY <1>2, <2>1 DEF Acquire, Goto, counters, ledgers, bounds
<1>3. ASSUME NEW c \in Calls, RefuseAtOnce(c) PROVE Measured'
  <2>1. Scope' = Scope
    BY <1>3, ScopeStays DEF RefuseAtOnce, Refuse, Goto, counters, ledgers,
       bounds, Scope, InScope
  <2>. QED
    BY <1>3, <2>1 DEF RefuseAtOnce, Refuse, Goto, counters, ledgers, bounds
<1>4. ASSUME NEW c \in Calls, AdmitUncounted(c) PROVE Measured'
  <2>1. /\ c \notin Writing /\ resWrite' = resWrite
        /\ UNCHANGED <<memory, written, outcome, cancels, restarts>>
        /\ \A d \in Calls : d # c => pc'[d] = pc[d]
        /\ pc[c] = "enter" /\ c \in OnNas
    BY <1>4 DEF AdmitUncounted, Admit, Goto, ledgers, bounds
  <2>2. Scope' = Scope \cup {c} /\ c \notin Scope
    BY <1>4 DEF AdmitUncounted, Admit, Goto, Scope, InScope
  <2>3. Bytes(Scope') = Bytes(Scope)
    BY <1>0, <2>1, <2>2, BytesGrow
  <2>. QED
    BY <2>1, <2>3
<1>5. ASSUME NEW c \in Calls, AskUsage(c) PROVE Measured'
  <2>1. Scope' = Scope
    BY <1>5, ScopeStays DEF AskUsage, Goto, counters, ledgers, bounds,
       Scope, InScope
  <2>. QED
    BY <1>5, <2>1 DEF AskUsage, Goto, counters, ledgers, bounds
<1>6. ASSUME NEW c \in Calls, Query(c) PROVE Measured'
  <2>1. Scope' = Scope
    BY <1>6, ScopeStays DEF Query, Fault, Goto, counters, Scope, InScope
  <2>. QED
    BY <1>6, <2>1 DEF Query, Fault, Goto, counters
<1>7. ASSUME NEW c \in Calls, Decide(c) PROVE Measured'
  <2>1. /\ UNCHANGED <<memory, written, cancels, restarts>>
        /\ \A d \in Calls : d # c => pc'[d] = pc[d] /\ outcome'[d] = outcome[d]
        /\ pc[c] = "decide" /\ c \in Writing /\ c \in OnNas
    BY <1>7 DEF Decide, Admit, Refuse, Goto, ledgers, bounds
  <2>2. Bytes(cache) \in Nat
    BY BytesType
  <2>3. CASE Fits(c)
    <3>1. resWrite' = resWrite + Size[c] /\ Goto(c, "run")
      BY <1>7, <2>3 DEF Decide, Admit
    <3>2. Scope' = Scope \cup {c} /\ c \notin Scope
      BY <2>1, <3>1 DEF Goto, Scope, InScope
    <3>3. Bytes(Scope') = Bytes(Scope) + Size[c]
      BY <1>0, <2>1, <3>2, BytesGrow
    <3>4. Bytes(memory) + resWrite + Size[c] <= MaxWrite
      BY <1>0, <2>2, <2>3 DEF Fits, Larger
    <3>. QED
      BY <1>0, <2>1, <3>1, <3>3, <3>4
  <2>4. CASE ~Fits(c)
    <3>1. resWrite' = resWrite /\ Goto(c, "persist")
      BY <1>7, <2>4 DEF Decide, Refuse, counters
    <3>2. Scope' = Scope
      BY <2>1, <3>1, ScopeStays DEF Scope, InScope
    <3>. QED
      BY <2>1, <3>1, <3>2
  <2>. QED
    BY <2>3, <2>4
<1>8. ASSUME NEW c \in Calls, Done(c) PROVE Measured'
  <2>1. Scope' = Scope
    BY <1>8, ScopeStays DEF Done, Returned, Goto, counters, ledgers,
       bounds, Scope, InScope
  <2>2. UNCHANGED <<memory, resWrite, cancels, restarts>>
    BY <1>8 DEF Done, counters, ledgers, bounds
  <2>3. ASSUME cancels = 0
        PROVE  \A d \in written' :
                 \/ d \in written
                 \/ pc'[d] = "leave" /\ outcome'[d] = "completed"
    <3>1. pc[c] = "run"
      BY <1>8, <2>3 DEF Done
    <3>2. /\ outcome' = [outcome EXCEPT ![c] = "completed"]
          /\ c \in Writing => pc' = [pc EXCEPT ![c] = "leave"]
      BY <1>8, <3>1 DEF Done, Returned, Goto
    <3>. QED
      BY <1>8, <3>2 DEF Done
  <2>4. \A d \in Calls :
          pc[d] = "leave" =>
            pc'[d] = pc[d] /\ (cancels = 0 => outcome'[d] = outcome[d])
    BY <1>8 DEF Done, Returned, Goto
  <2>. QED
    BY <2>1, <2>2, <2>3, <2>4
<1>9. ASSUME NEW c \in Calls, Fail(c) PROVE Measured'
  <2>1. Scope' = Scope
    BY <1>9, ScopeStays DEF Fail, Fault, Returned, Goto, counters, ledgers,
       Scope, InScope
  <2>. QED
    BY <1>9, <2>1 DEF Fail, Fault, Returned, Goto, counters, ledgers
<1>10. ASSUME NEW c \in Calls, StartCooldown(c) PROVE Measured'
  <2>1. Scope' = Scope
    BY <1>10, ScopeStays DEF StartCooldown, Goto, counters, ledgers, bounds,
       Scope, InScope
  <2>. QED
    BY <1>10, <2>1 DEF StartCooldown, Goto, counters, ledgers, bounds
<1>11. ASSUME NEW c \in Calls, Leave(c) PROVE Measured'
  <2>1. /\ UNCHANGED <<outcome, written, cancels, restarts>>
        /\ resWrite' = IF c \in Writing THEN Larger(0, resWrite - Size[c])
                                        ELSE resWrite
        /\ memory' = IF outcome[c] = "completed" THEN memory \cup {c}
                                                  ELSE memory
        /\ \A d \in Calls : d # c => pc'[d] = pc[d]
    BY <1>11 DEF Leave, Goto, bounds
  <2>2. pc[c] = "leave" /\ c \in OnNas
    BY <1>11 DEF Leave
  <2>3. Scope = Scope' \cup {c} /\ c \notin Scope' /\ Scope' \in SUBSET Calls
    BY <1>11, <2>2 DEF Leave, Goto, Scope, InScope
  <2>4. /\ Bytes(Scope) = Bytes(Scope') + IF c \in Writing THEN Size[c] ELSE 0
        /\ Bytes(Scope') \in Nat
    BY <2>3, BytesGrow, BytesType
  <2>5. /\ Bytes(memory') <=
             Bytes(memory) + IF c \in Writing THEN Size[c] ELSE 0
        /\ Bytes(memory') \in Nat
    <3>1. memory' = memory \/ memory' = memory \cup {c}
      BY <2>1, Zenon
    <3>2. memory' = memory \/ (c \notin memory /\ memory' = memory \cup {c})
      <4>1. c \in memory => memory \cup {c} = memory
        OBVIOUS
      <4>. QED
        BY <3>1, <4>1, Zenon
    <3>3. memory' \in SUBSET Calls
      BY <1>0, <3>1
    <3>4. Bytes(memory') \in Nat
      BY <3>3, BytesType
    <3>5. CASE memory' = memory
      BY <1>0, <3>5
    <3>6. CASE c \notin memory /\ memory' = memory \cup {c}
      <4>1. Bytes(memory') =
              Bytes(memory) + IF c \in Writing THEN Size[c] ELSE 0
        BY <1>0, <3>6, BytesGrow
      <4>. QED
        BY <1>0, <3>4, <4>1
    <3>. QED
      BY <3>2, <3>4, <3>5, <3>6
  <2>6. resWrite' = resWrite - IF c \in Writing THEN Size[c] ELSE 0
    BY <2>1, <2>4 DEF Larger
  <2>7. \A d \in written' : d = c \/ d \in written
    BY <2>1
  <2>. QED
    BY <1>0, <2>1, <2>2, <2>4, <2>5, <2>6
<1>12. ASSUME NEW c \in Calls, Persist(c) PROVE Measured'
  <2>1. Scope' = Scope
    BY <1>12, ScopeStays DEF Persist, Fault, Unlock, Goto, counters, Scope,
       InScope
  <2>. QED
    BY <1>12, <2>1 DEF Persist, Fault, Unlock, Goto, counters
<1>13. ASSUME NEW c \in Calls, CancelLocking(c) PROVE Measured'
  <2>1. Scope' = Scope
    BY <1>13, ScopeStays DEF CancelLocking, Cancellation, Goto, counters,
       ledgers, Scope, InScope
  <2>. QED
    BY <1>13, <2>1 DEF CancelLocking, Cancellation, Goto, counters, ledgers
<1>14. ASSUME NEW c \in Calls, CancelOutside(c) PROVE Measured'
  <2>1. Scope' = Scope
    BY <1>14, ScopeStays DEF CancelOutside, Cancellation, Unlock, Goto,
       counters, ledgers, Scope, InScope
  <2>. QED
    BY <1>14, <2>1 DEF CancelOutside, Cancellation, Unlock, Goto, counters,
       ledgers
<1>15. ASSUME NEW c \in Calls, CancelWorking(c) PROVE Measured'
  <2>1. Scope' = Scope
    BY <1>15, ScopeStays DEF CancelWorking, Cancellation, Unlock, Goto,
       counters, ledgers, Scope, InScope
  <2>. QED
    BY <1>15, <2>1 DEF CancelWorking, Cancellation, Unlock, Goto, counters,
       ledgers
<1>16. ASSUME NEW c \in Calls, CancelLeaving(c) PROVE Measured'
  <2>1. Scope' \subseteq Scope
    BY <1>16 DEF CancelLeaving, Goto, Scope, InScope
  <2>2. Bytes(Scope') \in Nat /\ Bytes(Scope') <= Bytes(Scope)
    BY <1>0, <2>1, BytesType
  <2>. QED
    BY <1>0, <1>16, <2>2 DEF CancelLeaving, Cancellation, counters
<1>17. CASE CooldownEnds
  <2>1. Scope' = Scope
    BY <1>17 DEF CooldownEnds, Scope
  <2>. QED
    BY <1>17, <2>1 DEF CooldownEnds, counters, ledgers, bounds
<1>18. CASE Restart
  <2>1. Scope' = {}
    BY <1>18 DEF Restart, Scope, InScope
  <2>2. Bytes(Scope') = 0
    BY <2>1, BytesNone
  <2>. QED
    BY <1>18, <2>2 DEF Restart
<1>19. CASE UNCHANGED vars
  <2>1. Scope' = Scope
    BY <1>19 DEF vars, Scope
  <2>. QED
    BY <1>19, <2>1 DEF vars, counters, ledgers, bounds
<1>. HIDE DEF TypeOK, Routes, Awaited, Measured
<1>20. ASSUME NEW c \in Calls, Step(c) \/ Cancel(c) PROVE Measured'
  BY <1>1, <1>2, <1>3, <1>4, <1>5, <1>6, <1>7, <1>8, <1>9, <1>10, <1>11,
     <1>12, <1>13, <1>14, <1>15, <1>16, <1>20, Zenon DEF Step, Cancel
<1>. QED
  BY <1>17, <1>18, <1>19, <1>20, Zenon DEF Next
(* A step cancels one task or none.                                        *)
LEMMA CancelsStep ==
  ASSUME [Next]_vars
  PROVE  cancels' = cancels \/ cancels' = cancels + 1
<1>1. ASSUME NEW c \in Calls, Step(c) PROVE cancels' = cancels
  BY <1>1 DEF Step, Call, Acquire, RefuseAtOnce, AdmitUncounted, AskUsage,
     Query, Decide, Done, Fail, StartCooldown, Leave, Persist, bounds
<1>2. ASSUME NEW c \in Calls, Cancel(c) PROVE cancels' = cancels + 1
  BY <1>2 DEF Cancel, CancelLocking, CancelOutside, CancelWorking,
     CancelLeaving, Cancellation
<1>3. CooldownEnds \/ Restart \/ UNCHANGED vars => cancels' = cancels
  BY DEF CooldownEnds, Restart, vars, bounds
<1>. QED
  BY <1>1, <1>2, <1>3 DEF Next

(* Each step keeps the books exact, unless it cancels a task.              *)
LEMMA ExactStep ==
  TypeOK /\ Routes /\ Awaited /\ Exact /\ [Next]_vars => Exact'
<1>. SUFFICES ASSUME TypeOK, Routes, Awaited, Exact, [Next]_vars,
                     cancels = 0, cancels' = 0
              PROVE  Exact'
  <2>1. cancels' # 0 => Exact'
    BY DEF Exact
  <2>2. TypeOK /\ [Next]_vars /\ cancels # 0 => cancels' # 0
    <3>. SUFFICES ASSUME TypeOK, [Next]_vars, cancels # 0 PROVE cancels' # 0
      OBVIOUS
    <3>1. cancels' = cancels \/ cancels' = cancels + 1
      BY CancelsStep
    <3>. QED
      BY <3>1, PolicyAssumption DEF TypeOK
  <2>. QED
    BY <2>1, <2>2
<1>. USE PolicyAssumption DEF TypeOK, Routes, Awaited, Exact
<1>0. /\ Scope \in SUBSET Calls /\ Bytes(Scope) \in Nat
      /\ Cardinality(Scope) \in Nat /\ Cardinality(ReplScope) \in Nat
  BY BytesType, ScopeFinite DEF Scope
<1>1. ASSUME NEW c \in Calls, Call(c) PROVE Exact'
  <2>1. Scope' = Scope /\ ReplScope' = ReplScope
    BY <1>1, ScopeStays DEF Call, Goto, counters, ledgers, bounds, Scope,
       InScope
  <2>2. \A d \in Calls : pc[d] = "lock" \/ Working(d)
                            => pc'[d] = "lock" \/ Working(d)'
    BY <1>1 DEF Call, Goto, counters, ledgers, bounds, Working, InScope
  <2>. QED
    BY <1>1, <2>1, <2>2 DEF Call, Goto, counters, ledgers, bounds
<1>2. ASSUME NEW c \in Calls, Acquire(c) PROVE Exact'
  <2>1. Scope' = Scope /\ ReplScope' = ReplScope
    BY <1>2, ScopeStays DEF Acquire, Goto, counters, ledgers, bounds, Scope,
       InScope
  <2>2. \A k \in Paths, d \in Calls :
          owner'[k] = d => pc'[d] = "lock" \/ Working(d)'
    BY <1>2 DEF Acquire, Goto, counters, ledgers, bounds, Working, InScope
  <2>. QED
    BY <1>2, <2>1, <2>2 DEF Acquire, Goto, counters, ledgers, bounds
<1>3. ASSUME NEW c \in Calls, RefuseAtOnce(c) PROVE Exact'
  <2>1. Scope' = Scope /\ ReplScope' = ReplScope
    BY <1>3, ScopeStays DEF RefuseAtOnce, Refuse, Goto, counters, ledgers,
       bounds, Scope, InScope
  <2>2. \A d \in Calls : pc[d] = "lock" \/ Working(d)
                            => pc'[d] = "lock" \/ Working(d)'
    BY <1>3 DEF RefuseAtOnce, Refuse, Goto, counters, ledgers, bounds,
       Working, InScope
  <2>. QED
    BY <1>3, <2>1, <2>2 DEF RefuseAtOnce, Refuse, Goto, counters, ledgers,
       bounds
<1>4. ASSUME NEW c \in Calls, AdmitUncounted(c) PROVE Exact'
  <2>1. /\ c \notin Writing /\ c \in OnNas /\ pc[c] = "enter"
        /\ Goto(c, "run") /\ owner' = owner
        /\ active' = active + 1 /\ resWrite' = resWrite /\ resRepl' = resRepl
    BY <1>4 DEF AdmitUncounted, Admit
  <2>2. Scope' = Scope \cup {c} /\ c \notin Scope
    BY <2>1 DEF Goto, Scope, InScope
  <2>3. Bytes(Scope') = Bytes(Scope)
    BY <1>0, <2>1, <2>2, BytesGrow
  <2>4. /\ Cardinality(Scope') = Cardinality(Scope) + 1
        /\ Cardinality(ReplScope') = Cardinality(ReplScope)
    BY <1>0, <2>1, ScopeGrows DEF InScope
  <2>5. \A d \in Calls : pc[d] = "lock" \/ Working(d)
                            => pc'[d] = "lock" \/ Working(d)'
    BY <2>1 DEF Goto, Working, InScope
  <2>. QED
    BY <2>1, <2>3, <2>4, <2>5
<1>5. ASSUME NEW c \in Calls, AskUsage(c) PROVE Exact'
  <2>1. Scope' = Scope /\ ReplScope' = ReplScope
    BY <1>5, ScopeStays DEF AskUsage, Goto, counters, ledgers, bounds,
       Scope, InScope
  <2>2. \A d \in Calls : pc[d] = "lock" \/ Working(d)
                            => pc'[d] = "lock" \/ Working(d)'
    BY <1>5 DEF AskUsage, Goto, counters, ledgers, bounds, Working, InScope
  <2>. QED
    BY <1>5, <2>1, <2>2 DEF AskUsage, Goto, counters, ledgers, bounds
<1>6. ASSUME NEW c \in Calls, Query(c) PROVE Exact'
  <2>1. Scope' = Scope /\ ReplScope' = ReplScope
    BY <1>6, ScopeStays DEF Query, Fault, Goto, counters, Scope, InScope
  <2>2. \A d \in Calls : pc[d] = "lock" \/ Working(d)
                            => pc'[d] = "lock" \/ Working(d)'
    BY <1>6 DEF Query, Fault, Goto, counters, Working, InScope
  <2>. QED
    BY <1>6, <2>1, <2>2 DEF Query, Fault, Goto, counters
<1>7. ASSUME NEW c \in Calls, Decide(c) PROVE Exact'
  <2>1. /\ c \in Writing /\ c \in OnNas /\ pc[c] = "decide"
        /\ owner' = owner
    BY <1>7 DEF Decide
  <2>2. \A d \in Calls : pc[d] = "lock" \/ Working(d)
                            => pc'[d] = "lock" \/ Working(d)'
    BY <1>7 DEF Decide, Admit, Refuse, Goto, Working, InScope
  <2>3. CASE Fits(c)
    <3>1. /\ resWrite' = resWrite + Size[c] /\ Goto(c, "run")
          /\ active' = active + 1
          /\ resRepl' = resRepl + IF c \in Replacing THEN 1 ELSE 0
      BY <1>7, <2>3 DEF Decide, Admit
    <3>2. Scope' = Scope \cup {c} /\ c \notin Scope
      BY <2>1, <3>1 DEF Goto, Scope, InScope
    <3>3. Bytes(Scope') = Bytes(Scope) + Size[c]
      BY <1>0, <2>1, <3>2, BytesGrow
    <3>4. /\ Cardinality(Scope') = Cardinality(Scope) + 1
          /\ Cardinality(ReplScope') =
               Cardinality(ReplScope) + IF c \in Replacing THEN 1 ELSE 0
      BY <2>1, <3>1, ScopeGrows DEF InScope
    <3>. QED
      BY <2>1, <2>2, <3>1, <3>3, <3>4
  <2>4. CASE ~Fits(c)
    <3>1. Goto(c, "persist") /\ UNCHANGED counters
      BY <1>7, <2>4 DEF Decide, Refuse
    <3>2. Scope' = Scope /\ ReplScope' = ReplScope
      BY <2>1, <3>1, ScopeStays DEF Scope, InScope
    <3>. QED
      BY <2>1, <2>2, <3>1, <3>2 DEF counters
  <2>. QED
    BY <2>3, <2>4
<1>8. ASSUME NEW c \in Calls, Done(c) PROVE Exact'
  <2>1. Scope' = Scope /\ ReplScope' = ReplScope
    BY <1>8, ScopeStays DEF Done, Returned, Goto, counters, ledgers, bounds,
       Scope, InScope
  <2>2. \A d \in Calls : pc[d] = "lock" \/ Working(d)
                            => pc'[d] = "lock" \/ Working(d)'
    BY <1>8 DEF Done, Returned, Goto, counters, ledgers, bounds, Working,
       InScope
  <2>. QED
    BY <1>8, <2>1, <2>2 DEF Done, Returned, Goto, counters, ledgers, bounds
<1>9. ASSUME NEW c \in Calls, Fail(c) PROVE Exact'
  <2>1. Scope' = Scope /\ ReplScope' = ReplScope
    BY <1>9, ScopeStays DEF Fail, Fault, Returned, Goto, counters, ledgers,
       Scope, InScope
  <2>2. \A d \in Calls : pc[d] = "lock" \/ Working(d)
                            => pc'[d] = "lock" \/ Working(d)'
    BY <1>9 DEF Fail, Fault, Returned, Goto, counters, ledgers, Working,
       InScope
  <2>. QED
    BY <1>9, <2>1, <2>2 DEF Fail, Fault, Returned, Goto, counters, ledgers
<1>10. ASSUME NEW c \in Calls, StartCooldown(c) PROVE Exact'
  <2>1. Scope' = Scope /\ ReplScope' = ReplScope
    BY <1>10, ScopeStays DEF StartCooldown, Goto, counters, ledgers, bounds,
       Scope, InScope
  <2>2. \A d \in Calls : pc[d] = "lock" \/ Working(d)
                            => pc'[d] = "lock" \/ Working(d)'
    BY <1>10 DEF StartCooldown, Goto, counters, ledgers, bounds, Working,
       InScope
  <2>. QED
    BY <1>10, <2>1, <2>2 DEF StartCooldown, Goto, counters, ledgers, bounds
<1>11. ASSUME NEW c \in Calls, Leave(c) PROVE Exact'
  <2>1. /\ active' = Larger(0, active - 1)
        /\ resWrite' = IF c \in Writing THEN Larger(0, resWrite - Size[c])
                                        ELSE resWrite
        /\ resRepl' = IF c \in Replacing THEN Larger(0, resRepl - 1)
                                          ELSE resRepl
        /\ c \in OnNas /\ pc[c] = "leave"
    BY <1>11 DEF Leave
  <2>2. PICK l \in {"cancelled", "persist"} : Goto(c, l)
    BY <1>11 DEF Leave
  <2>3. Scope = Scope' \cup {c} /\ c \notin Scope' /\ Scope' \in SUBSET Calls
    BY <2>1, <2>2 DEF Goto, Scope, InScope
  <2>4. /\ Bytes(Scope) = Bytes(Scope') + IF c \in Writing THEN Size[c] ELSE 0
        /\ Bytes(Scope') \in Nat
    BY <2>3, BytesGrow, BytesType
  <2>5. /\ Cardinality(Scope') = Cardinality(Scope) - 1
        /\ Cardinality(ReplScope') =
             Cardinality(ReplScope) - IF c \in Replacing THEN 1 ELSE 0
    BY <2>1, <2>2, ScopeShrinks DEF InScope
  <2>6. Cardinality(Scope') \in Nat /\ Cardinality(ReplScope') \in Nat
    <3>1. Scope' \subseteq Scope /\ ReplScope' \subseteq ReplScope
      BY <2>3 DEF ReplScope
    <3>. QED
      BY <3>1, ScopeFinite, FS_Subset, FS_CardinalityType
  <2>7. active' = Cardinality(Scope') /\ resWrite' = Bytes(Scope')
    BY <1>0, <2>1, <2>4, <2>5, <2>6 DEF Larger
  <2>8. resRepl' = Cardinality(ReplScope')
    BY <1>0, <2>1, <2>5, <2>6 DEF Larger
  <2>9. \A k \in Paths, d \in Calls :
          owner'[k] = d => pc'[d] = "lock" \/ Working(d)'
    BY <1>11, <2>2 DEF Leave, Unlock, Goto, Working, InScope
  <2>. QED
    BY <2>7, <2>8, <2>9
<1>12. ASSUME NEW c \in Calls, Persist(c) PROVE Exact'
  <2>1. Scope' = Scope /\ ReplScope' = ReplScope
    BY <1>12, ScopeStays DEF Persist, Fault, Unlock, Goto, counters, Scope,
       InScope
  <2>2. \A k \in Paths, d \in Calls :
          owner'[k] = d => pc'[d] = "lock" \/ Working(d)'
    BY <1>12 DEF Persist, Fault, Unlock, Goto, counters, Working, InScope
  <2>. QED
    BY <1>12, <2>1, <2>2 DEF Persist, Fault, Unlock, Goto, counters
<1>13. ASSUME NEW c \in Calls, Cancel(c) PROVE Exact'
  <2>1. cancels' = cancels + 1
    BY <1>13 DEF Cancel, CancelLocking, CancelOutside, CancelWorking,
       CancelLeaving, Cancellation
  <2>. QED
    BY <2>1
<1>14. CASE CooldownEnds
  BY <1>14 DEF CooldownEnds, counters, ledgers, bounds, Scope, ReplScope,
     Working
<1>15. CASE Restart
  <2>1. Scope' = {} /\ ReplScope' = {}
    BY <1>15 DEF Restart, Scope, ReplScope, InScope
  <2>2. Bytes(Scope') = 0
    BY <2>1, BytesNone
  <2>. QED
    BY <1>15, <2>1, <2>2, FS_EmptySet DEF Restart
<1>16. CASE UNCHANGED vars
  BY <1>16 DEF vars, counters, ledgers, bounds, Scope, ReplScope, Working
<1>. HIDE DEF TypeOK, Routes, Awaited, Exact
<1>17. ASSUME NEW c \in Calls, Step(c) PROVE Exact'
  BY <1>1, <1>2, <1>3, <1>4, <1>5, <1>6, <1>7, <1>8, <1>9, <1>10, <1>11,
     <1>12, <1>17, Zenon DEF Step
<1>. QED
  BY <1>13, <1>14, <1>15, <1>16, <1>17, Zenon DEF Next
-----------------------------------------------------------------------------
(* The conjuncts together: the invariant is inductive.                     *)
LEMMA InvStep == IInv /\ [Next]_vars => IInv'
BY TypeStep, RoutesStep, HoldsStep, CountedStep, AwaitedStep, BookedStep,
   MeasuredStep, ExactStep DEF IInv

(* The invariant holds in every reachable state, whatever is cancelled and *)
(* however often the process restarts.                                     *)
THEOREM Invariant == Spec => []IInv
<1>1. Init => IInv
  BY InitInv
<1>2. IInv /\ [Next]_vars => IInv'
  BY InvStep
<1>. QED
  BY <1>1, <1>2, PTL DEF Spec

(* Every variable keeps its type.                                          *)
THEOREM TypeCorrect == Spec => []TypeOK
<1>1. IInv => TypeOK
  BY DEF IInv
<1>. QED
  BY <1>1, Invariant, PTL

(* No two tasks work on one path: each would hold its lock.                *)
THEOREM TasksAlone == Spec => []TasksExclusive
<1>1. ASSUME IInv PROVE TasksExclusive
  <2>. SUFFICES ASSUME NEW c \in Calls, NEW d \in Calls,
                       Working(c), Working(d), c # d,
                       NEW k \in KeysOf[c] \cap KeysOf[d]
                PROVE  FALSE
    BY DEF TasksExclusive
  <2>. QED
    BY <1>1 DEF IInv, Holds
<1>. QED
  BY <1>1, Invariant, PTL

(* No more tasks are in the policy scope than the limit allows: the        *)
(* counter, which may be too high after a cancellation, bounds them.       *)
THEOREM ScopeBounded == Spec => []ScopeKept
<1>1. IInv => ScopeKept
  BY ScopeFinite, PolicyAssumption DEF IInv, TypeOK, Counted, ScopeKept
<1>. QED
  BY <1>1, Invariant, PTL

(* Where no task is cancelled, no two threads work on one path.            *)
THEOREM PathsAlone ==
  ASSUME MaxCancels = 0
  PROVE  Spec => []PathsExclusive
<1>1. ASSUME IInv PROVE PathsExclusive
  <2>1. cancels = 0
    BY <1>1 DEF IInv, TypeOK
  <2>2. \A c \in threads : c \in Calls /\ Working(c)
    BY <1>1, <2>1 DEF IInv, TypeOK, Awaited, Working, InScope
  <2>. SUFFICES ASSUME NEW c \in threads, NEW d \in threads, c # d,
                       NEW k \in KeysOf[c] \cap KeysOf[d]
                PROVE  FALSE
    BY DEF PathsExclusive
  <2>. QED
    BY <1>1, <2>2 DEF IInv, Holds
<1>. QED
  BY <1>1, Invariant, PTL

(* Where no task is cancelled, the NAS has no more threads at work on it   *)
(* than nas_max_concurrent_operations.                                     *)
THEOREM ConcurrencyBounded ==
  ASSUME MaxCancels = 0
  PROVE  Spec => []ConcurrencyKept
<1>1. ASSUME IInv PROVE ConcurrencyKept
  <2>1. cancels = 0
    BY <1>1 DEF IInv, TypeOK
  <2>2. threads \cap OnNas \subseteq Scope
    BY <1>1, <2>1 DEF IInv, Awaited, Scope, InScope
  <2>3. /\ Cardinality(threads \cap OnNas) \in Nat
        /\ Cardinality(threads \cap OnNas) <= Cardinality(Scope)
    BY <2>2, ScopeFinite, FS_Subset, FS_CardinalityType
  <2>. QED
    BY <1>1, <2>3, ScopeFinite, PolicyAssumption
    DEF IInv, TypeOK, Counted, ConcurrencyKept
<1>. QED
  BY <1>1, Invariant, PTL

(* While no task is cancelled and the process is not restarted, no more    *)
(* replacements take place within the day than the limit allows, whatever  *)
(* the database answers and loses.                                         *)
THEOREM ReplacementsBounded == Spec => []ReplacementsKept
<1>1. ASSUME IInv PROVE ReplacementsKept
  <2>. SUFFICES ASSUME cancels = 0, restarts = 0 PROVE DailyLimit
    BY DEF ReplacementsKept
  <2>. DEFINE M == memory \cap Replacing
  <2>1. cancels = 0 /\ restarts = 0
    OBVIOUS
  <2>2. written \cap Replacing \subseteq M \cup ReplScope
    BY <1>1, <2>1, PolicyAssumption
    DEF IInv, Booked, ReplScope, Scope, InScope
  <2>3. IsFiniteSet(M) /\ Cardinality(M) \in Nat
    BY <1>1, FS_Subset, FS_CardinalityType, PolicyAssumption DEF IInv, TypeOK
  <2>4. /\ IsFiniteSet(M \cup ReplScope)
        /\ Cardinality(M \cup ReplScope)
             <= Cardinality(M) + Cardinality(ReplScope)
    <3>1. IsFiniteSet(M \cap ReplScope) /\ Cardinality(M \cap ReplScope) \in Nat
      BY <2>3, FS_Subset, FS_CardinalityType
    <3>2. /\ IsFiniteSet(M \cup ReplScope)
          /\ Cardinality(M \cup ReplScope) =
               Cardinality(M) + Cardinality(ReplScope)
                 - Cardinality(M \cap ReplScope)
      BY <2>3, ScopeFinite, FS_Union, Zenon
    <3>. HIDE DEF M
    <3>. QED
      BY <2>3, <3>1, <3>2, ScopeFinite
  <2>5. /\ Cardinality(written \cap Replacing) \in Nat
        /\ Cardinality(written \cap Replacing) <= Cardinality(M \cup ReplScope)
        /\ Cardinality(M \cup ReplScope) \in Nat
    BY <2>2, <2>4, FS_Subset, FS_CardinalityType
  <2>6. Cardinality(M) + resRepl <= MaxReplacements
    BY <1>1, <2>1 DEF IInv, Booked, Replacements
  <2>7. Cardinality(ReplScope) <= resRepl
    BY <1>1 DEF IInv, Counted
  <2>. QED
    BY <1>1, <2>3, <2>4, <2>5, <2>6, <2>7, ScopeFinite, PolicyAssumption
    DEF IInv, TypeOK, DailyLimit, Replacements
<1>. QED
  BY <1>1, Invariant, PTL

(* Nor do the moves of the day carry more than nas_max_write_gb_per_day:   *)
(* what has been written is recorded, or its reservation still stands.     *)
THEOREM VolumeBounded == Spec => []WritesKept
<1>1. ASSUME IInv PROVE WritesKept
  <2>. SUFFICES ASSUME cancels = 0, restarts = 0
                PROVE  Bytes(written) <= MaxWrite
    BY DEF WritesKept
  <2>1. /\ cancels = 0 /\ restarts = 0
        /\ memory \in SUBSET Calls /\ Scope \in SUBSET Calls
        /\ memory \cup Scope \in SUBSET Calls
    BY <1>1, PolicyAssumption DEF IInv, TypeOK, Scope
  <2>2. written \subseteq memory \cup Scope
    BY <1>1, <2>1, PolicyAssumption
    DEF IInv, TypeOK, Measured, Scope, InScope
  <2>3. /\ Bytes(written) \in Nat /\ Bytes(memory \cup Scope) \in Nat
        /\ Bytes(written) <= Bytes(memory \cup Scope)
    BY <2>1, <2>2, BytesType
  <2>4. Bytes(memory) \in Nat /\ Bytes(Scope) \in Nat
    BY <2>1, BytesType
  <2>5. Bytes(memory \cup Scope) <= Bytes(memory) + Bytes(Scope)
    BY <2>1, BytesJoin
  <2>6. Bytes(Scope) <= resWrite /\ Bytes(memory) + resWrite <= MaxWrite
    BY <1>1, <2>1 DEF IInv, Measured
  <2>7. resWrite \in Nat /\ MaxWrite \in Nat
    BY <1>1, PolicyAssumption DEF IInv, TypeOK
  <2>. QED
    BY <2>3, <2>4, <2>5, <2>6, <2>7
<1>. QED
  BY <1>1, Invariant, PTL

(* Where no task is cancelled, calls that have ended hold nothing: every   *)
(* lock is free, the guard too, and all that was reserved has been given   *)
(* back, also when operations fail or the process restarts.                *)
THEOREM NothingKept ==
  ASSUME MaxCancels = 0
  PROVE  Spec => []AllReturned
<1>1. ASSUME IInv PROVE AllReturned
  <2>. SUFFICES ASSUME \A c \in Calls : pc[c] \in Ended
                PROVE  /\ \A k \in Paths : owner[k] = Nobody
                       /\ guard = Nobody
                       /\ active = 0 /\ resWrite = 0 /\ resRepl = 0
    BY DEF AllReturned
  <2>1. Exact /\ Counted /\ TypeOK /\ cancels = 0
    <3>1. Exact /\ Counted /\ TypeOK
      BY <1>1 DEF IInv
    <3>. QED
      BY <3>1 DEF TypeOK
  <2>2. Scope = {} /\ ReplScope = {}
    BY PolicyAssumption DEF Scope, ReplScope, InScope, Ended
  <2>3. active = 0 /\ resWrite = 0 /\ resRepl = 0
    BY <2>1, <2>2, BytesNone, FS_EmptySet DEF Exact
  <2>4. \A k \in Paths : owner[k] = Nobody
    BY <2>1 DEF Exact, TypeOK, Working, InScope, Ended
  <2>5. guard = Nobody
    BY <2>1 DEF Counted, Ended
  <2>. QED
    BY <2>3, <2>4, <2>5
<1>. QED
  BY <1>1, Invariant, PTL
=============================================================================
