---------------------- MODULE MutationIdempotencyProofs ----------------------
(***************************************************************************)
(* Proofs about the idempotency store, for every set of keys, every lease  *)
(* and retention time and every order of calls.                            *)
(***************************************************************************)
EXTENDS MutationIdempotency, TLAPS

USE LockOfAssumption, NoKeyAssumption, LeaseTimeAssumption,
    RetentionAssumption, MaxTimeAssumption

\* The constants the records are built from have the types they should.
LEMMA RecordTypes ==
    ASSUME TypeOK
    PROVE  /\ AbsentRecord \in IdempotencyRecord
           /\ \A o \in Outcome : Resolved(o) \in IdempotencyRecord
           /\ [outcome |-> "PENDING", updated_at |-> now,
               lease |-> now + LeaseTime] \in IdempotencyRecord
BY DEF TypeOK, AbsentRecord, Resolved, IdempotencyRecord, Outcome, NoLease

\* Popping a lease leaves a well-formed table, and touches one lock key only.
LEMMA PopLeaseType ==
    ASSUME TypeOK, NEW k \in Key
    PROVE  PopLease(k) \in [LockKey -> Key \cup {NoKey}]
BY DEF TypeOK, PopLease

\* A contending holder is another key with a PENDING record.
LEMMA HolderIsPending ==
    ASSUME TypeOK, NEW k \in Key, ContendingHolder(k) # NoKey
    PROVE  /\ ContendingHolder(k) \in Key \ {k}
           /\ Pending(ContendingHolder(k))
<1>1. PopLease(k)[LockOf[k]] \in Key \cup {NoKey}
  BY PopLeaseType
<1> QED
  BY <1>1 DEF ContendingHolder

\* begin answers NEW only when no key of the same lock key is PENDING.
LEMMA NewIsUncontended ==
    ASSUME StoreInv, NEW k \in Key, BeginDecision(k) = "NEW",
           NEW j \in Key, LockOf[j] = LockOf[k]
    PROVE  /\ ~Pending(j)
           /\ records[k].outcome \in {"ABSENT", "FAILED_CLEAN"}
<1>1. /\ records[k].outcome \in {"ABSENT", "FAILED_CLEAN"}
      /\ ContendingHolder(k) = NoKey
  BY DEF BeginDecision, StoreInv, TypeOK, IdempotencyRecord, Outcome, Pending
<1>2. PopLease(k) = leases
  BY <1>1 DEF StoreInv, OnlyPendingLeased, PopLease, Pending
<1>3. ASSUME Pending(j) PROVE FALSE
  <2>1. leases[LockOf[k]] = j /\ j # k
    BY <1>1, <1>3 DEF StoreInv, PendingHoldsLease, Pending
  <2> QED
    BY <2>1, <1>1, <1>2, <1>3 DEF ContendingHolder
<1> QED
  BY <1>1, <1>3

\* Ending the PENDING record of a key, by resolution or by expiry, keeps the
\* table and the records in agreement.
LEMMA EndKeepsInv ==
    ASSUME StoreInv, NEW k \in Key, Pending(k), NEW o \in Outcome \ {"PENDING"},
           records' = [records EXCEPT ![k] = Resolved(o)],
           now' = now,
           \/ leases' = PopLease(k)
           \/ leases' = leases
    PROVE  StoreInv'
<1>1. TypeOK'
  BY RecordTypes, PopLeaseType DEF StoreInv, TypeOK
<1>2. PendingHoldsLease'
  <2> SUFFICES ASSUME NEW j \in Key, Pending(j)'
               PROVE  records'[j].lease # NoLease /\ leases'[LockOf[j]] = j
    BY DEF PendingHoldsLease
  <2>1. j # k /\ records'[j] = records[j]
    BY DEF Pending, StoreInv, TypeOK, Resolved
  <2>2. records[j].lease # NoLease /\ leases[LockOf[j]] = j
    BY <2>1 DEF StoreInv, PendingHoldsLease, Pending
  <2>3. LockOf[j] # LockOf[k]
    BY <2>1, <2>2 DEF StoreInv, PendingHoldsLease
  <2> QED
    BY <2>1, <2>2, <2>3 DEF PopLease, StoreInv, TypeOK
<1>3. OnlyPendingLeased'
  BY DEF StoreInv, OnlyPendingLeased, Pending, TypeOK, Resolved
<1> QED
  BY <1>1, <1>2, <1>3 DEF StoreInv

\* Each method of the store preserves the invariant.
LEMMA CallKeepsInv ==
    ASSUME StoreInv, NEW k \in Key, Call(k)
    PROVE  StoreInv'
<1> USE DEF StoreInv
<1>1. CASE BeginNew(k)
  <2>1. \A j \in Key : LockOf[j] = LockOf[k] => ~Pending(j)
    BY <1>1, NewIsUncontended DEF BeginNew
  <2>2. TypeOK'
    BY <1>1, RecordTypes DEF BeginNew, Call, TypeOK
  <2>3. PendingHoldsLease'
    BY <1>1, <2>1 DEF BeginNew, Call, TypeOK, PendingHoldsLease, Pending, NoLease
  <2>4. OnlyPendingLeased'
    BY <1>1 DEF BeginNew, Call, TypeOK, OnlyPendingLeased, Pending
  <2> QED
    BY <2>2, <2>3, <2>4
<1>2. CASE BeginLeaseLost(k)
  <2>1. Pending(k)
    BY <1>2 DEF BeginLeaseLost, BeginDecision
  <2> QED
    BY <1>2, <2>1, EndKeepsInv DEF BeginLeaseLost, Call, Outcome
<1>3. CASE BeginHolderLost(k)
  <2>1. /\ ContendingHolder(k) # NoKey
        /\ records[k].outcome \in {"ABSENT", "FAILED_CLEAN"}
    BY <1>3 DEF BeginHolderLost, BeginDecision, TypeOK, IdempotencyRecord, Outcome, Pending
  <2>2. PopLease(k) = leases
    BY <2>1 DEF OnlyPendingLeased, PopLease, Pending
  <2>3. ContendingHolder(k) \in Key /\ Pending(ContendingHolder(k))
    BY <2>1, HolderIsPending
  <2> QED
    BY <1>3, <2>2, <2>3, EndKeepsInv DEF BeginHolderLost, Call, Outcome
<1>4. CASE BeginRefused(k)
  <2>1. leases' = leases /\ records' = records /\ now' = now
    <3>1. CASE BeginDecision(k) = "LOCKED"
      <4>1. ~Pending(k)
        BY <3>1 DEF BeginDecision
      <4> QED
        BY <1>4, <3>1, <4>1 DEF BeginRefused, PopLease, OnlyPendingLeased, Call
    <3> QED
      BY <1>4, <3>1 DEF BeginRefused, Call
  <2> QED
    BY <2>1 DEF TypeOK, PendingHoldsLease, OnlyPendingLeased, Pending
<1>5. CASE Commit(k) \/ FailClean(k) \/ MarkAmbiguous(k)
  BY <1>5, EndKeepsInv DEF Commit, FailClean, MarkAmbiguous, Resolve, Call, Outcome
<1>6. CASE \E observed \in BOOLEAN : Reconcile(k, observed)
  <2> PICK observed \in BOOLEAN : Reconcile(k, observed)
    BY <1>6
  <2>1. TypeOK'
    BY DEF Reconcile, Call, TypeOK, IdempotencyRecord, Outcome
  <2>2. records'[k].lease = records[k].lease /\ records[k].lease = NoLease
    BY DEF Reconcile, TypeOK, IdempotencyRecord, OnlyPendingLeased, Pending
  <2>3. \A j \in Key \ {k} : records'[j] = records[j]
    BY DEF Reconcile, TypeOK
  <2>4. ~Pending(k)'
    BY DEF Reconcile, TypeOK, IdempotencyRecord, Pending
  <2> QED
    BY <2>1, <2>2, <2>3, <2>4 DEF Reconcile, PendingHoldsLease, TypeOK, OnlyPendingLeased, Pending
<1> QED
  BY <1>1, <1>2, <1>3, <1>4, <1>5, <1>6 DEF Call, Begin

\* The invariant is inductive.
LEMMA NextKeepsInv == StoreInv /\ [Next]_vars => StoreInv'
<1> SUFFICES ASSUME StoreInv, [Next]_vars PROVE StoreInv'
  OBVIOUS
<1>1. CASE Tick
  BY <1>1 DEF Tick, storeVars, StoreInv, TypeOK, PendingHoldsLease, OnlyPendingLeased, Pending
<1>2. CASE Purge
  <2>1. TypeOK'
    BY <1>2, RecordTypes DEF Purge, PurgeTerminal, StoreInv, TypeOK
  <2>2. \A k \in Key : \/ records'[k] = records[k]
                      \/ records'[k] = AbsentRecord
    BY <1>2 DEF Purge, PurgeTerminal
  <2> QED
    BY <1>2, <2>1, <2>2 DEF Purge, PurgeTerminal, StoreInv, PendingHoldsLease,
        OnlyPendingLeased, Pending, AbsentRecord
<1>3. CASE \E k \in Key : Call(k)
  BY <1>3, CallKeepsInv
<1>4. CASE UNCHANGED vars
  BY <1>4 DEF vars, StoreInv, TypeOK, PendingHoldsLease, OnlyPendingLeased, Pending
<1> QED
  BY <1>1, <1>2, <1>3, <1>4 DEF Next

\* The empty store satisfies the invariant.
LEMMA InitInv == Init => StoreInv
BY RecordTypes DEF Init, StoreInv, TypeOK, PendingHoldsLease, OnlyPendingLeased,
    Pending, AbsentRecord, IdempotencyRecord, Outcome, NoLease

\* In every reachable state a PENDING record is the holder the lease table
\* names, so popping the table by lock key in _resolve and _decide_existing
\* never removes the lease of another attempt.
THEOREM StoreInvariant == Spec => [](TypeOK /\ PendingHoldsLease /\ OnlyPendingLeased)
<1>1. Spec => []StoreInv
  BY InitInv, NextKeepsInv, PTL DEF Spec
<1> QED
  BY <1>1, PTL DEF StoreInv

\* At most one attempt per (repository, family, target) is PENDING.
THEOREM MutualExclusion == Spec => []OnePendingPerLock
<1>1. StoreInv => OnePendingPerLock
  BY DEF StoreInv, PendingHoldsLease, OnePendingPerLock
<1> QED
  BY <1>1, InitInv, NextKeepsInv, PTL DEF Spec

-----------------------------------------------------------------------------
(* Refinement: every call of the store is a step of the abstract lifecycle *)
(* or changes no outcome.                                                  *)

\* The outcomes of the records, as the abstract specification sees them.
OutcomeOf == [k \in Key |-> records[k].outcome]

\* Each method of the store is one abstract step, or changes no outcome.
LEMMA CallRefines ==
    ASSUME StoreInv, NEW k \in Key, Call(k)
    PROVE  Lifecycle!LifecycleNext \/ OutcomeOf' = OutcomeOf
<1>1. CASE BeginNew(k)
  <2>1. \A j \in Key : LockOf[j] = LockOf[k] => ~Pending(j)
    BY <1>1, NewIsUncontended DEF BeginNew
  <2>2. records[k].outcome \in {"ABSENT", "FAILED_CLEAN"}
    BY <1>1, NewIsUncontended DEF BeginNew
  <2>3. OutcomeOf' = [OutcomeOf EXCEPT ![k] = "PENDING"]
    BY <1>1 DEF BeginNew, OutcomeOf, StoreInv, TypeOK
  <2>4. Lifecycle!Start(k)
    BY <2>1, <2>2, <2>3 DEF Lifecycle!Start, Lifecycle!Unresolved, OutcomeOf, Pending
  <2> QED
    BY <2>4 DEF Lifecycle!LifecycleNext
<1>2. ASSUME NEW j \in Key, Pending(j),
             NEW o \in {"COMMITTED", "FAILED_CLEAN", "AMBIGUOUS"},
             records' = [records EXCEPT ![j] = Resolved(o)]
      PROVE  Lifecycle!LifecycleNext
  <2>1. OutcomeOf' = [OutcomeOf EXCEPT ![j] = o]
    BY <1>2 DEF Resolved, OutcomeOf, StoreInv, TypeOK
  <2>2. Lifecycle!Finish(j)
    BY <1>2, <2>1 DEF Lifecycle!Finish, Lifecycle!Unresolved, OutcomeOf, Pending
  <2> QED
    BY <2>2 DEF Lifecycle!LifecycleNext
<1>3. CASE BeginLeaseLost(k)
  BY <1>3, <1>2 DEF BeginLeaseLost, BeginDecision
<1>4. CASE BeginHolderLost(k)
  <2>1. ContendingHolder(k) # NoKey
    BY <1>4 DEF BeginHolderLost, BeginDecision, StoreInv, TypeOK,
        IdempotencyRecord, Outcome, Pending
  <2>2. ContendingHolder(k) \in Key /\ Pending(ContendingHolder(k))
    BY <2>1, HolderIsPending DEF StoreInv
  <2> QED
    BY <1>4, <2>2, <1>2 DEF BeginHolderLost
<1>5. CASE BeginRefused(k)
  BY <1>5 DEF BeginRefused, OutcomeOf
<1>6. CASE Commit(k) \/ FailClean(k) \/ MarkAmbiguous(k)
  BY <1>6, <1>2 DEF Commit, FailClean, MarkAmbiguous, Resolve
<1>7. CASE \E observed \in BOOLEAN : Reconcile(k, observed)
  <2> PICK observed \in BOOLEAN : Reconcile(k, observed)
    BY <1>7
  <2> DEFINE o == IF observed THEN "COMMITTED" ELSE "FAILED_CLEAN"
  <2>1. OutcomeOf' = [OutcomeOf EXCEPT ![k] = o]
    BY DEF Reconcile, OutcomeOf, StoreInv, TypeOK
  <2>2. Lifecycle!Observe(k)
    BY <2>1 DEF Lifecycle!Observe, OutcomeOf, Reconcile
  <2> QED
    BY <2>2 DEF Lifecycle!LifecycleNext
<1> QED
  BY <1>1, <1>3, <1>4, <1>5, <1>6, <1>7 DEF Call, Begin

\* So is every step of the specification.
LEMMA NextRefines ==
    StoreInv /\ [Next]_vars => [Lifecycle!LifecycleNext]_OutcomeOf
<1> SUFFICES ASSUME StoreInv, [Next]_vars
             PROVE  Lifecycle!LifecycleNext \/ OutcomeOf' = OutcomeOf
  OBVIOUS
<1>1. CASE Tick \/ UNCHANGED vars
  BY <1>1 DEF Tick, storeVars, vars, OutcomeOf
<1>2. CASE Purge
  <2> DEFINE K == {k \in Key : Purgeable(k)}
  <2>1. OutcomeOf' = [k \in Key |-> IF k \in K THEN "ABSENT" ELSE OutcomeOf[k]]
    BY <1>2 DEF Purge, PurgeTerminal, OutcomeOf, AbsentRecord
  <2>2. K \in SUBSET {k \in Key : OutcomeOf[k] \in {"COMMITTED", "FAILED_CLEAN"}}
    BY DEF Purgeable, StoreInv, TypeOK, IdempotencyRecord, Outcome, OutcomeOf
  <2>3. Lifecycle!Forget
    BY <2>1, <2>2 DEF Lifecycle!Forget, OutcomeOf
  <2> QED
    BY <2>3 DEF Lifecycle!LifecycleNext
<1>3. CASE \E k \in Key : Call(k)
  BY <1>3, CallRefines
<1> QED
  BY <1>1, <1>2, <1>3 DEF Next

\* The store implements the lifecycle: no unresolved or ambiguous attempt is
\* forgotten, ambiguity ends by observation only, and an attempt starts only
\* when no other key of its lock key is unresolved.
THEOREM Refinement == Spec => ImplementsLifecycle
<1>1. Init => Lifecycle!LifecycleInit
  BY DEF Init, Lifecycle!LifecycleInit, AbsentRecord
<1>2. StoreInv /\ [Next]_vars => [Lifecycle!LifecycleNext]_OutcomeOf
  BY NextRefines
<1> QED
  BY <1>1, <1>2, InitInv, NextKeepsInv, PTL
  DEF Spec, ImplementsLifecycle, Lifecycle!LifecycleSpec, OutcomeOf

=============================================================================
