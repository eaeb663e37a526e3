------------------------- MODULE MutationIdempotency -------------------------
(***************************************************************************)
(* The write-ahead idempotency and lease store of the Phase 3 mutation     *)
(* lanes: class IdempotencyStore of v2/mutation_idempotency.py.            *)
(*                                                                         *)
(* Every method runs under the store's threading.Lock, so a method call is *)
(* one action.  An idempotency key is a digest whose inputs include the    *)
(* repository, the operation and the target, so it determines the lock key *)
(* (repository, family, target): LockOf is a constant function.            *)
(***************************************************************************)
EXTENDS Integers

CONSTANTS
    Key,            \* idempotency keys
    LockKey,        \* (repository, operation family, target) lock keys
    LockOf,         \* the lock key an idempotency key is derived for
    NoKey,          \* "no entry" in the lease table
    LeaseTime,      \* lease_seconds: how long begin holds a lock key
    Retention,      \* retention_seconds of purge_terminal
    MaxTime         \* bound: where the clock stops

ASSUME LockOfAssumption == LockOf \in [Key -> LockKey]
ASSUME NoKeyAssumption == NoKey \notin Key
\* The constructor refuses lease_seconds <= 0.
ASSUME LeaseTimeAssumption == LeaseTime \in Nat \ {0}
ASSUME RetentionAssumption == Retention \in Nat
ASSUME MaxTimeAssumption == MaxTime \in Nat

VARIABLES
    records,        \* _records: what is known of the attempt of each key
    leases,         \* _leases: which key holds a lock key
    now             \* the clock the callers pass in

storeVars == <<records, leases>>
vars == <<records, leases, now>>

-----------------------------------------------------------------------------
(* Records                                                                 *)

\* MutationOutcome, with ABSENT for a key that has no record. No code writes
\* DENIED to the store, so it is left out.
Outcome == {"ABSENT", "PENDING", "COMMITTED", "FAILED_CLEAN", "AMBIGUOUS"}

\* A record without a lease; a lease is represented by its expires_at.
NoLease == -1

IdempotencyRecord ==
    [outcome : Outcome, updated_at : Nat, lease : Nat \cup {NoLease}]

AbsentRecord == [outcome |-> "ABSENT", updated_at |-> 0, lease |-> NoLease]

TypeOK ==
    /\ records \in [Key -> IdempotencyRecord]
    /\ leases \in [LockKey -> Key \cup {NoKey}]
    /\ now \in Nat

Pending(k) == records[k].outcome = "PENDING"

\* MutationLease.is_expired, negated, together with the None test before it.
LeaseLive(k) == records[k].lease # NoLease /\ now < records[k].lease

\* The lease table once the record's own lease, if it has one, is popped. The
\* code pops by lock key and does not ask whose entry it removes.
PopLease(k) ==
    IF records[k].lease # NoLease
    THEN [leases EXCEPT ![LockOf[k]] = NoKey]
    ELSE leases

\* replace(record, outcome=..., updated_at=now, lease=None)
Resolved(outcome) ==
    [outcome |-> outcome, updated_at |-> now, lease |-> NoLease]

-----------------------------------------------------------------------------
(* begin                                                                   *)

\* Mutant: an expired lease of another key is simply free.
ContendingHolder_ExpiredIsFree(k) ==
    LET holder == PopLease(k)[LockOf[k]]
    IN  IF holder \notin {NoKey, k} /\ Pending(holder) /\ LeaseLive(holder)
        THEN holder ELSE NoKey

\* The other key whose PENDING record occupies k's lock key, if there is one.
ContendingHolder(k) ==
    LET holder == PopLease(k)[LockOf[k]]
    IN  IF holder \notin {NoKey, k} /\ Pending(holder) THEN holder ELSE NoKey

\* Mutant: the key's own expired lease is taken over instead of reported.
BeginDecision_LeaseReusable(k) ==
    CASE records[k].outcome = "COMMITTED" -> "REPLAYED"
      [] records[k].outcome = "AMBIGUOUS" -> "AMBIGUOUS"
      [] Pending(k) /\ LeaseLive(k)       -> "IN_PROGRESS"
      [] OTHER -> IF ContendingHolder(k) = NoKey THEN "NEW" ELSE "LOCKED"

\* What begin answers: NEW is the only answer that lets the caller write.
BeginDecision(k) ==
    CASE records[k].outcome = "COMMITTED"            -> "REPLAYED"
      [] records[k].outcome = "AMBIGUOUS"            -> "AMBIGUOUS"
      [] Pending(k) /\ LeaseLive(k)                  -> "IN_PROGRESS"
      [] Pending(k) /\ ~LeaseLive(k)                 -> "LEASE_LOST"
      [] OTHER ->
            LET holder == ContendingHolder(k)
            IN  IF holder = NoKey THEN "NEW"
                ELSE IF LeaseLive(holder) THEN "LOCKED" ELSE "HOLDER_LOST"

\* The key is claimed and the lease taken before any provider call.
BeginNew(k) ==
    /\ BeginDecision(k) = "NEW"
    /\ records' = [records EXCEPT ![k] = [outcome    |-> "PENDING",
                                          updated_at |-> now,
                                          lease      |-> now + LeaseTime]]
    /\ leases' = [leases EXCEPT ![LockOf[k]] = k]

\* The key's own lease ran out unresolved: the provider state is unknown.
BeginLeaseLost(k) ==
    /\ BeginDecision(k) = "LEASE_LOST"
    /\ records' = [records EXCEPT ![k] = Resolved("AMBIGUOUS")]
    /\ leases' = PopLease(k)

\* Another key's lease on the same lock key ran out unresolved. That record
\* becomes AMBIGUOUS; its entry in the lease table stays.
BeginHolderLost(k) ==
    /\ BeginDecision(k) = "HOLDER_LOST"
    /\ records' = [records EXCEPT ![ContendingHolder(k)] = Resolved("AMBIGUOUS")]
    /\ leases' = PopLease(k)

\* A replay, a refusal or a busy lock. A FAILED_CLEAN record that gets as far
\* as the lock test has had its lease, if any, popped.
BeginRefused(k) ==
    /\ BeginDecision(k) \in {"REPLAYED", "AMBIGUOUS", "IN_PROGRESS", "LOCKED"}
    /\ records' = records
    /\ leases' = IF BeginDecision(k) = "LOCKED" THEN PopLease(k) ELSE leases

Begin(k) ==
    BeginNew(k) \/ BeginLeaseLost(k) \/ BeginHolderLost(k) \/ BeginRefused(k)

-----------------------------------------------------------------------------
(* commit, fail_clean, mark_ambiguous, reconcile, purge_terminal           *)

\* _resolve: only a PENDING record can be resolved; the caller is not checked.
Resolve(k, outcome) ==
    /\ Pending(k)
    /\ records' = [records EXCEPT ![k] = Resolved(outcome)]
    /\ leases' = PopLease(k)

Commit(k) == Resolve(k, "COMMITTED")
FailClean(k) == Resolve(k, "FAILED_CLEAN")
MarkAmbiguous(k) == Resolve(k, "AMBIGUOUS")

\* The only exit from AMBIGUOUS: the caller reports what it observed.
Reconcile(k, observedCommitted) ==
    /\ records[k].outcome = "AMBIGUOUS"
    /\ records' = [records EXCEPT ![k] =
          [outcome    |-> IF observedCommitted THEN "COMMITTED" ELSE "FAILED_CLEAN",
           updated_at |-> now,
           lease      |-> records[k].lease]]
    /\ UNCHANGED leases

\* Mutant: ambiguous records age out like the others.
Purgeable_Ambiguous(k) ==
    /\ records[k].outcome \notin {"ABSENT", "PENDING"}
    /\ records[k].updated_at <= now - Retention

\* Records that purge_terminal drops: old, and neither PENDING nor AMBIGUOUS.
Purgeable(k) ==
    /\ records[k].outcome \notin {"ABSENT", "PENDING", "AMBIGUOUS"}
    /\ records[k].updated_at <= now - Retention

PurgeTerminal ==
    /\ \E k \in Key : Purgeable(k)
    /\ records' = [k \in Key |-> IF Purgeable(k) THEN AbsentRecord ELSE records[k]]
    /\ UNCHANGED leases

-----------------------------------------------------------------------------
(* The store under arbitrary callers                                       *)

Init ==
    /\ records = [k \in Key |-> AbsentRecord]
    /\ leases = [l \in LockKey |-> NoKey]
    /\ now = 0

Tick ==
    /\ now < MaxTime
    /\ now' = now + 1
    /\ UNCHANGED storeVars

Call(k) ==
    /\ \/ Begin(k)
       \/ Commit(k)
       \/ FailClean(k)
       \/ MarkAmbiguous(k)
       \/ \E observed \in BOOLEAN : Reconcile(k, observed)
    /\ UNCHANGED now

Purge ==
    /\ PurgeTerminal
    /\ UNCHANGED now

Next == Tick \/ Purge \/ \E k \in Key : Call(k)

Spec == Init /\ [][Next]_vars

-----------------------------------------------------------------------------
(* Properties                                                              *)

\* The lease table and the records agree: a PENDING record has a lease and is
\* the one the table names for its lock key.  _resolve and _decide_existing
\* pop the table by lock key without checking the holder, which is right only
\* because of this.
PendingHoldsLease ==
    \A k \in Key : Pending(k) =>
        /\ records[k].lease # NoLease
        /\ leases[LockOf[k]] = k

\* A lease belongs to a PENDING record only: every other outcome has given its
\* lease up, so the pop for a FAILED_CLEAN record in _decide_existing never
\* takes the lock of another key away.
OnlyPendingLeased ==
    \A k \in Key : records[k].lease # NoLease => Pending(k)

\* At most one attempt per (repository, family, target) is in progress, across
\* begin, expiry, resolution, reconciliation and purge in any order.
OnePendingPerLock ==
    \A j, k \in Key : Pending(j) /\ Pending(k) /\ LockOf[j] = LockOf[k] => j = k

\* What makes the two invariants above inductive.
StoreInv == TypeOK /\ PendingHoldsLease /\ OnlyPendingLeased

\* The store implements the lifecycle its callers rely on.
Lifecycle == INSTANCE RecordLifecycle WITH outcome <- [k \in Key |-> records[k].outcome]

\* Every run of the store, whatever the clock and the callers do, is a run of
\* the abstract lifecycle: in particular begin answers NEW only when no other
\* key of that (repository, family, target) is unresolved.
ImplementsLifecycle == Lifecycle!LifecycleSpec
=============================================================================
