---------------------------- MODULE ResourceLocks ----------------------------
(***************************************************************************)
(* Typed resource locks with a time to live (locks.py, the hermes_lock_*   *)
(* tools, and the reaping of resilience/recovery.py).  Every operation is  *)
(* one BEGIN IMMEDIATE transaction; a conflict rolls it back, with the     *)
(* expired rows it would have reaped.                                      *)
(***************************************************************************)
EXTENDS PolicyRules

CONSTANTS LockKey, Owner

LockType == {"READ_SHARED", "INTENT_TO_WRITE", "WRITE_EXCLUSIVE", "APPROVAL_PENDING"}

VARIABLE
    lock    \* resource_locks, by key and owner

\* A row is due never (no ttl), at a later time, or in the past.
LockRow == [type : LockType, status : {"active", "expired", "released"},
            due : {"never", "later", "past"}]
NoRow == [type |-> "none", status |-> "none", due |-> "none"]

LocksTypeOK == lock \in [LockKey \X Owner -> LockRow \cup {NoRow}]

LocksInit == lock = [r \in LockKey \X Owner |-> NoRow]

-----------------------------------------------------------------------------

\* Only the type that is wanted decides: the pairs are not symmetric.
Incompatible_OneWay == {<<"WRITE_EXCLUSIVE", t>> : t \in LockType}

\* _INCOMPATIBLE_LOCK_PAIRS: the wanted type against the type that is there.
Incompatible ==
    {<<"WRITE_EXCLUSIVE", t>> : t \in LockType}
    \cup {<<"INTENT_TO_WRITE", "WRITE_EXCLUSIVE">>, <<"APPROVAL_PENDING", "WRITE_EXCLUSIVE">>}

\* _enforce_compatibility: active rows of others, past their time or not;
\* a shared reader is never refused.
Compatible(k, o, type) ==
    type = "READ_SHARED" \/
        \A other \in Owner \ {o} :
            lock[k, other].status = "active" => <<type, lock[k, other].type>> \notin Incompatible

\* _reap_expired, and the same UPDATE of recover_state.
Reaped(rows) ==
    [r \in DOMAIN rows |->
        IF rows[r].status = "active" /\ rows[r].due = "past"
        THEN [rows[r] EXCEPT !.status = "expired"] ELSE rows[r]]

\* hermes_lock_acquire and LockRegistry.acquire: an owner renews or changes its
\* own row; a refused request changes nothing.
LockAcquire(k, o, type, due) ==
    /\ MayProceed("hermes_lock_acquire", NotGiven) /\ CachePolicy
    /\ lock' = IF Compatible(k, o, type)
               THEN [Reaped(lock) EXCEPT
                        ![<<k, o>>] = [type |-> type, status |-> "active", due |-> due]]
               ELSE lock

\* hermes_lock_release: the caller names the owner.
LockRelease(k, o) ==
    /\ MayProceed("hermes_lock_release", NotGiven) /\ CachePolicy
    /\ lock[k, o] # NoRow
    /\ lock' = [lock EXCEPT ![<<k, o>>].status = "released"]

\* recover_state, after a restart.
RecoverLocks == lock' = Reaped(lock) /\ PolicyRestart

LockTimePasses(k, o) ==
    /\ lock[k, o].due = "later"
    /\ lock' = [lock EXCEPT ![<<k, o>>].due = "past"] /\ UNCHANGED policyVars

LocksNext ==
    \/ \E k \in LockKey, o \in Owner :
        \/ \E type \in LockType, due \in {"never", "later"} : LockAcquire(k, o, type, due)
        \/ LockRelease(k, o) \/ LockTimePasses(k, o)
    \/ RecoverLocks

-----------------------------------------------------------------------------
(* Properties                                                              *)

\* A writer is alone among those that ask to write: no two owners hold active
\* rows of a key that the table of pairs calls incompatible, except readers,
\* which are let in beside anyone (docs/resilience-0.9.md: "Exclusive lock has
\* one owner").
WritersExclude ==
    \A k \in LockKey, o1, o2 \in Owner :
        (o1 # o2 /\ lock[k, o1].status = "active" /\ lock[k, o2].status = "active"
            /\ "READ_SHARED" \notin {lock[k, o1].type, lock[k, o2].type})
        => <<lock[k, o1].type, lock[k, o2].type>> \notin Incompatible
=============================================================================
