--------------------------- MODULE RecordLifecycle ---------------------------
(***************************************************************************)
(* What the idempotency store promises its callers, without clocks, leases *)
(* or a lease table: the lifecycle of one record per key, and at most one  *)
(* unresolved attempt per lock key.                                        *)
(***************************************************************************)
CONSTANTS Key, LockKey, LockOf

VARIABLE outcome

Unresolved(k) == outcome[k] = "PENDING"

LifecycleInit == outcome = [k \in Key |-> "ABSENT"]

\* An attempt may start on a key that has no record or failed cleanly, when no
\* key of the same lock key is unresolved.
Start(k) ==
    /\ outcome[k] \in {"ABSENT", "FAILED_CLEAN"}
    /\ \A j \in Key : LockOf[j] = LockOf[k] => ~Unresolved(j)
    /\ outcome' = [outcome EXCEPT ![k] = "PENDING"]

\* An unresolved attempt ends with one of three outcomes.
Finish(k) ==
    /\ Unresolved(k)
    /\ \E result \in {"COMMITTED", "FAILED_CLEAN", "AMBIGUOUS"} :
            outcome' = [outcome EXCEPT ![k] = result]

\* Only an observation of the provider ends ambiguity.
Observe(k) ==
    /\ outcome[k] = "AMBIGUOUS"
    /\ \E result \in {"COMMITTED", "FAILED_CLEAN"} :
            outcome' = [outcome EXCEPT ![k] = result]

\* Known outcomes may be forgotten; unresolved and ambiguous ones never are.
Forget ==
    \E K \in SUBSET {k \in Key : outcome[k] \in {"COMMITTED", "FAILED_CLEAN"}} :
        outcome' = [k \in Key |-> IF k \in K THEN "ABSENT" ELSE outcome[k]]

LifecycleNext == Forget \/ \E k \in Key : Start(k) \/ Finish(k) \/ Observe(k)

LifecycleSpec == LifecycleInit /\ [][LifecycleNext]_outcome
=============================================================================
