-------------------------- MODULE MutationExecution --------------------------
(***************************************************************************)
(* Concurrent GitHub mutations: GitHubMutationExecutor.execute of          *)
(* v2/github_mutations.py over the idempotency store, the single-use       *)
(* approvals of v2/mutation_digest.py and the write-ahead audit ledger of  *)
(* v2/mutation_audit.py.                                                   *)
(*                                                                         *)
(* An execution is one call of execute.  Its steps are the sections of the *)
(* coroutine between awaits, split further wherever the process may die.   *)
(* The provider (GitHub) is external: a write that was sent is applied or  *)
(* rejected at any later time, also after the executor gave up on it.      *)
(***************************************************************************)
EXTENDS MutationIdempotency

CONSTANTS
    Execution,          \* calls of execute
    KeyOf,              \* the idempotency key each of them derives
    Approval,           \* approval ids
    ApprovalOf,         \* the approval_id of each request
    Binds,              \* executions an approval's digest, scope, principal
                        \* and approver are bound to
    ApprovalTtl,        \* lifetime of an approval
    CarefulOperator,    \* reconcile waits until nothing of the key is in flight
    MaxCrashes          \* bound: how often the process dies

ASSUME KeyOfAssumption == KeyOf \in [Execution -> Key]
ASSUME ApprovalOfAssumption == ApprovalOf \in [Execution -> Approval]
ASSUME BindsAssumption == Binds \in [Approval -> SUBSET Execution]
ASSUME ApprovalTtlAssumption == ApprovalTtl \in Nat
ASSUME OperatorAssumption == CarefulOperator \in BOOLEAN /\ MaxCrashes \in Nat

VARIABLES
    pc,             \* where each execution is, or how it ended
    approvals,      \* ApprovalStore._records
    audit,          \* the ledger's record of each execution
    provider,       \* what became of each execution's write
    crashes

execVars == <<records, leases, now, pc, approvals, audit, provider, crashes>>

-----------------------------------------------------------------------------
(* State                                                                   *)

\* The stages an execution can be waiting in, and how execute can end:
\* "denied" is a MutationDeniedError, "indeterminate" the error that demands
\* reconciliation, "cancelled" a CancelledError out of an await.
Stage == {"preflight", "approval", "idempotency", "revalidation",
          "write_ahead", "call", "awaiting", "read_back"}
Ending == {"committed", "replayed", "in_progress", "denied",
           "indeterminate", "cancelled", "dead"}

ApprovalState == {"UNKNOWN", "PENDING", "CONSUMED", "REVOKED", "EXPIRED"}

\* "orphan": the file was written but append reported an error.
AuditState == {"none", "orphan", "open", "COMMITTED", "FAILED_CLEAN", "AMBIGUOUS"}

ExecTypeOK ==
    /\ TypeOK
    /\ pc \in [Execution -> Stage \cup Ending]
    /\ approvals \in [Approval -> [state : ApprovalState, expires_at : Nat]]
    /\ audit \in [Execution -> AuditState]
    /\ provider \in [Execution -> {"unsent", "sent", "applied", "rejected"}]
    /\ crashes \in 0 .. MaxCrashes

ExecInit ==
    /\ Init
    /\ pc = [e \in Execution |-> "preflight"]
    /\ approvals = [a \in Approval |-> [state |-> "UNKNOWN", expires_at |-> 0]]
    /\ audit = [e \in Execution |-> "none"]
    /\ provider = [e \in Execution |-> "unsent"]
    /\ crashes = 0

Goto(e, stage) == pc' = [pc EXCEPT ![e] = stage]

\* Between begin and the last store call of the same execution.
InFlight(e) == pc[e] \in {"revalidation", "write_ahead", "call", "awaiting", "read_back"}

\* The branch, pull request or merge an execution is about exists.
TargetExists(e) ==
    \E f \in Execution : /\ provider[f] = "applied"
                         /\ LockOf[KeyOf[f]] = LockOf[KeyOf[e]]

-----------------------------------------------------------------------------
(* ApprovalStore                                                           *)

\* issue: an approval id that is already known is refused.
Issue(a) ==
    /\ approvals[a].state = "UNKNOWN"
    /\ approvals' = [approvals EXCEPT ![a] = [state      |-> "PENDING",
                                              expires_at |-> now + ApprovalTtl]]
    /\ UNCHANGED <<records, leases, now, pc, audit, provider, crashes>>

Revoke(a) ==
    /\ approvals[a].state = "PENDING"
    /\ approvals' = [approvals EXCEPT ![a].state = "REVOKED"]
    /\ UNCHANGED <<records, leases, now, pc, audit, provider, crashes>>

Expired(a) == now >= approvals[a].expires_at

\* purge_expired
PurgeExpired ==
    /\ \E a \in Approval : approvals[a].state = "PENDING" /\ Expired(a)
    /\ approvals' = [a \in Approval |->
            IF approvals[a].state = "PENDING" /\ Expired(a)
            THEN [approvals[a] EXCEPT !.state = "EXPIRED"] ELSE approvals[a]]
    /\ UNCHANGED <<records, leases, now, pc, audit, provider, crashes>>

\* verify_and_consume succeeds.
Usable(a, e) ==
    /\ approvals[a].state = "PENDING"
    /\ ~Expired(a)
    /\ e \in Binds[a]

\* What verify_and_consume leaves behind: a usable approval is spent, and one
\* that turns out to have expired is marked so.
Consumed(a, e) ==
    IF Usable(a, e)
    THEN [approvals EXCEPT ![a].state = "CONSUMED"]
    ELSE IF approvals[a].state = "PENDING" /\ Expired(a)
         THEN [approvals EXCEPT ![a].state = "EXPIRED"] ELSE approvals

-----------------------------------------------------------------------------
(* Stages 1-6: preflight, approval, idempotency                            *)

\* Scope, registry, policy and credential checks read configuration only.
Preflight(e) ==
    /\ pc[e] = "preflight"
    /\ \/ Goto(e, "approval")
       \/ Goto(e, "denied")
    /\ UNCHANGED <<records, leases, now, approvals, audit, provider, crashes>>

ConsumeApproval(e) ==
    /\ pc[e] = "approval"
    /\ approvals' = Consumed(ApprovalOf[e], e)
    /\ Goto(e, IF Usable(ApprovalOf[e], e) THEN "idempotency" ELSE "denied")
    /\ UNCHANGED <<records, leases, now, audit, provider, crashes>>

\* The approval is spent whatever begin answers.
AfterBegin(decision) ==
    CASE decision = "NEW"         -> "revalidation"
      [] decision = "REPLAYED"    -> "replayed"
      [] decision = "IN_PROGRESS" -> "in_progress"
      [] OTHER                    -> "denied"

ClaimKey(e) ==
    /\ pc[e] = "idempotency"
    /\ Begin(KeyOf[e])
    /\ Goto(e, AfterBegin(BeginDecision(KeyOf[e])))
    /\ UNCHANGED <<now, approvals, audit, provider, crashes>>

-----------------------------------------------------------------------------
(* Stages 7-11: revalidation, write-ahead audit, the write, read-back      *)

\* Resolve the record and end with `ending`; when the record is no longer
\* PENDING the store raises IdempotencyConflictError, a MutationDeniedError,
\* in its place.
ResolveAndEnd(e, outcome, ending) ==
    IF Pending(KeyOf[e])
    THEN Resolve(KeyOf[e], outcome) /\ Goto(e, ending)
    ELSE UNCHANGED storeVars /\ Goto(e, "denied")

Revalidate(e) ==
    /\ pc[e] = "revalidation"
    /\ \/ Goto(e, "write_ahead") /\ UNCHANGED storeVars
       \/ ResolveAndEnd(e, "FAILED_CLEAN", "denied")            \* drift
       \/ ResolveAndEnd(e, "AMBIGUOUS", "indeterminate")        \* transport
    /\ UNCHANGED <<now, approvals, audit, provider, crashes>>

\* Mutant: a best-effort ledger lets the call go on.
WriteAhead_BestEffort(e) ==
    /\ pc[e] = "write_ahead"
    /\ \E left \in {"none", "orphan", "open"} : audit' = [audit EXCEPT ![e] = left]
    /\ Goto(e, "call")
    /\ UNCHANGED <<records, leases, now, approvals, provider, crashes>>

\* ledger.begin: the record is durable before the call, or there is no call. The
\* intent is built before the try, and when it refuses the name of the principal
\* the key stays pending.
WriteAhead(e) ==
    /\ pc[e] = "write_ahead"
    /\ \/ /\ audit' = [audit EXCEPT ![e] = "open"]
          /\ Goto(e, "call")
          /\ UNCHANGED storeVars
       \/ /\ \E left \in {"none", "orphan"} : audit' = [audit EXCEPT ![e] = left]
          /\ ResolveAndEnd(e, "FAILED_CLEAN", "denied")
       \/ Goto(e, "denied") /\ UNCHANGED <<audit, records, leases>>
    /\ UNCHANGED <<now, approvals, provider, crashes>>

\* The single POST. Whether the record is still PENDING is not looked at.
SendWrite(e) ==
    /\ pc[e] = "call"
    /\ provider' = [provider EXCEPT ![e] = "sent"]
    /\ Goto(e, "awaiting")
    /\ UNCHANGED <<records, leases, now, approvals, audit, crashes>>

\* ledger.finalize, then the store. finalize reads the record back from the
\* sink first; when that fails its AuditWriteError, also a MutationDeniedError,
\* leaves the store as it was.
Conclude(e, outcome, ending) ==
    \/ /\ audit' = [audit EXCEPT ![e] = outcome]
       /\ ResolveAndEnd(e, outcome, ending)
    \/ /\ Goto(e, "denied")
       /\ UNCHANGED <<audit, records, leases>>

\* Mutant: no timeout on the POST.
AwaitWrite_NoTimeout(e) ==
    /\ pc[e] = "awaiting"
    /\ \/ provider[e] = "applied" /\ Goto(e, "read_back")
          /\ UNCHANGED <<records, leases, audit>>
       \/ provider[e] = "rejected" /\ Conclude(e, "FAILED_CLEAN", "denied")
    /\ UNCHANGED <<now, approvals, provider, crashes>>

\* The POST returns. A transport error or a status the contract does not list
\* is possible whatever the provider did or will do.
AwaitWrite(e) ==
    /\ pc[e] = "awaiting"
    /\ \/ provider[e] = "applied" /\ Goto(e, "read_back")
          /\ UNCHANGED <<records, leases, audit>>
       \/ provider[e] = "rejected" /\ Conclude(e, "FAILED_CLEAN", "denied")
       \/ Conclude(e, "AMBIGUOUS", "indeterminate")
    /\ UNCHANGED <<now, approvals, provider, crashes>>

\* Only a read-back that verifies the created object ends in COMMITTED.
ReadBack(e) ==
    /\ pc[e] = "read_back"
    /\ \/ TargetExists(e) /\ Conclude(e, "COMMITTED", "committed")
       \/ Conclude(e, "AMBIGUOUS", "indeterminate")
    /\ UNCHANGED <<now, approvals, provider, crashes>>

\* CancelledError at an await: no handler runs, the record stays PENDING.
Cancel(e) ==
    /\ pc[e] \in {"revalidation", "awaiting", "read_back"}
    /\ Goto(e, "cancelled")
    /\ UNCHANGED <<records, leases, now, approvals, audit, provider, crashes>>

-----------------------------------------------------------------------------
(* The environment: provider, operator, clock, process                     *)

\* Creating what exists already is rejected by the provider itself.
ProviderApply(e) ==
    /\ provider[e] = "sent" /\ ~TargetExists(e)
    /\ provider' = [provider EXCEPT ![e] = "applied"]
    /\ UNCHANGED <<records, leases, now, pc, approvals, audit, crashes>>

ProviderReject(e) ==
    /\ provider[e] = "sent"
    /\ provider' = [provider EXCEPT ![e] = "rejected"]
    /\ UNCHANGED <<records, leases, now, pc, approvals, audit, crashes>>

\* A reconciliation read, reported to the store.
ReconcileKey(k) ==
    /\ CarefulOperator =>
          \A e \in Execution : KeyOf[e] = k => ~InFlight(e) /\ provider[e] # "sent"
    /\ Reconcile(k, \E e \in Execution : LockOf[KeyOf[e]] = LockOf[k] /\ TargetExists(e))
    /\ UNCHANGED <<now, pc, approvals, audit, provider, crashes>>

ExecTick ==
    /\ Tick
    /\ UNCHANGED <<pc, approvals, audit, provider, crashes>>

\* Both stores are dictionaries of the process; the audit files are not.
Crash ==
    /\ crashes < MaxCrashes
    /\ crashes' = crashes + 1
    /\ records' = [k \in Key |-> AbsentRecord]
    /\ leases' = [l \in LockKey |-> NoKey]
    /\ approvals' = [a \in Approval |-> [state |-> "UNKNOWN", expires_at |-> 0]]
    /\ pc' = [e \in Execution |->
                IF pc[e] \in Stage \ {"preflight"} THEN "dead" ELSE pc[e]]
    /\ UNCHANGED <<now, audit, provider>>

Step(e) ==
    \/ Preflight(e) \/ ConsumeApproval(e) \/ ClaimKey(e) \/ Revalidate(e)
    \/ WriteAhead(e) \/ SendWrite(e) \/ AwaitWrite(e) \/ ReadBack(e)

ExecNext ==
    \/ \E e \in Execution : Step(e) \/ Cancel(e) \/ ProviderApply(e) \/ ProviderReject(e)
    \/ \E a \in Approval : Issue(a) \/ Revoke(a)
    \/ \E k \in Key : ReconcileKey(k)
    \/ PurgeExpired \/ ExecTick \/ Crash

ExecSpec == ExecInit /\ [][ExecNext]_execVars

\* Every await carries a timeout, so an execution always gets on.
FairSpec == ExecSpec /\ \A e \in Execution : WF_execVars(Step(e))

-----------------------------------------------------------------------------
(* Properties                                                              *)

\* No write reaches the provider without a durable write-ahead record, whatever
\* the sink does and whenever the process dies.
WriteAheadDurable ==
    \A e \in Execution : provider[e] # "unsent" => audit[e] \notin {"none", "orphan"}

\* An approval authorises one execution, and only one it is bound to, however
\* expiry, revocation and concurrent requests interleave.
PastApproval(e) == pc[e] \in Stage \ {"preflight", "approval"} \/ provider[e] # "unsent"

ApprovalSpentOnce ==
    \A e, f \in Execution : PastApproval(e) /\ PastApproval(f) /\ ApprovalOf[e] = ApprovalOf[f]
        => e = f /\ e \in Binds[ApprovalOf[e]]

\* With an operator who reconciles only what has settled, a key never has two
\* writes that are on their way or applied: replays, expired leases, lost
\* responses and clean failures lead to no second write.
OneWritePerKey ==
    \A e, f \in Execution :
        /\ KeyOf[e] = KeyOf[f]
        /\ provider[e] \in {"sent", "applied"}
        /\ provider[f] \in {"sent", "applied"}
        => e = f

\* What became of the write a key stands for, whichever execution sent it.
EffectOf(k) ==
    IF \E e \in Execution : KeyOf[e] = k /\ provider[e] = "applied" THEN "done"
    ELSE IF \E e \in Execution : KeyOf[e] = k /\ provider[e] = "sent" THEN "open" ELSE "none"

\* With such an operator the executions of a key together bring its write about as
\* one careful actor would: never while it may still happen, never again when it has.
Writes == INSTANCE EffectOnce WITH
              Effect <- Key, Requires <- [k \in Key |-> {}],
              effect <- [k \in Key |-> EffectOf(k)]
ImplementsWrites == Writes!EffectSpec

\* COMMITTED, whether by read-back or by reconciliation, is never recorded for
\* a target that does not exist at the provider.
CommittedExists ==
    \A k \in Key : records[k].outcome = "COMMITTED" =>
        \E e \in Execution : provider[e] = "applied" /\ LockOf[KeyOf[e]] = LockOf[k]

\* The evidence of an execution agrees with what the provider did with its
\* write, and a caller told "committed" finds both stores agreeing with it.
EvidenceAgrees ==
    \A e \in Execution :
        /\ audit[e] = "COMMITTED" => provider[e] = "applied"
        /\ audit[e] = "FAILED_CLEAN" => provider[e] = "rejected"
        /\ pc[e] = "committed" => /\ audit[e] = "COMMITTED"
                                  /\ records[KeyOf[e]].outcome = "COMMITTED"

\* Every execution ends: lost responses, conflicts and failing sinks included.
ExecutionsEnd == \A e \in Execution : <>(pc[e] \in Ending)

\* IdempotencyStore's docstring: a lock key is held for the duration of a write
\* so two different keys cannot race on the same ref or PR.
NoWriteRace ==
    \A e, f \in Execution :
        /\ KeyOf[e] # KeyOf[f]
        /\ LockOf[KeyOf[e]] = LockOf[KeyOf[f]]
        => ~(pc[e] = "awaiting" /\ pc[f] = "awaiting")

\* GitHubMutationExecutor.execute over the approval store, the idempotency store
\* and the audit ledger: an approval lets one execution through, a key writes
\* once, what is COMMITTED exists at the provider, and audit ledger, idempotency
\* record and provider tell the same of every write.
WritesAccounted ==
    /\ ExecTypeOK
    /\ ApprovalSpentOnce /\ OneWritePerKey /\ CommittedExists /\ EvidenceAgrees
=============================================================================
