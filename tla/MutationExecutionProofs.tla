----------------------- MODULE MutationExecutionProofs -----------------------
(***************************************************************************)
(* Safety of GitHubMutationExecutor.execute for any executions, keys and   *)
(* approvals.                                                              *)
(***************************************************************************)
EXTENDS MutationExecution, MutationIdempotencyProofs

USE KeyOfAssumption, ApprovalOfAssumption, BindsAssumption,
    ApprovalTtlAssumption, OperatorAssumption

-----------------------------------------------------------------------------
(* Invariants                                                              *)

\* The stages of an execution come in their order: nothing is sent before the record
\* is open, a read-back is about a write that was applied, and what the ledger says
\* of the write is true of it.
Ordered(e) ==
    /\ pc[e] \in Stage \ {"awaiting", "read_back"} => provider[e] = "unsent"
    /\ pc[e] \in {"call", "awaiting", "read_back"} => audit[e] = "open"
    /\ pc[e] = "read_back" => provider[e] = "applied"
    /\ provider[e] # "unsent" => audit[e] \notin {"none", "orphan"}
    /\ audit[e] = "COMMITTED" => provider[e] = "applied"
    /\ audit[e] = "FAILED_CLEAN" => provider[e] = "rejected"

\* Holds whatever the operator does and whenever the process dies.
DurableInv ==
    /\ ExecTypeOK /\ StoreInv
    /\ \A e \in Execution : Ordered(e)
    /\ CommittedExists

\* Who is past the approval has spent it.
Spent ==
    \A e \in Execution : PastApproval(e) =>
        approvals[ApprovalOf[e]].state = "CONSUMED" /\ e \in Binds[ApprovalOf[e]]

\* Who was told "committed" finds it in the ledger and in the store.
ToldCommitted ==
    \A e \in Execution : pc[e] = "committed" =>
        audit[e] = "COMMITTED" /\ records[KeyOf[e]].outcome = "COMMITTED"

\* Holds as long as the process lives.
LifetimeInv == Spent /\ ApprovalSpentOnce /\ ToldCommitted

\* An attempt that may still write, or has written.
Live(e) == InFlight(e) \/ provider[e] \in {"sent", "applied"}

\* A live attempt is known to the store as unresolved or committed, and is the only
\* one of its key.
LiveIsKnown ==
    \A e \in Execution : Live(e) =>
        records[KeyOf[e]].outcome \in {"PENDING", "COMMITTED", "AMBIGUOUS"}
LiveIsAlone ==
    \A e, f \in Execution : Live(e) /\ Live(f) /\ KeyOf[e] = KeyOf[f] => e = f

OnceInv == LiveIsKnown /\ LiveIsAlone

-----------------------------------------------------------------------------
(* The store                                                               *)

\* A step of an execution, the provider, the operator or the clock is a step of the
\* store or leaves it alone; only a crash does more.
LEMMA StoreStep ==
    ASSUME ExecTypeOK, [ExecNext]_execVars, ~Crash
    PROVE  [Next]_vars
<1> USE DEF vars, storeVars
<1>1. CASE UNCHANGED execVars
  BY <1>1 DEF execVars
<1>2. ASSUME NEW e \in Execution, Step(e) PROVE [Next]_vars
  <2> KeyOf[e] \in Key
    OBVIOUS
  <2> DEFINE Calls(o) == o \in {"COMMITTED", "FAILED_CLEAN", "AMBIGUOUS"} /\ Resolve(KeyOf[e], o) /\ UNCHANGED now
  <2>0. ASSUME NEW o, Calls(o) PROVE Next
    BY <2>0 DEF Next, Call, Commit, FailClean, MarkAmbiguous
  <2>1. CASE Preflight(e) \/ ConsumeApproval(e) \/ SendWrite(e)
    BY <2>1 DEF Preflight, ConsumeApproval, SendWrite
  <2>2. CASE ClaimKey(e)
    BY <2>2 DEF ClaimKey, Next, Call
  <2>3. CASE Revalidate(e)
    BY <2>0, <2>3 DEF Revalidate, ResolveAndEnd
  <2>4. CASE WriteAhead(e)
    BY <2>0, <2>4 DEF WriteAhead, ResolveAndEnd
  <2>5. CASE AwaitWrite(e)
    BY <2>0, <2>5 DEF AwaitWrite, Conclude, ResolveAndEnd
  <2>6. CASE ReadBack(e)
    BY <2>0, <2>6 DEF ReadBack, Conclude, ResolveAndEnd
  <2> QED
    BY <1>2, <2>1, <2>2, <2>3, <2>4, <2>5, <2>6 DEF Step
<1>3. ASSUME NEW e \in Execution, Cancel(e) \/ ProviderApply(e) \/ ProviderReject(e)
      PROVE  [Next]_vars
  BY <1>3 DEF Cancel, ProviderApply, ProviderReject
<1>4. ASSUME NEW a \in Approval, Issue(a) \/ Revoke(a) PROVE [Next]_vars
  BY <1>4 DEF Issue, Revoke
<1>5. ASSUME NEW k \in Key, ReconcileKey(k) PROVE [Next]_vars
  <2> DEFINE seen == \E e \in Execution : LockOf[KeyOf[e]] = LockOf[k] /\ TargetExists(e)
  <2>1. seen \in BOOLEAN
    OBVIOUS
  <2>2. Reconcile(k, seen) /\ now' = now
    BY <1>5 DEF ReconcileKey
  <2> QED
    BY <2>1, <2>2 DEF Next, Call
<1>6. CASE PurgeExpired \/ ExecTick
  BY <1>6 DEF PurgeExpired, ExecTick, Next
<1> QED
  BY <1>1, <1>2, <1>3, <1>4, <1>5, <1>6 DEF ExecNext

\* A crash leaves the empty store behind.
LEMMA StoreKept ==
    ASSUME ExecTypeOK, StoreInv, [ExecNext]_execVars
    PROVE  StoreInv'
<1>1. CASE Crash
  BY <1>1 DEF Crash, StoreInv, TypeOK, PendingHoldsLease, OnlyPendingLeased, Pending,
              AbsentRecord, IdempotencyRecord, Outcome, NoLease
<1>2. CASE ~Crash
  BY <1>2, StoreStep, NextKeepsInv
<1> QED
  BY <1>1, <1>2

\* begin makes the key PENDING if and only if it answers NEW; a record that is
\* PENDING may become AMBIGUOUS, and nothing else changes.
LEMMA BeginMoves ==
    ASSUME StoreInv, NEW k \in Key, Begin(k), NEW j \in Key
    PROVE  \/ records'[j].outcome = records[j].outcome
           \/ Pending(j) /\ records'[j].outcome = "AMBIGUOUS"
           \/ /\ j = k /\ BeginDecision(k) = "NEW"
              /\ records[j].outcome \in {"ABSENT", "FAILED_CLEAN"}
              /\ records'[j].outcome = "PENDING"
<1> USE DEF StoreInv, TypeOK
<1>1. CASE BeginNew(k)
  BY <1>1, NewIsUncontended DEF BeginNew
<1>2. CASE BeginLeaseLost(k)
  BY <1>2 DEF BeginLeaseLost, BeginDecision, Resolved
<1>3. CASE BeginHolderLost(k)
  <2>1. ContendingHolder(k) # NoKey
    BY <1>3 DEF BeginHolderLost, BeginDecision
  <2>2. ContendingHolder(k) \in Key /\ Pending(ContendingHolder(k))
    BY <2>1, HolderIsPending
  <2> QED
    BY <1>3, <2>2 DEF BeginHolderLost, Resolved
<1>4. CASE BeginRefused(k)
  BY <1>4 DEF BeginRefused
<1> QED
  BY <1>1, <1>2, <1>3, <1>4 DEF Begin

\* The record of a key when its attempt is resolved.
LEMMA ResolveMoves ==
    ASSUME StoreInv, NEW k \in Key, NEW o, Resolve(k, o), NEW j \in Key
    PROVE  records'[j].outcome = IF j = k THEN o ELSE records[j].outcome
BY DEF StoreInv, TypeOK, Resolve, Resolved

-----------------------------------------------------------------------------
(* Types                                                                   *)

\* Every step keeps the types of the executor's state.
LEMMA ExecTypes ==
    ASSUME ExecTypeOK, StoreInv, [ExecNext]_execVars
    PROVE  ExecTypeOK'
<1> USE DEF ExecTypeOK
<1>1. TypeOK'
  BY StoreKept DEF StoreInv
<1>2. pc' \in [Execution -> Stage \cup Ending]
  <2> USE DEF Goto
  <2>1. ASSUME NEW e \in Execution, Step(e) PROVE pc' \in [Execution -> Stage \cup Ending]
    <3>1. CASE Preflight(e) \/ ConsumeApproval(e) \/ SendWrite(e)
      BY <3>1 DEF Preflight, ConsumeApproval, SendWrite, Stage, Ending
    <3>2. CASE ClaimKey(e)
      BY <3>2 DEF ClaimKey, AfterBegin, Stage, Ending
    <3>3. CASE Revalidate(e) \/ WriteAhead(e)
      BY <3>3 DEF Revalidate, WriteAhead, ResolveAndEnd, Stage, Ending
    <3>4. CASE AwaitWrite(e) \/ ReadBack(e)
      BY <3>4 DEF AwaitWrite, ReadBack, Conclude, ResolveAndEnd, Stage, Ending
    <3> QED
      BY <2>1, <3>1, <3>2, <3>3, <3>4 DEF Step
  <2>2. ASSUME NEW e \in Execution, Cancel(e) \/ ProviderApply(e) \/ ProviderReject(e)
        PROVE  pc' \in [Execution -> Stage \cup Ending]
    BY <2>2 DEF Cancel, ProviderApply, ProviderReject, Ending
  <2>3. CASE Crash
    BY <2>3 DEF Crash, Ending
  <2>4. CASE \/ \E a \in Approval : Issue(a) \/ Revoke(a)
             \/ \E k \in Key : ReconcileKey(k)
             \/ PurgeExpired \/ ExecTick \/ UNCHANGED execVars
    BY <2>4 DEF Issue, Revoke, ReconcileKey, PurgeExpired, ExecTick, execVars
  <2> QED
    BY <2>1, <2>2, <2>3, <2>4 DEF ExecNext
<1>3. approvals' \in [Approval -> [state : ApprovalState, expires_at : Nat]]
  <2> USE DEF ApprovalState
  <2>1. ASSUME NEW a \in Approval, Issue(a) \/ Revoke(a)
        PROVE  approvals' \in [Approval -> [state : ApprovalState, expires_at : Nat]]
    <3>1. CASE Issue(a)
      BY <3>1 DEF Issue, TypeOK
    <3>2. CASE Revoke(a)
      BY <3>2 DEF Revoke
    <3> QED
      BY <2>1, <3>1, <3>2
  <2>2. ASSUME NEW e \in Execution, ConsumeApproval(e)
        PROVE  approvals' \in [Approval -> [state : ApprovalState, expires_at : Nat]]
    BY <2>2 DEF ConsumeApproval, Consumed
  <2>3. CASE PurgeExpired \/ Crash
    BY <2>3 DEF PurgeExpired, Crash
  <2>4. CASE UNCHANGED approvals
    BY <2>4
  <2> QED
    BY <2>1, <2>2, <2>3, <2>4 DEF ExecNext, Step, Preflight, ClaimKey, Revalidate, WriteAhead,
        SendWrite, AwaitWrite, ReadBack, Cancel, ProviderApply, ProviderReject, ReconcileKey,
        ExecTick, execVars
<1>4. audit' \in [Execution -> AuditState]
  <2> USE DEF AuditState
  <2>1. ASSUME NEW e \in Execution, WriteAhead(e) \/ AwaitWrite(e) \/ ReadBack(e)
        PROVE  audit' \in [Execution -> AuditState]
    BY <2>1 DEF WriteAhead, AwaitWrite, ReadBack, Conclude
  <2>2. CASE UNCHANGED audit
    BY <2>2
  <2> QED
    BY <2>1, <2>2 DEF ExecNext, Step, Preflight, ConsumeApproval, ClaimKey, Revalidate, SendWrite,
        Cancel, ProviderApply, ProviderReject, Issue, Revoke, ReconcileKey, PurgeExpired, ExecTick,
        Crash, execVars
<1>5. provider' \in [Execution -> {"unsent", "sent", "applied", "rejected"}]
  <2>1. ASSUME NEW e \in Execution, SendWrite(e) \/ ProviderApply(e) \/ ProviderReject(e)
        PROVE  provider' \in [Execution -> {"unsent", "sent", "applied", "rejected"}]
    BY <2>1 DEF SendWrite, ProviderApply, ProviderReject
  <2>2. CASE UNCHANGED provider
    BY <2>2
  <2> QED
    BY <2>1, <2>2 DEF ExecNext, Step, Preflight, ConsumeApproval, ClaimKey, Revalidate, WriteAhead,
        AwaitWrite, ReadBack, Cancel, Issue, Revoke, ReconcileKey, PurgeExpired, ExecTick, Crash,
        execVars
<1>6. crashes' \in 0 .. MaxCrashes
  <2>1. CASE Crash
    BY <2>1 DEF Crash
  <2>2. CASE UNCHANGED crashes
    BY <2>2
  <2> QED
    BY <2>1, <2>2 DEF ExecNext, Step, Preflight, ConsumeApproval, ClaimKey, Revalidate, WriteAhead,
        SendWrite, AwaitWrite, ReadBack, Cancel, ProviderApply, ProviderReject, Issue, Revoke,
        ReconcileKey, PurgeExpired, ExecTick, execVars
<1> QED
  BY <1>1, <1>2, <1>3, <1>4, <1>5, <1>6

-----------------------------------------------------------------------------
(* The order of stages                                                     *)

\* A step of an execution, and what the provider does with its write, are about
\* nobody else.
Elsewhere(e) ==
    \A f \in Execution \ {e} :
        pc'[f] = pc[f] /\ audit'[f] = audit[f] /\ provider'[f] = provider[f]

\* A step of one execution, its cancellation, and the provider's answer to it leave
\* the other executions where they were.
LEMMA OwnStep ==
    ASSUME ExecTypeOK, NEW e \in Execution,
           Step(e) \/ Cancel(e) \/ ProviderApply(e) \/ ProviderReject(e)
    PROVE  Elsewhere(e)
<1> USE DEF ExecTypeOK, Elsewhere, Goto
<1>1. CASE Preflight(e) \/ ConsumeApproval(e) \/ ClaimKey(e) \/ SendWrite(e) \/ Cancel(e)
           \/ ProviderApply(e) \/ ProviderReject(e)
  BY <1>1 DEF Preflight, ConsumeApproval, ClaimKey, SendWrite, Cancel, ProviderApply, ProviderReject
<1>2. CASE Revalidate(e) \/ WriteAhead(e)
  BY <1>2 DEF Revalidate, WriteAhead, ResolveAndEnd
<1>3. CASE AwaitWrite(e) \/ ReadBack(e)
  BY <1>3 DEF AwaitWrite, ReadBack, Conclude, ResolveAndEnd
<1> QED
  BY <1>1, <1>2, <1>3 DEF Step

\* Every step keeps an execution's audit entries and its write in the order of the
\* pipeline.
LEMMA OrderKept ==
    ASSUME ExecTypeOK, NEW e \in Execution, Ordered(e),
           Step(e) \/ Cancel(e) \/ ProviderApply(e) \/ ProviderReject(e)
    PROVE  Ordered(e)'
<1> USE DEF ExecTypeOK, Ordered, Goto, Stage, Ending, AuditState
<1>1. CASE Preflight(e) \/ ConsumeApproval(e) \/ SendWrite(e) \/ Cancel(e)
  BY <1>1 DEF Preflight, ConsumeApproval, SendWrite, Cancel
<1>2. CASE ClaimKey(e)
  BY <1>2 DEF ClaimKey, AfterBegin
<1>3. CASE Revalidate(e)
  BY <1>3 DEF Revalidate, ResolveAndEnd
<1>4. CASE WriteAhead(e)
  BY <1>4 DEF WriteAhead, ResolveAndEnd
<1>5. CASE AwaitWrite(e)
  BY <1>5 DEF AwaitWrite, Conclude, ResolveAndEnd
<1>6. CASE ReadBack(e)
  BY <1>6 DEF ReadBack, Conclude, ResolveAndEnd
<1>7. CASE ProviderApply(e) \/ ProviderReject(e)
  BY <1>7 DEF ProviderApply, ProviderReject
<1> QED
  BY <1>1, <1>2, <1>3, <1>4, <1>5, <1>6, <1>7 DEF Step

\* What was applied stays applied.
LEMMA AppliedStays ==
    ASSUME DurableInv, [ExecNext]_execVars, NEW e \in Execution, provider[e] = "applied"
    PROVE  provider'[e] = "applied"
<1>1. ASSUME NEW f \in Execution, SendWrite(f) PROVE provider'[e] = "applied"
  BY <1>1 DEF SendWrite, DurableInv, ExecTypeOK, Ordered, Stage
<1>2. ASSUME NEW f \in Execution, ProviderApply(f) \/ ProviderReject(f)
      PROVE  provider'[e] = "applied"
  BY <1>2 DEF ProviderApply, ProviderReject, DurableInv, ExecTypeOK
<1>3. CASE UNCHANGED provider
  BY <1>3
<1> QED
  BY <1>1, <1>2, <1>3 DEF ExecNext, Step, Preflight, ConsumeApproval, ClaimKey, Revalidate,
      WriteAhead, AwaitWrite, ReadBack, Cancel, Issue, Revoke, ReconcileKey, PurgeExpired,
      ExecTick, Crash, execVars

\* COMMITTED is written where the target was seen.
LEMMA CommitIsSeen ==
    ASSUME DurableInv, [ExecNext]_execVars, NEW k \in Key,
           records'[k].outcome = "COMMITTED", records[k].outcome # "COMMITTED"
    PROVE  \E f \in Execution : provider[f] = "applied" /\ LockOf[KeyOf[f]] = LockOf[k]
<1> USE DEF DurableInv
<1>1. ASSUME NEW e \in Execution, Step(e)
      PROVE  \E f \in Execution : provider[f] = "applied" /\ LockOf[KeyOf[f]] = LockOf[k]
  <2> KeyOf[e] \in Key
    OBVIOUS
  <2>1. CASE ClaimKey(e)
    BY <2>1, BeginMoves DEF ClaimKey
  <2>2. CASE Revalidate(e) \/ WriteAhead(e) \/ AwaitWrite(e)
    BY <2>2, ResolveMoves DEF Revalidate, WriteAhead, AwaitWrite, Conclude, ResolveAndEnd, storeVars
  <2>3. CASE ReadBack(e)
    <3>1. CASE Resolve(KeyOf[e], "COMMITTED") /\ TargetExists(e)
      BY <3>1, ResolveMoves DEF TargetExists
    <3> QED
      BY <2>3, <3>1, ResolveMoves DEF ReadBack, Conclude, ResolveAndEnd, storeVars
  <2> QED
    BY <1>1, <2>1, <2>2, <2>3 DEF Step, Preflight, ConsumeApproval, SendWrite
<1>2. ASSUME NEW j \in Key, ReconcileKey(j)
      PROVE  \E f \in Execution : provider[f] = "applied" /\ LockOf[KeyOf[f]] = LockOf[k]
  BY <1>2 DEF ReconcileKey, Reconcile, TargetExists, StoreInv, TypeOK
<1>3. CASE Crash
  BY <1>3 DEF Crash, AbsentRecord
<1> QED
  BY <1>1, <1>2, <1>3 DEF ExecNext, Cancel, ProviderApply, ProviderReject, Issue, Revoke,
      PurgeExpired, ExecTick, Tick, storeVars, execVars

\* The invariant is inductive.
LEMMA DurableKept == DurableInv /\ [ExecNext]_execVars => DurableInv'
<1> SUFFICES ASSUME DurableInv, [ExecNext]_execVars PROVE DurableInv'
  OBVIOUS
<1>1. ExecTypeOK' /\ StoreInv'
  BY ExecTypes, StoreKept DEF DurableInv
<1>2. ASSUME NEW e \in Execution PROVE Ordered(e)'
  <2> USE DEF DurableInv
  <2>1. ASSUME NEW f \in Execution, Step(f) \/ Cancel(f) \/ ProviderApply(f) \/ ProviderReject(f)
        PROVE  Ordered(e)'
    <3>1. CASE f = e
      BY <2>1, <3>1, OrderKept
    <3>2. CASE f # e
      BY <2>1, <3>2, OwnStep DEF Elsewhere, Ordered
    <3> QED
      BY <3>1, <3>2
  <2>2. CASE Crash
    BY <2>2 DEF Crash, Ordered, ExecTypeOK, Stage
  <2>3. CASE UNCHANGED <<pc, audit, provider>>
    BY <2>3 DEF Ordered
  <2> QED
    BY <2>1, <2>2, <2>3 DEF ExecNext, Issue, Revoke, ReconcileKey, PurgeExpired, ExecTick, execVars
<1>3. CommittedExists'
  BY AppliedStays, CommitIsSeen DEF DurableInv, CommittedExists
<1> QED
  BY <1>1, <1>2, <1>3 DEF DurableInv

-----------------------------------------------------------------------------
(* Approvals, and what callers were told, in the life of one process       *)

\* Within the life of one process there is no crash.
LEMMA NoCrash ==
    ASSUME MaxCrashes = 0, ExecTypeOK
    PROVE  ~Crash
BY DEF Crash, ExecTypeOK

\* A consumed approval stays consumed, and only ConsumeApproval takes an execution
\* past its approval.
LEMMA SpentStays ==
    ASSUME DurableInv, ~Crash, [ExecNext]_execVars, NEW a \in Approval,
           approvals[a].state = "CONSUMED"
    PROVE  approvals'[a].state = "CONSUMED"
<1> USE DEF DurableInv, ExecTypeOK
<1>1. ASSUME NEW b \in Approval, Issue(b) \/ Revoke(b) PROVE approvals'[a].state = "CONSUMED"
  BY <1>1 DEF Issue, Revoke
<1>2. ASSUME NEW e \in Execution, ConsumeApproval(e) PROVE approvals'[a].state = "CONSUMED"
  BY <1>2 DEF ConsumeApproval, Consumed, Usable
<1>3. CASE PurgeExpired
  BY <1>3 DEF PurgeExpired
<1>4. CASE UNCHANGED approvals
  BY <1>4
<1> QED
  BY <1>1, <1>2, <1>3, <1>4 DEF ExecNext, Step, Preflight, ClaimKey, Revalidate, WriteAhead,
      SendWrite, AwaitWrite, ReadBack, Cancel, ProviderApply, ProviderReject, ReconcileKey,
      ExecTick, execVars

\* An execution gets past its approval only by consuming a usable one.
LEMMA NewlyPast ==
    ASSUME DurableInv, [ExecNext]_execVars, NEW e \in Execution, PastApproval(e)', ~PastApproval(e)
    PROVE  ConsumeApproval(e) /\ Usable(ApprovalOf[e], e)
<1> USE DEF DurableInv, ExecTypeOK
<1>1. ASSUME NEW f \in Execution, Step(f) \/ Cancel(f) \/ ProviderApply(f) \/ ProviderReject(f)
      PROVE  ConsumeApproval(e) /\ Usable(ApprovalOf[e], e)
  <2>1. f = e
    BY <1>1, OwnStep DEF Elsewhere, PastApproval
  <2> USE DEF PastApproval, Stage, Goto
  <2>2. CASE ConsumeApproval(e)
    BY <2>2 DEF ConsumeApproval
  <2>3. CASE Preflight(e) \/ SendWrite(e) \/ Cancel(e) \/ ProviderApply(e) \/ ProviderReject(e)
    BY <2>3 DEF Preflight, SendWrite, Cancel, ProviderApply, ProviderReject
  <2>4. CASE ClaimKey(e)
    BY <2>4 DEF ClaimKey
  <2>5. CASE Revalidate(e) \/ WriteAhead(e)
    BY <2>5 DEF Revalidate, WriteAhead
  <2>6. CASE AwaitWrite(e) \/ ReadBack(e)
    BY <2>6 DEF AwaitWrite, ReadBack
  <2> QED
    BY <1>1, <2>1, <2>2, <2>3, <2>4, <2>5, <2>6 DEF Step
<1>2. CASE Crash
  BY <1>2 DEF Crash, PastApproval, Stage
<1>3. CASE UNCHANGED <<pc, provider>>
  BY <1>3 DEF PastApproval
<1> QED
  BY <1>1, <1>2, <1>3 DEF ExecNext, Issue, Revoke, ReconcileKey, PurgeExpired, ExecTick, execVars

\* COMMITTED is a final outcome, and the end of an execution is final.
LEMMA CommittedStays ==
    ASSUME DurableInv, ~Crash, [ExecNext]_execVars, NEW k \in Key,
           records[k].outcome = "COMMITTED"
    PROVE  records'[k].outcome = "COMMITTED"
<1> USE DEF DurableInv
<1>1. ASSUME NEW e \in Execution, Step(e) PROVE records'[k].outcome = "COMMITTED"
  <2> KeyOf[e] \in Key
    OBVIOUS
  <2>1. CASE ClaimKey(e)
    BY <2>1, BeginMoves DEF ClaimKey, Pending
  <2>2. ASSUME NEW o, Resolve(KeyOf[e], o) PROVE records'[k].outcome = "COMMITTED"
    BY <2>2, ResolveMoves DEF Resolve, Pending
  <2>3. CASE UNCHANGED storeVars
    BY <2>3 DEF storeVars
  <2> QED
    BY <1>1, <2>1, <2>2, <2>3 DEF Step, Preflight, ConsumeApproval, Revalidate, WriteAhead, SendWrite,
        AwaitWrite, ReadBack, Conclude, ResolveAndEnd, storeVars
<1>2. ASSUME NEW j \in Key, ReconcileKey(j) PROVE records'[k].outcome = "COMMITTED"
  BY <1>2 DEF ReconcileKey, Reconcile, StoreInv, TypeOK
<1> QED
  BY <1>1, <1>2 DEF ExecNext, Cancel, ProviderApply, ProviderReject, Issue, Revoke,
      PurgeExpired, ExecTick, Tick, storeVars, execVars

\* Whoever was told COMMITTED keeps a ledger entry and a record that say so.
LEMMA ToldKept ==
    ASSUME DurableInv, ToldCommitted, ~Crash, [ExecNext]_execVars
    PROVE  ToldCommitted'
<1> SUFFICES ASSUME NEW e \in Execution, pc'[e] = "committed"
             PROVE  audit'[e] = "COMMITTED" /\ records'[KeyOf[e]].outcome = "COMMITTED"
  BY DEF ToldCommitted
<1> KeyOf[e] \in Key
  OBVIOUS
<1>0. pc[e] = "committed" => records'[KeyOf[e]].outcome = "COMMITTED"
  BY CommittedStays DEF ToldCommitted
<1> USE DEF DurableInv, ExecTypeOK, ToldCommitted
<1>1. ASSUME NEW f \in Execution, Step(f) \/ Cancel(f) \/ ProviderApply(f) \/ ProviderReject(f)
      PROVE  audit'[e] = "COMMITTED" /\ records'[KeyOf[e]].outcome = "COMMITTED"
  <2>1. CASE f # e
    BY <1>0, <1>1, <2>1, OwnStep DEF Elsewhere
  <2>2. CASE f = e
    <3> USE DEF Goto
    <3>1. CASE Preflight(e) \/ ConsumeApproval(e) \/ SendWrite(e) \/ Cancel(e)
      BY <3>1 DEF Preflight, ConsumeApproval, SendWrite, Cancel
    <3>2. CASE ClaimKey(e)
      BY <3>2 DEF ClaimKey, AfterBegin
    <3>3. CASE Revalidate(e) \/ WriteAhead(e) \/ AwaitWrite(e)
      BY <3>3 DEF Revalidate, WriteAhead, AwaitWrite, Conclude, ResolveAndEnd
    <3>4. CASE ReadBack(e)
      BY <3>4, ResolveMoves DEF ReadBack, Conclude, ResolveAndEnd
    <3>5. CASE ProviderApply(e) \/ ProviderReject(e)
      BY <1>0, <3>5 DEF ProviderApply, ProviderReject
    <3> QED
      BY <1>1, <2>2, <3>1, <3>2, <3>3, <3>4, <3>5 DEF Step
  <2> QED
    BY <2>1, <2>2
<1>2. CASE UNCHANGED <<pc, audit>>
  BY <1>0, <1>2
<1> QED
  BY <1>1, <1>2 DEF ExecNext, Issue, Revoke, ReconcileKey, PurgeExpired, ExecTick, execVars

\* An approval is spent by one execution.
LEMMA LifetimeKept ==
    DurableInv /\ LifetimeInv /\ ~Crash /\ [ExecNext]_execVars => LifetimeInv'
<1> SUFFICES ASSUME DurableInv, LifetimeInv, ~Crash, [ExecNext]_execVars PROVE LifetimeInv'
  OBVIOUS
<1>1. ASSUME NEW e \in Execution, PastApproval(e)', ~PastApproval(e)
      PROVE  /\ approvals[ApprovalOf[e]].state = "PENDING" /\ e \in Binds[ApprovalOf[e]]
             /\ approvals'[ApprovalOf[e]].state = "CONSUMED"
             /\ \A f \in Execution \ {e} : PastApproval(f)' => PastApproval(f)
  <2>1. ConsumeApproval(e) /\ Usable(ApprovalOf[e], e)
    BY <1>1, NewlyPast
  <2>2. \A f \in Execution \ {e} : PastApproval(f)' => PastApproval(f)
    BY <2>1, OwnStep DEF DurableInv, Step, Elsewhere, PastApproval
  <2> QED
    BY <2>1, <2>2 DEF ConsumeApproval, Consumed, Usable, DurableInv, ExecTypeOK
<1>2. Spent'
  BY <1>1, SpentStays DEF LifetimeInv, Spent
<1>3. ApprovalSpentOnce'
  BY <1>1, <1>2 DEF LifetimeInv, Spent, ApprovalSpentOnce
<1> QED
  BY <1>2, <1>3, ToldKept DEF LifetimeInv

-----------------------------------------------------------------------------
(* One write per key, with an operator who waits                           *)

\* Only begin brings an attempt to life, and only for a key without one.
LEMMA NewlyLive ==
    ASSUME DurableInv, [ExecNext]_execVars, NEW e \in Execution, Live(e)', ~Live(e)
    PROVE  ClaimKey(e) /\ BeginDecision(KeyOf[e]) = "NEW"
<1> USE DEF DurableInv, ExecTypeOK
<1>1. ASSUME NEW f \in Execution, Step(f) \/ Cancel(f) \/ ProviderApply(f) \/ ProviderReject(f)
      PROVE  ClaimKey(e) /\ BeginDecision(KeyOf[e]) = "NEW"
  <2>1. f = e
    BY <1>1, OwnStep DEF Elsewhere, Live, InFlight
  <2> USE DEF Live, InFlight, Goto
  <2>2. CASE ClaimKey(e)
    BY <2>2 DEF ClaimKey, AfterBegin
  <2>3. CASE Preflight(e) \/ ConsumeApproval(e) \/ SendWrite(e) \/ Cancel(e)
             \/ ProviderApply(e) \/ ProviderReject(e)
    BY <2>3 DEF Preflight, ConsumeApproval, SendWrite, Cancel, ProviderApply, ProviderReject
  <2>4. CASE Revalidate(e) \/ WriteAhead(e) \/ AwaitWrite(e) \/ ReadBack(e)
    BY <2>4 DEF Revalidate, WriteAhead, AwaitWrite, ReadBack
  <2> QED
    BY <1>1, <2>1, <2>2, <2>3, <2>4 DEF Step
<1>2. CASE Crash
  BY <1>2 DEF Crash, Live, InFlight, Stage
<1>3. CASE UNCHANGED <<pc, provider>>
  BY <1>3 DEF Live, InFlight
<1> QED
  BY <1>1, <1>2, <1>3 DEF ExecNext, Issue, Revoke, ReconcileKey, PurgeExpired, ExecTick, execVars

\* A clean failure is recorded only for an attempt that is over without a write.
LEMMA CleanIsOver ==
    ASSUME CarefulOperator, DurableInv, OnceInv, ~Crash, [ExecNext]_execVars,
           NEW e \in Execution, Live(e),
           records'[KeyOf[e]].outcome \notin {"PENDING", "COMMITTED", "AMBIGUOUS"}
    PROVE  ~Live(e)'
<1> USE DEF DurableInv, OnceInv
<1> KeyOf[e] \in Key
  OBVIOUS
<1>0. records[KeyOf[e]].outcome \in {"PENDING", "COMMITTED", "AMBIGUOUS"}
  BY DEF LiveIsKnown
<1>1. ASSUME NEW f \in Execution, Step(f) PROVE ~Live(e)'
  <2> KeyOf[f] \in Key
    OBVIOUS
  <2>1. ~ClaimKey(f)
    BY <1>0, BeginMoves DEF ClaimKey
  <2>2. ASSUME NEW o \in {"COMMITTED", "AMBIGUOUS"}, Resolve(KeyOf[f], o) PROVE FALSE
    BY <1>0, <2>2, ResolveMoves
  <2>3. ~UNCHANGED records
    BY <1>0
  <2>4. Resolve(KeyOf[f], "FAILED_CLEAN") /\ (Revalidate(f) \/ WriteAhead(f) \/ AwaitWrite(f))
    BY <1>1, <2>1, <2>2, <2>3 DEF Step, Preflight, ConsumeApproval, Revalidate, WriteAhead, SendWrite,
        AwaitWrite, ReadBack, Conclude, ResolveAndEnd, storeVars
  <2>5. KeyOf[f] = KeyOf[e]
    BY <1>0, <2>4, ResolveMoves
  <2>6. f = e
    BY <2>4, <2>5 DEF LiveIsAlone, Live, InFlight, Revalidate, WriteAhead, AwaitWrite
  <2> USE DEF ExecTypeOK, Live, InFlight, Goto, Ordered, Stage
  <2>7. CASE Revalidate(e) \/ WriteAhead(e)
    <3>1. pc'[e] \notin {"revalidation", "write_ahead", "call", "awaiting", "read_back"}
      BY <2>3, <2>7 DEF Revalidate, WriteAhead, ResolveAndEnd, storeVars
    <3>2. provider'[e] = "unsent"
      BY <2>7 DEF Revalidate, WriteAhead
    <3> QED
      BY <3>1, <3>2
  <2>8. CASE AwaitWrite(e)
    <3>1. provider[e] = "rejected" /\ provider' = provider
      BY <2>2, <2>3, <2>6, <2>8 DEF AwaitWrite, Conclude, ResolveAndEnd, storeVars
    <3>2. pc'[e] = "denied"
      BY <2>2, <2>3, <2>6, <2>8 DEF AwaitWrite, Conclude, ResolveAndEnd, storeVars
    <3> QED
      BY <3>1, <3>2
  <2> QED
    BY <2>4, <2>6, <2>7, <2>8
<1>2. ASSUME NEW k \in Key, ReconcileKey(k) PROVE FALSE
  <2>1. k = KeyOf[e]
    BY <1>0, <1>2 DEF ReconcileKey, Reconcile, StoreInv, TypeOK
  <2>2. provider[e] = "applied"
    BY <1>2, <2>1 DEF ReconcileKey, Live
  <2> QED
    BY <1>0, <1>2, <2>1, <2>2 DEF ReconcileKey, Reconcile, TargetExists, StoreInv, TypeOK
<1> QED
  BY <1>0, <1>1, <1>2 DEF ExecNext, Cancel, ProviderApply, ProviderReject, Issue, Revoke,
      PurgeExpired, ExecTick, Tick, storeVars, execVars

\* A key keeps at most one write that may still land, known to its record.
LEMMA OnceKept ==
    ASSUME CarefulOperator, DurableInv, OnceInv, ~Crash, [ExecNext]_execVars
    PROVE  OnceInv'
<1>1. ASSUME NEW e \in Execution, Live(e)', ~Live(e)
      PROVE  /\ records[KeyOf[e]].outcome \in {"ABSENT", "FAILED_CLEAN"}
             /\ records'[KeyOf[e]].outcome = "PENDING"
             /\ \A f \in Execution \ {e} : Live(f)' => Live(f)
  <2> KeyOf[e] \in Key
    OBVIOUS
  <2>1. ClaimKey(e) /\ BeginDecision(KeyOf[e]) = "NEW"
    BY <1>1, NewlyLive
  <2>2. \A f \in Execution \ {e} : Live(f)' => Live(f)
    BY <2>1, OwnStep DEF DurableInv, Step, Elsewhere, Live, InFlight
  <2>3. BeginNew(KeyOf[e])
    BY <2>1 DEF ClaimKey, Begin, BeginNew, BeginLeaseLost, BeginHolderLost, BeginRefused
  <2>4. records[KeyOf[e]].outcome \in {"ABSENT", "FAILED_CLEAN"}
    BY <2>1, NewIsUncontended DEF DurableInv
  <2> QED
    BY <2>2, <2>3, <2>4 DEF BeginNew, DurableInv, StoreInv, TypeOK
<1>2. LiveIsKnown'
  BY <1>1, CleanIsOver DEF LiveIsKnown
<1>3. LiveIsAlone'
  BY <1>1 DEF OnceInv, LiveIsKnown, LiveIsAlone
<1> QED
  BY <1>2, <1>3 DEF OnceInv

-----------------------------------------------------------------------------
(* The theorems                                                            *)

\* The inductive invariants hold before the first call.
LEMMA ExecStarts == ExecInit => DurableInv /\ LifetimeInv /\ OnceInv
<1> SUFFICES ASSUME ExecInit PROVE DurableInv /\ LifetimeInv /\ OnceInv
  OBVIOUS
<1> USE DEF ExecInit, Init
<1>1. StoreInv
  BY DEF StoreInv, TypeOK, PendingHoldsLease, OnlyPendingLeased, Pending, AbsentRecord,
         IdempotencyRecord, Outcome, NoLease
<1>2. ExecTypeOK
  BY <1>1 DEF ExecTypeOK, StoreInv, Stage, ApprovalState, AuditState
<1>3. CommittedExists /\ \A e \in Execution : Ordered(e)
  BY DEF CommittedExists, Ordered, AbsentRecord
<1>4. LifetimeInv
  BY DEF LifetimeInv, Spent, ApprovalSpentOnce, ToldCommitted, PastApproval, Stage
<1>5. OnceInv
  BY DEF OnceInv, LiveIsKnown, LiveIsAlone, Live, InFlight
<1> QED
  BY <1>1, <1>2, <1>3, <1>4, <1>5 DEF DurableInv

\* execute writes nothing to the provider before the ledger's record of it is on
\* disk: whatever the sink does, whoever reconciles, and however often the process
\* dies and starts again.
THEOREM WriteAheadFirst == ExecSpec => [](ExecTypeOK /\ WriteAheadDurable /\ CommittedExists)
<1>1. DurableInv => ExecTypeOK /\ WriteAheadDurable /\ CommittedExists
  BY DEF DurableInv, WriteAheadDurable, Ordered
<1> QED
  BY <1>1, ExecStarts, DurableKept, PTL DEF ExecSpec

\* The three invariants hold together in the life of one process.
LEMMA LifeInvariant ==
    ASSUME MaxCrashes = 0, CarefulOperator
    PROVE  ExecSpec => [](DurableInv /\ LifetimeInv /\ OnceInv)
<1> DEFINE Inv == DurableInv /\ LifetimeInv /\ OnceInv
<1>1. Inv /\ [ExecNext]_execVars => Inv'
  <2> SUFFICES ASSUME Inv, [ExecNext]_execVars PROVE Inv'
    OBVIOUS
  <2>1. ~Crash
    BY NoCrash DEF DurableInv
  <2> QED
    BY <2>1, DurableKept, LifetimeKept, OnceKept
<1> QED
  BY <1>1, ExecStarts, PTL DEF ExecSpec

\* In the life of one process, with an operator who reconciles only what has
\* settled, execute spends an approval once, sends one write per key, and leaves
\* ledger, records and provider in agreement.
THEOREM Accounted ==
    ASSUME MaxCrashes = 0, CarefulOperator
    PROVE  ExecSpec => []WritesAccounted
<1>1. DurableInv /\ LifetimeInv /\ OnceInv => WritesAccounted
  <2> SUFFICES ASSUME DurableInv, LifetimeInv, OnceInv PROVE WritesAccounted
    OBVIOUS
  <2>1. OneWritePerKey
    BY DEF OnceInv, LiveIsAlone, Live, OneWritePerKey
  <2>2. EvidenceAgrees
    BY DEF DurableInv, Ordered, LifetimeInv, ToldCommitted, EvidenceAgrees
  <2> QED
    BY <2>1, <2>2 DEF WritesAccounted, DurableInv, LifetimeInv
<1> QED
  BY <1>1, LifeInvariant, PTL

\* How a step may change what became of the writes.
LEMMA WriteMoves ==
    ASSUME DurableInv, [ExecNext]_execVars
    PROVE  \/ provider' = provider
           \/ \E e \in Execution :
                 \/ InFlight(e) /\ provider[e] = "unsent" /\ provider' = [provider EXCEPT ![e] = "sent"]
                 \/ provider[e] = "sent" /\ provider' = [provider EXCEPT ![e] = "applied"]
                 \/ provider[e] = "sent" /\ provider' = [provider EXCEPT ![e] = "rejected"]
<1>1. ASSUME NEW e \in Execution, SendWrite(e)
      PROVE  InFlight(e) /\ provider[e] = "unsent" /\ provider' = [provider EXCEPT ![e] = "sent"]
  BY <1>1 DEF SendWrite, DurableInv, Ordered, Stage, InFlight
<1>2. ASSUME NEW e \in Execution, ProviderApply(e)
      PROVE  provider[e] = "sent" /\ provider' = [provider EXCEPT ![e] = "applied"]
  BY <1>2 DEF ProviderApply
<1>3. ASSUME NEW e \in Execution, ProviderReject(e)
      PROVE  provider[e] = "sent" /\ provider' = [provider EXCEPT ![e] = "rejected"]
  BY <1>3 DEF ProviderReject
<1>4. ASSUME NEW e \in Execution,
             \/ Preflight(e) \/ ConsumeApproval(e) \/ ClaimKey(e) \/ Revalidate(e) \/ WriteAhead(e)
             \/ AwaitWrite(e) \/ ReadBack(e) \/ Cancel(e)
      PROVE  provider' = provider
  BY <1>4 DEF Preflight, ConsumeApproval, ClaimKey, Revalidate, WriteAhead, AwaitWrite, ReadBack, Cancel
<1>5. ASSUME NEW a \in Approval, Issue(a) \/ Revoke(a) PROVE provider' = provider
  BY <1>5 DEF Issue, Revoke
<1>6. ASSUME NEW k \in Key, ReconcileKey(k) PROVE provider' = provider
  BY <1>6 DEF ReconcileKey
<1>7. PurgeExpired \/ ExecTick \/ Crash \/ UNCHANGED execVars => provider' = provider
  BY DEF PurgeExpired, ExecTick, Crash, execVars
<1> QED
  BY <1>1, <1>2, <1>3, <1>4, <1>5, <1>6, <1>7 DEF ExecNext, Step

\* At most one execution of a key may still write or has written, so every step is one
\* of EffectOnce, or changes no write.
LEMMA WriteOnceStep ==
    ASSUME DurableInv, OnceInv, [ExecNext]_execVars
    PROVE  [Writes!EffectNext]_[k \in Key |-> EffectOf(k)]
<1> DEFINE writes == [k \in Key |-> EffectOf(k)]
<1>1. /\ provider \in [Execution -> {"unsent", "sent", "applied", "rejected"}]
      /\ \A e \in Execution : KeyOf[e] \in Key
  BY KeyOfAssumption DEF DurableInv, ExecTypeOK
<1>2. CASE provider' = provider
  BY <1>2 DEF EffectOf
<1>3. ASSUME NEW e \in Execution, NEW fate \in {"sent", "applied", "rejected"},
             provider' = [provider EXCEPT ![e] = fate],
             \/ InFlight(e) /\ provider[e] = "unsent" /\ fate = "sent"
             \/ provider[e] = "sent" /\ fate \in {"applied", "rejected"}
      PROVE  Writes!EffectNext
  <2>1. PICK k \in Key : k = KeyOf[e]
    BY <1>1
  <2>2. provider'[e] = fate /\ \A f \in Execution \ {e} : provider'[f] = provider[f]
    BY <1>1, <1>3
  <2>3. \A j \in Key \ {k} : EffectOf(j)' = EffectOf(j)
    BY <2>1, <2>2 DEF EffectOf
  <2>4. \A f \in Execution \ {e} : KeyOf[f] = k => provider[f] \notin {"sent", "applied"}
    BY <1>3, <2>1 DEF OnceInv, LiveIsAlone, Live
  <2>5. \/ EffectOf(k) = "none" /\ EffectOf(k)' = "open"
        \/ EffectOf(k) = "open" /\ EffectOf(k)' \in {"done", "none"}
    BY <1>3, <2>1, <2>2, <2>4 DEF EffectOf
  <2>6. PICK old, new : /\ old = [j \in Key |-> EffectOf(j)] /\ old = writes
                        /\ new = [j \in Key |-> EffectOf(j)'] /\ new = writes'
    OBVIOUS
  <2>7. \A j \in Key : old[j] = EffectOf(j) /\ new[j] = EffectOf(j)'
    BY <2>6
  <2>8. new = [old EXCEPT ![k] = EffectOf(k)']
    BY <2>3, <2>6, <2>7
  <2>9. CASE EffectOf(k) = "none" /\ EffectOf(k)' = "open"
    <3>1. old[k] = "none" /\ new = [old EXCEPT ![k] = "open"] /\ [j \in Key |-> {}][k] = {}
      BY <2>7, <2>8, <2>9
    <3> QED
      BY <2>6, <3>1 DEF Writes!EffectNext, Writes!Attempt
  <2>10. CASE EffectOf(k) = "open" /\ EffectOf(k)' \in {"done", "none"}
    <3>1. old[k] = "open" /\ \E x \in {"done", "none"} : new = [old EXCEPT ![k] = x]
      BY <2>7, <2>8, <2>10
    <3> QED
      BY <2>6, <3>1 DEF Writes!EffectNext, Writes!Settle
  <2> QED
    BY <2>5, <2>9, <2>10
<1> QED
  BY <1>2, <1>3, WriteMoves

\* In the life of one process, with such an operator: the write of a key is brought
\* about as EffectOnce says, however leases expire, answers get lost and requests
\* are repeated.
THEOREM WritesOnce ==
    ASSUME MaxCrashes = 0, CarefulOperator
    PROVE  ExecSpec => ImplementsWrites
<1> DEFINE writes == [k \in Key |-> EffectOf(k)]
<1>1. ExecInit => Writes!EffectInit
  <2> SUFFICES ASSUME ExecInit PROVE \A k \in Key : EffectOf(k) = "none"
    BY DEF Writes!EffectInit
  <2> QED
    BY DEF ExecInit, EffectOf
<1>2. DurableInv /\ OnceInv /\ [ExecNext]_execVars => [Writes!EffectNext]_writes
  BY WriteOnceStep
<1>3. ExecSpec => Writes!EffectInit /\ [][Writes!EffectNext]_writes
  <2> HIDE DEF writes
  <2> QED
    BY <1>1, <1>2, LifeInvariant, PTL DEF ExecSpec
<1> QED
  BY <1>3, PTL DEF ImplementsWrites, Writes!EffectSpec

\* The executor uses the idempotency store as the store's own specification lets
\* its callers: so whatever is proved of the store holds of it under execute.
THEOREM StoreImplemented ==
    ASSUME MaxCrashes = 0
    PROVE  ExecSpec => Spec
<1>1. ExecInit => Init
  BY DEF ExecInit
<1>2. DurableInv /\ [ExecNext]_execVars => [Next]_vars
  BY NoCrash, StoreStep DEF DurableInv
<1> QED
  BY <1>1, <1>2, ExecStarts, DurableKept, PTL DEF ExecSpec, Spec
=============================================================================
