---------------------------- MODULE DagExecution ----------------------------
(***************************************************************************)
(* One execution of a validated plan by DagEngine (v2/dag_engine.py) over  *)
(* the fenced checkpoint store of v2/dag_store.py.                         *)
(*                                                                         *)
(* An engine is one call of admit followed by run, or one call of resume,  *)
(* in a process of its own: several may be alive at once, because          *)
(* acquire_lease does not ask whether the lease it replaces has expired.   *)
(* The actions of an engine are the sections of its coroutines between two *)
(* awaits.  The tools behind the executor, and the policy behind the       *)
(* governance adapter, are external.                                       *)
(***************************************************************************)
EXTENDS Integers, Sequences, FiniteSets

CONSTANTS
    Engine,         \* calls of admit-and-run or of resume
    NoEngine,
    Node,           \* node ids of the plan
    Order,          \* plan.order: a topological order
    Ranked,         \* the nodes by (rank, id), the order of a batch
    DependsOn,      \* depends_on of each node
    BindsTo,        \* the dependencies whose results a node's arguments use
    Mutating,       \* plan.mutating_nodes
    Transform,      \* nodes evaluated in the engine, without a call
    Compensable,    \* nodes that declare a compensation
    Deniable,       \* nodes the policy may turn down when it is asked
    ResourceOf,     \* the resource key of a node's arguments
    NoResource,
    OnFailure,      \* on_failure of each node
    FailFast,       \* failure_policy is FAIL_FAST
    Rollback,       \* rollback_policy is not NONE
    MaxCalls,       \* budget.max_external_calls
    Parallelism     \* the effective parallelism, at least 1

ASSUME NodesAssumption ==
    /\ Mutating \subseteq Node /\ Transform \subseteq Node \ Mutating
    /\ Compensable \subseteq Mutating /\ Deniable \subseteq Node
    /\ DependsOn \in [Node -> SUBSET Node]
    /\ BindsTo \in [Node -> SUBSET Node]
    /\ OnFailure \in [Node -> {"abort_plan", "isolate_branch", "dead_letter"}]
\* Both are enumerations of the nodes; validation refuses cycles, and bindings
\* to a node that is not a dependency.
ASSUME OrderAssumption ==
    /\ Order \in Seq(Node) /\ Ranked \in Seq(Node)
    /\ \A n \in Node : /\ \E i \in 1 .. Len(Order) : Order[i] = n
                       /\ BindsTo[n] \subseteq DependsOn[n]
    /\ \A i, j \in 1 .. Len(Order) : Order[i] \in DependsOn[Order[j]] => i < j
ASSUME BudgetAssumption == MaxCalls \in Nat /\ Parallelism \in Nat \ {0}
ASSUME NoEngineAssumption == NoEngine \notin Engine

VARIABLES
    ckpt,           \* the stored checkpoint: fence token and node states
    approval,       \* the execution holding the plan's approval nonce
    fence,          \* the fence token each engine was given, 0 before
    eng,            \* the coroutine state of each engine
    call            \* what became of each engine's call of a mutating tool

vars == <<ckpt, approval, fence, eng, call>>

-----------------------------------------------------------------------------
(* State                                                                   *)

\* NodeStatus; the code never assigns READY or COMPENSATION_SKIPPED.
NodeStatus ==
    {"PENDING", "DISPATCHED", "SUCCESS", "FAILED", "DENIED", "SKIPPED",
     "INDETERMINATE", "DEAD_LETTER", "COMPENSATION_PENDING", "COMPENSATED",
     "COMPENSATION_UNSAFE", "COMPENSATION_FAILED", "COMPENSATION_INDETERMINATE"}

\* result and effect_ref are kept as present or absent. Every reason code a
\* skip is given is one that resume retries, so reason codes are left out.
NodeState == [status : NodeStatus, result : BOOLEAN, effect : BOOLEAN]
FreshNode == [status |-> "PENDING", result |-> FALSE, effect |-> FALSE]
FreshNodes == [n \in Node |-> FreshNode]

\* Where a coroutine is. "raised": run has raised, but gather does not cancel
\* its other tasks, which go on.
Phase == {"idle", "refused", "admitting", "reconcile", "wave", "rollback",
          "done", "raised", "dead"}

\* What the engine awaits for a node: a reconciliation read, the resource lock,
\* the executor, the compensator.
Task == {"none", "reconciling", "waiting", "calling", "undoing"}

\* A call that was sent commits at some later time or never will; the effect
\* of a committed one may be undone by a compensation.
CallState == {"none", "sent", "committed", "lost", "undone"}

EngineState ==
    [phase : Phase, local : [Node -> NodeState], task : [Node -> Task],
     queue : SUBSET Node, calls : Nat, aborted : BOOLEAN]

IdleEngine ==
    [phase |-> "idle", local |-> FreshNodes, task |-> [n \in Node |-> "none"],
     queue |-> {}, calls |-> 0, aborted |-> FALSE]

DagTypeOK ==
    /\ ckpt \in [fence : Nat, nodes : [Node -> NodeState]]
    /\ approval \in Engine \cup {NoEngine}
    /\ fence \in [Engine -> Nat]
    /\ eng \in [Engine -> EngineState]
    /\ call \in [Engine -> [Node -> CallState]]

\* Fence 0: no checkpoint has been created.
Init ==
    /\ ckpt = [fence |-> 0, nodes |-> FreshNodes]
    /\ approval = NoEngine
    /\ fence = [e \in Engine |-> 0]
    /\ eng = [e \in Engine |-> IdleEngine]
    /\ call = [e \in Engine |-> [n \in Node |-> "none"]]

Become(e, st) == eng' = [eng EXCEPT ![e] = st]

\* Mutant: an UPDATE without the fence condition.
SaveAs_LastWriteWins(e, st, refused) ==
    /\ ckpt' = [fence |-> ckpt.fence, nodes |-> st.local]
    /\ Become(e, st)

\* persist and store.save: the checkpoint takes on the engine's node states,
\* and the engine goes on as st; with a stale fence token the store refuses
\* and the engine goes on as refused.
SaveAs(e, st, refused) ==
    IF fence[e] < ckpt.fence
    THEN UNCHANGED ckpt /\ Become(e, refused)
    ELSE /\ ckpt' = [fence |-> fence[e], nodes |-> st.local]
         /\ Become(e, st)

Raised(st) == [st EXCEPT !.phase = "raised"]

\* An engine state once node n is in the given state and its task awaits t.
Put(st, n, state, t) ==
    [st EXCEPT !.local = [st.local EXCEPT ![n] = state],
               !.task = [st.task EXCEPT ![n] = t]]

\* The same when only the status of the node changes.
Moved(e, n, status, t) ==
    Put(eng[e], n, [eng[e].local[n] EXCEPT !.status = status], t)

Idle(e) == eng[e].queue = {} /\ \A n \in Node : eng[e].task[n] = "none"

-----------------------------------------------------------------------------
(* admit                                                                   *)

\* _check_approval: the first to insert the nonce wins; the rest of the
\* approval's checks may refuse as well.
CheckApproval(e) ==
    /\ eng[e].phase = "idle"
    /\ \/ approval = NoEngine /\ approval' = e
          /\ Become(e, [eng[e] EXCEPT !.phase = "admitting"])
       \/ UNCHANGED approval /\ Become(e, [eng[e] EXCEPT !.phase = "refused"])
    /\ UNCHANGED <<ckpt, fence, call>>

\* store.create, then run.
Create(e) ==
    /\ eng[e].phase = "admitting" /\ ckpt.fence = 0
    /\ fence' = [fence EXCEPT ![e] = 1]
    /\ ckpt' = [fence |-> 1, nodes |-> FreshNodes]
    /\ Become(e, [eng[e] EXCEPT !.phase = "wave"])
    /\ UNCHANGED <<approval, call>>

-----------------------------------------------------------------------------
(* resume                                                                  *)

Unresolved == {"DISPATCHED", "INDETERMINATE"}

\* acquire_lease: a greater fence token, in the store before anything else.
AcquireLease(e) ==
    /\ eng[e].phase = "idle" /\ ckpt.fence > 0
    /\ fence' = [fence EXCEPT ![e] = ckpt.fence + 1]
    /\ ckpt' = [fence |-> ckpt.fence + 1, nodes |-> ckpt.nodes]
    /\ Become(e, [eng[e] EXCEPT
            !.phase = "reconcile",
            !.local = ckpt.nodes,
            !.task = [n \in Node |-> IF ckpt.nodes[n].status \in Unresolved
                                     THEN "reconciling" ELSE "none"]])
    /\ UNCHANGED <<approval, call>>

Committed(n) == \E f \in Engine : call[f][n] = "committed"
MayCommit(n) == \E f \in Engine : call[f][n] = "sent"

\* Mutant: an unreachable provider counts as "no effect".
Reconcile_BlindRetry(e, n) ==
    /\ eng[e].phase = "reconcile" /\ eng[e].task[n] = "reconciling"
    /\ \/ Become(e, Moved(e, n, "PENDING", "none"))
       \/ Committed(n) /\ Become(e, Put(eng[e], n,
                [eng[e].local[n] EXCEPT !.status = "SUCCESS", !.effect = TRUE], "none"))
    /\ UNCHANGED <<ckpt, approval, fence, call>>

\* The reconciler answers: unknown, provably absent, or the effect's reference.
\* A reconciled SUCCESS has an effect and no result.
Reconcile(e, n) ==
    /\ eng[e].phase = "reconcile" /\ eng[e].task[n] = "reconciling"
    /\ \/ Become(e, Moved(e, n, "INDETERMINATE", "none"))
       \/ ~Committed(n) /\ ~MayCommit(n) /\ Become(e, Moved(e, n, "PENDING", "none"))
       \/ Committed(n) /\ Become(e, Put(eng[e], n,
                [eng[e].local[n] EXCEPT !.status = "SUCCESS", !.effect = TRUE], "none"))
    /\ UNCHANGED <<ckpt, approval, fence, call>>

\* Skipped nodes get another chance, the policy is asked again about whatever
\* is pending (and turns down `denied`), and run starts from the result.
ResumeRun(e) ==
    /\ eng[e].phase = "reconcile" /\ Idle(e)
    /\ \E denied \in SUBSET Deniable :
        LET reopened == [n \in Node |-> IF eng[e].local[n].status = "SKIPPED"
                            THEN [eng[e].local[n] EXCEPT !.status = "PENDING"]
                            ELSE eng[e].local[n]]
            checked == [n \in Node |-> IF n \in denied /\ reopened[n].status = "PENDING"
                            THEN [reopened[n] EXCEPT !.status = "DENIED"]
                            ELSE reopened[n]]
        IN  SaveAs(e, [eng[e] EXCEPT !.phase = "wave", !.local = checked], Raised(eng[e]))
    /\ UNCHANGED <<approval, fence, call>>

-----------------------------------------------------------------------------
(* run: the loop over waves                                                *)

\* blocked_reason is not None.
Blocking == {"INDETERMINATE", "FAILED", "DENIED", "SKIPPED", "DEAD_LETTER"}

Skip(state) == [state EXCEPT !.status = "SKIPPED"]

\* A set of nodes that contains every pending node behind a blocking one or
\* behind one of its own members.
SkipClosed(nodes, skipped) ==
    \A n \in Node : /\ nodes[n].status = "PENDING"
                    /\ \E d \in DependsOn[n] : nodes[d].status \in Blocking \/ d \in skipped
                    => n \in skipped

\* propagate runs until nothing changes: it skips the least such set.
Propagate(nodes) ==
    [n \in Node |->
        IF /\ nodes[n].status = "PENDING"
           /\ \A skipped \in SUBSET Node : SkipClosed(nodes, skipped) => n \in skipped
        THEN Skip(nodes[n]) ELSE nodes[n]]

\* Mutant: a node skipped for its budget is tried again in the same run.
Ready_SkippedAgain(nodes, n) ==
    /\ nodes[n].status \in {"PENDING", "SKIPPED"}
    /\ \A d \in DependsOn[n] : nodes[d].status = "SUCCESS"

Ready(nodes, n) ==
    /\ nodes[n].status = "PENDING"
    /\ \A d \in DependsOn[n] : nodes[d].status = "SUCCESS"

SkipPending(nodes) ==
    [n \in Node |-> IF nodes[n].status = "PENDING" THEN Skip(nodes[n]) ELSE nodes[n]]

\* The top of the loop, and what follows a gather that returned: save, and
\* either start the tasks of the ready nodes or go on to the rollback.
NextWave(e) ==
    /\ eng[e].phase = "wave" /\ Idle(e)
    /\ LET st == eng[e]
           stop == st.aborted /\ FailFast
           nodes == Propagate(IF stop THEN SkipPending(st.local) ELSE st.local)
           batch == {n \in Node : Ready(nodes, n) /\ ~stop}
       IN  IF batch # {}
           THEN IF fence[e] < ckpt.fence
                THEN UNCHANGED ckpt /\ Become(e, Raised(st))
                ELSE /\ ckpt' = [fence |-> fence[e], nodes |-> st.local]
                     /\ Become(e, [st EXCEPT !.local = nodes, !.queue = batch])
           ELSE SaveAs(e, [st EXCEPT !.local = nodes, !.phase = "rollback"], Raised(st))
    /\ UNCHANGED <<approval, fence, call>>

-----------------------------------------------------------------------------
(* run: one node                                                           *)

\* Tasks of the wave run, also once run itself has raised.
Running(e) == eng[e].phase \in {"wave", "raised"}

Resolvable(e, n) ==
    \A s \in BindsTo[n] : eng[e].local[s].status = "SUCCESS" /\ eng[e].local[s].result

\* execute, up to the call of the executor; q is what is left of the queue.
\* Only the write-ahead of a mutating node saves.
Execute(e, n, q) ==
    LET st(status, t) == [Moved(e, n, status, t) EXCEPT !.queue = q]
        counted == [Moved(e, n, IF n \in Mutating THEN "DISPATCHED" ELSE "PENDING", "calling")
                        EXCEPT !.queue = q, !.calls = @ + 1]
    IN  \/ /\ BindsTo[n] # {}
           /\ Become(e, st("FAILED", "none"))
           /\ UNCHANGED <<ckpt, call>>
        \/ /\ Resolvable(e, n) /\ n \in Deniable
           /\ Become(e, st("DENIED", "none"))
           /\ UNCHANGED <<ckpt, call>>
        \/ /\ Resolvable(e, n) /\ n \in Transform
           /\ \/ Become(e, [Put(eng[e], n, [eng[e].local[n] EXCEPT !.status = "SUCCESS",
                                             !.result = TRUE], "none") EXCEPT !.queue = q])
              \/ Become(e, st("FAILED", "none"))
           /\ UNCHANGED <<ckpt, call>>
        \/ /\ Resolvable(e, n) /\ n \notin Transform /\ eng[e].calls >= MaxCalls
           /\ Become(e, st("SKIPPED", "none"))
           /\ UNCHANGED <<ckpt, call>>
        \/ /\ Resolvable(e, n) /\ n \notin Transform \cup Mutating /\ eng[e].calls < MaxCalls
           /\ Become(e, counted)
           /\ UNCHANGED <<ckpt, call>>
        \/ /\ Resolvable(e, n) /\ n \in Mutating /\ eng[e].calls < MaxCalls
           /\ SaveAs(e, counted, Raised(st("DISPATCHED", "none")))
           /\ call' = IF fence[e] < ckpt.fence THEN call
                      ELSE [call EXCEPT ![e][n] = "sent"]

\* Mutant: every node gets a lock object of its own.
Contenders_OwnLock(e, n) == {m \in Mutating : m = n /\ eng[e].task[m] = "calling"}

\* The nodes whose mutating tasks have, or wait for, the lock n needs.
Contenders(e, n) ==
    {m \in Mutating \ {n} : /\ n \in Mutating
                            /\ ResourceOf[n] # NoResource /\ ResourceOf[m] = ResourceOf[n]
                            /\ eng[e].task[m] \in {"waiting", "calling"}}

\* m comes before n in a batch.
Before(m, n) ==
    \E i, j \in 1 .. Len(Ranked) : i < j /\ Ranked[i] = m /\ Ranked[j] = n

\* guarded: the semaphore is first come, first served, and a task that gets it
\* runs until it has to wait.
StartTask(e, n) ==
    /\ Running(e) /\ n \in eng[e].queue
    /\ \A m \in eng[e].queue : ~Before(m, n)
    /\ Cardinality({m \in Node : eng[e].task[m] # "none"}) < Parallelism
    /\ LET rest == eng[e].queue \ {n}
       IN  IF Resolvable(e, n) /\ Contenders(e, n) # {}
           THEN /\ Become(e, [Put(eng[e], n, eng[e].local[n], "waiting") EXCEPT !.queue = rest])
                /\ UNCHANGED <<ckpt, call>>
           ELSE Execute(e, n, rest)
    /\ UNCHANGED <<approval, fence>>

\* The resource lock was released.
TakeLock(e, n) ==
    /\ Running(e) /\ eng[e].task[n] = "waiting"
    /\ \A m \in Contenders(e, n) : eng[e].task[m] # "calling"
    /\ Execute(e, n, eng[e].queue)
    /\ UNCHANGED <<approval, fence>>

\* The executor returns a result. It is saved with the next save, not here.
Succeed(e, n) ==
    /\ Running(e) /\ eng[e].task[n] = "calling"
    /\ n \in Mutating => call[e][n] \in {"committed", "undone"}
    /\ \E ref \in IF n \in Mutating THEN BOOLEAN ELSE {FALSE} :
          Become(e, Put(eng[e], n,
              [status |-> "SUCCESS", result |-> TRUE, effect |-> ref], "none"))
    /\ UNCHANGED <<ckpt, approval, fence, call>>

\* NodeFailed: the failure is provably pre-commit.
Fail(e, n) ==
    /\ Running(e) /\ eng[e].task[n] = "calling" /\ call[e][n] \notin {"committed", "undone"}
    /\ call' = IF n \in Mutating THEN [call EXCEPT ![e][n] = "lost"] ELSE call
    /\ Become(e, [Moved(e, n, "FAILED", "none") EXCEPT
          !.aborted = \/ @
                      \/ FailFast /\ OnFailure[n] # "isolate_branch"
                      \/ OnFailure[n] = "abort_plan"])
    /\ UNCHANGED <<ckpt, approval, fence>>

\* NodeIndeterminate: saved at once, dead-lettered if the node asks for it.
LoseTrack(e, n) ==
    /\ Running(e) /\ eng[e].task[n] = "calling"
    /\ LET status == IF OnFailure[n] = "dead_letter" THEN "DEAD_LETTER" ELSE "INDETERMINATE"
       IN  SaveAs(e, Moved(e, n, status, "none"),
                     Raised(Moved(e, n, "INDETERMINATE", "none")))
    /\ UNCHANGED <<approval, fence, call>>

\* Any other exception goes through gather and out of run.
Break(e, n) ==
    /\ Running(e) /\ eng[e].task[n] = "calling"
    /\ Become(e, Raised(Put(eng[e], n, eng[e].local[n], "none")))
    /\ UNCHANGED <<ckpt, approval, fence, call>>

-----------------------------------------------------------------------------
(* run: compensation and the report                                        *)

\* plan_status_from; run passes it aborted only when nothing succeeded.
PlanStatus(nodes, aborted) ==
    LET has(status) == \E n \in Node : nodes[n].status = status
    IN  CASE has("DEAD_LETTER")                          -> "DEAD_LETTER"
          [] ~has("DEAD_LETTER") /\ has("INDETERMINATE") -> "INDETERMINATE"
          [] OTHER ->
               IF aborted THEN "ABORTED"
               ELSE IF \A n \in Node : nodes[n].status = "SUCCESS" THEN "COMPLETED"
               ELSE IF has("SUCCESS") THEN "PARTIAL" ELSE "FAILED"

\* The status of the report of an engine that is done.
Verdict(e) ==
    LET nodes == eng[e].local
    IN  PlanStatus(nodes, eng[e].aborted /\ \A n \in Node : nodes[n].status # "SUCCESS")

\* Mutant: an INDETERMINATE node is rolled back like a successful one.
Candidates_Unknown(e) ==
    {n \in Compensable : /\ Rollback
                         /\ eng[e].local[n].status \in {"SUCCESS", "INDETERMINATE"}
                         /\ PlanStatus(eng[e].local, FALSE) # "COMPLETED"}

\* Nodes whose effect is to be undone; empty when there is nothing to roll back.
Candidates(e) ==
    {n \in Compensable : /\ Rollback
                         /\ eng[e].local[n].status = "SUCCESS" /\ eng[e].local[n].effect
                         /\ PlanStatus(eng[e].local, FALSE) # "COMPLETED"}

\* The last candidate of the topological order.
LatestCandidate(e, n) ==
    /\ n \in Candidates(e)
    /\ \E i \in 1 .. Len(Order) :
          /\ Order[i] = n
          /\ \A j \in i + 1 .. Len(Order) : Order[j] \notin Candidates(e)

\* Saved as COMPENSATION_PENDING before the compensator is called. Without a
\* compensator, or against the policy, the node is left UNSAFE.
StartUndo(e, n) ==
    /\ eng[e].phase = "rollback" /\ Idle(e) /\ LatestCandidate(e, n)
    /\ LET started == Moved(e, n, "COMPENSATION_PENDING", "undoing")
           refused == Raised(Moved(e, n, "COMPENSATION_PENDING", "none"))
       IN  \/ SaveAs(e, started, refused)
           \/ n \in Deniable /\ SaveAs(e, Moved(e, n, "COMPENSATION_UNSAFE", "none"), refused)
    /\ UNCHANGED <<approval, fence, call>>

UndoOutcome == {"COMPENSATED", "COMPENSATION_UNSAFE", "COMPENSATION_FAILED",
                "COMPENSATION_INDETERMINATE"}

\* The compensator returns. COMPENSATED means read back and found undone; in
\* the other cases the inverse may or may not have had its effect.
FinishUndo(e, n) ==
    /\ eng[e].phase = "rollback" /\ eng[e].task[n] = "undoing"
    /\ \E outcome \in UndoOutcome, undone \in BOOLEAN :
          /\ outcome = "COMPENSATED" => undone
          /\ call' = [f \in Engine |-> [m \in Node |->
                IF undone /\ m = n /\ call[f][m] = "committed" THEN "undone" ELSE call[f][m]]]
          /\ SaveAs(e, Moved(e, n, outcome, "none"), Raised(Moved(e, n, outcome, "none")))
    /\ UNCHANGED <<approval, fence>>

\* The final save and the report.
Report(e) ==
    /\ eng[e].phase = "rollback" /\ Idle(e) /\ Candidates(e) = {}
    /\ SaveAs(e, [eng[e] EXCEPT !.phase = "done"], Raised(eng[e]))
    /\ UNCHANGED <<approval, fence, call>>

-----------------------------------------------------------------------------
(* The environment                                                         *)

\* A call that was sent takes effect, or is lost for good.
ProviderCommit(e, n) ==
    /\ call[e][n] = "sent"
    /\ \E fate \in {"committed", "lost"} : call' = [call EXCEPT ![e][n] = fate]
    /\ UNCHANGED <<ckpt, approval, fence, eng>>

\* The process dies, or the coroutine is cancelled: what it had in
\* memory is gone, and calls that were sent stay sent.
Crash(e) ==
    /\ \/ eng[e].phase \in {"admitting", "reconcile", "wave", "rollback"}
       \/ eng[e].phase = "raised" /\ ~Idle(e)
    /\ Become(e, [IdleEngine EXCEPT !.phase = "dead"])
    /\ UNCHANGED <<ckpt, approval, fence, call>>

Step(e) ==
    \/ Create(e) \/ ResumeRun(e) \/ NextWave(e) \/ Report(e)
    \/ \E n \in Node : \/ Reconcile(e, n) \/ StartTask(e, n) \/ TakeLock(e, n)
                       \/ Succeed(e, n) \/ Fail(e, n) \/ LoseTrack(e, n) \/ Break(e, n)
                       \/ StartUndo(e, n) \/ FinishUndo(e, n)

Next ==
    \E e \in Engine : \/ CheckApproval(e) \/ AcquireLease(e) \/ Step(e) \/ Crash(e)
                      \/ \E n \in Node : ProviderCommit(e, n)

Spec == Init /\ [][Next]_vars

\* Executor, reconciler and compensator calls carry timeouts, so an engine
\* that is alive gets on; nothing makes anyone resume, or a call commit.
FairSpec == Spec /\ \A e \in Engine : WF_vars(Step(e))

-----------------------------------------------------------------------------
(* Properties                                                              *)

\* Statuses with which the node may have, or may still get, an effect.
Effectful == {"DISPATCHED", "SUCCESS", "INDETERMINATE", "DEAD_LETTER",
              "COMPENSATION_PENDING", "COMPENSATION_UNSAFE", "COMPENSATION_FAILED",
              "COMPENSATION_INDETERMINATE"}

\* The write-ahead rule, with any number of crashes, takeovers of a live engine
\* and tasks that outlive their run: what is stored never denies an effect that
\* exists or may still come to exist, so a resume knows what to reconcile.
NoHiddenEffect ==
    \A n \in Node : Committed(n) \/ MayCommit(n) => ckpt.nodes[n].status \in Effectful

\* Calls that have taken effect or may, also when the effect was undone since.
Counted == {"sent", "committed", "undone"}

\* Fencing and reconciliation together never let a node commit twice, nor again
\* once it was compensated: the calls that count are of one engine.
OneEffectPerNode ==
    \A n \in Node, e, f \in Engine : call[e][n] \in Counted /\ call[f][n] \in Counted => e = f

\* What became of the effect of a node, whichever engine brought it about.
EffectOf(n) ==
    IF Committed(n) THEN "done"
    ELSE IF MayCommit(n) THEN "open"
    ELSE IF \E f \in Engine : call[f][n] = "undone" THEN "undone" ELSE "none"

\* Any number of engines, taken over or crashed, together bring about each effect
\* as one careful actor would: a mutating call leaves an engine only when the node
\* has no effect, may not get one and was not rolled back, and when the effects of
\* all the mutating nodes it depends on are in place, on no reading of a result that
\* was guessed, stale or rolled back.
Effects == INSTANCE EffectOnce WITH
               Effect <- Node, Requires <- [n \in Node |-> DependsOn[n] \cap Mutating],
               effect <- [n \in Node |-> EffectOf(n)]
ImplementsEffects == Effects!EffectSpec

\* A compensation is started only for an effect that exists: not for an
\* INDETERMINATE node, and not twice, whoever resumed the execution in between.
UndoesWhatExists ==
    [][\A e \in Engine, n \in Node :
          eng[e].task[n] # "undoing" /\ eng'[e].task[n] = "undoing" => Committed(n)]_vars

\* Mutating calls of an engine about one resource never overlap, whatever slots
\* are free, locks are handed over and runs have raised.
ResourceSerial ==
    \A n, m \in Mutating, e \in Engine :
        /\ ResourceOf[n] = ResourceOf[m] /\ ResourceOf[n] # NoResource
        /\ eng[e].task[n] = "calling" /\ eng[e].task[m] = "calling"
        => n = m

\* Fence tokens are handed out once, and none is ahead of the store's.
FencesDistinct ==
    /\ \A e \in Engine : fence[e] <= ckpt.fence
    /\ \A e, f \in Engine : fence[e] = fence[f] /\ fence[e] # 0 => e = f

\* After a takeover the stored node states change only by the hand of the
\* engine that took over, to what that engine has in memory.
OnlyNewestWrites ==
    [][ckpt'.nodes # ckpt.nodes =>
          \E e \in Engine : /\ fence'[e] = ckpt'.fence
                            /\ \A f \in Engine \ {e} : fence'[f] < fence'[e]
                            /\ ckpt'.nodes \in {eng[e].local, eng'[e].local}]_vars

\* The newest report tells the truth: a node that is not reported as having
\* possibly had an effect has none, COMPLETED means that every effect is in
\* place, and what is left pending waits for a node that was rolled back.
ReportIsTrue ==
    \A e \in Engine : eng[e].phase = "done" /\ fence[e] = ckpt.fence =>
        LET nodes == eng[e].local
        IN  /\ \A n \in Node : nodes[n].status \notin Effectful => ~Committed(n) /\ ~MayCommit(n)
            /\ Verdict(e) = "COMPLETED" => \A n \in Mutating : Committed(n)
            /\ \A n \in Node : nodes[n].status = "PENDING" =>
                  \E d \in DependsOn[n] : nodes[d].status \notin Blocking \cup {"SUCCESS"}

\* DagEngine.run and resume: the stored states never deny an effect that may
\* exist, a node takes effect once, and the newest report agrees with both.
EffectsAccounted ==
    /\ DagTypeOK
    /\ NoHiddenEffect /\ OneEffectPerNode /\ ReportIsTrue

\* DagEngine.run and resume bring about each effect once, on those it depends on, and
\* compensate what exists.
EffectsInPlace == ImplementsEffects /\ UndoesWhatExists

\* Every run ends, with all of its tasks: whatever fails, is refused by the
\* store or waits for a lock.
RunsEnd ==
    \A e \in Engine : eng[e].phase # "idle" ~>
        (eng[e].phase \in {"refused", "done", "raised", "dead"} /\ Idle(e))

=============================================================================
