--------------------------- MODULE HybridResolver ---------------------------
(***************************************************************************)
(* v2/resolver.py and v2/hybrid_execution.py: one request walks the mode   *)
(* tree of ModeResolver.resolve; what the tree gives to AGENTIC has its    *)
(* bound operations executed and the rest put to the reasoning step, whose *)
(* proposal walks the tree again with one escalation less.                 *)
(***************************************************************************)
EXTENDS Integers, FiniteSets

CONSTANTS
    Intent,             \* the requests that may be made, records as in resolver_contract.py
    Proposal,           \* what the reasoning step may propose: [ops, tokens, abandoned]
    ReadyState,         \* capability -> its state in the snapshot
    WriteCapability,    \* the capabilities that write
    BatchMax, DagMax, DagDepth, MaxEscalations, TokenBudget,    \* ResolverBudget
    NothingAsked

\* The budget may be zero; the counts and the tokens are those of a record, and an
\* intent may come with escalations that were made before.
ASSUME ResolverAssumption ==
    /\ MaxEscalations \in Nat /\ TokenBudget \in Nat
    /\ \A i \in Intent :
        /\ i.count \in Nat
        /\ i = [ops |-> i.ops, residual |-> i.residual, uncovered |-> i.uncovered,
                runbook |-> i.runbook, approved |-> i.approved, allowance |-> i.allowance,
                count |-> i.count]
    /\ \A p \in Proposal : p.tokens \in Nat

VARIABLES
    asked,          \* the intent the caller gave to run(), with its policy decision
    current,        \* the intent that is resolved next
    walk,           \* where run() is, or the reason code it ended with
    tokens,         \* tokens the reasoning step has used
    escalations,    \* reasoning steps taken
    performed       \* what was given to the executor: [mode, ops, approved]

hybridVars == <<asked, current, walk, tokens, escalations, performed>>

HybridInit ==
    /\ asked = NothingAsked /\ current = NothingAsked
    /\ walk = "idle" /\ tokens = 0 /\ escalations = 0 /\ performed = {}

-----------------------------------------------------------------------------
(* The tree                                                                *)

Nodes(i) == Cardinality(i.ops)
FullyBound(i) == \A o \in i.ops : o.bound
Independent(i) == (\A o \in i.ops : o.deps = {}) /\ Cardinality({o.cap : o \in i.ops}) = 1

Usable(o) ==
    /\ o.cap \in DOMAIN ReadyState
    /\ \/ ReadyState[o.cap] = "READY"
       \/ o.cap \notin WriteCapability /\ ReadyState[o.cap] = "DEGRADED"
AllUsable(i) == \A o \in i.ops : Usable(o)

\* _has_cycle: some of the operations wait for one another.
HasCycle(i) ==
    \E S \in (SUBSET i.ops) \ {{}} : \A o \in S : \E p \in S : p.ref \in o.deps

\* _depth > d, of a graph without a cycle: a chain of d + 1 operations.
DeeperThan(i, d) ==
    \E c \in [1..(d + 1) -> i.ops] : \A n \in 1..d : c[n + 1].ref \in c[n].deps

AllowsAgentic(i) == i.allowance /\ TokenBudget > 0

\* The gate before AGENTIC: the first condition that does not hold, if any.
AgenticGate(i) ==
    IF ~AllowsAgentic(i) THEN "E-AGENTIC-NOT-ALLOWED"
    ELSE IF i.count >= MaxEscalations THEN "E-AGENTIC-BUDGET-EXHAUSTED"
    ELSE IF (\E o \in i.ops : o.cap \in WriteCapability) /\ ~i.approved THEN
            "E-AGENTIC-APPROVAL-MISSING"
    ELSE IF ~asked.agenticPolicy THEN "E-AGENTIC-POLICY-FORBIDDEN"
    ELSE IF ~asked.shapeable THEN "E-AGENTIC-CONTEXT-SHAPING-FAILED"
    ELSE "AGENTIC"

\* A batch or a plan of operations that all are bound and usable; one that does
\* not fit the budget is refused and does not fall through.
BatchFits(i) == Nodes(i) > 1 /\ ~i.residual /\ Independent(i) /\ FullyBound(i)
DagFits(i) == Nodes(i) > 1 /\ ~i.residual /\ ~HasCycle(i) /\ FullyBound(i)

\* ModeResolver.resolve: the mode, or the code of the refusal.
ResolveMode(i) ==
    IF i.ops = {} /\ ~(i.residual \/ i.uncovered) THEN "E-REQ-INVALID"
    ELSE IF asked.policy = "DENY" THEN "E-POLICY-DENY"
    ELSE IF i.count > MaxEscalations THEN "E-AGENTIC-BUDGET-EXHAUSTED"
    ELSE IF Nodes(i) = 1 /\ ~i.residual /\ FullyBound(i) /\ AllUsable(i) THEN "DIRECT"
    ELSE IF BatchFits(i) /\ Nodes(i) > BatchMax THEN "E-BUDGET-NODES"
    ELSE IF BatchFits(i) /\ AllUsable(i) THEN "BATCH"
    ELSE IF i.runbook = "pinned" /\ FullyBound(i) /\ ~i.residual THEN "RUNBOOK"
    ELSE IF DagFits(i) /\ (Nodes(i) > DagMax \/ DeeperThan(i, DagDepth)) THEN "E-BUDGET-NODES"
    ELSE IF DagFits(i) /\ AllUsable(i) THEN "DAG"
    ELSE AgenticGate(i)

-----------------------------------------------------------------------------
(* HybridCoordinator.run                                                   *)

Request(i, policy, agenticPolicy, shapeable) ==
    /\ walk = "idle"
    /\ asked' = [intent |-> i, policy |-> policy, agenticPolicy |-> agenticPolicy,
                 shapeable |-> shapeable]
    /\ current' = i /\ walk' = "resolve"
    /\ UNCHANGED <<tokens, escalations, performed>>

Executed(mode, ops) ==
    performed' = performed \cup {[mode |-> mode, ops |-> ops, approved |-> current.approved]}

\* A deterministic mode ends the request, and so does a refusal.
RunMode ==
    /\ walk = "resolve"
    /\ LET mode == ResolveMode(current)
       IN  /\ mode # "AGENTIC" /\ walk' = mode
           /\ IF mode \in {"DIRECT", "BATCH", "RUNBOOK", "DAG"}
              THEN Executed(mode, current.ops) ELSE UNCHANGED performed
    /\ UNCHANGED <<asked, current, tokens, escalations>>

\* AGENTIC: the bound operations are executed if any operation is usable, then
\* the reasoning step is asked. stepless: no step was configured.
RunBoundPart(stepless) ==
    /\ walk = "resolve" /\ ResolveMode(current) = "AGENTIC"
    /\ LET bound == {o \in current.ops : o.bound}
       IN  IF bound # {} /\ \E o \in current.ops : Usable(o)
           THEN Executed("AGENTIC", bound) ELSE UNCHANGED performed
    /\ walk' = IF stepless THEN "AGENTIC" ELSE "reason"
    /\ UNCHANGED <<asked, current, tokens, escalations>>

\* The executor or the reasoning step raises: nothing is caught.
Raises ==
    /\ \/ walk = "reason"
       \/ walk = "resolve" /\ ResolveMode(current)
            \in {"DIRECT", "BATCH", "RUNBOOK", "DAG", "AGENTIC"}
    /\ walk' = "raised"
    /\ UNCHANGED <<asked, current, tokens, escalations, performed>>

\* The new intent is built with the count of the old one.
Escalated_Uncounted(i, ops) == [i EXCEPT !.ops = ops, !.residual = FALSE, !.uncovered = FALSE]

\* The intent a proposal is resolved as.
Escalated(i, ops) ==
    [i EXCEPT !.ops = ops, !.residual = FALSE, !.uncovered = FALSE, !.count = @ + 1]

DistinctRefs(ops) == \A o, p \in ops : o.ref = p.ref => o = p

Reason(p) ==
    /\ walk = "reason"
    /\ tokens' = tokens + p.tokens /\ escalations' = escalations + 1
    /\ \/ tokens' > TokenBudget
          /\ walk' = "E-AGENTIC-BUDGET-EXHAUSTED" /\ UNCHANGED current
       \/ tokens' <= TokenBudget /\ (p.abandoned \/ p.ops = {})
          /\ walk' = "AGENTIC" /\ UNCHANGED current
       \/ tokens' <= TokenBudget /\ ~p.abandoned /\ p.ops # {}
          /\ IF DistinctRefs(p.ops)
             THEN walk' = "resolve" /\ current' = Escalated(current, p.ops)
             ELSE walk' = "raised" /\ UNCHANGED current
    /\ UNCHANGED <<asked, performed>>

HybridNext ==
    \/ \E i \in Intent, policy \in {"ALLOW", "REQUIRE_APPROVAL", "DENY"}, a, s \in BOOLEAN :
        Request(i, policy, a, s)
    \/ RunMode
    \/ \E stepless \in BOOLEAN : RunBoundPart(stepless)
    \/ \E p \in Proposal : Reason(p)
    \/ Raises

-----------------------------------------------------------------------------
(* Properties                                                              *)

\* A request escalates at most max_escalations_per_request times, whatever the
\* reasoning step proposes; a denied request runs nothing and asks no one; an
\* operation whose capability is not usable reaches the executor only as part
\* of a runbook or beside a usable one in the bound part of an agentic request;
\* and a request that policy or shaping keeps from the reasoning step never
\* gets there, not even through a proposal.
EscalationContained ==
    /\ escalations <= MaxEscalations
    /\ escalations > 0 => asked.intent.allowance /\ asked.agenticPolicy /\ asked.shapeable
    /\ (walk # "idle" /\ asked.policy = "DENY") => performed = {} /\ escalations = 0
    /\ \A r \in performed : r.mode \in {"DIRECT", "BATCH", "DAG"} => \A o \in r.ops : Usable(o)

\* docs/v2/phase8/safety-invariants.md, I2: "if escalation changes the plan, the
\* approval is void and must be re-obtained". No write that the approved intent
\* did not name runs from an intent that still carries its approval.
ApprovalVoidOnEscalation ==
    \A r \in performed : r.approved =>
        \A o \in r.ops : o.cap \in WriteCapability => o \in asked.intent.ops
=============================================================================
