--------------------------- MODULE PlanValidation ---------------------------
(***************************************************************************)
(* From a plan document to the calls it makes: the shape checks of         *)
(* v2/dag_contract.py, the graph, node, binding and budget checks of       *)
(* v2/dag_validation.py with Kahn's loop one pop at a time, and the values *)
(* that flow along the bindings when v2/dag_engine.py resolves the         *)
(* arguments of a node.  Policy, approval, effects and failures of a run   *)
(* are in DagExecution; here every called tool answers.                    *)
(***************************************************************************)
EXTENDS PlanTransforms, FiniteSetsExt

CONSTANTS
    PlanDocument,       \* the plans that may be loaded
    Contract,           \* tool id -> what the catalog says of it
    Projected,          \* the tools the caller may see
    Scope,              \* the resources in scope, as strings
    Answers,            \* tool id -> the results its provider may give
    MaxDepth, MaxFanout, MaxWidth, MaxMutatingWidth

\* A plan names finitely many nodes, numbered in the order of their names; the slot of
\* a resource is a string in the contract of every tool.
ASSUME PlanAssumption ==
    /\ \A p \in PlanDocument : IsFiniteSet(DOMAIN p.nodes) /\ DOMAIN p.nodes \subseteq Nat
    /\ \A t \in DOMAIN Contract : LET c == Contract[t] IN
        c.resource \in DOMAIN c.args => c.args[c.resource] = "string"

VARIABLES
    plan,       \* the plan being validated or run
    stage,      \* where validate_plan is, or how it ended
    indegree, ready, order, ranks,      \* the locals of topological_order
    result,     \* node -> its result, for the nodes that ended in SUCCESS
    failed,     \* the nodes that ended DENIED or FAILED
    outbound    \* the calls that left the process: <<tool, arguments>>

sortVars == <<indegree, ready, order, ranks>>
planVars == <<plan, stage, sortVars, result, failed, outbound>>

Ids(p) == DOMAIN p.nodes
IsTool(p, n) == p.nodes[n].kind = "TOOL"
BindingsOf(p, n) == {p.nodes[n].bindings[s] : s \in DOMAIN p.nodes[n].bindings}
Edges(p) == {e \in Ids(p) \X Ids(p) : e[1] \in p.nodes[e[2]].deps}
ContractOf(p, n) == Contract[p.nodes[n].tool]
Mutates(p, n) == IsTool(p, n) /\ ContractOf(p, n).mutating

PlanInit ==
    /\ plan \in PlanDocument
    /\ stage = "load"
    /\ indegree = << >> /\ ready = {} /\ order = << >> /\ ranks = << >>
    /\ result = << >> /\ failed = {} /\ outbound = {}

-----------------------------------------------------------------------------
\* What Node, Budget and PlanDefinition refuse to be built from.
WellFormed(p) ==
    /\ Ids(p) # {} /\ Cardinality(Ids(p)) <= p.budget.nodes
    /\ p.budget.width <= MaxWidth
    /\ \A n \in Ids(p) : n \notin p.nodes[n].deps /\ p.nodes[n].timeout <= p.deadline

Leave(how) == stage' = how /\ UNCHANGED <<plan, sortVars, result, failed, outbound>>

Load ==
    /\ stage = "load"
    /\ Leave(IF WellFormed(plan) THEN "edges" ELSE "PLAN_SCHEMA_INVALID")

\* validate_plan up to the sort: every dependency and every source is a node,
\* and what a binding reads is a declared dependency.
EdgesKnown(p) ==
    \A n \in Ids(p) :
        /\ p.nodes[n].deps \subseteq Ids(p)
        /\ \A b \in BindingsOf(p, n) :
            b.source \in Ids(p) \ {n} /\ b.source \in p.nodes[n].deps

RefuseEdges ==
    /\ stage = "edges" /\ ~EdgesKnown(plan)
    /\ Leave("PLAN_UNKNOWN_DEPENDENCY")

StartSort ==
    /\ stage = "edges" /\ EdgesKnown(plan)
    /\ stage' = "sort"
    /\ indegree' = [n \in Ids(plan) |-> Cardinality(plan.nodes[n].deps)]
    /\ ready' = {n \in Ids(plan) : plan.nodes[n].deps = {}}
    /\ UNCHANGED <<plan, order, ranks, result, failed, outbound>>

\* The parents of a node whose indegree reaches zero have all been ordered.
Freed_Touched(n, degrees) == {s \in Ids(plan) : <<n, s>> \in Edges(plan)} \ ToSet(order)
Freed(n, degrees) == {s \in Ids(plan) : <<n, s>> \in Edges(plan) /\ degrees[s] = 0}

\* One turn of the loop: the least ready node is ordered and frees its
\* successors.  _topo_with_ranks of runbook_admission.py is the same loop.
PopReady ==
    /\ stage = "sort" /\ ready # {}
    /\ LET n == Min(ready)
           parents == plan.nodes[n].deps
           degrees == [s \in Ids(plan) |->
               IF <<n, s>> \in Edges(plan) THEN indegree[s] - 1 ELSE indegree[s]]
       IN  /\ order' = Append(order, n)
           /\ ranks' = [m \in DOMAIN ranks \cup {n} |->
                IF m # n THEN ranks[m]
                ELSE IF parents = {} THEN 0
                ELSE Max({ranks[q] : q \in parents \cap DOMAIN ranks}) + 1]
           /\ indegree' = degrees
           /\ ready' = (ready \ {n}) \cup Freed(n, degrees)
    /\ UNCHANGED <<plan, stage, result, failed, outbound>>

EndSort ==
    /\ stage = "sort" /\ ready = {}
    /\ Leave(IF Len(order) = Cardinality(Ids(plan)) THEN "checks" ELSE "PLAN_CYCLE_DETECTED")

ShapeOK(p) ==
    /\ Max({ranks[n] : n \in Ids(p)}) + 1 <= MaxDepth
    /\ \A n \in Ids(p) : Cardinality({e \in Edges(p) : e[1] = n}) <= MaxFanout
    /\ Cardinality(Ids(p)) > 1 /\ Edges(p) # {} =>
        \A n \in Ids(p) : \E e \in Edges(p) : n \in {e[1], e[2]}

Fits(type, expected) == expected = "any" \/ type = expected

NodeOK(p, n) ==
    LET node == p.nodes[n]  slots == DOMAIN node.args \cup DOMAIN node.bindings
    IN  IF ~IsTool(p, n)
        THEN node.op \in TransformOps /\ slots = RequiredArgs(node.op) /\ node.undo = "none"
        ELSE /\ node.tool \in DOMAIN Contract /\ node.tool \in Projected
             /\ \A s \in DOMAIN node.args :
                    /\ s \in DOMAIN ContractOf(p, n).args
                    /\ Fits(node.args[s].type, ContractOf(p, n).args[s])
             /\ DOMAIN ContractOf(p, n).args \subseteq slots
             /\ LET r == ContractOf(p, n).resource IN
                    r \in DOMAIN node.args /\ node.args[r].type = "string" => node.args[r].v \in Scope
             /\ Mutates(p, n) => node.idempotent
             /\ node.undo \in {"none"} \cup ContractOf(p, n).undos

\* The type a binding's source has by declaration: _resolve_source_type.
SourceType(p, b) ==
    IF ~IsTool(p, b.source) THEN IF b.path = "" THEN OutputType(p.nodes[b.source].op) ELSE "unshaped"
    ELSE IF b.path = "" THEN "object"
    ELSE IF b.path \in DOMAIN ContractOf(p, b.source).results THEN ContractOf(p, b.source).results[b.path]
    ELSE "unknown"

BindingOK(p, n, s) ==
    LET b == p.nodes[n].bindings[s]
    IN  /\ SourceType(p, b) \in {"any", b.type}
        /\ IsTool(p, n) => s \in DOMAIN ContractOf(p, n).args /\ Fits(b.type, ContractOf(p, n).args[s])
        /\ s \notin DOMAIN p.nodes[n].args

BudgetOK(p) ==
    /\ Cardinality({n \in Ids(p) : IsTool(p, n)}) <= p.budget.calls
    /\ p.deadline <= p.budget.wall
    /\ (\E n \in Ids(p) : Mutates(p, n)) => p.budget.width <= MaxMutatingWidth

CheckPlan ==
    /\ stage = "checks"
    /\ Leave(IF /\ ShapeOK(plan)
                /\ \A n \in Ids(plan) : NodeOK(plan, n)
                /\ \A n \in Ids(plan) : \A s \in DOMAIN plan.nodes[n].bindings : BindingOK(plan, n, s)
                /\ BudgetOK(plan)
             THEN "valid" ELSE "PLAN_REFUSED")

-----------------------------------------------------------------------------
\* The engine reaches a node once its dependencies have ended well.
Due(n) ==
    /\ stage = "valid" /\ n \in Ids(plan) \ (DOMAIN result \cup failed)
    /\ plan.nodes[n].deps \subseteq DOMAIN result

\* The value a binding reads, or none if the source lacks the field.
Readable(b) == b.path # "" => result[b.source].type = "object" /\ b.path \in DOMAIN result[b.source].v
Read(b) == IF b.path = "" THEN result[b.source] ELSE result[b.source].v[b.path]

\* revalidate_bound_value: what came from a provider is checked once more.
Revalidated(value, type, isResource) ==
    /\ Fits(value.type, type)
    /\ isResource => value.type = "string" /\ value.v \in Scope

Resolvable(n) ==
    \A s \in DOMAIN plan.nodes[n].bindings :
        LET b == plan.nodes[n].bindings[s]
        IN  /\ Readable(b)
            /\ Revalidated(Read(b), b.type, IsTool(plan, n) /\ s = ContractOf(plan, n).resource)

ResolveArgs(n) ==
    [s \in DOMAIN plan.nodes[n].args \cup DOMAIN plan.nodes[n].bindings |->
        IF s \in DOMAIN plan.nodes[n].bindings THEN Read(plan.nodes[n].bindings[s])
        ELSE plan.nodes[n].args[s]]

Succeeds(n, value) == result' = [m \in DOMAIN result \cup {n} |-> IF m = n THEN value ELSE result[m]]

Fails(n) == failed' = failed \cup {n} /\ UNCHANGED <<plan, stage, sortVars, result, outbound>>

\* The node is FAILED; what the plan's failure policy then lets go on does not
\* depend on it, and is left open here.
RejectBound(n) == Due(n) /\ ~Resolvable(n) /\ Fails(n)

Transform(n) ==
    /\ Due(n) /\ Resolvable(n) /\ ~IsTool(plan, n)
    /\ LET value == ApplyTransform(plan.nodes[n].op, ResolveArgs(n))
       IN  IF value = Mismatch THEN Fails(n)
           ELSE Succeeds(n, value) /\ UNCHANGED <<plan, stage, sortVars, failed, outbound>>

CallTool(n) ==
    /\ Due(n) /\ Resolvable(n) /\ IsTool(plan, n)
    /\ \E value \in Answers[plan.nodes[n].tool] : Succeeds(n, value)
    /\ outbound' = outbound \cup {<<plan.nodes[n].tool, ResolveArgs(n)>>}
    /\ UNCHANGED <<plan, stage, sortVars, failed>>

PlanNext ==
    \/ Load \/ RefuseEdges \/ StartSort \/ PopReady \/ EndSort \/ CheckPlan
    \/ \E n \in Ids(plan) : RejectBound(n) \/ Transform(n) \/ CallTool(n)

-----------------------------------------------------------------------------
\* The reference: a set of nodes in which every node waits for another one.
Cyclic(p) ==
    \E S \in SUBSET Ids(p) : S # {} /\ \A n \in S : p.nodes[n].deps \cap S # {}

\* topological_order: a plan passes exactly when its dependencies have no
\* cycle; the order then puts every node after what it depends on, the rank
\* of a node exceeds the rank of each of its dependencies (the engine runs
\* nodes of one rank side by side), and a refused cycle is a real one.
OrderIsTopological ==
    /\ stage = "PLAN_CYCLE_DETECTED" => Cyclic(plan)
    /\ stage \in {"checks", "valid"} =>
        /\ ~Cyclic(plan)
        /\ ToSet(order) = Ids(plan)
        /\ \A i, j \in DOMAIN order : order[i] \in plan.nodes[order[j]].deps =>
            i < j /\ ranks[order[i]] < ranks[order[j]]

\* _resolve_args and revalidate_bound_value: whatever a provider answers and
\* whatever transforms its answer passes through, a tool is called with an
\* argument of the contract's type in every slot, and on a resource in scope.
ArgumentsFit ==
    \A c \in outbound :
        LET contract == Contract[c[1]]
        IN  /\ DOMAIN contract.args \subseteq DOMAIN c[2]
            /\ \A s \in DOMAIN c[2] : Fits(c[2][s].type, contract.args[s])
            /\ contract.resource \in DOMAIN c[2] => c[2][contract.resource].v \in Scope

\* Both, of every plan that passed validation and of every call made from it.
PlansHold == OrderIsTopological /\ ArgumentsFit
=============================================================================
