---------------------------- MODULE GovernedTools ----------------------------
(***************************************************************************)
(* The governed tools of server.py over their stores: plans and their      *)
(* approved execution (plans.py, approvals.py), sagas (sagas.py),          *)
(* checkpoints (checkpoints.py) and the quota profile (quotas.py).         *)
(*                                                                         *)
(* hermes_execute_approved_plan reads the approval, checks it, and         *)
(* consumes it on another thread: other calls and the clock come between.  *)
(***************************************************************************)
EXTENDS PolicyRules, Sequences

CONSTANTS
    Plan, WellFormed,       \* plans by content; those validate_plan_structure accepts
    Grant, GrantPlan,       \* approvals and the plan_hash in their metadata
    Bound,                  \* approvals with a resource, hence with a fingerprint
    NoPlan, NoGrant,
    PlanCall,               \* concurrent calls of hermes_execute_approved_plan
    Saga, SagaSteps,        \* sagas and the status of their steps when they start
    Snapshot                \* checkpoints

ASSUME ToolsAssumption ==
    /\ WellFormed \subseteq Plan /\ NoPlan \notin Plan /\ NoGrant \notin Grant
    /\ GrantPlan \in [Grant -> Plan \cup {NoPlan}] /\ Bound \subseteq Grant
    /\ \A s \in Saga : SagaSteps[s] \in Seq({"pending", "completed"})

VARIABLES
    plans,          \* status of each stored plan
    grants,         \* the approvals table
    planCall,       \* the plan and approval of a call, and how far it is
    sagas, snapshots, profiles

storeVars == <<plans, grants, planCall, sagas, snapshots, profiles>>
toolVars == <<policyVars, storeVars>>

PlanStatus == {"draft", "pending_approval", "approved", "rejected", "executing",
               "completed", "failed", "cancelled", "stale"}
GrantDecision == {"requested", "approved", "rejected", "expired", "consumed", "stale"}
NotStored == "absent"
IdleCall == [plan |-> NoPlan, grant |-> NoGrant, at |-> "idle"]

ToolsTypeOK ==
    /\ plans \in [Plan -> PlanStatus \cup {NotStored}]
    /\ grants \in [Grant -> [decision : GrantDecision \cup {NotStored},
                             due : {"never", "later", "past"}, consumed : BOOLEAN]]
    /\ planCall \in [PlanCall -> [plan : Plan \cup {NoPlan}, grant : Grant \cup {NoGrant},
                                  at : {"idle", "checked", "refused", "delegated"}]]
    /\ sagas \in [Saga -> {NotStored, "running", "compensating", "compensated"}]
    /\ snapshots \subseteq Snapshot /\ profiles \subseteq {"default"}

ToolsInit ==
    /\ plans = [p \in Plan |-> NotStored]
    /\ grants = [g \in Grant |-> [decision |-> NotStored, due |-> "never", consumed |-> FALSE]]
    /\ planCall = [c \in PlanCall |-> IdleCall]
    /\ sagas = [s \in Saga |-> NotStored]
    /\ snapshots = {} /\ profiles = {}

-----------------------------------------------------------------------------
(* Plans                                                                   *)

\* hermes_plan: not behind the policy; a new plan is a draft.
CreatePlan(p) ==
    /\ plans[p] = NotStored /\ p \in WellFormed
    /\ plans' = [plans EXCEPT ![p] = "draft"]
    /\ UNCHANGED <<policyVars, grants, planCall, sagas, snapshots, profiles>>

\* PlanStore.update_status; no tool calls it.
UpdatePlanStatus(p, status) ==
    /\ plans[p] # NotStored
    /\ plans' = [plans EXCEPT ![p] = status]
    /\ UNCHANGED <<policyVars, grants, planCall, sagas, snapshots, profiles>>

-----------------------------------------------------------------------------
(* Approvals of plans                                                      *)

\* hermes_approval_create.
CreateGrant(g) ==
    /\ grants[g].decision = NotStored
    /\ \E due \in {"never", "later"} :
            grants' = [grants EXCEPT ![g] =
                [decision |-> "requested", due |-> due, consumed |-> FALSE]]
    /\ UNCHANGED <<policyVars, plans, planCall, sagas, snapshots, profiles>>

\* hermes_approval_respond takes any member of ApprovalStatus.
RespondGrant(g, decision) ==
    /\ grants[g].decision = "requested" /\ grants[g].due # "past"
    /\ grants' = [grants EXCEPT ![g].decision = decision]
    /\ UNCHANGED <<policyVars, plans, planCall, sagas, snapshots, profiles>>

GrantTimePasses(g) ==
    /\ grants[g].due = "later"
    /\ grants' = [grants EXCEPT ![g].due = "past"]
    /\ UNCHANGED <<policyVars, plans, planCall, sagas, snapshots, profiles>>

\* plan_approval_from_record and validate_approval: the hash in the metadata of
\* the approval is that of the stored plan.
ApprovalFitsPlan(g, p) ==
    /\ GrantPlan[g] = p
    /\ grants[g].decision = "approved"
    /\ ~grants[g].consumed /\ grants[g].due # "past"

\* hermes_execute_approved_plan up to the thread: a REQUIRE_APPROVAL of the
\* policy is what the approval is for.
CheckPlanCall(c, g, p) ==
    /\ planCall[c].at = "idle" /\ CachePolicy
    /\ planCall' = [planCall EXCEPT ![c] = [plan |-> p, grant |-> g, at |->
            IF /\ PolicyDecisionFromInputs("hermes_execute_approved_plan", NotGiven)
                    \in {"ALLOW", "REQUIRE_APPROVAL"}
               /\ plans[p] \in {"approved", "pending_approval"}
               /\ ApprovalFitsPlan(g, p)
            THEN "checked" ELSE "refused"]]
    /\ UNCHANGED <<plans, grants, sagas, snapshots, profiles>>

\* The consumption trusts what the call has read.
Consumable_AsRead(g) == g \in Bound

\* ApprovalRegistry.consume with the fingerprint and action of the record: one
\* transaction that checks everything again.
Consumable(g) ==
    /\ grants[g].decision = "approved" /\ ~grants[g].consumed
    /\ grants[g].due # "past" /\ g \in Bound

ConsumeForPlan(c) ==
    /\ planCall[c].at = "checked"
    /\ LET g == planCall[c].grant IN
       \/ /\ Consumable(g)
          /\ grants' = [grants EXCEPT ![g].decision = "consumed", ![g].consumed = TRUE]
          /\ planCall' = [planCall EXCEPT ![c].at = "delegated"]
       \/ /\ ~Consumable(g)
          /\ grants' = IF grants[g].decision = "approved" /\ grants[g].due = "past"
                       THEN [grants EXCEPT ![g].decision = "expired"] ELSE grants
          /\ planCall' = [planCall EXCEPT ![c].at = "refused"]
    /\ UNCHANGED <<policyVars, plans, sagas, snapshots, profiles>>

-----------------------------------------------------------------------------
(* Sagas, checkpoints, quotas                                              *)

\* hermes_saga_start.
SagaStart(s) ==
    /\ MayProceed("hermes_saga_start", NotGiven) /\ CachePolicy
    /\ sagas[s] = NotStored
    /\ sagas' = [sagas EXCEPT ![s] = "running"]
    /\ UNCHANGED <<plans, grants, planCall, snapshots, profiles>>

\* hermes_saga_compensate: nothing ever changes the status of a step.
SagaCompensate(s, i) ==
    /\ MayProceed("hermes_saga_compensate", NotGiven) /\ CachePolicy
    /\ sagas[s] # NotStored /\ i \in DOMAIN SagaSteps[s]
    /\ sagas' = [sagas EXCEPT ![s] =
            IF \E j \in DOMAIN SagaSteps[s] : SagaSteps[s][j] # "completed"
            THEN "compensating" ELSE "compensated"]
    /\ UNCHANGED <<plans, grants, planCall, snapshots, profiles>>

\* hermes_checkpoint_create.
CheckpointCreate(k) ==
    /\ MayProceed("hermes_checkpoint_create", NotGiven) /\ CachePolicy
    /\ k \notin snapshots
    /\ snapshots' = snapshots \cup {k}
    /\ UNCHANGED <<plans, grants, planCall, sagas, profiles>>

\* hermes_quota_status writes the default profile once; mutations stay allowed.
QuotaStatus ==
    /\ profiles' = profiles \cup {"default"}
    /\ UNCHANGED <<policyVars, plans, grants, planCall, sagas, snapshots>>

PlanStep(c) ==
    ConsumeForPlan(c) \/ \E g \in Grant, p \in Plan : CheckPlanCall(c, g, p)

PlansNext ==
    \/ \E p \in Plan : CreatePlan(p) \/ \E status \in PlanStatus : UpdatePlanStatus(p, status)
    \/ \E g \in Grant : CreateGrant(g) \/ GrantTimePasses(g)
                        \/ \E decision \in GrantDecision : RespondGrant(g, decision)
    \/ \E c \in PlanCall : PlanStep(c)

StoresNext ==
    \/ \E s \in Saga : SagaStart(s) \/ \E i \in DOMAIN SagaSteps[s] : SagaCompensate(s, i)
    \/ \E k \in Snapshot : CheckpointCreate(k)
    \/ QuotaStatus

ToolsNext == PlansNext \/ StoresNext

ToolsSpec == PolicyInit /\ ToolsInit /\ [][ToolsNext]_toolVars

-----------------------------------------------------------------------------
(* Properties                                                              *)

\* An approval carries one execution, of the plan it names, while it stands: of
\* all the calls that read it as approved, one delegates, and only at a moment
\* when it was neither answered otherwise nor past its time (approvals.py: "two
\* concurrent callers can never both succeed").
DelegatedOnce ==
    [][\A c \in PlanCall :
        (planCall[c].at # "delegated" /\ planCall'[c].at = "delegated") =>
            LET g == planCall'[c].grant IN
            /\ \A d \in PlanCall : planCall[d].at = "delegated" => planCall[d].grant # g
            /\ GrantPlan[g] = planCall'[c].plan
            /\ grants[g].decision = "approved" /\ grants[g].due # "past"]_storeVars
=============================================================================
