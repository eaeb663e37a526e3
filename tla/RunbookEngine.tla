---------------------------- MODULE RunbookEngine ----------------------------
(***************************************************************************)
(* Runbooks: a version enters the append-only registry, validated or not   *)
(* (v2/runbook_admission.py, v2/runbook_registry.py), its lifecycle, and   *)
(* the invocation pipeline of v2/runbook_engine.py over the checkpoint     *)
(* store.  An invocation is a caller's attempt; attempts of one key run in *)
(* threads or processes of their own and may be cut off by a crash.  The   *)
(* run of the compiled plan is one step here: DagExecution opens it.       *)
(***************************************************************************)
EXTENDS Integers, FiniteSets

CONSTANTS
    Manifest,       \* the manifests that are offered for admission
    Invocation,     \* attempts to run a version of the runbook
    Asks,           \* Invocation -> [version, key, args, principal, digest]
    Authorized,     \* the principals allowed to run it
    Capabilities,   \* the capabilities projected to the callers
    Compensations,  \* the registered compensations
    Unknown         \* no row, no record, no answer

VARIABLES
    registry,   \* version -> its row, and whether validate_admission was run before
    checkpoints,    \* key -> plan digest, rows of the checkpoint store
    executions,     \* key -> what save_execution kept
    call,       \* Invocation -> where invoke is
    granted,    \* the digests the approval gateway approved
    ran,        \* what was run: [by, key, digest, status]
    returned       \* Invocation -> what invoke returned or raised

runbookVars == <<registry, checkpoints, executions, call, granted, ran, returned>>

Versions == {m.version : m \in Manifest}
Keys == {Asks[i].key : i \in Invocation}
PlanStatus == {"SUCCESS", "PARTIAL", "FAILED", "INDETERMINATE"}
RunbookState == {"ADMITTED", "ACTIVE", "DEPRECATED", "YANKED"}

\* Invocations name versions of the runbook, and Unknown is neither a row of the
\* registry nor the digest of a plan.
ASSUME RunbookAssumption ==
    /\ \A i \in Invocation : Asks[i].version \in Versions
    /\ Unknown \notin [manifest : Manifest, state : RunbookState, checked : BOOLEAN]
    /\ Unknown \notin [manifest : Manifest, args : {Asks[i].args : i \in Invocation},
                        principal : {Asks[i].principal : i \in Invocation}]

RunbookInit ==
    /\ registry = [v \in Versions |-> Unknown]
    /\ checkpoints = [k \in Keys |-> Unknown]
    /\ executions = [k \in Keys |-> Unknown]
    /\ call = [i \in Invocation |-> "new"]
    /\ granted = {} /\ ran = {}
    /\ returned = [i \in Invocation |-> Unknown]

-----------------------------------------------------------------------------
\* The order of the policy classes and of the approval classes.
PolicyRank == [READ_ONLY |-> 0, MUTATING_LOW |-> 1, MUTATING_HIGH |-> 2, RESTRICTED |-> 3]
ApprovalRank == [NONE |-> 0, SINGLE |-> 1, DUAL |-> 2, OWNER_PLUS_SECURITY |-> 3]

Later(v, w) ==
    \/ v[1] > w[1]
    \/ v[1] = w[1] /\ v[2] > w[2]
    \/ v[1] = w[1] /\ v[2] = w[2] /\ v[3] > w[3]

\* version_bump_valid: 1.0.0 first, then upwards, and a weaker policy class
\* only with a new major version.  prev is the version the caller names.
VersionBumpValid(m, prev) ==
    IF prev = Unknown THEN m.version = <<1, 0, 0>>
    ELSE /\ Later(m.version, prev.version)
         /\ PolicyRank[m.policy] < PolicyRank[prev.policy] => m.version[1] # prev.version[1]

HighBlast(m) == m.destructive \/ m.policy = "MUTATING_HIGH"

\* _aggregate_policy_class: the class the manifest declares, whatever its nodes do.
AggregatePolicyClass(m) == m.policy

RequiredApproval(m) ==
    IF HighBlast(m) THEN "DUAL"
    ELSE IF m.policy = "READ_ONLY" THEN "NONE"
    ELSE "SINGLE"

\* The stages of validate_admission on what a manifest declares.  A tool named
\* for deletion or force makes it destructive; a graph with a cycle and a
\* capability declared but not needed, or needed but not declared, are refused.
\* What the nodes do (mutates) counts for the rollback only.
ValidateAdmission(m, prev) ==
    /\ VersionBumpValid(m, prev)
    /\ m.acyclic
    /\ m.declares = m.needs /\ "github.admin" \notin m.declares
    /\ PolicyRank[m.policy] >= PolicyRank[AggregatePolicyClass(m)]
    /\ ApprovalRank[m.approval] >= ApprovalRank[RequiredApproval(m)]
    /\ m.deletes => m.destructive
    /\ m.destructive /\ ~m.deletes => m.accepted
    /\ m.rollback = "AUTOMATIC" /\ m.mutates => m.undo \in Compensations
    /\ m.rollback = "NOT_SUPPORTED" => m.accepted
    /\ HighBlast(m) => m.owner = "team"

\* The latest version in the registry, which whoever validates names as prev.
Previous ==
    LET rows == {registry[v] : v \in Versions} \ {Unknown}
    IN  IF rows = {} THEN Unknown
        ELSE CHOOSE m \in {r.manifest : r \in rows} :
                \A r \in rows : ~Later(r.manifest.version, m.version)

\* RunbookRegistry.admit inserts a version once and validates nothing.  Whether
\* validate_admission was run before is up to the caller.
AdmitRunbook(m, checked) ==
    /\ checked => ValidateAdmission(m, Previous)
    /\ registry[m.version] = Unknown
    /\ registry' = [registry EXCEPT ![m.version] =
            [manifest |-> m, state |-> "ADMITTED", checked |-> checked]]
    /\ UNCHANGED <<checkpoints, executions, call, granted, ran, returned>>

\* RunbookRegistry.transition allows every change of state.
Transition(v, state) ==
    /\ registry[v] # Unknown /\ registry[v].state # state
    /\ registry' = [registry EXCEPT ![v].state = state]
    /\ UNCHANGED <<checkpoints, executions, call, granted, ran, returned>>

-----------------------------------------------------------------------------
ManifestOf(i) == registry[Asks[i].version].manifest

\* plan_digest: the manifest, the arguments and the principal.
Digest(i) == [manifest |-> ManifestOf(i), args |-> Asks[i].args, principal |-> Asks[i].principal]

\* Steps 1 to 8 of invoke.  No review is ever recorded (_last_reviewed_at is
\* set nowhere), so a high-blast-radius runbook is always overdue.
Refusal(i) ==
    LET row == registry[Asks[i].version]
    IN  IF Asks[i].principal \notin Authorized \/ row = Unknown THEN "RB_UNKNOWN"
        ELSE IF row.state = "YANKED" THEN "RB_YANKED"
        ELSE IF row.state = "ADMITTED" THEN "RB_NOT_PROMOTED"
        ELSE IF Asks[i].digest # row.manifest THEN "RB_DIGEST_MISMATCH"
        ELSE IF HighBlast(row.manifest) THEN "RB_REVIEW_OVERDUE"
        ELSE IF Asks[i].args \notin row.manifest.parameters THEN "RB_PARAM_UNKNOWN"
        ELSE IF ~(row.manifest.declares \subseteq Capabilities) THEN "RB_INSUFFICIENT_CAPABILITY"
        ELSE "none"

Answer(i, what) ==
    /\ returned' = [returned EXCEPT ![i] = what]
    /\ call' = [call EXCEPT ![i] = "done"]

Refused(i) ==
    /\ call[i] = "new" /\ Refusal(i) # "none"
    /\ Answer(i, [kind |-> Refusal(i)])
    /\ UNCHANGED <<registry, checkpoints, executions, granted, ran>>

\* Step 9 and the check that a key belongs to one plan.
SamePlan(i) == executions[Asks[i].key].digest = Digest(i)

LookUp(i) ==
    /\ call[i] = "new" /\ Refusal(i) = "none"
    /\ LET kept == executions[Asks[i].key]
       IN  \/ kept = Unknown /\ call' = [call EXCEPT ![i] = "approve"] /\ UNCHANGED returned
           \/ kept # Unknown /\ ~SamePlan(i) /\ Answer(i, [kind |-> "RB_IDEMPOTENCY_CONFLICT"])
           \/ kept # Unknown /\ SamePlan(i) /\ Answer(i, [kind |-> "recorded", status |-> kept.status])
    /\ UNCHANGED <<registry, checkpoints, executions, granted, ran>>

\* Step 10, with or without an approval reference in the request.  The row was
\* read when the call began; a version is never rewritten, so the manifest is
\* still the one that was read.
NeedsApproval(m) == m.approval # "NONE"

Approve(i) ==
    /\ call[i] = "approve"
    /\ \/ /\ ~NeedsApproval(ManifestOf(i))
          /\ call' = [call EXCEPT ![i] = "admit"] /\ UNCHANGED <<granted, returned>>
       \/ /\ NeedsApproval(ManifestOf(i))
          /\ granted' = granted \cup {Digest(i)}
          /\ call' = [call EXCEPT ![i] = "admit"] /\ UNCHANGED returned
       \/ /\ NeedsApproval(ManifestOf(i))
          /\ Answer(i, [kind |-> "RB_APPROVAL_INVALID"]) /\ UNCHANGED granted
    /\ UNCHANGED <<registry, checkpoints, executions, ran>>

\* DagEngine.admit: the execution id is the idempotency key, and the primary
\* key of the checkpoint table refuses a second execution.
Fresh_Again(k) == TRUE
Fresh(k) == checkpoints[k] = Unknown

AdmitPlan(i) ==
    /\ call[i] = "admit"
    /\ IF Fresh(Asks[i].key)
       THEN /\ checkpoints' = [checkpoints EXCEPT ![Asks[i].key] = Digest(i)]
            /\ call' = [call EXCEPT ![i] = "run"] /\ UNCHANGED returned
       ELSE Answer(i, [kind |-> "duplicate execution"]) /\ UNCHANGED checkpoints
    /\ UNCHANGED <<registry, executions, granted, ran>>

RunPlan(i) ==
    /\ call[i] = "run"
    /\ \E s \in PlanStatus :
        ran' = ran \cup {[by |-> i, key |-> Asks[i].key, digest |-> Digest(i), status |-> s]}
    /\ call' = [call EXCEPT ![i] = "save"]
    /\ UNCHANGED <<registry, checkpoints, executions, granted, returned>>

SaveExecution(i) ==
    /\ call[i] = "save"
    /\ \E r \in ran :
        /\ r.by = i
        /\ executions' = [executions EXCEPT ![r.key] = [digest |-> r.digest, status |-> r.status]]
        /\ Answer(i, [kind |-> "ran", status |-> r.status])
    /\ UNCHANGED <<registry, checkpoints, granted, ran>>

\* The process of the calls dies; the tables stay, nothing is picked up again.
RunbookCrash ==
    /\ \E i \in Invocation : call[i] \in {"approve", "admit", "run", "save"}
    /\ call' = [i \in Invocation |-> IF call[i] = "new" THEN "new" ELSE "done"]
    /\ UNCHANGED <<registry, checkpoints, executions, granted, ran, returned>>

RunbookNext ==
    \/ \E m \in Manifest, checked \in BOOLEAN : AdmitRunbook(m, checked)
    \/ \E v \in Versions, s \in {"ACTIVE", "DEPRECATED", "YANKED"} : Transition(v, s)
    \/ \E i \in Invocation :
        Refused(i) \/ LookUp(i) \/ Approve(i) \/ AdmitPlan(i) \/ RunPlan(i) \/ SaveExecution(i)
    \/ RunbookCrash

-----------------------------------------------------------------------------
\* runbook_engine.invoke (steps 9 to 11): attempts of a key that overlap, that
\* follow a crash or that change the arguments run its plan at most once, and
\* a recorded answer is the status of a run of that very plan.
KeyRunsOnce ==
    /\ \A r, s \in ran : r.key = s.key => r = s
    /\ \A i \in Invocation : returned[i] # Unknown /\ returned[i].kind = "recorded" =>
        \E r \in ran : r.key = Asks[i].key /\ r.digest = Digest(i) /\ r.status = returned[i].status

\* runbook_engine.invoke, whatever the registry went through: a runbook whose
\* manifest asks for approval is run only once its own plan was approved, and
\* one that is destructive or of the class MUTATING_HIGH is not run at all.  Where
\* validate_admission was run, every class but READ_ONLY asks for approval.
\* The class is the declared one: that a READ_ONLY manifest with mutating nodes
\* runs without approval is said in the README, section 5.
MutationsApproved ==
    \A r \in ran :
        LET m == r.digest.manifest
        IN  /\ m.approval # "NONE" => r.digest \in granted
            /\ registry[m.version].checked /\ m.policy # "READ_ONLY" => r.digest \in granted
            /\ ~HighBlast(m)
            /\ r.digest.principal \in Authorized
=============================================================================
