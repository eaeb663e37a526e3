-------------------------- MODULE MutationRegistry --------------------------
(***************************************************************************)
(* The typed contracts of the two GitHub mutations, create_branch and      *)
(* create_pr: v2/github_mutation_registry.py with the records of           *)
(* v2/mutation_digest.py and v2/mutation_audit.py that a mutation is       *)
(* described by.  Pure operators; MutationCall runs calls over them.       *)
(***************************************************************************)
EXTENDS Integers, FiniteSets

CONSTANTS
    RefName,            \* names the branch grammar accepts
    CommitId,           \* full lowercase commit ids
    RepoName,           \* owner and repository names the grammar accepts
    InScope,            \* <<owner, repository>> of the allow-list
    CapabilityStates,   \* state of each registered capability
    Opaque,             \* names the audit records accept for a principal
    Identifier          \* names the approval records accept for a principal

-----------------------------------------------------------------------------
(* Arguments: a function from the names a caller gave to values            *)

\* create_branch_input_schema, create_pr_input_schema: closed objects.
RequiredKeys ==
    [tool \in {"create_branch", "create_pr"} |->
        IF tool = "create_branch" THEN {"owner", "repo", "branch", "base_sha"}
        ELSE {"owner", "repo", "head", "base", "title", "expected_head_sha"}]
OptionalKeys ==
    [tool \in {"create_branch", "create_pr"} |->
        IF tool = "create_branch" THEN {} ELSE {"body", "draft"}]

KeysFit(tool, args) ==
    /\ RequiredKeys[tool] \subseteq DOMAIN args
    /\ DOMAIN args \subseteq RequiredKeys[tool] \cup OptionalKeys[tool]

\* _validate_text: control characters, excess length and, where it is required,
\* blank text are refused.
ValidText(text, required) == text = "text" \/ (text = "blank" /\ ~required)

Given(args, key, default) == IF key \in DOMAIN args THEN args[key] ELSE default

NoOperation == [ok |-> FALSE]

\* normalize_create_branch_arguments, and what _target and
\* _observed_preconditions take from the result.
NormalizeCreateBranch(args) ==
    IF /\ KeysFit("create_branch", args)
       /\ {args["owner"], args["repo"]} \subseteq RepoName
       /\ args["branch"] \in RefName /\ args["base_sha"] \in CommitId
    THEN [ok |-> TRUE, tool |-> "create_branch", repo |-> <<args["owner"], args["repo"]>>,
          target |-> args["branch"], sha |-> args["base_sha"],
          base |-> "none", draft |-> "none", body |-> "none"]
    ELSE NoOperation

\* normalize_create_pr_arguments: one repository, two branches, a draft unless
\* the caller says otherwise.
NormalizeCreatePr(args) ==
    IF /\ KeysFit("create_pr", args)
       /\ {args["owner"], args["repo"]} \subseteq RepoName
       /\ {args["head"], args["base"]} \subseteq RefName /\ args["head"] # args["base"]
       /\ args["expected_head_sha"] \in CommitId
       /\ ValidText(args["title"], TRUE) /\ ValidText(Given(args, "body", "blank"), FALSE)
       /\ Given(args, "draft", "yes") \in {"yes", "no"}
    THEN [ok |-> TRUE, tool |-> "create_pr", repo |-> <<args["owner"], args["repo"]>>,
          target |-> args["head"], sha |-> args["expected_head_sha"], base |-> args["base"],
          draft |-> Given(args, "draft", "yes"), body |-> Given(args, "body", "blank")]
    ELSE NoOperation

-----------------------------------------------------------------------------
(* Contracts                                                               *)

\* _mutation_definition: what both contracts share.
Shared == [mutates |-> TRUE, destructive |-> FALSE, method |-> "POST", attempts |-> 1,
           approval |-> "REQUIRED", idempotency |-> "BY_PRECONDITION",
           success |-> {201}, clean |-> {401, 403, 404, 422},
           ambiguous |-> {408, 429, 500, 502, 503, 504}]

With(shared, own) ==
    [f \in DOMAIN shared \cup DOMAIN own |-> IF f \in DOMAIN own THEN own[f] ELSE shared[f]]

CreateBranchContract ==
    With(Shared, [tool |-> "create_branch", action |-> "github.branch.create",
                  capability |-> "github.write.branch", preconditions |-> {"base_sha"},
                  verified |-> {"ref", "sha"}])

CreatePrContract ==
    With(Shared, [tool |-> "create_pr", action |-> "github.pr.create",
                  capability |-> "github.write.pr", preconditions |-> {"expected_head_sha"},
                  verified |-> {"number", "head_sha", "state"}])

\* MutationContract.__post_init__ and ReadBackContract.__post_init__
ContractHolds(contract) ==
    /\ contract.mutates /\ ~contract.destructive /\ contract.method = "POST"
    /\ contract.capability \in {"github.write.branch", "github.write.pr", "github.write.merge"}
    /\ contract.idempotency = "BY_PRECONDITION" /\ contract.preconditions # {}
    /\ contract.attempts = 1 /\ contract.approval = "REQUIRED" /\ contract.verified # {}
    /\ contract.success \cap (contract.clean \cup contract.ambiguous) = {}
    /\ contract.clean \cap contract.ambiguous = {}

\* get_mutation_contract: the id is stripped and lower-cased; nothing but the two
\* mutations is found, and forbidden ones are refused under a name of their own.
MutationNamed(id) ==
    CASE id \in {"github.create_branch", " GitHub.Create_Branch"} -> "create_branch"
      [] id \in {"github.create_pr", "GITHUB.CREATE_PR"} -> "create_pr"
      [] id \in {"github.delete_repository", "github.delete_ref"} -> "DESTRUCTIVE_OPERATION_FORBIDDEN"
      [] id \in {"github.update_ref", "github.merge_pr"} -> "MUTATION_NOT_REGISTERED"
      [] OTHER -> "UNKNOWN_MUTATION"

MutationContractOf(tool) == IF tool = "create_branch" THEN CreateBranchContract ELSE CreatePrContract

\* normalize_arguments
Normalize(tool, args) ==
    IF tool = "create_branch" THEN NormalizeCreateBranch(args) ELSE NormalizeCreatePr(args)

\* A gateway's error is taken for a refusal.
ClassifyStatus_ServerError(contract, status) ==
    CASE status \in contract.success -> "COMMITTED"
      [] status \in contract.clean \/ status >= 500 -> "FAILED_CLEAN"
      [] OTHER -> "AMBIGUOUS"

\* classify_status: what the contract does not list is not known.
ClassifyStatus(contract, status) ==
    CASE status \in contract.success -> "COMMITTED"
      [] status \in contract.clean -> "FAILED_CLEAN"
      [] OTHER -> "AMBIGUOUS"

-----------------------------------------------------------------------------
(* Registry, policy and approval                                           *)

\* CapabilityRegistry: what is not registered is not ready.
CapabilityReady(id) == id \in DOMAIN CapabilityStates /\ CapabilityStates[id] = "READY"

\* github_mutation_policy_rules: one rule each, and none for anything else.
RuleFor(action) ==
    IF action \in {"github.branch.create", "github.pr.create"} THEN "APPROVAL_REQUIRED"
    ELSE "MISSING_POLICY_RULE"

\* PolicyEngine.evaluate over the mutation registry: the broker's word on the
\* credential comes after the capability's state.
MutationDecision(contract, credentialReady) ==
    IF contract.destructive \/ ~CapabilityReady("github.api") \/ ~credentialReady
    THEN "DENY" ELSE RuleFor(contract.action)

\* compute_operation_digest: an injective name for the whole descriptor, the
\* states of the capabilities included.
OperationDigest(op) ==
    [operation |-> op, capability |-> MutationContractOf(op.tool).capability, snapshot |-> CapabilityStates]

\* compute_idempotency_key: the caller's token narrows the key.
IdempotencyKey(principal, op, token) ==
    [principal |-> principal, digest |-> OperationDigest(op), token |-> token]

\* operation_family: a lease is held per repository, family and target.
LockName(op) == <<op.repo, op.tool, op.target>>

-----------------------------------------------------------------------------
(* Audit records                                                           *)

\* evidence_class_for: an unfinished mutation has none.
EvidenceClass ==
    [outcome \in {"COMMITTED", "FAILED_CLEAN", "DENIED", "AMBIGUOUS"} |->
        CASE outcome = "COMMITTED" -> "SUCCESS"
          [] outcome = "FAILED_CLEAN" -> "FAILED"
          [] outcome = "DENIED" -> "BLOCKED"
          [] OTHER -> "INDETERMINATE"]

\* MutationIntent.__post_init__ with ApprovalReference and CapabilitySnapshot:
\* the digests, ids and repository of an operation that was normalised fit; the
\* name of the principal fits only when it is opaque.
IntentHolds(principal) == principal \in Opaque

\* ProviderObservation.__post_init__: COMMITTED needs a read-back that proves it,
\* DENIED no attempt, and the clock must not have gone back.
ObservationHolds(outcome, verification, attempts, clockWentBack) ==
    /\ outcome \in DOMAIN EvidenceClass
    /\ outcome = "COMMITTED" => verification = "VERIFIED"
    /\ outcome = "DENIED" => attempts = 0
    /\ ~clockWentBack
=============================================================================
