----------------------------- MODULE PolicyRules -----------------------------
(***************************************************************************)
(* The deterministic policy of the bridge (policy.py) and its two users in *)
(* server.py: _enforce_policy, which every governed tool calls first, and  *)
(* hermes_policy_evaluate, which tells a client what would be decided.     *)
(*                                                                         *)
(* The document comes from the environment, from a file or is built in; it *)
(* is cached at its first use and read again by hermes_readiness.          *)
(***************************************************************************)
EXTENDS Integers, FiniteSets

CONSTANTS
    Tool,               \* action names; the tools of the bridge are among them
    PolicyDocument,     \* the documents that configuration may hold
    BuiltinPolicy,      \* BUILTIN_SAFE_POLICY
    NoDocument,         \* nothing configured, or nothing usable loaded
    BrokenDocument,     \* what cannot be read or parsed
    NotCached

Verdict == {"ALLOW", "REQUIRE_APPROVAL", "DENY"}
MutationClass == {"none", "write", "delete", "admin"}
TrustLabel == {"trusted_policy", "user_instruction", "agent_proposal",
               "tool_result", "untrusted_content", "unknown"}
Unparseable == "?"      \* a label or class that is no member of its enumeration
NotGiven == "-"

ASSUME PolicyAssumption ==
    /\ \A d \in PolicyDocument \cup {BuiltinPolicy} :
            d \in [readOnly : SUBSET Tool, mutating : SUBSET Tool, deny : SUBSET Tool,
                   approve : SUBSET Tool, unknown : Verdict]
    /\ {NoDocument, BrokenDocument, NotCached} \cap (PolicyDocument \cup {BuiltinPolicy}) = {}

VARIABLES
    inline, file,       \* BRIDGE_POLICY_JSON and the file at BRIDGE_POLICY_PATH
    cached,             \* _cached
    promised            \* the document a client was last answered from, while it counts

policyVars == <<inline, file, cached, promised>>

Configured == PolicyDocument \cup {NoDocument, BrokenDocument}

PolicyInit ==
    /\ inline \in Configured /\ file \in Configured
    /\ cached = NotCached /\ promised = NotCached

-----------------------------------------------------------------------------
(* Loading                                                                 *)

\* validate_policy_document.
ValidDocument(d) ==
    /\ d.readOnly \cap d.mutating = {}
    /\ d.readOnly \cup d.mutating = {} => d.unknown = "DENY"

UsableOrNone(d) == IF d # BrokenDocument /\ ValidDocument(d) THEN d ELSE NoDocument

\* load_policy: what is configured wins even when it is broken.
LoadPolicy ==
    CASE inline # NoDocument -> UsableOrNone(inline)
      [] inline = NoDocument /\ file # NoDocument -> UsableOrNone(file)
      [] OTHER -> UsableOrNone(BuiltinPolicy)

\* The configuration is read at each use.
ActivePolicy_Reread == LoadPolicy

\* get_active_policy, with the value its call leaves in the cache.
ActivePolicy == IF cached = NotCached THEN LoadPolicy ELSE cached
CachePolicy == cached' = ActivePolicy /\ UNCHANGED <<inline, file, promised>>

\* hermes_readiness: _security_posture reads the configuration again; what was
\* answered from the document of before counts no longer.
RefreshPolicy ==
    cached' = LoadPolicy /\ promised' = NotCached /\ UNCHANGED <<inline, file>>

\* external: the operator edits the policy file.
EditPolicyFile ==
    /\ \E d \in Configured \ {NoDocument} : file' = d
    /\ file # NoDocument /\ UNCHANGED <<inline, cached, promised>>

PolicyRestart ==
    cached' = NotCached /\ promised' = NotCached /\ UNCHANGED <<inline, file>>

-----------------------------------------------------------------------------
(* Deciding                                                                *)

Unknown == "?"

ClassifyAction(d, a) ==
    CASE a \in d.readOnly -> "none"
      [] a \notin d.readOnly /\ a \in d.mutating -> "write"
      [] OTHER -> Unknown

\* The caller may escalate a read-only action, never de-escalate a mutating one.
EffectiveClass(declared, caller) ==
    IF declared = Unknown \/ (declared = "none" /\ caller # "none")
    THEN caller ELSE declared

\* _trust_risk.
HighRisk(label) == label = "untrusted_content"

\* _evaluate_policy_impl; each test only counts when the earlier ones fail.
EvaluatePolicy(d, a, class, label) ==
    LET declared == ClassifyAction(d, a) IN
    CASE a \in d.deny -> "DENY"
      [] a \notin d.deny /\ a \in d.approve -> "REQUIRE_APPROVAL"
      [] a \notin d.deny \cup d.approve /\ declared = Unknown -> d.unknown
      [] OTHER -> IF EffectiveClass(declared, class) # "none" \/ HighRisk(label)
                  THEN "REQUIRE_APPROVAL" ELSE "ALLOW"

\* _mutation_from_action, and NONE where the policy does not know the action.
MutationFromAction(d, a) ==
    IF ClassifyAction(d, a) = Unknown THEN "none" ELSE ClassifyAction(d, a)

\* _policy_decision_from_inputs: a label that does not parse counts as untrusted.
PolicyDecisionFromInputs(a, label) ==
    IF ActivePolicy = NoDocument THEN "error"
    ELSE EvaluatePolicy(ActivePolicy, a, MutationFromAction(ActivePolicy, a),
            CASE label = NotGiven -> "unknown"
              [] label = Unparseable -> "untrusted_content"
              [] OTHER -> label)

\* _enforce_policy: the call goes on after an explicit ALLOW only.
MayProceed(a, label) == PolicyDecisionFromInputs(a, label) = "ALLOW"

\* What hermes_policy_evaluate answers from document d: the class that the client
\* claims, or that of the action; a label that does not parse counts as unknown.
Preview(d, a, class, label) ==
    IF d = NoDocument THEN "error"
    ELSE EvaluatePolicy(d, a,
            IF class \in MutationClass THEN class ELSE MutationFromAction(d, a),
            IF label \in TrustLabel THEN label ELSE "unknown")

\* hermes_policy_evaluate is called: from now on a client holds what Preview says.
HermesPolicyEvaluate ==
    /\ cached' = ActivePolicy /\ promised' = ActivePolicy
    /\ UNCHANGED <<inline, file>>

PolicyNext ==
    RefreshPolicy \/ EditPolicyFile \/ PolicyRestart \/ CachePolicy \/ HermesPolicyEvaluate

-----------------------------------------------------------------------------
(* Properties                                                              *)

Strictness(v) ==
    CASE v = "ALLOW" -> 0 [] v = "REQUIRE_APPROVAL" -> 1 [] OTHER -> 2

\* What hermes_policy_evaluate answered is never weaker than what the tool itself
\* enforces later, however often the policy file was edited and the cache used in
\* between, until hermes_readiness reads the configuration again or the bridge
\* restarts; and whatever class the client claimed (policy.py: "The caller may
\* escalate ... but never de-escalate a declared mutating action").  The one
\* exception is a trust label that does not parse: the preview takes it for
\* unknown (server.py:870-873), enforcement for untrusted content (:218-220), so
\* that an ALLOW may be promised where an approval is then asked for.
PreviewNeverWeaker ==
    promised # NotCached =>
        \A a \in Tool, class \in MutationClass \cup {NotGiven, Unparseable},
           label \in TrustLabel \cup {NotGiven, Unparseable} :
            LET shown == Preview(promised, a, class, label)
                enforced == PolicyDecisionFromInputs(a, label)
            IN \/ Strictness(shown) >= Strictness(enforced)
               \/ label = Unparseable /\ shown = "ALLOW" /\ enforced = "REQUIRE_APPROVAL"
=============================================================================
