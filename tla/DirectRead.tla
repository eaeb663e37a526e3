----------------------------- MODULE DirectRead -----------------------------
(***************************************************************************)
(* One GitHub read at a time through the canary router                     *)
(* (v2/github_canary.py), the direct executor (v2/github_direct.py), the   *)
(* policy engine (v2/policy.py) and the projection of the tool surface     *)
(* (v2/projection.py).  The credential file is the read side of            *)
(* GitHubCredentials and may be replaced between any two of its reads: for *)
(* the canary's readiness, for the policy, and for the material itself.    *)
(***************************************************************************)
EXTENDS GitHubCredentials

CONSTANTS
    ReadTool,       \* registered tools: what the frozen registry and the rules say
    Canaried,       \* the tools in the canary's list
    CanaryEnabled   \* the canary's feature switch

\* The verdict of a rule, where there is a rule.
ASSUME RulesAssumption ==
    \A t \in ReadTool : t.rule \in {"ALLOW", "DENY", "APPROVAL_REQUIRED", "none"}

VARIABLES
    reader,     \* the call under way
    gets,       \* the GETs that were sent
    answers,    \* what callers were told
    projection  \* tool -> what was projected last: "ALLOW", "APPROVAL_REQUIRED" or not

readVars == <<reader, gets, answers, projection>>

NoRead == [at |-> "none"]
CredentialReady(f) == StateFor(ReadStatus(f, ProviderType)) = "READY"

DirectInit == reader = NoRead /\ gets = {} /\ answers = {} /\ projection = << >>

-----------------------------------------------------------------------------
\* PolicyEngine.evaluate_tool: the verdict order is fixed.
EvaluateTool(t) ==
    IF t.destructive THEN "DESTRUCTIVE_DENIED_BY_DEFAULT"
    ELSE IF ~t.ready THEN "CAPABILITY_NOT_READY"
    ELSE IF ~CredentialReady(secret["read"]) THEN "CREDENTIAL_CAPABILITY_NOT_READY"
    ELSE IF t.rule = "none" THEN "MISSING_POLICY_RULE"
    ELSE IF t.rule = "DENY" THEN "EXPLICIT_DENY"
    ELSE IF t.rule = "APPROVAL_REQUIRED" \/ t.approval = "REQUIRED" THEN "APPROVAL_REQUIRED"
    ELSE "ALLOW"

\* project_capabilities
Project ==
    /\ projection' = [t \in {u \in ReadTool : EvaluateTool(u) \in {"ALLOW", "APPROVAL_REQUIRED"}} |->
                        EvaluateTool(t)]
    /\ UNCHANGED <<credentialVars, reader, gets, answers>>

\* GitHubCanaryRouter.eligibility
Ineligible(t, r) ==
    IF ~CanaryEnabled THEN "FEATURE_DISABLED"
    ELSE IF t \notin Canaried THEN "TOOL_NOT_CANARIED"
    ELSE IF r \notin Repo THEN "REPOSITORY_NOT_ALLOWED"
    ELSE IF ~CredentialReady(secret["read"]) THEN "CREDENTIAL_NOT_READY"
    ELSE "NONE"

Told(t, r, path, code) ==
    /\ answers' = {[tool |-> t, repo |-> r, path |-> path, code |-> code]}
    /\ reader' = NoRead

\* route: a read that is not eligible is handed back to V1; a read that is
\* eligible stays DIRECT whatever becomes of it.
Route(t, r) ==
    /\ reader.at = "none"
    /\ IF Ineligible(t, r) # "NONE"
       THEN Told(t, r, "V1_FALLBACK", Ineligible(t, r))
       ELSE reader' = [at |-> "asked", tool |-> t, repo |-> r] /\ UNCHANGED answers
    /\ UNCHANGED <<credentialVars, gets, projection>>

\* A caller of the executor itself, with arguments it may refuse at once.
AskDirect(t, r) ==
    /\ reader.at = "none"
    /\ \/ reader' = [at |-> "asked", tool |-> t, repo |-> r] /\ UNCHANGED answers
       \/ Told(t, r, "DIRECT", "INVALID_ARGUMENT")
    /\ UNCHANGED <<credentialVars, gets, projection>>

\* _authorize up to the material: scope before policy, so that a caller out of
\* scope learns nothing of the credential.
Denial(t, r) ==
    IF ~t.direct \/ ~t.readOnly THEN "TOOL_NOT_DIRECT_READ"
    ELSE IF r \notin Repo THEN "REPOSITORY_NOT_ALLOWED"
    ELSE IF EvaluateTool(t) # "ALLOW" THEN EvaluateTool(t)
    ELSE "none"

Authorize ==
    /\ reader.at = "asked"
    /\ LET d == Denial(reader.tool, reader.repo)
       IN  IF d # "none" THEN Told(reader.tool, reader.repo, "DIRECT", d)
           ELSE reader' = [reader EXCEPT !.at = "allowed"] /\ UNCHANGED answers
    /\ UNCHANGED <<credentialVars, gets, projection>>

\* The provider reads the file once more, and the GET goes out with what it read.
SendGet ==
    /\ reader.at = "allowed"
    /\ IF Resolves(secret["read"], ProviderType, reader.repo)
       THEN /\ gets' = gets \cup {[tool |-> reader.tool, repo |-> reader.repo, file |-> secret["read"]]}
            /\ reader' = [reader EXCEPT !.at = "sent"] /\ UNCHANGED answers
       ELSE /\ Told(reader.tool, reader.repo, "DIRECT", "CREDENTIAL_MATERIAL_UNAVAILABLE")
            /\ UNCHANGED gets
    /\ UNCHANGED <<credentialVars, projection>>

\* _get, _raise_for_status and _result; a read is never sent again.
ReadAnswers ==
    {"RATE_LIMITED", "AUTHENTICATION_FAILED", "FORBIDDEN", "NOT_FOUND", "REDIRECT_BLOCKED",
     "UPSTREAM_ERROR", "UPSTREAM_TRANSPORT_ERROR", "INVALID_UPSTREAM_SHAPE",
     "RESULT_BUDGET_EXCEEDED", "OK"}
GetAnswered ==
    /\ reader.at = "sent"
    /\ \E code \in ReadAnswers : Told(reader.tool, reader.repo, "DIRECT", code)
    /\ UNCHANGED <<credentialVars, gets, projection>>

DirectNext ==
    \/ \E t \in ReadTool, r \in Repo \cup {Foreign} : Route(t, r) \/ AskDirect(t, r)
    \/ Authorize \/ SendGet \/ GetAnswered \/ Project
    \/ OperatorPuts("read") /\ UNCHANGED readVars

-----------------------------------------------------------------------------
\* github_direct._authorize and the canary: a caller out of scope gets an
\* answer that says nothing of the credential, and a GET leaves only for a
\* repository in scope, by a read tool whose rule allows it, with material
\* from a file that is fit at that moment, though the file may have been
\* replaced since the readiness and the policy were looked at.
ScopeHidesCredential ==
    /\ \A a \in answers : a.repo \notin Repo => a.code \in
        {"FEATURE_DISABLED", "TOOL_NOT_CANARIED", "REPOSITORY_NOT_ALLOWED",
         "TOOL_NOT_DIRECT_READ", "INVALID_ARGUMENT"}
    /\ \A g \in gets : /\ g.repo \in Repo /\ ReadStatus(g.file, ProviderType) = "READY"
                       /\ g.tool.direct /\ g.tool.readOnly /\ g.tool.rule = "ALLOW"
=============================================================================
