------------------------------- MODULE MCV2 -------------------------------
(***************************************************************************)
(* The V2 side: components that share no state, each in a lane of its own, *)
(* so that their state spaces add up. The credential store is shared by    *)
(* the lanes "mint", "write" and "read", the idempotency store by the      *)
(* lanes "store" and "merge".                                              *)
(***************************************************************************)
EXTENDS GovernedMerge, DirectRead, BatchScheduler, PlanValidation,
        RunbookEngine, HybridResolver, MutationCall, ProviderDomains,
        Activation, TLC

CONSTANTS
    h1, h2, h3, a1, a2, a3, g1, g2, g3,     \* heads and keys, merge attempts, grants
    ra, rb, rx,                             \* repositories
    b1, b2, b3, s1, s2, s3,                 \* batches and steps
    i1, i2, i3, k1,                         \* runbook invocations and their key
    MergeTime                               \* how far the clock goes in the merge lane

VARIABLE lane

\* The store and the merges: two keys of one lock key, and one of another.
MCLockOf == (h1 :> "pr") @@ (h2 :> "pr") @@ (h3 :> "other")
MCPin == (a1 :> h1) @@ (a2 :> h1) @@ (a3 :> h2)
MCMergeGrant == (a1 :> g1) @@ (a2 :> g2) @@ (a3 :> g3)
MCGrantPin == (g1 :> h1) @@ (g2 :> h1) @@ (g3 :> h2)
MCMergeAsked ==
    [a \in {a1, a2, a3} |-> [base |-> "release", principal |-> "alice",
                             approver |-> IF a = a2 THEN "none" ELSE "bob"]]
Green(name) == [name |-> name, status |-> "completed", conclusion |-> "success"]
Rerun(name) == [name |-> name, status |-> "in_progress", conclusion |-> "none"]
Mergeable == [default |-> "main", base |-> "release", open |-> TRUE, draft |-> FALSE,
    mergeable |-> "yes", state |-> "clean", checks |-> <<Green("ci"), Green("lint"), Rerun("ci")>>,
    protection |-> [readable |-> TRUE, checks |-> {"ci"}, enforceAdmins |-> TRUE,
                    changesRequested |-> 0, reviews |-> 1, reviewsNeeded |-> 1]]
MCObserved ==
    {Mergeable,
     [Mergeable EXCEPT !.checks = <<Rerun("ci"), Green("ci"), Green("lint")>>],
     [Mergeable EXCEPT !.checks = <<Green("lint")>>],
     [Mergeable EXCEPT !.protection.readable = FALSE],
     [Mergeable EXCEPT !.protection.changesRequested = 1],
     [Mergeable EXCEPT !.mergeable = "unknown"], [Mergeable EXCEPT !.base = "main"],
     [Mergeable EXCEPT !.default = "release"], [Mergeable EXCEPT !.default = NoSha]}
MCMergePolicy == [checks |-> {"lint"}, distinct |-> TRUE, defaultAllowed |-> FALSE]

\* Credentials: what operators put by hand into the files the mint writes.
MCIntended == ("contents" :> "write") @@ ("metadata" :> "read")
MCHandMade == {
    Written([class |-> "classic", repos |-> {ra, rb}, perms |-> "broad"]),
    Written([class |-> "app", repos |-> {ra, rb}, perms |-> "broad"]),
    Written([class |-> "fine", repos |-> {ra}, perms |-> "broad"]),
    [Written(AppToken(ra)) EXCEPT !.open = TRUE],
    [Unset EXCEPT !.env = "inline"]}
MCDeclarations == {
    [MintDocument(ra) EXCEPT !.scopes = {ra, rb}, !.source = "github_app_settings_ui"],
    [MintDocument(ra) EXCEPT !.scopes = {ra, rb}, !.type = "fine", !.source = "github_settings_ui"],
    [MintDocument(ra) EXCEPT !.confirmed = FALSE]}
GetRepo == [id |-> "get_repo", direct |-> TRUE, readOnly |-> TRUE, destructive |-> FALSE,
            ready |-> TRUE, rule |-> "ALLOW", approval |-> "NONE"]
MCReadTool == {GetRepo, [GetRepo EXCEPT !.id = "search", !.approval = "REQUIRED"],
    [GetRepo EXCEPT !.id = "merge", !.readOnly = FALSE],
    [GetRepo EXCEPT !.id = "checks", !.rule = "none"]}
MCCanaried == {GetRepo}

\* Batches: one that fails fast, one that mutates, one dry run.
MCAllowed == ({b1, b2, b3} \X {s1, s2, s3}) \ {<<b2, s2>>, <<b3, s3>>}
MCMutating == {<<b2, s1>>}
MCRequested == (b1 :> 2) @@ (b2 :> 2) @@ (b3 :> 1)

\* Runbooks
Rotate == [version |-> <<1, 0, 0>>, policy |-> "MUTATING_LOW", approval |-> "SINGLE",
    destructive |-> FALSE, deletes |-> FALSE, accepted |-> FALSE,
    rollback |-> "NOT_APPLICABLE", undo |-> "none", owner |-> "role", acyclic |-> TRUE,
    declares |-> {"read"}, needs |-> {"read"}, parameters |-> {"x"}, mutates |-> TRUE]
Purge2 == [Rotate EXCEPT !.version = <<2, 0, 0>>, !.policy = "MUTATING_HIGH",
    !.approval = "DUAL", !.owner = "team", !.rollback = "AUTOMATIC", !.undo = "u"]
\* What validate_admission would refuse.
Lax == [Rotate EXCEPT !.version = <<2, 0, 0>>, !.approval = "NONE"]
MCManifest == {Rotate, Lax, Purge2}
AskFor(m) == [version |-> m.version, key |-> k1, args |-> "x", principal |-> "alice", digest |-> m]
MCAsks == (i1 :> AskFor(Rotate)) @@ (i2 :> AskFor(Rotate)) @@ (i3 :> AskFor(Lax))

-----------------------------------------------------------------------------
(* Plans: every graph of three nodes over four names, and data flows        *)
(* through the transforms into a tool that names a resource.                *)

GetNode == [kind |-> "TOOL", tool |-> "get", op |-> "", args |-> ("repo" :> Text("in")),
    bindings |-> << >>, deps |-> {}, idempotent |-> TRUE, undo |-> "none", timeout |-> 1]
MCContract ==
    ("get" :> [args |-> ("repo" :> "string"),
               results |-> ("items" :> "list" @@ "name" :> "string" @@ "n" :> "int"),
               mutating |-> FALSE, resource |-> "repo", undos |-> {}])
    @@ ("put" :> [args |-> ("repo" :> "string" @@ "count" :> "int"),
                  results |-> ("name" :> "string"),
                  mutating |-> TRUE, resource |-> "repo", undos |-> {"undo"}])
Item(n, r) == Obj("k" :> Num(n) @@ "repo" :> Text(r))
MCAnswers ==
    ("get" :> {Obj("items" :> Lst(<<Item(9, "out"), Item(10, "in")>>) @@ "name" :> Text("in")
                   @@ "n" :> Num(2)),
               Obj("items" :> Lst(<<Item(9, "in"), Item(1, "out"), Item(9, "in")>>)
                   @@ "name" :> Text("out") @@ "n" :> Num(2)),
               Obj("items" :> Num(3))})
    @@ ("put" :> {Obj("name" :> Text("in"))})
PlanOf(nodes) == [nodes |-> nodes, deadline |-> 5,
                  budget |-> [nodes |-> 4, width |-> 1, calls |-> 4, wall |-> 5]]
GraphPlans == {PlanOf([n \in 1..3 |-> [GetNode EXCEPT !.deps = d[n]]]) :
                 d \in [1..3 -> SUBSET (1..4)]}
Op(op, args, bindings, deps) ==
    [GetNode EXCEPT !.kind = "TRANSFORM", !.tool = "", !.op = op, !.args = args,
                    !.bindings = bindings, !.deps = deps]
Put(bindings, args, deps) ==
    [GetNode EXCEPT !.tool = "put", !.bindings = bindings, !.args = args, !.deps = deps]
From(n, path, type) == [source |-> n, path |-> path, type |-> type]
Fld(f) == "field" :> Text(f)
Items == "value" :> From(1, "items", "list")
ListOp == {<<"sort_by", Fld("k")>>, <<"unique", << >>>>,
    <<"filter_eq", Fld("k") @@ "equals" :> Num(9)>>,
    <<"filter_in", Fld("repo") @@ "values" :> Lst(<<Text("in")>>)>>,
    <<"require_non_empty", << >>>>, <<"to_list", << >>>>}
FlowPlans ==
    {PlanOf(<<GetNode, Op(o[1], o[2], Items, {1}),
              Op("first", << >>, "value" :> From(2, "", "list"), {2}),
              Op("select", Fld("repo"), "value" :> From(3, "", type), {3}),
              Put("repo" :> From(4, "", "string"), "count" :> Num(1), {4})>>) :
        o \in ListOp, type \in {"object", "any"}}
    \cup {PlanOf(<<GetNode, Op("map_field", Fld(f), Items, {1}),
              Op("count", << >>, "value" :> From(2, "", "list"), {2}),
              Put("repo" :> From(1, "name", "string") @@ "count" :> From(3, "", type),
                  << >>, {1, 3})>>) :
        f \in {"k", "zz"}, type \in {"int", "string"}}
    \cup {PlanOf(<<GetNode,
              Op("project", "fields" :> Lst(<<Text("name")>>), "value" :> From(1, "", "object"), {1}),
              Op("merge_objects", << >>,
                 "left" :> From(2, "", "object") @@ "right" :> From(1, "", "object"), {1, 2})>>)}
MCPlanDocument == GraphPlans \cup
    {[p EXCEPT !.budget = [@ EXCEPT !.nodes = n, !.width = w]] :
        p \in FlowPlans, n \in {4, 5}, w \in {1, 2}}
MCStringOrder == ("in" :> 1) @@ ("out" :> 2)

-----------------------------------------------------------------------------
(* Requests to the resolver                                                *)

Operation(cap, bound, ref, deps) == [cap |-> cap, bound |-> bound, ref |-> ref, deps |-> deps]
ReadA == Operation("read", TRUE, "a", {})
ReadB == Operation("read", TRUE, "b", {})
WriteW == Operation("write", TRUE, "w", {})
MCOperations == {
    {}, {ReadA}, {[ReadA EXCEPT !.bound = FALSE]}, {[ReadA EXCEPT !.cap = "stale"]},
    {WriteW}, {[WriteW EXCEPT !.cap = "down"]}, {ReadA, ReadB},
    {ReadA, ReadB, [ReadA EXCEPT !.ref = "c"]},
    {ReadA, [WriteW EXCEPT !.deps = {"a"}]},
    {[ReadA EXCEPT !.deps = {"w"}], [WriteW EXCEPT !.deps = {"a"}]},
    {ReadA, [ReadB EXCEPT !.deps = {"a"}], [WriteW EXCEPT !.deps = {"b"}]},
    {ReadA, [WriteW EXCEPT !.cap = "down"]}, {[ReadA EXCEPT !.bound = FALSE], WriteW}}
MCIntent == [ops : MCOperations, residual : BOOLEAN, uncovered : BOOLEAN,
             runbook : {"none", "pinned"}, approved : BOOLEAN, allowance : BOOLEAN, count : {0}]
MCProposal ==
    [ops : {{}, {ReadA}, {WriteW}, {[ReadA EXCEPT !.bound = FALSE]}, {ReadA, ReadB},
            {[ReadA EXCEPT !.bound = FALSE], WriteW}, {ReadA, [WriteW EXCEPT !.ref = "a"]}},
     tokens : {1, 2}, abandoned : {FALSE}]
    \cup {[ops |-> {ReadA}, tokens |-> 0, abandoned |-> TRUE]}
MCReadyState == ("read" :> "READY") @@ ("stale" :> "DEGRADED")
             @@ ("write" :> "READY") @@ ("down" :> "DEGRADED")

-----------------------------------------------------------------------------
(* Mutations: a branch, a pull request from it that is asked for twice, the *)
(* same under an address as the name, and requests that no approval covers. *)

Arguments == "owner" :> "o" @@ "repo" :> "r"
BranchArgs == Arguments @@ "branch" :> "new" @@ "base_sha" :> "s1"
PrArgs == Arguments @@ "head" :> "new" @@ "base" :> "main" @@ "title" :> "text"
          @@ "expected_head_sha" :> "s1"
Ask(id, args, who, token, grant) ==
    [id |-> id, args |-> args, principal |-> who, token |-> token, grant |-> grant]
MCAsked ==
    ("branch" :> Ask(" GitHub.Create_Branch", BranchArgs, "alice", "none", "g1"))
    @@ ("pr" :> Ask("github.create_pr", PrArgs, "alice", "none", "g2"))
    @@ ("again" :> Ask("GITHUB.CREATE_PR", PrArgs @@ "draft" :> "yes", "alice", "t", "g3"))
    @@ ("mail" :> Ask("github.create_branch", BranchArgs, "a@b", "none", "g4"))
    @@ ("ready" :> Ask("github.create_pr", PrArgs @@ "draft" :> "no", "alice", "none", "g2"))
    @@ ("merge" :> Ask("github.merge_pr", PrArgs, "alice", "none", "g2"))
    @@ ("labels" :> Ask("github.create_pr", PrArgs @@ "labels" :> "text", "alice", "none", "g2"))
GrantOf(op, who) == [op |-> op, principal |-> who]
MCGrants ==
    ("g1" :> GrantOf(NormalizeCreateBranch(BranchArgs), "alice"))
    @@ ("g2" :> GrantOf(NormalizeCreatePr(PrArgs), "alice"))
    @@ ("g3" :> GrantOf(NormalizeCreatePr(PrArgs), "alice"))
    @@ ("g4" :> GrantOf(NormalizeCreateBranch(BranchArgs), "a@b"))
MCInitialRefs == {("main" :> "s1") @@ ("new" :> s) : s \in {"gone", "s1", "s2"}}
MCScope == {<<"o", "r">>}
MCStates == [c \in {"github.api", "github.write.branch", "github.write.pr"} |-> "READY"]

-----------------------------------------------------------------------------
(* Providers: two that are allowed, whose documents name the same          *)
(* credential; documents that do not hold; records for a foreign domain.   *)

Declare(id, tool, credential, scopes, write) ==
    [id |-> id, tool |-> tool, credential |-> credential, scopes |-> scopes, hosts |-> {"api"},
     secretShaped |-> FALSE, deadline |-> 10000, resultBytes |-> 65536, write |-> write,
     mutates |-> write, idempotency |-> IF write THEN "KEYED" ELSE "READ", readOnlyTier |-> ~write]
ReadPr == Declare(<<"github", "pr_read">>, "get", "read", {"pr"}, FALSE)
WritePr == Declare(<<"github", "pr_write">>, "put", "write", {"pr:w"}, TRUE)
ReadIssue == Declare(<<"jira", "issue_read">>, "get", "read", {"work"}, FALSE)
DomainFor(p, read, write, scopes) ==
    [provider |-> p, read |-> read, write |-> write, granted |-> scopes]
Document(p, capabilities, domain) ==
    [provider |-> p, version |-> "1", status |-> "ACCEPTED", capabilities |-> capabilities,
     domain |-> domain]
GitHubDomain == DomainFor("github", "read", "write", "read" :> {"pr"} @@ "write" :> {"pr:w"})
JiraDomain == DomainFor("jira", "read", "none", "read" :> {"work"})
GitHubDocument == Document("github", <<ReadPr, WritePr>>, GitHubDomain)
MCManifests ==
    {GitHubDocument, Document("jira", <<ReadIssue>>, JiraDomain),
     [GitHubDocument EXCEPT !.domain = JiraDomain],
     [GitHubDocument EXCEPT !.capabilities = <<ReadPr, ReadPr>>],
     [GitHubDocument EXCEPT !.capabilities = <<[WritePr EXCEPT !.credential = "read", !.scopes = {"pr"}]>>],
     [GitHubDocument EXCEPT !.capabilities = <<[ReadPr EXCEPT !.scopes = {"pr:w"}]>>],
     [GitHubDocument EXCEPT !.capabilities = <<[WritePr EXCEPT !.idempotency = "READ"]>>],
     [GitHubDocument EXCEPT !.capabilities = <<ReadIssue>>],
     [GitHubDocument EXCEPT !.status = "BLOCKED_UNCONFIRMED"]}
RecordOf(p, credential, text, broad) ==
    [provider |-> p, credential |-> credential, text |-> text, ready |-> TRUE, broad |-> broad]
MCCredentialRecords ==
    {RecordOf("github", "read", "m1", FALSE), RecordOf("github", "read", "m2", FALSE),
     RecordOf("github", "write", "m3", FALSE), RecordOf("jira", "read", "m4", FALSE),
     RecordOf("github", "write", "m5", TRUE), RecordOf("jira", "write", "m3", FALSE)}

-----------------------------------------------------------------------------

v2Vars == <<lane, vars, mergeVars, credentialVars, readVars, batchVars, planVars,
            runbookVars, hybridVars, executionVars, domainVars, activationVars>>

V2Init ==
    /\ lane \in {"store", "merge", "mint", "write", "read", "batch", "plan", "runbook", "hybrid",
                "calls", "oddCalls", "domains", "activation"}
    /\ lane # "merge" => head = h1
    /\ lane # "plan" => plan = PlanOf(<<GetNode, GetNode, GetNode>>)
    /\ Init /\ MergeInit /\ CredentialInit /\ DirectInit /\ BatchInit /\ RunbookInit
    /\ HybridInit /\ PlanInit /\ CallInit /\ DomainsInit
    /\ ActivationInit
    /\ lane \notin {"calls", "oddCalls"} => refs = CHOOSE r \in InitialRefs : TRUE

StoreLane ==
    Next /\ UNCHANGED <<mergeVars, credentialVars, readVars, batchVars, planVars,
                        runbookVars, hybridVars, executionVars, domainVars, activationVars>>
MergeLane ==
    /\ MergeNext /\ now' <= MergeTime
    /\ UNCHANGED <<credentialVars, readVars, batchVars, planVars, runbookVars, hybridVars, executionVars, domainVars, activationVars>>
MintLane ==
    ReadSideNext /\ UNCHANGED <<vars, mergeVars, readVars, batchVars, planVars,
                                runbookVars, hybridVars, executionVars, domainVars, activationVars>>
WriteLane ==
    WriteSideNext /\ UNCHANGED <<vars, mergeVars, readVars, batchVars, planVars,
                                 runbookVars, hybridVars, executionVars, domainVars, activationVars>>
ReadLane ==
    DirectNext /\ UNCHANGED <<vars, mergeVars, batchVars, planVars, runbookVars, hybridVars, executionVars, domainVars, activationVars>>
BatchLane ==
    BatchNext /\ UNCHANGED <<vars, mergeVars, credentialVars, readVars, planVars,
                             runbookVars, hybridVars, executionVars, domainVars, activationVars>>
PlanLane ==
    PlanNext /\ UNCHANGED <<vars, mergeVars, credentialVars, readVars, batchVars,
                            runbookVars, hybridVars, executionVars, domainVars, activationVars>>
RunbookLane ==
    RunbookNext /\ UNCHANGED <<vars, mergeVars, credentialVars, readVars, batchVars,
                               planVars, hybridVars, executionVars, domainVars, activationVars>>
HybridLane ==
    HybridNext /\ UNCHANGED <<vars, mergeVars, credentialVars, readVars, batchVars,
                              planVars, runbookVars, executionVars, domainVars, activationVars>>
\* The calls of the two lanes are calls.
ASSUME LaneCallers ==
    {"branch", "pr", "again", "mail", "ready", "merge", "labels"} \subseteq Caller

CallLane ==
    /\ CallNext(IF lane = "calls" THEN {"branch", "pr", "again"}
                ELSE {"mail", "pr", "ready", "merge", "labels"})
    /\ UNCHANGED <<vars, mergeVars, credentialVars, readVars, batchVars, planVars,
                   runbookVars, hybridVars, domainVars, activationVars>>
DomainsLane ==
    DomainsNext /\ UNCHANGED <<vars, mergeVars, credentialVars, readVars, batchVars, planVars,
                               runbookVars, hybridVars, executionVars, activationVars>>
ActivationLane ==
    ActivationNext /\ UNCHANGED <<vars, mergeVars, credentialVars, readVars, batchVars, planVars,
                                  runbookVars, hybridVars, executionVars, domainVars>>

V2Next ==
    /\ UNCHANGED lane
    /\ \/ lane = "store" /\ StoreLane
       \/ lane = "merge" /\ MergeLane
       \/ lane = "mint" /\ MintLane
       \/ lane = "write" /\ WriteLane
       \/ lane = "read" /\ ReadLane
       \/ lane = "batch" /\ BatchLane
       \/ lane = "plan" /\ PlanLane
       \/ lane = "runbook" /\ RunbookLane
       \/ lane = "hybrid" /\ HybridLane
       \/ lane \in {"calls", "oddCalls"} /\ CallLane
       \/ lane = "domains" /\ DomainsLane
       \/ lane = "activation" /\ ActivationLane

V2Spec == V2Init /\ [][V2Next]_v2Vars

-----------------------------------------------------------------------------
\* GovernedMergeExecutor: what was merged is the head that was approved, and
\* what a caller is told of its merge is true. In the store lane the records
\* belong to no merge.
MergesHold ==
    MergeTypeOK /\ (lane = "merge" => MergedIsApproved /\ MergeReportIsTrue)

\* attest_provider, WriteCapabilityBroker.authorize, the direct read and the
\* provider broker, while files are replaced: an attested App token reaches the
\* attested repositories and no other, write material comes from a fit file for
\* an allowed repository, an answer of the direct read about a repository out of
\* scope tells nothing of the credential, and the credentials of providers do
\* not cross their domains.
CredentialsHold ==
    /\ CredentialTypeOK /\ AttestedScopeIsTrue /\ HandedIsFit /\ ScopeHidesCredential
    /\ DomainsApart

\* HybridCoordinator.run and the profile it is built for: escalations stay within
\* what was allowed, and lanes are there, and can be switched off, as activated.
HybridHolds == EscalationContained /\ RollbackAlwaysWorks

\* RunbookEngine.invoke: one run for each key, and none without the approval its
\* manifest asks for.
RunbooksHold == KeyRunsOnce /\ MutationsApproved

\* GitHubMutationExecutor.execute: what is sent was approved, and what was
\* applied can be found again.
CallsHold == CallTypeOK /\ SentAsApproved /\ CallsAccounted

\* BatchScheduler.run: capacity comes back on every path, and what a caller may
\* run again was not handed to the executor.
BatchesAccounted == BatchTypeOK /\ CapacityReturns /\ NotStartedIsTrue
=============================================================================
