SPECIFICATION V2Spec
CONSTANTS
    h1 = h1  h2 = h2  h3 = h3
    a1 = a1  a2 = a2  a3 = a3
    g1 = g1  g2 = g2  g3 = g3
    ra = ra  rb = rb  rx = rx
    b1 = b1  b2 = b2  b3 = b3
    s1 = s1  s2 = s2  s3 = s3
    i1 = i1  i2 = i2  i3 = i3  k1 = k1
    Key = {h1, h2, h3}  LockKey = {"pr", "other"}  LockOf <- MCLockOf  NoKey = NoKey
    LeaseTime = 1  Retention = 1  MaxTime = 3  MergeTime = 1
    Attempt = {a1, a2, a3}  Pin <- MCPin  MergeGrant <- MCMergeGrant  GrantPin <- MCGrantPin
    Permitted = {a1, a2, a3}  Observed <- MCObserved  MergeAsked <- MCMergeAsked  MergePolicy <- MCMergePolicy  NoSha = NoSha
    Repo = {ra, rb}  Foreign = rx  Public = {rb}  ProviderType = "app"  Intended <- MCIntended  Granted <- MCIntended
    NotProbed = NotProbed  PolicyAllows = TRUE
    HandMade <- MCHandMade  Declarations <- MCDeclarations
    ReadTool <- MCReadTool  Canaried <- MCCanaried  CanaryEnabled = TRUE
    Batch = {b1, b2, b3}  Step = {s1, s2, s3}  Allowed <- MCAllowed  Mutating <- MCMutating
    FailFast = {b1, b2}  DryRun = {b3}  Requested <- MCRequested  Limit = 2  MaxParallelism = 2
    PlanDocument <- MCPlanDocument  Contract <- MCContract  Projected = {"get", "put"}
    Scope = {"in"}  Answers <- MCAnswers  MaxDepth = 5  MaxFanout = 2  MaxWidth = 4
    MaxMutatingWidth = 1  StringOrder <- MCStringOrder
    Manifest <- MCManifest  Invocation = {i1, i2, i3}  Asks <- MCAsks
    Authorized = {"alice"}  Capabilities = {"read"}  Compensations = {"u"}  Unknown = Unknown
    Intent <- MCIntent  Proposal <- MCProposal  ReadyState <- MCReadyState
    WriteCapability = {"write", "down"}  BatchMax = 2  DagMax = 3  DagDepth = 2
    MaxEscalations = 2  TokenBudget = 3  NothingAsked = NothingAsked
    Caller = {"branch", "pr", "again", "mail", "ready", "merge", "labels"}
    Asked <- MCAsked  Grants <- MCGrants
    NoCommit = "gone"  InitialRefs <- MCInitialRefs  MaxMoves = 1  RefName = {"main", "new"}  CommitId = {"s1", "s2"}
    RepoName = {"o", "r"}  InScope <- MCScope  CapabilityStates <- MCStates
    Manifests <- MCManifests  ProviderAllowList = {"github", "jira"}  KnownTools = {"get", "put"}
    CredentialRecords <- MCCredentialRecords  ContractVersion = "1"  MaxHandles = 2
    Budgets = {0, 1, 2}  BudgetCeiling = 1  NoProfile = NoProfile
    Opaque = {"alice"}  Identifier = {"alice", "a@b"}
INVARIANTS
    ApprovalVoidOnEscalation
CHECK_DEADLOCK FALSE
