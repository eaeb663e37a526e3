SPECIFICATION OperationsSpec
CONSTANTS
    pl1 = pl1  g1 = g1  g2 = g2  sg1 = sg1  sg2 = sg2  ck = ck
    r1 = r1  r2 = r2  f1 = f1  ka = ka  kb = kb
    Tool <- MCTool
    PolicyDocument <- MCDocs
    BuiltinPolicy <- MCBuiltin
    NoDocument = NoDocument  BrokenDocument = BrokenDocument  NotCached = NotCached
    LockKey = {k1}
    Owner = {o1, o2, o3}
    Plan = {pl1}  WellFormed = {pl1}  NoPlan = NoPlan
    Grant = {g1, g2}  GrantPlan <- MCGrantPlan  Bound = {g1}  NoGrant = NoGrant
    PlanCall = {c1, c2}
    Saga = {sg1, sg2}  SagaSteps <- MCSagaSteps
    Snapshot = {ck}
    EnvFile = {f1}  SecretKey = {ka, kb}
    Rotation = {r1, r2}  KeyOfRotation <- MCKeyOfRotation  FilesOfRotation <- MCFiles
    NoRotation = NoRotation
    DbWrite = {w1, w2}  Copy = {b1}  Retention = 0  MaxBundles = 2  NoDb = NoDb
    Indicator = {"session"}  MaxWrites = 1
    SamplePlan <- MCSamplePlan  Answer <- MCAnswer  Fact = {"good", "unhealthy", "redirected"}
    Run = {1, 2}  Commit = {1, 2}  MaxChanges = 1  NoValue = NoValue  None = None
    Migrator = {m1, m2}  NoMigrator = NoMigrator  Script <- MCScript
    kx = kx  ky = ky  kz = kz  id1 = id1  id2 = id2
    Material = {kx, ky, kz}  TooShort = {kz}  NoMaterial = NoMaterial
    SigningSettings <- MCSigningSettings  Malformed = Malformed  NotSet = NotSet
    MaxGrace = 1  MaxToday = 1  MaxReplaced = 2
    Claim = "done"  Forged = {"forged"}  NoManifest = NoManifest
INVARIANTS VerdictsHold StateDbHolds OldValueKept AcceptedIsTrue PreviousContentKept LogsBelong
PROPERTIES DelegatedOnce RotationsKeepOthers
CHECK_DEADLOCK FALSE
