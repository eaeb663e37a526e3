SPECIFICATION FairSpec
CONSTANTS
    e1 = e1  e2 = e2  NoEngine = NoEngine
    a = a  b = b  c = c  repo = repo  NoResource = NoResource
    Engine = {e1, e2}
    Node <- MCNode
    Order <- MCOrder
    Ranked <- ForkRanked
    DependsOn <- ForkDependsOn
    BindsTo <- ForkBindsTo
    Mutating = {a, b}
    Transform = {}
    Compensable = {a}
    Deniable = {}
    ResourceOf <- MCResourceOf
    OnFailure <- Letters
    FailFast = TRUE
    Rollback = TRUE
    MaxCalls = 2
    Parallelism = 2
CHECK_DEADLOCK FALSE
INVARIANTS
    EffectsAccounted
    ResourceSerial
PROPERTIES
    RunsEnd
