SPECIFICATION Spec
CONSTANTS
    e1 = e1  e2 = e2  NoEngine = NoEngine
    a = a  b = b  c = c  repo = repo  NoResource = NoResource
    Engine = {e1, e2}
    Node <- MCNode
    Order <- MCOrder
    Ranked <- ChainRanked
    DependsOn <- ChainDependsOn
    BindsTo <- ChainBindsTo
    Mutating = {a, b}
    Transform = {c}
    Compensable = {a, b}
    Deniable = {b}
    ResourceOf <- MCResourceOf
    OnFailure <- Mixed
    FailFast = FALSE
    Rollback = TRUE
    MaxCalls = 2
    Parallelism = 1
CHECK_DEADLOCK FALSE
PROPERTIES
    EffectsInPlace
    OnlyNewestWrites
