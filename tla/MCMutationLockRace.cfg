SPECIFICATION ExecSpec
CONSTANTS
    k1 = k1  k2 = k2  ref1 = ref1  NoKey = NoKey
    e1 = e1  e2 = e2  e3 = e3  a1 = a1  a2 = a2  a3 = a3
    Key <- MCKey
    LockKey <- MCLockKey
    LockOf <- MCLockOf
    Approval <- OwnApproval
    Execution <- MCExecution
    KeyOf <- OwnKeyOf
    ApprovalOf <- OwnApprovalOf
    Binds <- OwnBinds
    LeaseTime = 1
    Retention = 9
    MaxTime = 2
    ApprovalTtl = 9
    CarefulOperator = TRUE
    MaxCrashes = 0
CHECK_DEADLOCK FALSE
INVARIANTS
    NoWriteRace
