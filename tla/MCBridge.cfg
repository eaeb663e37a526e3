SPECIFICATION ProcessSpec
CONSTANTS
    p1 = p1  p2 = p2  s1 = s1  s2 = s2  n1 = n1  n2 = n2  x = x
    k1 = k1  f1 = f1  f2 = f2  d1 = d1  d2 = d2
    t1 = t1  t2 = t2  t3 = t3  tk1 = tk1  tk2 = tk2
    Call <- MCCall  Submit = {s1, s2, n2, x}  Together <- MCTogether
    Key = {k1}  KeyOf <- MCKeyOf  NoKey = NoKey
    Fingerprint = {f1, f2}  FingerprintOf <- MCFingerprintOf
    Digest = {d1, d2}  DigestOf <- MCDigestOf
    DecisionOf <- MCDecisionOf
    StopsRun = {p2}  NoRun = NoRun  MaxRetries = 1
    Waiter = {w1, w2}  Connected = {w1}
    FailureThreshold = 1  HalfOpenMax = 1  SuccessThreshold = 2  MaxAttempts = 2  MaxQueue = 1
    Task = {t1, t2, t3}  TaskKey = {tk1, tk2}  TaskKeyOf <- MCTaskKeyOf  NoTask = NoTask
    Stubborn = {t3}
    MaxSequence = 3
INVARIANTS OneRunPerApproval AnswersHold TerminalIsTrue NoEarlyReturn
PROPERTIES MappingKept EveryoneReturns TrackMovesForward 
CHECK_DEADLOCK FALSE
