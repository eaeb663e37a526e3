SPECIFICATION Spec
CONSTANTS
    first = first  again = again  retry = retry  read = read
    id1 = id1  id2 = id2  id3 = id3  update = update  fetch = fetch
    k1 = k1  a1 = a1  a2 = a2
    NoCall = NoCall  NoKey = NoKey  NoApproval = NoApproval
    Call <- MCCall
    RequestId = {id1, id2, id3}
    IdOf <- MCIdOf
    Capability = {update, fetch}
    CapOf <- MCCapOf
    Write = {update}
    Key = {k1}
    KeyOf <- MCKeyOf
    KeyRequired = {update}
    Approval = {a1, a2}
    ApprovalOf <- MCApprovalOf
    NeedsApproval = {update}
    GrantedTo <- MCGrantedTo
CHECK_DEADLOCK FALSE
INVARIANTS
    KeyPerformsOnce
