CONSTANTS
    s1 = s1
    s2 = s2
    put = put
    lock = lock
    get = get
    k1 = k1
    Nil = Nil
    Server = {s1, s2}
    Candidacy <- OnlyFirst
    Replica = {s1, s2}
    Request <- Requests
    Key = {k1}
    ReqKind <- RequestKinds
    ReqKey <- RequestKeys
    MaxApplyLag = 1
    MaxTerm = 1
    MaxBeats = 1
    MaxFails = 0
    MaxCrashes = 0
    Members <- Reversed
    SdkCall = {put, lock, get}
    SdkKind <- Kinds
    SdkKey <- Keys
    Attempt <- Attempts
SPECIFICATION SdkSpec
INVARIANTS
    ReadsLatest
    SdkInv
CHECK_DEADLOCK FALSE
