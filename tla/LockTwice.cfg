CONSTANTS
    s1 = s1
    s2 = s2
    s3 = s3
    r1 = r1
    r2 = r2
    k1 = k1
    Nil = Nil
    Server = {s1, s2}
    Candidacy <- OnlyFirst
    Replica = {s1, s2}
    Request = {r1, r2}
    Key = {k1}
    ReqKind <- TwoLocks
    ReqKey <- OneKey
    MaxApplyLag = 1
    MaxTerm = 1
    MaxBeats = Nil
    MaxFails = 0
    MaxCrashes = 0
SPECIFICATION Spec
INVARIANTS
    LockExclusive
CHECK_DEADLOCK FALSE
