CONSTANTS
    s1 = s1
    s2 = s2
    s3 = s3
    r1 = r1
    r2 = r2
    k1 = k1
    Nil = Nil
    Server = {s1, s2}
    Candidacy <- Anyone
    Replica = {s1, s2}
    Request = {r1, r2}
    Key = {k1}
    ReqKind <- PutDelete
    ReqKey <- OneKey
    MaxApplyLag = 1
    MaxTerm = 1
    MaxBeats = 1
    MaxFails = 0
    MaxCrashes = 1
SPECIFICATION CrashSpec
SYMMETRY PairAlike
INVARIANTS
    TypeOK
    StoreIsLog
    AnsweredKept

    
CHECK_DEADLOCK FALSE
