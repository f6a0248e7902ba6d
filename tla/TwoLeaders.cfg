CONSTANTS
    s1 = s1
    s2 = s2
    s3 = s3
    r1 = r1
    r2 = r2
    k1 = k1
    Nil = Nil
    Server = {s1, s2, s3}
    Candidacy <- Anyone
    Replica = {s1, s2, s3}
    Request = {}
    Key = {k1}
    ReqKind <- NoRequest
    ReqKey <- OneKey
    MaxApplyLag = 1
    MaxTerm = 1
    MaxBeats = Nil
    MaxFails = 0
    MaxCrashes = 1
SPECIFICATION CrashSpec
SYMMETRY AllAlike
INVARIANTS
    ElectionSafety
CHECK_DEADLOCK FALSE
