CONSTANTS
    s1 = s1
    s2 = s2
    s3 = s3
    r1 = r1
    r2 = r2
    k1 = k1
    Nil = Nil
    Server = {s1, s2, s3}
    Candidacy <- Anyone
    Replica = {s1, s2, s3}
    Request = {}
    Key = {k1}
    ReqKind <- NoRequest
    ReqKey <- OneKey
    MaxApplyLag = 1
    MaxTerm = 2
    MaxBeats = 1
    MaxFails = 0
    MaxCrashes = 0
SPECIFICATION ElectionSpec
SYMMETRY AllAlike
INVARIANTS
    ElectionSafety
    LeaderHasMajority
    ElectionInv
PROPERTIES
    TermsGrow
CHECK_DEADLOCK FALSE
