CONSTANTS
    s1 = s1
    s2 = s2
    s3 = s3
    r1 = r1
    r2 = r2
    r3 = r3
    r4 = r4
    k1 = k1
    Nil = Nil
    Server = {s1, s2, s3}
    Candidacy <- FirstOnly
    Replica = {s2, s3}
    Request = {r1, r2, r3}
    Key = {k1}
    ReqKind <- Puts
    ReqKey <- OneKey
    MaxApplyLag = 3
    MaxTerm = 1
    MaxBeats = 1
    MaxFails = 0
    MaxCrashes = 0
    MaxRounds = 2
    MaxLate = 1
SPECIFICATION AgedSpec
INVARIANTS
    RemovedIsApplied
    RemovedNotNeeded
CHECK_DEADLOCK FALSE
