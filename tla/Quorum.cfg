CONSTANTS
    s1 = s1
    s2 = s2
    s3 = s3
    r1 = r1
    r2 = r2
    k1 = k1
    Nil = Nil
    Server = {s1, s2, s3}
    Candidacy <- OnlyFirst
    Replica = {s1, s2, s3}
    Request = {r1}
    Key = {k1}
    ReqKind <- OnePut
    ReqKey <- OneKey
    MaxApplyLag = 1
    MaxTerm = 1
    MaxBeats = 1
    MaxFails = 0
    MaxCrashes = 0
SPECIFICATION Spec
SYMMETRY FollowersAlike
INVARIANTS
    FollowsLeader
    CommittedOnMajority
    SteadyInv
PROPERTIES
    RefinesStateMachine
CHECK_DEADLOCK FALSE
