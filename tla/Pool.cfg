CONSTANTS
    w1 = w1
    w2 = w2
    w3 = w3
    t1 = t1
    t2 = t2
    Nil = Nil
    Worker = {w1, w2}
    Task = {t1, t2}
    Delay <- Delays
    MaxTimers = 2
    MaxTime = 2
    MaxStarts = 1
SPECIFICATION FairSpec
INVARIANTS
    PoolTypeOK
    WorkWatched
    StopDrains
PROPERTIES
    RefinesTaskLife
    EventuallyBegun
    StopReturns
CHECK_DEADLOCK FALSE
