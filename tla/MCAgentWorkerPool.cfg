SPECIFICATION FairSpec
CONSTANTS
    p1 = p1
    p2 = p2
    o1 = o1
    o2 = o2
    None = None
    Path <- MCPath
    Op <- MCOp
    MaxWorkers = 1
    MaxSpawns = 3
    MaxCrashes = 1
INVARIANT TypeOK
INVARIANT NoWorkerIsLost
INVARIANT EvictionIsSafe
INVARIANT CapFollowsDemand
PROPERTY EveryOpSettles
PROPERTY ClosedWorkersDie
CHECK_DEADLOCK FALSE
