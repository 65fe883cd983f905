SPECIFICATION Spec
CONSTANTS
    e1 = e1
    e2 = e2
    h1 = h1
    t1 = t1
    t2 = t2
    Events <- TwoEvents
    Heartbeats <- OneHeartbeat
    Threads <- TwoThreads
    MaxSpool = 1
    Torn = Torn
    Free = Free
    Replayer = Replayer
    None = None
    MaxPosts = 2
    MaxFaults = 3
    MaxCrashes = 1
SYMMETRY Symmetry
INVARIANTS
    TypeOK
    NoLostUpdate
    SpoolBounded
    KindsApart
    Accounted
PROPERTY Promise
