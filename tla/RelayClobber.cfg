SPECIFICATION Spec
CONSTANTS
    e1 = e1
    e2 = e2
    h1 = h1
    t1 = t1
    t2 = t2
    Events <- TwoEvents
    Heartbeats <- NoHeartbeat
    Threads <- TwoThreads
    MaxSpool = 2
    Torn = Torn
    Free = Free
    Replayer = Replayer
    None = None
    MaxPosts = 1
    MaxFaults = 3
    MaxCrashes = 0
INVARIANT StoresAndForwards
