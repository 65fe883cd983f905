SPECIFICATION FairSpec
CONSTANTS
    e1 = e1
    e2 = e2
    h1 = h1
    t1 = t1
    t2 = t2
    Events <- OneEvent
    Heartbeats <- OneHeartbeat
    Threads <- TwoThreads
    MaxSpool = 2
    Torn = Torn
    Free = Free
    Replayer = Replayer
    None = None
    MaxPosts = 2
    MaxFaults = 3
    MaxCrashes = 1
PROPERTIES
    Settles
    RequestsAnswered
