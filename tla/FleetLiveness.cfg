SPECIFICATION FairSpec
CONSTANTS
    a1 = a1
    a2 = a2
    known = known
    second = second
    stray = stray
    north = north
    south = south
    Decoys <- TwoExpected
    Expected <- TwoExpected
    Sites <- MCSites
    Unknown = Unknown
    Inventory <- InventoryOfTwo
    Reported <- ReportedOfTwo
    Apis <- OneApi
    Worker = Worker
    NoSession = NoSession
    Degraded = 1
    Silent = 2
    Kinds = {"heartbeat", "event", "fleet"}
    MaxTime = 2
    MaxRequests = 2
    MaxFails = 1
PROPERTIES
    Converges
    RequestsEnd
