SPECIFICATION Spec
CONSTANTS
    a1 = a1
    a2 = a2
    known = known
    second = second
    stray = stray
    north = north
    south = south
    Decoys <- MCDecoys
    Expected <- MCExpected
    Sites <- MCSites
    Unknown = Unknown
    Inventory <- MCInventory
    Reported <- MCReported
    Apis <- TwoApis
    Worker = Worker
    NoSession = NoSession
    Degraded = 1
    Silent = 2
    Kinds <- RequestKinds
    MaxTime = 3
    MaxRequests = 2
    MaxFails = 0
SYMMETRY Symmetry
INVARIANTS
    TypeOK
    OneDeploymentEach
    BeatsKept
PROPERTIES
    ReportExact
    SitesKept
