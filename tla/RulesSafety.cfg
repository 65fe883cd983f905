SPECIFICATION Spec
CONSTANTS
    ip = ip
    unknown = unknown
    d1 = d1
    d2 = d2
    d3 = d3
    home = home
    admin = admin
    env = env
    u1 = u1
    u2 = u2
    r1 = r1
    r2 = r2
    Events <- MCEvents
    Sources <- MCSources
    Decoys <- MCDecoys
    Paths <- MCPaths
    Users <- MCUsers
    Requests <- MCRequests
    Attr <- MCAttr
    Sensitive <- MCSensitive
    Unknown = unknown
    NoUser = NoUser
    Window = 3
    WideWindow = 3
    Limits <- MCLimits
    Verdicts <- MCVerdicts
    MaxUpdates = 1
INVARIANTS
    TypeOK
    InOrderExact
    NoFalseDetections
    InvestigationsAgree
PROPERTIES
    VerdictsKept
    BlocksFollowVerdicts
CHECK_DEADLOCK FALSE
