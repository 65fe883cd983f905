SPECIFICATION FairSpec
CONSTANTS
    r1 = r1
    r2 = r2
    r3 = r3
    analyst = analyst
    Analysts <- MCAnalysts
    Apis <- MCApis
    Fleet = Fleet
    NoSession = NoSession
    PoolSize = 2
    Kinds = {"evidence", "summary", "list", "download", "heartbeat"}
    MaxRequests = 3
    MaxFaults = 1
INVARIANTS
    TypeOK
    ListedIsDownloadable
    ExportsAccounted
    LoginsNeverWaitForStore
    OneUserEach
PROPERTY RequestsEnd
CHECK_DEADLOCK FALSE
