SPECIFICATION FairSpec
CONSTANTS
    a1 = a1
    a2 = a2
    d1 = d1
    d2 = d2
    ip = ip
    Events <- ThreeEvents
    Detections <- MCDetections
    Sources <- MCSources
    Emits <- MCEmitsQuiet
    SourceOf <- MCSourceOf
    InvestigationOf <- MCInvestigationOf
    Apis <- OneApi
    Worker = Worker
    NoSession = NoSession
    NoEvent = NoEvent
    ApiLimit = 2
    WorkerLimit = 2
    MaxRequests = 3
    MaxFails = 1
PROPERTIES
    EventuallyProcessed
    RequestsEnd
