SPECIFICATION Spec
CONSTANTS
    a1 = a1
    a2 = a2
    d1 = d1
    d2 = d2
    ip = ip
    Events <- TwoEvents
    Detections <- MCDetections
    Sources <- MCSources
    Emits <- MCEmits
    SourceOf <- MCSourceOf
    InvestigationOf <- MCInvestigationOf
    Apis <- TwoApis
    Worker = Worker
    NoSession = NoSession
    NoEvent = NoEvent
    ApiLimit = 1
    WorkerLimit = 2
    MaxRequests = 2
    MaxFails = 1
SYMMETRY Symmetry
INVARIANT OccurrencesAreObservations
