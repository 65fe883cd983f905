SPECIFICATION FairSpec
CONSTANTS
    asking = asking
    waiting = waiting
    garbling = garbling
    Clients <- MCClients
    Manner <- MCManner
    Probe = Probe
    Stale = Stale
    None = None
    Threshold = 2
    Attempts = 2
    Backlog = 2
    MaxFaults = 1
INVARIANTS
    TypeOK
    NoOrphans
    EventsAccounted
PROPERTIES
    StartsOnFreeName
    HeartbeatsGoOn
