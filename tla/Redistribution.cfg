SPECIFICATION FairSpec
CONSTANTS
    None = None
    overLoadThreshold = 1
    Servers = {1, 2, 3}
    Coordinators = {1, 2}
    FreeServers = {3}
    Home <- HomeOf
    Events = {"a"}
    Clients = {1, 2, 3, 4, 5, 6, 7}
    EventOf <- OneEvent
    Settled <- SettledAt
INVARIANTS
    
    
    MovesDiff
    ClaimedOnce
    RecordCurrent
PROPERTY
    CheckEnds
