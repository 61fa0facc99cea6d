SPECIFICATION FairSpec
CONSTANTS
    Ranks = {0, 1, 2, 3}
    gm_groupNumber = 1
    gm_requiredGroupSize = 3
    Events = {"a"}
    Subs = {}
    SubMsg <- NoMsg
    Pubs = {"p1"}
    PubMsg <- OnePub
    None = None
INVARIANTS
    WorkersReached
PROPERTIES
    StartupEnds
    BroadcastEnds
