SPECIFICATION FairSpec
CONSTANTS
    Procs = {"p1", "p2"}
    MayStop = {"p2"}
    Servers = {"s1", "s2", "s3"}
    ServerGroup <- GroupOf
    Coordinators = {"s2", "s3"}
    gm_groupNumber = 2
    Events = {0, 1}
    MaxCalls <- Lookups
    None = None
INVARIANTS
    LockExclusive
    FoundServer
    FdBounded
PROPERTY
    LookupEnds
