SPECIFICATION FairSpec
CONSTANTS
    Tasks = {t1, t2, t3}
    Workers = {w1, w2}
    Destructor = Destructor
    None = None
INVARIANTS
    NoLostWakeup
    AllRanWhenJoined
PROPERTIES
    ImplementsPool
    AcceptedRuns
    DestructionEnds
