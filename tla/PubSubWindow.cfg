SPECIFICATION Spec
CONSTANTS
    Events = {"a", "b"}
    Clients = {"c1", "c2"}
    SubReqs = {"s1", "s2", "s3"}
    SubMsg <- WindowSubs
    Preset = {"s1"}
    PubReqs = {"p1", "p2"}
    PubMsg <- WindowPubs
    Workers = {w1, w2}
    MaxBatch = 2
    None = None
INVARIANTS
    PublishReachesSubscribers
SYMMETRY Symmetry
