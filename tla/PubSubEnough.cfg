SPECIFICATION Spec
CONSTANTS
    Events = {"a", "b"}
    Clients = {"c1", "c2"}
    SubReqs = {"s1"}
    SubMsg <- RaceSubs
    Preset = {"s1"}
    PubReqs = {"p1", "p2"}
    PubMsg <- RacePubs
    Workers = {w1, w2}
    MaxBatch = 2
    None = None
INVARIANTS
    EnoughIsTriggered
SYMMETRY Symmetry
