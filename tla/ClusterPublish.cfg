SPECIFICATION Spec
CONSTANTS
    Ranks = {0, 1, 2, 3}
    gm_groupNumber = 2
    gm_requiredGroupSize = 2
    Events = {"a"}
    Subs = {"s1"}
    SubMsg <- OneSub
    Pubs = {"p1"}
    PubMsg <- OnePub
    None = None
INVARIANTS
    HandledOnce
    SubscribersReached
