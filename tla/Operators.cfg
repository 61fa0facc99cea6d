SPECIFICATION Spec
CONSTANTS
    MaxCoord = 2
    overLoadThreshold = 2
    MaxServers = 4
    MaxNumber = 6
INVARIANTS
    MatchIsOverlap
    PlanIsOneSource
    PlanEvens
