SPECIFICATION Spec
CONSTANTS
    A = A  B = B  C = C  F = F
    Consensus = {A, B, C}
    Rank <- ById
    Floating = {F}
    Setups <- TwoSetups
    Short = {3, 6, 12, 23, 24, 29}
    Window = 2
    TTL = 1
    MinImprovement = 1
    Confirmations = 2
    Cooldown = 2
    MaxTime = 2
    MaxTerm = 3
    MaxRequests = 2
    MaxRounds = 2
    Cuts = {{}, {C}}
    MayLead = {B}
    Load <- SomeLoad
INVARIANTS PlacementTypeOK LatenciesAreMeasured RecommendationIsCheapest 
PROPERTIES MovesAreSpaced
CHECK_DEADLOCK FALSE
