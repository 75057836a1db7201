SPECIFICATION Spec
CONSTANTS
    x = x  y = y  k = k  A = A  B = B  C = C
    Request = {x, y}
    Key = {k}
    KeyOf <- Keys
    None = None
    Domain = {A, B, C}
    compactionThreshold = 0
    compactionRetain = 0
    OriginOf <- NearC
    FastReturn = TRUE
    MayRestart = {C}
    Takeover = TRUE
    DeposedReach = FALSE
    Patience = TRUE
    Candidate = {A, B}
    MaxTerm = 2
    MaxIndex = 1
INVARIANTS ReplicationTypeOK   
SYMMETRY Interchangeable
