SPECIFICATION Spec
CONSTANTS
    x = x  y = y  k = k  A = A  B = B  C = C
    Request = {x, y}
    Key = {k}
    KeyOf <- Keys
    None = None
    Domain = {A, B, C}
    compactionThreshold = 0
    compactionRetain = 0
    OriginOf <- NearC
    FastReturn = FALSE
    MayRestart = {}
    Takeover = FALSE
    DeposedReach = FALSE
    Patience = FALSE
    Candidate = {A, B}
    MaxTerm = 2
    MaxIndex = 1
INVARIANTS ReadsSeeAcknowledged
SYMMETRY Interchangeable
