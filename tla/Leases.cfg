SPECIFICATION BootedSpec
CONSTANTS
    A = A  B = B  C = C
    Domain = {A, B, C}
    None = None
    Lease = 1
    Sticky = 2
    Racing = {C}
    MayMove = {A}
    MaxTerm = 2
INVARIANTS LeasesTypeOK   
CHECK_DEADLOCK FALSE
