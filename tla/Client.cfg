SPECIFICATION Spec
CONSTANTS
    n1 = n1  n2 = n2
    Node = {n1, n2}
    None = None
    Target = n1
    MayRestart = {n2}
    MayPause = {n1}
    MaxTerm = 2
    MaxCommits = 2
    MaxCalls = 2
INVARIANTS ClientTypeOK  
PROPERTIES WaitersAreReleased
CHECK_DEADLOCK FALSE
