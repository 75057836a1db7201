SPECIFICATION GlobalLiveSpec
CONSTANTS
    a1 = a1  a2 = a2  b1 = b1  c1 = c1  A = A  B = B  C = C
    Node = {a1, a2, b1}
    Domain = {A, B}
    DomainOf <- TwoDomains
    None = None
    Summaries <- EmptyLogs
    FailingDisk = {b1}
    MayRestart = {b1}
    MaxDomainTerm <- FirstOfEach
    MaxGlobalTerm <- OnceAndTwice
INVARIANTS GlobalTypeOK GlobalGrantsAreDurable GlobalElectionInv GlobalLeaderIsCurrent
PROPERTIES DomainLayer StableGlobalLeaderServes
