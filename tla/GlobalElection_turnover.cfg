SPECIFICATION BootedSpec
CONSTANTS
    a1 = a1  a2 = a2  b1 = b1  c1 = c1  A = A  B = B  C = C
    Node = {a1, a2, b1, c1}
    Domain = {A, B, C}
    DomainOf <- TwoOneOne
    None = None
    Summaries <- EmptyLogs
    FailingDisk = {}
    MayRestart = {}
    MaxDomainTerm <- SecondOfA
    MaxGlobalTerm <- OthersOnce
INVARIANTS VotesAmongDomainLeaders RivalsShareATurnedOverDomain
SYMMETRY OtherDomainsMove
VIEW WithoutStage
