SPECIFICATION LiveSpec
CONSTANTS
    a1 = a1  a2 = a2  a3 = a3  b1 = b1  A = A  B = B
    Node = {a1, a2, b1}
    Domain = {A, B}
    DomainOf <- TwoAndOne
    None = None
    Summaries <- TwoLogs
    FailingDisk = {a1}
    MayRestart = {a1, a2, b1}
    MaxDomainTerm <- TwoTermsA
INVARIANTS TypeOK ElectionInv OneDomainLeaderPerTerm GrantsAreDurable RecordedLeadersWereElected
PROPERTIES DurableVoteIsFinal ForeignViewNeverGoesBack StableLeaderIsKnown
