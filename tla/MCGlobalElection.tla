-------------------------- MODULE MCGlobalElection --------------------------
(* Small instances of GlobalElection for TLC.                              *)
EXTENDS GlobalElection, TLC

CONSTANTS a1, a2, b1, c1, A, B, C

TwoOneOne == (a1 :> A) @@ (a2 :> A) @@ (b1 :> B) @@ (c1 :> C)
OneEach == (a1 :> A) @@ (b1 :> B) @@ (c1 :> C)
TwoDomains == (a1 :> A) @@ (a2 :> A) @@ (b1 :> B)
FirstOfEach == [n \in Node |-> IF n = a2 THEN 0 ELSE 1]
SecondOfA == [n \in Node |-> IF n = a2 THEN 2 ELSE 1]
OnceAndTwice == [n \in Node |-> IF n = a1 THEN 1 ELSE IF n = b1 THEN 2 ELSE 0]
OthersOnce == [n \in Node |-> IF DomainOf[n] = A THEN 0 ELSE 1]
EmptyLog == [term |-> 0, index |-> 0]
EmptyLogs == {EmptyLog}

\* A state every boot without a lost message reaches: a1, b1 and c1 lead their domains
\* in term 1, everybody knows it, and no global campaign has begun.
Leading == [n \in Node |-> [node |-> IF n = a2 THEN a1 ELSE n, term |-> 1]]
Booted ==
    /\ state = [n \in Node |-> [DomainTerm |-> 1, DomainVotedFor |-> Leading[n].node,
                                DomainLeader |-> Leading[n]]]
    /\ disk = state
    /\ domainRole = [n \in Node |-> IF Leading[n].node = n THEN "Leader" ELSE "Follower"]
    /\ domainLeaders = [n \in Node |-> [d \in Domain |->
                          [node |-> CHOOSE m \in Members(d) : m # a2, term |-> 1]]]
    /\ campaign = [n \in Node |-> Idle]
    /\ lastLog = [n \in Node |-> EmptyLog]
    /\ voteRequests = {[candidate |-> n, term |-> 1, log |-> EmptyLog] : n \in Node \ {a2}}
    /\ voteGrants = {[voter |-> n, candidate |-> a1, term |-> 1] : n \in Node \cap {a2}}
    /\ higherTerms = {}
    /\ ready = {Leading[n] : n \in Node}
    /\ gstate = [n \in Node |-> [GlobalTerm |-> 0, GlobalVotedFor |-> NoLeader]]
    /\ gdisk = gstate
    /\ globalRole = [n \in Node |-> "Follower"]
    /\ globalLeader = [n \in Node |-> NoGlobalLeader]
    /\ stage = [n \in Node |-> "GlobalElecting"]
    /\ globalCampaign = [n \in Node |-> NoCampaign]
    /\ globalRequests = {} /\ globalGrants = {} /\ globalHigher = {} /\ globalHeartbeats = {}
    /\ elected = {}

\* Domains of one node may be exchanged together with their nodes.
Moves(ns) ==
    LET home == [d \in {OneEach[n] : n \in ns} |-> CHOOSE n \in ns : OneEach[n] = d]
    IN  {p @@ [d \in DOMAIN home |-> OneEach[p[home[d]]]] : p \in Permutations(ns)}
OtherDomainsMove == Moves({b1, c1})

\* No action reads the stage of a node to decide anything but its next stage, so states
\* that differ only in it are one state for the properties about votes.
WithoutStage == <<vars, gstate, gdisk, globalRole, globalLeader, globalCampaign,
                  globalWire, elected>>

BootedSpec == Booted /\ [][GlobalNext]_allVars
=============================================================================
