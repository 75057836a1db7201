--------------------------- MODULE DomainElection ---------------------------
(***************************************************************************)
(* The domain layer of CD-Raft: every domain of nodes elects its own       *)
(* Domain Leader with Raft votes, and elected leaders announce themselves  *)
(* to every node of every domain (internal/cdraft/rpc_node.go and          *)
(* transitions.go).                                                        *)
(*                                                                         *)
(* One node is one process with one mutex; an action is one critical       *)
(* section.  An RPC is a record put on the wire by its sender; it is never *)
(* removed, so it may be delayed, reordered, handled twice (callNode       *)
(* retries) or never handled at all.                                       *)
(***************************************************************************)
EXTENDS Integers, FiniteSets

CONSTANTS
    Node,           \* all nodes of the configuration
    Domain,         \* the consensus domains
    DomainOf,       \* DomainOf[n]: the domain code of node n
    None,           \* the empty node id
    Summaries,      \* the log summaries a node may have (replication's state)
    FailingDisk,    \* the nodes whose store.Save may return an error
    MayRestart,     \* the nodes that may crash and come back
    MaxDomainTerm   \* bound: the highest term a campaign of each node may reach

LogSummary == [term : Nat, index : Nat]

\* DomainLeaderIdentity.  Its DomainID is always the domain of its NodeID, so it
\* is not a field of its own; the zero value is the identity of nobody.
NoLeader == [node |-> None, term |-> 0]
Identity == [node : Node, term : Nat \ {0}]
Valid(id) == id.term > 0

Members(d) == {n \in Node : DomainOf[n] = d}
Own(n) == DomainOf[n]

ASSUME ConfigAssumption ==
    /\ IsFiniteSet(Node)
    /\ None \notin Node
    /\ DomainOf \in [Node -> Domain]
    /\ Summaries \subseteq LogSummary
    /\ FailingDisk \subseteq Node
    /\ MayRestart \subseteq Node
    /\ MaxDomainTerm \in [Node -> Nat]

VARIABLES
    state,          \* the domain part of PersistentState, in memory
    disk,           \* the domain part of PersistentState, as last saved
    domainRole,     \* "Follower", "Candidate" or "Leader"
    domainLeaders,  \* each node's map from domains to the leader it knows
    campaign,       \* the running CampaignDomain call: its phase and its term
    lastLog,        \* the summary of each node's log (changed by replication)
    voteRequests,   \* DomainVoteRequests on the wire
    voteGrants,     \* granted DomainVoteResponses on the wire
    higherTerms,    \* responses on the wire that carry a higher domain term
    ready           \* identities announced by DomainHeartbeat and DomainLeaderReady

vars == <<state, disk, domainRole, domainLeaders, campaign, lastLog,
          voteRequests, voteGrants, higherTerms, ready>>
wire == <<voteRequests, voteGrants, higherTerms, ready>>

DomainState == [DomainTerm : Nat, DomainVotedFor : Node \cup {None},
                DomainLeader : Identity \cup {NoLeader}]
Role == {"Follower", "Candidate", "Leader"}
Idle == [phase |-> "idle", term |-> 0]
Campaign == {Idle} \cup [phase : {"voting", "announcing"}, term : Nat \ {0}]

\* The state, the messages and the views have the types of the Go declarations.
TypeOK ==
    /\ state \in [Node -> DomainState]
    /\ disk \in [Node -> DomainState]
    /\ domainRole \in [Node -> Role]
    /\ domainLeaders \in [Node -> [Domain -> Identity \cup {NoLeader}]]
    /\ campaign \in [Node -> Campaign]
    /\ lastLog \in [Node -> Summaries]
    /\ voteRequests \subseteq [candidate : Node, term : Nat \ {0}, log : Summaries]
    /\ voteGrants \subseteq [voter : Node, candidate : Node, term : Nat]
    /\ higherTerms \subseteq [to : Node, term : Nat]
    /\ ready \subseteq Identity

-----------------------------------------------------------------------------
(* Pure parts of types.go and transitions.go.                              *)

\* Mutant: half of the domain is enough.
majority_half(size) == size \div 2

majority(size) == size \div 2 + 1

\* LogSummary.AtLeast: the last term decides, then the index.
AtLeast(l, other) ==
    \/ l.term > other.term
    \/ l.term = other.term /\ l.index >= other.index

transitionStartDomainCampaign(s, candidate) ==
    [DomainTerm |-> s.DomainTerm + 1, DomainVotedFor |-> candidate,
     DomainLeader |-> NoLeader]

\* Mutant: the leader of the older term stays on record.
transitionObserveHigherDomainTerm_keepsLeader(s, term) ==
    IF term > s.DomainTerm
    THEN [s EXCEPT !.DomainTerm = term, !.DomainVotedFor = None]
    ELSE s

transitionObserveHigherDomainTerm(s, term) ==
    IF term > s.DomainTerm
    THEN [DomainTerm |-> term, DomainVotedFor |-> None, DomainLeader |-> NoLeader]
    ELSE s

\* Mutant: a later candidate of the same term gets a second vote.
VoteGranted_twice(s, request, log) ==
    request.term = s.DomainTerm /\ AtLeast(request.log, log)

\* The guard of transitionDomainVote: s has already observed the request's term.
VoteGranted(s, request, log) ==
    /\ request.term = s.DomainTerm
    /\ s.DomainVotedFor \in {None, request.candidate}
    /\ AtLeast(request.log, log)

transitionDomainVote(s, request, log) ==
    LET seen == transitionObserveHigherDomainTerm(s, request.term)
    IN  IF VoteGranted(seen, request, log)
        THEN [seen EXCEPT !.DomainVotedFor = request.candidate]
        ELSE seen

transitionAcceptDomainLeader(s, id) ==
    [transitionObserveHigherDomainTerm(s, id.term) EXCEPT !.DomainLeader = id]

\* Mutant: the winner is recorded with a zero term.
transitionBecomeDomainLeader_zeroTerm(s, id) == [s EXCEPT !.DomainLeader = [id EXCEPT !.term = 0]]

transitionBecomeDomainLeader(s, id) == [s EXCEPT !.DomainLeader = id]

-----------------------------------------------------------------------------
(* persistLocked: the whole state is saved, or Save fails and the store    *)
(* keeps what it had.  A node whose Save failed stops itself some time     *)
(* later; until it does its handlers still run, so stopping is Restart.    *)
SaveResult(n) == IF n \in FailingDisk THEN {"ok", "error"} ELSE {"ok"}

\* Mutant: the store has no field for the vote.
persistLocked_withoutVote(n, s, save) ==
    /\ state' = [state EXCEPT ![n] = s]
    /\ disk' = [disk EXCEPT ![n] = IF save = "ok" THEN [s EXCEPT !.DomainVotedFor = None] ELSE @]

persistLocked(n, s, save) ==
    /\ state' = [state EXCEPT ![n] = s]
    /\ disk' = [disk EXCEPT ![n] = IF save = "ok" THEN s ELSE @]

SetRole(n, r) == domainRole' = [domainRole EXCEPT ![n] = r]
SetView(n, d, id) == domainLeaders' = [domainLeaders EXCEPT ![n][d] = id]

\* Mutant: the caller does not look at the response's term.
ReplyTerm_unread(to, asked, term) == UNCHANGED higherTerms

\* The response carries the responder's term; the caller acts on a higher one.
ReplyTerm(to, asked, term) ==
    higherTerms' = higherTerms \cup
        (IF term > asked THEN {[to |-> to, term |-> term]} ELSE {})

Init ==
    /\ state = [n \in Node |-> [DomainTerm |-> 0, DomainVotedFor |-> None,
                                DomainLeader |-> NoLeader]]
    /\ disk = state
    /\ domainRole = [n \in Node |-> "Follower"]
    /\ domainLeaders = [n \in Node |-> [d \in Domain |-> NoLeader]]
    /\ campaign = [n \in Node |-> Idle]
    /\ lastLog \in [Node -> Summaries]
    /\ voteRequests = {}
    /\ voteGrants = {}
    /\ higherTerms = {}
    /\ ready = {}

-----------------------------------------------------------------------------
(* CampaignDomain.  Its callers (bootstrapLoop, failureDetectorLoop)       *)
(* release the lock between their own test and the call, so their tests    *)
(* guard nothing: even a Domain Leader may start a campaign.               *)
CampaignDomain(n, save) ==
    /\ campaign[n] = Idle
    /\ state[n].DomainTerm < MaxDomainTerm[n]
    /\ LET s == transitionStartDomainCampaign(state[n], n)
       IN  /\ persistLocked(n, s, save)
           /\ campaign' = IF save = "ok"
                          THEN [campaign EXCEPT ![n] =
                                  [phase |-> "voting", term |-> s.DomainTerm]]
                          ELSE campaign
           /\ voteRequests' = voteRequests \cup
                (IF save = "ok"
                 THEN {[candidate |-> n, term |-> s.DomainTerm, log |-> lastLog[n]]}
                 ELSE {})
    /\ SetRole(n, "Candidate")
    /\ UNCHANGED <<domainLeaders, lastLog, voteGrants, higherTerms, ready>>

\* The votes the campaign counts: its own, and one per member whose grant arrived.
Votes(n, term) ==
    {n} \cup {v \in Members(Own(n)) :
                [voter |-> v, candidate |-> n, term |-> term] \in voteGrants}

\* The end of CampaignDomain, with a majority and the term unmoved.  The announcement
\* that follows runs outside the lock, with domainCampaigning still set.
WinDomain(n, save) ==
    /\ campaign[n].phase = "voting"
    /\ Cardinality(Votes(n, campaign[n].term)) >= majority(Cardinality(Members(Own(n))))
    /\ state[n].DomainTerm = campaign[n].term
    /\ LET id == [node |-> n, term |-> campaign[n].term]
       IN  /\ persistLocked(n, transitionBecomeDomainLeader(state[n], id), save)
           /\ SetView(n, Own(n), id)
           /\ ready' = ready \cup {id}
    /\ SetRole(n, "Leader")
    /\ campaign' = [campaign EXCEPT ![n].phase = "announcing"]
    /\ UNCHANGED <<lastLog, voteRequests, voteGrants, higherTerms>>

\* CampaignDomain returns: the announcement is over, or the votes that arrived
\* are too few (any response may be lost), or the term has moved on.
FinishCampaign(n) ==
    /\ \/ campaign[n].phase = "announcing"
       \/ /\ campaign[n].phase = "voting"
          /\ \/ majority(Cardinality(Members(Own(n)))) > 1
             \/ state[n].DomainTerm # campaign[n].term
    /\ campaign' = [campaign EXCEPT ![n] = Idle]
    /\ UNCHANGED <<state, disk, domainRole, domainLeaders, lastLog, wire>>

\* RequestVote: the grant is sent only once the vote is saved.
RequestVote(n, request, save) ==
    /\ n \in Members(Own(request.candidate)) \ {request.candidate}
    /\ LET s == transitionDomainVote(state[n], request, lastLog[n])
           seen == transitionObserveHigherDomainTerm(state[n], request.term)
       IN  /\ persistLocked(n, s, save)
           /\ SetRole(n, IF request.term > state[n].DomainTerm
                         THEN "Follower" ELSE domainRole[n])
           /\ voteGrants' = voteGrants \cup
                (IF VoteGranted(seen, request, lastLog[n]) /\ save = "ok"
                 THEN {[voter |-> n, candidate |-> request.candidate, term |-> request.term]}
                 ELSE {})
           /\ ReplyTerm(request.candidate, request.term, s.DomainTerm)
    /\ UNCHANGED <<domainLeaders, campaign, lastLog, voteRequests, ready>>

\* Heartbeat from a leader of the own domain.
Heartbeat(n, id, save) ==
    /\ n \in Members(Own(id.node)) \ {id.node}
    /\ IF id.term < state[n].DomainTerm
       THEN /\ save = "ok"
            /\ ReplyTerm(id.node, id.term, state[n].DomainTerm)
            /\ UNCHANGED <<state, disk, domainRole, domainLeaders>>
       ELSE /\ persistLocked(n, transitionAcceptDomainLeader(state[n], id), save)
            /\ SetRole(n, "Follower")
            /\ SetView(n, Own(n), id)
            /\ UNCHANGED higherTerms
    /\ UNCHANGED <<campaign, lastLog, voteRequests, voteGrants, ready>>

\* Mutant: the term of the known leader is not compared.
PublishReady_anyTerm(n, id, save) ==
    /\ Own(n) # Own(id.node)
    /\ persistLocked(n, state[n], save)
    /\ SetView(n, Own(id.node), id)
    /\ UNCHANGED <<domainRole, campaign, lastLog, wire>>

\* PublishReady: an announcement, from any domain, of an elected leader.  Its
\* response is not read by the announcing node.
PublishReady(n, id, save) ==
    /\ n # id.node
    /\ domainLeaders[n][Own(id.node)].term <= id.term
    /\ IF Own(n) = Own(id.node)
       THEN /\ id.term >= state[n].DomainTerm
            /\ persistLocked(n, transitionAcceptDomainLeader(state[n], id), save)
            /\ SetRole(n, "Follower")
       ELSE /\ persistLocked(n, state[n], save)
            /\ UNCHANGED domainRole
    /\ SetView(n, Own(id.node), id)
    /\ UNCHANGED <<campaign, lastLog, wire>>

\* observeHigherDomainTerm, run by the goroutine that read the response.
observeHigherDomainTerm(n, term, save) ==
    /\ term > state[n].DomainTerm
    /\ persistLocked(n, transitionObserveHigherDomainTerm(state[n], term), save)
    /\ SetRole(n, "Follower")
    /\ IF domainRole[n] = "Leader" /\ state[n].DomainLeader.node = n
       THEN SetView(n, Own(n), NoLeader)
       ELSE UNCHANGED domainLeaders
    /\ UNCHANGED <<campaign, lastLog, wire>>

\* The tick of failureDetectorLoop that finds the domain deadline expired.
DomainDeadline(n, save) ==
    /\ domainRole[n] # "Leader"
    /\ campaign[n] = Idle
    /\ persistLocked(n, [state[n] EXCEPT !.DomainLeader = NoLeader], save)
    /\ SetView(n, Own(n), NoLeader)
    /\ UNCHANGED <<domainRole, campaign, lastLog, wire>>

\* Any other tick of failureDetectorLoop still saves the state.
Tick(n) ==
    /\ persistLocked(n, state[n], "ok")
    /\ UNCHANGED <<domainRole, domainLeaders, campaign, lastLog, wire>>

\* The process ends (Stop, fail-stop or crash) and NewRPCNode and Start run again:
\* the saved state is loaded, everything else is lost, responses to it too.
Restart(n) ==
    /\ n \in MayRestart
    /\ state' = [state EXCEPT ![n] = disk[n]]
    /\ SetRole(n, "Follower")
    /\ domainLeaders' = [domainLeaders EXCEPT ![n] = [d \in Domain |-> NoLeader]]
    /\ campaign' = [campaign EXCEPT ![n] = Idle]
    /\ higherTerms' = {h \in higherTerms : h.to # n}
    /\ UNCHANGED <<disk, lastLog, voteRequests, voteGrants, ready>>

\* The log of n changes under replication, which is not part of this module.
LogChanges(n) ==
    /\ lastLog' \in {[lastLog EXCEPT ![n] = l] : l \in Summaries}
    /\ UNCHANGED <<state, disk, domainRole, domainLeaders, campaign, wire>>

Next ==
    \E n \in Node :
        \/ \E save \in SaveResult(n) :
            \/ CampaignDomain(n, save)
            \/ WinDomain(n, save)
            \/ \E r \in voteRequests : RequestVote(n, r, save)
            \/ \E id \in ready : Heartbeat(n, id, save) \/ PublishReady(n, id, save)
            \/ \E h \in higherTerms : h.to = n /\ observeHigherDomainTerm(n, h.term, save)
            \/ DomainDeadline(n, save)
        \/ FinishCampaign(n)
        \/ Tick(n)
        \/ Restart(n)
        \/ LogChanges(n)

Spec == Init /\ [][Next]_vars

(* Fairness.  A Domain Leader sends heartbeats every 100 ms (heartbeatLoop) *)
(* and announces itself every 500 ms (discoveryLoop) as long as it leads;   *)
(* a link that is not cut for good delivers one of them, and a response     *)
(* that arrives is handled by the goroutine that waits for it.  Nothing     *)
(* else is assumed: campaigns may never end, votes may all be lost.         *)
Announces(id) == domainRole[id.node] = "Leader" /\ state[id.node].DomainLeader = id

Fairness ==
    \A n, m \in Node :
        /\ \A t \in 1..MaxDomainTerm[m] :
             LET id == [node |-> m, term |-> t]
             IN  /\ WF_vars(Announces(id) /\ Heartbeat(n, id, "ok"))
                 /\ WF_vars(Announces(id) /\ PublishReady(n, id, "ok"))
        /\ WF_vars(\E h \in higherTerms : h.to = n /\ observeHigherDomainTerm(n, h.term, "ok"))

LiveSpec == Spec /\ Fairness

-----------------------------------------------------------------------------
(* What the domain layer promises.                                         *)

\* Election safety: no two nodes of a domain ever win the same domain term, however
\* campaigns, votes, failed saves and restarts interleave (CampaignDomain, RequestVote).
OneDomainLeaderPerTerm ==
    \A i, j \in ready :
        Own(i.node) = Own(j.node) /\ i.term = j.term => i.node = j.node

\* A granted vote survives a crash of the voter: what the store holds still excludes
\* another vote in that term ("votedFor must be durable before we grant").
GrantsAreDurable ==
    \A g \in voteGrants :
        \/ disk[g.voter].DomainTerm > g.term
        \/ /\ disk[g.voter].DomainTerm = g.term
           /\ disk[g.voter].DomainVotedFor = g.candidate

\* Every leader a node has on record, of its own domain or of another, really won that
\* term, and the one in its persistent state is the leader of its current term: late
\* heartbeats and announcements never install a leader of an older term.
RecordedLeadersWereElected ==
    \A n \in Node :
        /\ \A d \in Domain : Valid(domainLeaders[n][d]) =>
             domainLeaders[n][d] \in ready /\ Own(domainLeaders[n][d].node) = d
        /\ Valid(state[n].DomainLeader) =>
             state[n].DomainLeader \in ready /\ state[n].DomainLeader.term = state[n].DomainTerm

\* Once saved, a vote is final and a term never goes back, whatever fails later.
DurableVoteIsFinal ==
    [][\A n \in Node :
         \/ disk'[n].DomainTerm > disk[n].DomainTerm
         \/ /\ disk'[n].DomainTerm = disk[n].DomainTerm
            /\ disk[n].DomainVotedFor # None =>
                 disk'[n].DomainVotedFor = disk[n].DomainVotedFor]_disk

\* A node's record of another domain's leader never goes back to an older term while the
\* process lives, in whatever order announcements arrive (PublishReady).
ForeignViewNeverGoesBack ==
    [][\A n \in Node : \A d \in Domain \ {Own(n)} :
         \/ domainLeaders'[n][d].term >= domainLeaders[n][d].term
         \/ Restart(n)]_vars

\* A Domain Leader that stays in office is, again and again, the leader every node of
\* every domain has on record, even if nodes restart or campaign: it is either heard
\* or told of the higher term that silences it (discoveryLoop, sendHeartbeats).
StableLeaderIsKnown ==
    \A n, m \in Node :
        <>[](domainRole[n] = "Leader") => []<>(domainLeaders[m][Own(n)].node = n)

-----------------------------------------------------------------------------
(* Why election safety holds: the inductive invariant.                     *)

\* Every vote ever cast: the granted ones, and each candidate's own.
Ballots ==
    voteGrants \cup {[voter |-> r.candidate, candidate |-> r.candidate, term |-> r.term] :
                        r \in voteRequests}

\* State s excludes a vote for anybody but b.candidate in term b.term.
Remembers(s, b) ==
    \/ s.DomainTerm > b.term
    \/ s.DomainTerm = b.term /\ s.DomainVotedFor = b.candidate

\* State s is state d, or d after more terms and votes.
Extends(s, d) ==
    \/ s.DomainTerm > d.DomainTerm
    \/ /\ s.DomainTerm = d.DomainTerm
       /\ d.DomainVotedFor # None => s.DomainVotedFor = d.DomainVotedFor

BallotsRemembered ==
    \A b \in Ballots : Remembers(state[b.voter], b) /\ Remembers(disk[b.voter], b)

OneBallotPerTerm ==
    \A b, c \in Ballots : b.voter = c.voter /\ b.term = c.term => b.candidate = c.candidate

CandidatesVoted ==
    \A n \in Node : campaign[n].phase = "voting" =>
        [voter |-> n, candidate |-> n, term |-> campaign[n].term] \in Ballots

BackedByMajority(id) ==
    \E Q \in SUBSET Members(Own(id.node)) :
        /\ Cardinality(Q) >= majority(Cardinality(Members(Own(id.node))))
        /\ \A v \in Q : [voter |-> v, candidate |-> id.node, term |-> id.term] \in Ballots

MemoryAheadOfDisk == \A n \in Node : Extends(state[n], disk[n])

\* Votes are remembered in memory and on disk, so no voter votes twice in a term; every
\* elected leader has a majority of such votes (CampaignDomain, RequestVote, persistLocked).
ElectionInv ==
    /\ BallotsRemembered
    /\ OneBallotPerTerm
    /\ CandidatesVoted
    /\ \A id \in ready : BackedByMajority(id)
    /\ MemoryAheadOfDisk

\* The leader on record in state s is one of leaders, in the term of s.
LeaderOfItsTerm(s, leaders) ==
    Valid(s.DomainLeader) => s.DomainLeader \in leaders /\ s.DomainLeader.term = s.DomainTerm

\* Every leader on record was elected, the one a restart would load from disk too: what
\* makes RecordedLeadersWereElected inductive.
RecordInv ==
    /\ \A n \in Node, d \in Domain : Valid(domainLeaders[n][d]) =>
         domainLeaders[n][d] \in ready /\ Own(domainLeaders[n][d].node) = d
    /\ \A n \in Node : LeaderOfItsTerm(state[n], ready) /\ LeaderOfItsTerm(disk[n], ready)
=============================================================================
