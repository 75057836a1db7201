--------------------------- MODULE GlobalElection ---------------------------
(***************************************************************************)
(* The global layer of CD-Raft, on top of DomainElection: the Domain       *)
(* Leaders elect one of them Global Leader with one vote per domain, and   *)
(* the Global Leader's heartbeats open the Serving gate of every node      *)
(* (internal/cdraft/rpc_node.go and transitions.go).                       *)
(*                                                                         *)
(* Both layers run under the node's one mutex and are saved together, so   *)
(* every action of DomainElection is conjoined here with what the same     *)
(* critical section does to the global state.  What the wall clock decides *)
(* (read leases, the domain lease, leader stickiness, deadlines) may go    *)
(* either way at any time.  PersistentState.GlobalLeader is written but    *)
(* never read by the program; globalLeader is the copy that is used.       *)
(***************************************************************************)
EXTENDS DomainElection

CONSTANT MaxGlobalTerm   \* bound: the highest global term a campaign of each node may reach

ASSUME GlobalConfigAssumption == IsFiniteSet(Domain) /\ MaxGlobalTerm \in [Node -> Nat]

VARIABLES
    gstate,          \* GlobalTerm and GlobalVotedFor of PersistentState, in memory
    gdisk,           \* the same, as last saved
    globalRole,      \* "Follower", "Candidate" or "Leader"
    globalLeader,    \* the Global Leader each node follows
    stage,           \* the Stage that gates client requests
    globalCampaign,  \* the running campaignGlobal call of each node
    globalRequests,  \* GlobalVoteRequests on the wire
    globalGrants,    \* the global votes cast: granted responses and candidates' own
    globalHigher,    \* responses on the wire that carry a higher global term
    globalHeartbeats,\* GlobalHeartbeats on the wire
    elected          \* history: every Global Leader identity that won an election

globalWire == <<globalRequests, globalGrants, globalHigher, globalHeartbeats>>
globalVars == <<gstate, gdisk, globalRole, globalLeader, stage, globalCampaign,
                globalWire, elected>>
allVars == <<vars, globalVars>>

GlobalState == [GlobalTerm : Nat, GlobalVotedFor : Identity \cup {NoLeader}]
GlobalIdentity == [leader : Identity, term : Nat \ {0}]
NoGlobalLeader == [leader |-> NoLeader, term |-> 0]
Stage == {"DomainElecting", "DomainReady", "GlobalElecting", "Serving"}
NoCampaign == [phase |-> "idle"]
GlobalCampaign ==
    {NoCampaign} \cup [phase : {"starting", "voting"}, candidate : Identity,
                       term : Nat \ {0}, log : Summaries]

\* The global state, its messages and campaigns have the types of the Go declarations.
GlobalTypeOK ==
    /\ gstate \in [Node -> GlobalState]
    /\ gdisk \in [Node -> GlobalState]
    /\ globalRole \in [Node -> Role]
    /\ globalLeader \in [Node -> GlobalIdentity \cup {NoGlobalLeader}]
    /\ stage \in [Node -> Stage]
    /\ globalCampaign \in [Node -> GlobalCampaign]
    /\ globalRequests \subseteq [to : Node, candidate : Identity, term : Nat \ {0},
                                 log : Summaries]
    /\ globalGrants \subseteq [voter : Identity, candidate : Identity, term : Nat \ {0}]
    /\ globalHigher \subseteq [to : Node, term : Nat]
    /\ globalHeartbeats \subseteq [to : Node, leader : GlobalIdentity,
                                   hop : {"direct", "relayed"}]
    /\ elected \subseteq GlobalIdentity

-----------------------------------------------------------------------------
(* Pure parts of types.go and transitions.go.                              *)

\* Mutant: the smaller half of the domains is enough.
globalElectionThreshold_half(domains) == domains \div 2

globalElectionThreshold(domains) ==
    IF domains <= 1 THEN domains
    ELSE IF domains - 1 < majority(domains) THEN majority(domains) ELSE domains - 1

\* Mutant: the vote names the node and drops its domain term.
transitionStartGlobalCampaign_bareNode(g, candidate) ==
    [GlobalTerm |-> g.GlobalTerm + 1, GlobalVotedFor |-> candidate.node]

transitionStartGlobalCampaign(g, candidate) ==
    [GlobalTerm |-> g.GlobalTerm + 1, GlobalVotedFor |-> candidate]

transitionObserveHigherGlobalTerm(g, term) ==
    IF term > g.GlobalTerm THEN [GlobalTerm |-> term, GlobalVotedFor |-> NoLeader] ELSE g

\* The guard of transitionGlobalVote: g has already observed the request's term.
GlobalVoteGranted(g, request, log) ==
    /\ g.GlobalVotedFor \in {NoLeader, request.candidate}
    /\ AtLeast(request.log, log)

transitionGlobalVote(g, request, log) ==
    LET seen == transitionObserveHigherGlobalTerm(g, request.term)
    IN  IF GlobalVoteGranted(seen, request, log)
        THEN [seen EXCEPT !.GlobalVotedFor = request.candidate]
        ELSE seen

\* What a lost global leadership or a higher global term does to the stage.
CloseGate(st) == IF st = "Serving" THEN "GlobalElecting" ELSE st

\* What an accepted Domain Leader does to the stage.
AwaitGlobal(st) == IF st = "Serving" THEN st ELSE "GlobalElecting"

-----------------------------------------------------------------------------
\* Mutant: the store has no field for the global vote.
SaveGlobal_withoutVote(n, g, save) ==
    /\ gstate' = [gstate EXCEPT ![n] = g]
    /\ gdisk' = [gdisk EXCEPT ![n] =
                   IF save = "ok" THEN [g EXCEPT !.GlobalVotedFor = NoLeader] ELSE @]

SaveGlobal(n, g, save) ==
    /\ gstate' = [gstate EXCEPT ![n] = g]
    /\ gdisk' = [gdisk EXCEPT ![n] = IF save = "ok" THEN g ELSE @]

\* Mutant: a handler of the global layer resets the domain vote it saves.
persistGlobal_resetVote(n, g, save) ==
    /\ persistLocked(n, [state[n] EXCEPT !.DomainVotedFor = None], save)
    /\ SaveGlobal(n, g, save)

\* persistLocked as called by a handler of the global layer.
persistGlobal(n, g, save) == persistLocked(n, state[n], save) /\ SaveGlobal(n, g, save)

\* Mutants: stepping down keeps the role, or the leader that was followed.
SetGlobalRole_keepsLeader(n, r) ==
    globalRole' = [globalRole EXCEPT ![n] = IF r = "Follower" THEN @ ELSE r]
Follow_keepsLeader(n, leader) ==
    globalLeader' = [globalLeader EXCEPT ![n] = IF leader = NoGlobalLeader THEN @ ELSE leader]

SetGlobalRole(n, r) == globalRole' = [globalRole EXCEPT ![n] = r]
Follow(n, leader) == globalLeader' = [globalLeader EXCEPT ![n] = leader]
SetStage(n, st) == stage' = [stage EXCEPT ![n] = st]

ReplyGlobalTerm(to, asked, term) ==
    globalHigher' = globalHigher \cup
        (IF term > asked THEN {[to |-> to, term |-> term]} ELSE {})

\* The role and the pointer that servesAsGlobalLeaderLocked and the step-downs test.
LeadsGlobally(n) == globalRole[n] = "Leader" /\ globalLeader[n].leader.node = n

\* The fields of the domain layer that a handler of the global layer leaves alone.
domainFields == <<domainRole, domainLeaders, campaign, lastLog, wire>>

\* domainLeaderSnapshot
Snapshot(n) == {id \in {domainLeaders[n][d] : d \in Domain} : Valid(id)}

GlobalInit ==
    /\ Init
    /\ gstate = [n \in Node |-> [GlobalTerm |-> 0, GlobalVotedFor |-> NoLeader]]
    /\ gdisk = gstate
    /\ globalRole = [n \in Node |-> "Follower"]
    /\ globalLeader = [n \in Node |-> NoGlobalLeader]
    /\ stage = [n \in Node |-> "DomainElecting"]
    /\ globalCampaign = [n \in Node |-> NoCampaign]
    /\ globalRequests = {}
    /\ globalGrants = {}
    /\ globalHigher = {}
    /\ globalHeartbeats = {}
    /\ elected = {}

-----------------------------------------------------------------------------
(* The actions of the domain layer, with their effect on the global state. *)

\* CampaignDomain, RequestVote and the idle tick only save it.  In particular
\* a vote for a newer candidate ends the domain role of a Global Leader but
\* not its global role.
DomainStepSaving(n, save) ==
    /\ \/ CampaignDomain(n, save)
       \/ \E r \in voteRequests : RequestVote(n, r, save)
       \/ save = "ok" /\ Tick(n)
    /\ SaveGlobal(n, gstate[n], save)
    /\ UNCHANGED <<globalRole, globalLeader, stage, globalCampaign, globalWire, elected>>

WinDomainStage(n, save) ==
    /\ WinDomain(n, save)
    /\ SaveGlobal(n, gstate[n], save)
    /\ SetStage(n, "DomainReady")
    /\ UNCHANGED <<globalRole, globalLeader, globalCampaign, globalWire, elected>>

\* publishDomainReady sets the stage at the end of the announcement, whatever it is by then.
FinishCampaignStage(n) ==
    /\ FinishCampaign(n)
    /\ SetStage(n, IF campaign[n].phase = "announcing" THEN "GlobalElecting" ELSE stage[n])
    /\ UNCHANGED <<gstate, gdisk, globalRole, globalLeader, globalCampaign, globalWire, elected>>

\* Heartbeat and PublishReady: an accepted Domain Leader moves the stage, and
\* nothing else of the global state, even if it deposes this node.
AcceptDomainLeader(n, id, save) ==
    /\ \/ Heartbeat(n, id, save) /\ id.term >= state[n].DomainTerm
       \/ PublishReady(n, id, save)
    /\ SaveGlobal(n, gstate[n], save)
    /\ SetStage(n, AwaitGlobal(stage[n]))
    /\ UNCHANGED <<globalRole, globalLeader, globalCampaign, globalWire, elected>>

RejectDomainLeader(n, id) ==
    /\ Heartbeat(n, id, "ok") /\ id.term < state[n].DomainTerm
    /\ UNCHANGED globalVars

\* observeHigherDomainTerm: the one place where losing the domain ends the global role.
observeHigherDomainTermGlobal(n, term, save) ==
    /\ observeHigherDomainTerm(n, term, save)
    /\ SaveGlobal(n, gstate[n], save)
    /\ IF LeadsGlobally(n)
       THEN SetGlobalRole(n, "Follower") /\ Follow(n, NoGlobalLeader)
       ELSE UNCHANGED <<globalRole, globalLeader>>
    /\ SetStage(n, IF domainRole[n] = "Leader" /\ state[n].DomainLeader.node = n
                   THEN "DomainElecting"
                   ELSE IF LeadsGlobally(n) THEN CloseGate(stage[n]) ELSE stage[n])
    /\ UNCHANGED <<globalCampaign, globalWire, elected>>

DomainDeadlineStage(n, save) ==
    /\ DomainDeadline(n, save)
    /\ SaveGlobal(n, gstate[n], save)
    /\ SetStage(n, "DomainElecting")
    /\ UNCHANGED <<globalRole, globalLeader, globalCampaign, globalWire, elected>>

RestartNode(n) ==
    /\ Restart(n)
    /\ gstate' = [gstate EXCEPT ![n] = gdisk[n]]
    /\ SetGlobalRole(n, "Follower")
    /\ Follow(n, NoGlobalLeader)
    /\ SetStage(n, "DomainElecting")
    /\ globalCampaign' = [globalCampaign EXCEPT ![n] = NoCampaign]
    /\ globalHigher' = {h \in globalHigher : h.to # n}
    /\ UNCHANGED <<gdisk, globalRequests, globalGrants, globalHeartbeats, elected>>

-----------------------------------------------------------------------------
(* The actions of the global layer.                                        *)

\* campaignGlobal up to its unlock.  The callers' own tests (bootstrapLoop,
\* failureDetectorLoop) are made before they unlock and guard nothing here: even
\* the Global Leader may start a campaign.
CampaignGlobal(n, save) ==
    /\ domainLeaders[n][Own(n)] = [node |-> n, term |-> state[n].DomainTerm]
    /\ domainRole[n] = "Leader"
    /\ globalCampaign[n] = NoCampaign
    /\ Cardinality(Snapshot(n)) >= globalElectionThreshold(Cardinality(Domain))
    /\ gstate[n].GlobalTerm < MaxGlobalTerm[n]
    /\ LET candidate == domainLeaders[n][Own(n)]
           g == transitionStartGlobalCampaign(gstate[n], candidate)
       IN  /\ persistGlobal(n, g, save)
           /\ IF save = "ok"
              THEN /\ globalCampaign' = [globalCampaign EXCEPT ![n] =
                        [phase |-> "starting", candidate |-> candidate,
                         term |-> g.GlobalTerm, log |-> lastLog[n]]]
                   /\ globalGrants' = globalGrants \cup
                        {[voter |-> candidate, candidate |-> candidate,
                          term |-> g.GlobalTerm]}
              ELSE UNCHANGED <<globalCampaign, globalGrants>>
    /\ SetGlobalRole(n, "Candidate")
    /\ Follow(n, NoGlobalLeader)
    /\ UNCHANGED <<stage, globalRequests, globalHigher, globalHeartbeats, elected, domainFields>>

\* After the unlock campaignGlobal reads the known Domain Leaders again and asks
\* each of them but itself for a vote.
AskGlobalVotes(n) ==
    /\ globalCampaign[n].phase = "starting"
    /\ globalRequests' = globalRequests \cup
         {[to |-> id.node, candidate |-> globalCampaign[n].candidate,
           term |-> globalCampaign[n].term, log |-> globalCampaign[n].log] :
              id \in {i \in Snapshot(n) : i.node # n}}
    /\ globalCampaign' = [globalCampaign EXCEPT ![n].phase = "voting"]
    /\ UNCHANGED <<vars, gstate, gdisk, globalRole, globalLeader, stage,
                   globalGrants, globalHigher, globalHeartbeats, elected>>

\* Mutant: any node that is asked votes, whether or not it leads its domain.
MayVoteFor_follower(n, candidate) == domainLeaders[n][Own(candidate.node)] = candidate

\* RequestVoteGlobalInternal: an admitted voter is a Domain Leader that knows the
\* candidate as the leader of its domain.  (It may also refuse because its domain lease
\* has lapsed or it heard from a Global Leader lately: then nothing happens.)
MayVoteFor(n, candidate) ==
    /\ domainRole[n] = "Leader"
    /\ domainLeaders[n][Own(n)].node = n
    /\ domainLeaders[n][Own(candidate.node)] = candidate

RequestVoteGlobal(n, request, save) ==
    /\ n = request.to
    /\ MayVoteFor(n, request.candidate)
    /\ request.term >= gstate[n].GlobalTerm
    /\ LET seen == transitionObserveHigherGlobalTerm(gstate[n], request.term)
           higher == request.term > gstate[n].GlobalTerm
       IN  /\ persistGlobal(n, transitionGlobalVote(gstate[n], request, lastLog[n]), save)
           /\ globalGrants' = globalGrants \cup
                (IF GlobalVoteGranted(seen, request, lastLog[n]) /\ save = "ok"
                 THEN {[voter |-> domainLeaders[n][Own(n)], candidate |-> request.candidate,
                        term |-> request.term]}
                 ELSE {})
           /\ IF higher
              THEN /\ SetGlobalRole(n, "Follower")
                   /\ Follow(n, NoGlobalLeader)
                   /\ SetStage(n, CloseGate(stage[n]))
              ELSE UNCHANGED <<globalRole, globalLeader, stage>>
    /\ UNCHANGED <<globalCampaign, globalRequests, globalHigher, globalHeartbeats, elected,
                   domainFields>>

RefuseVoteGlobal(n, request) ==
    /\ n = request.to
    /\ ~MayVoteFor(n, request.candidate) \/ request.term < gstate[n].GlobalTerm
    /\ ReplyGlobalTerm(request.candidate.node, request.term, gstate[n].GlobalTerm)
    /\ UNCHANGED <<vars, gstate, gdisk, globalRole, globalLeader, stage, globalCampaign,
                   globalRequests, globalGrants, globalHeartbeats, elected>>

\* The nodes that voted for a candidate in a term.
Voters(candidate, term) ==
    {b.voter.node : b \in {g \in globalGrants : g.candidate = candidate /\ g.term = term}}

\* The end of campaignGlobal with enough votes.
WinGlobal(n, save) ==
    /\ globalCampaign[n].phase = "voting"
    /\ Cardinality(Voters(globalCampaign[n].candidate, globalCampaign[n].term)) >=
         globalElectionThreshold(Cardinality(Domain))
    /\ gstate[n].GlobalTerm = globalCampaign[n].term
    /\ domainRole[n] = "Leader"
    /\ LET leader == [leader |-> globalCampaign[n].candidate, term |-> globalCampaign[n].term]
       IN  /\ Follow(n, leader)
           /\ elected' = elected \cup {leader}
    /\ persistGlobal(n, gstate[n], save)
    /\ SetGlobalRole(n, "Leader")
    /\ SetStage(n, "Serving")
    /\ globalCampaign' = [globalCampaign EXCEPT ![n] = NoCampaign]
    /\ UNCHANGED <<globalWire, domainFields>>

\* campaignGlobal gives up: too few votes arrived, or the node has moved on.
FinishGlobalCampaign(n) ==
    /\ globalCampaign[n].phase = "voting"
    /\ \/ globalElectionThreshold(Cardinality(Domain)) > 1
       \/ gstate[n].GlobalTerm # globalCampaign[n].term
       \/ domainRole[n] # "Leader"
    /\ globalCampaign' = [globalCampaign EXCEPT ![n] = NoCampaign]
    /\ UNCHANGED <<vars, gstate, gdisk, globalRole, globalLeader, stage, globalWire, elected>>

\* observeHigherGlobalTerm, run by the goroutine that read the response.
observeHigherGlobalTerm(n, term, save) ==
    /\ term > gstate[n].GlobalTerm
    /\ persistGlobal(n, transitionObserveHigherGlobalTerm(gstate[n], term), save)
    /\ SetGlobalRole(n, "Follower")
    /\ Follow(n, NoGlobalLeader)
    /\ SetStage(n, CloseGate(stage[n]))
    /\ UNCHANGED <<globalCampaign, globalWire, elected, domainFields>>

\* Mutant: the Global Leader does not heartbeat itself.
SendGlobalHeartbeats_others(n) ==
    /\ LeadsGlobally(n)
    /\ globalHeartbeats' = globalHeartbeats \cup
         {[to |-> id.node, leader |-> globalLeader[n], hop |-> "direct"] :
            id \in {i \in Snapshot(n) : i.node # n}}
    /\ UNCHANGED <<vars, gstate, gdisk, globalRole, globalLeader, stage, globalCampaign,
                   globalRequests, globalGrants, globalHigher, elected>>

\* sendHeartbeats of a Global Leader: to every Domain Leader it knows, itself too.
SendGlobalHeartbeats(n) ==
    /\ LeadsGlobally(n)
    /\ globalHeartbeats' = globalHeartbeats \cup
         {[to |-> id.node, leader |-> globalLeader[n], hop |-> "direct"] : id \in Snapshot(n)}
    /\ UNCHANGED <<vars, gstate, gdisk, globalRole, globalLeader, stage, globalCampaign,
                   globalRequests, globalGrants, globalHigher, elected>>

\* HeartbeatGlobalInternal: an unknown leader or an older term is rejected; a Domain
\* Leader relays an accepted heartbeat to its members (and ignores their answers).
AcceptsGlobal(n, leader) ==
    /\ domainLeaders[n][Own(leader.leader.node)] = leader.leader
    /\ leader.term >= gstate[n].GlobalTerm

HeartbeatGlobal(n, h, save) ==
    /\ n = h.to
    /\ AcceptsGlobal(n, h.leader)
    /\ persistGlobal(n, transitionObserveHigherGlobalTerm(gstate[n], h.leader.term), save)
    /\ SetGlobalRole(n, IF h.leader.leader.node # n \/ h.leader.term > gstate[n].GlobalTerm
                        THEN "Follower" ELSE globalRole[n])
    /\ Follow(n, h.leader)
    /\ SetStage(n, "Serving")
    /\ globalHeartbeats' = globalHeartbeats \cup
         (IF save = "ok" /\ domainRole[n] = "Leader" /\ state[n].DomainLeader.node = n
          THEN {[to |-> m, leader |-> h.leader, hop |-> "relayed"] :
                  m \in Members(Own(n)) \ {n}}
          ELSE {})
    /\ UNCHANGED <<globalCampaign, globalRequests, globalGrants, globalHigher, elected,
                   domainFields>>

RejectHeartbeatGlobal(n, h) ==
    /\ n = h.to
    /\ ~AcceptsGlobal(n, h.leader)
    /\ h.hop = "direct"
    /\ ReplyGlobalTerm(h.leader.leader.node, h.leader.term, gstate[n].GlobalTerm)
    /\ UNCHANGED <<vars, gstate, gdisk, globalRole, globalLeader, stage, globalCampaign,
                   globalRequests, globalGrants, globalHeartbeats, elected>>

\* The tick of failureDetectorLoop that finds the read lease or, at a Domain Leader, the
\* domain lease of a Global Leader lapsed.
StepDownGlobal(n, save) ==
    /\ LeadsGlobally(n)
    /\ SetGlobalRole(n, "Follower")
    /\ Follow(n, NoGlobalLeader)
    /\ SetStage(n, CloseGate(stage[n]))
    /\ persistGlobal(n, gstate[n], save)
    /\ UNCHANGED <<globalCampaign, globalWire, elected, domainFields>>

\* The tick that finds the global deadline expired (needsGlobalElectionLocked).
GlobalDeadline(n, save) ==
    /\ domainRole[n] = "Leader"
    /\ globalRole[n] # "Leader"
    /\ globalCampaign[n] = NoCampaign
    /\ Follow(n, NoGlobalLeader)
    /\ SetStage(n, "GlobalElecting")
    /\ persistGlobal(n, gstate[n], save)
    /\ UNCHANGED <<globalRole, globalCampaign, globalWire, elected, domainFields>>

DomainLayerStep(n) ==
    \/ \E save \in SaveResult(n) :
        \/ DomainStepSaving(n, save)
        \/ WinDomainStage(n, save)
        \/ \E id \in ready : AcceptDomainLeader(n, id, save)
        \/ \E h \in higherTerms : h.to = n /\ observeHigherDomainTermGlobal(n, h.term, save)
        \/ DomainDeadlineStage(n, save)
    \/ FinishCampaignStage(n)
    \/ \E id \in ready : RejectDomainLeader(n, id)
    \/ RestartNode(n)
    \/ LogChanges(n) /\ UNCHANGED globalVars

GlobalLayerStep(n) ==
    \/ \E save \in SaveResult(n) :
        \/ CampaignGlobal(n, save)
        \/ \E r \in globalRequests : RequestVoteGlobal(n, r, save)
        \/ WinGlobal(n, save)
        \/ \E h \in globalHigher : h.to = n /\ observeHigherGlobalTerm(n, h.term, save)
        \/ \E h \in globalHeartbeats : HeartbeatGlobal(n, h, save)
        \/ StepDownGlobal(n, save)
        \/ GlobalDeadline(n, save)
    \/ AskGlobalVotes(n)
    \/ \E r \in globalRequests : RefuseVoteGlobal(n, r)
    \/ FinishGlobalCampaign(n)
    \/ SendGlobalHeartbeats(n)
    \/ \E h \in globalHeartbeats : RejectHeartbeatGlobal(n, h)

GlobalNext == \E n \in Node : DomainLayerStep(n) \/ GlobalLayerStep(n)

GlobalSpec == GlobalInit /\ [][GlobalNext]_allVars

(* Fairness: what Fairness says of the domain layer; a node that leads     *)
(* globally sends heartbeats every 100 ms (heartbeatLoop) and, as long as  *)
(* it does, a Domain Leader it addresses handles one of them; responses    *)
(* that arrive are handled; an announcement comes to its end (every call   *)
(* of broadcastDomainReady has a timeout).                                 *)
GlobalFairness ==
    \A n, m \in Node :
        /\ \A t \in 1..MaxDomainTerm[m] :
             LET id == [node |-> m, term |-> t]
             IN  WF_allVars(Announces(id) /\ (AcceptDomainLeader(n, id, "ok")
                                                \/ RejectDomainLeader(n, id)))
        /\ WF_allVars(\E h \in higherTerms :
                         h.to = n /\ observeHigherDomainTermGlobal(n, h.term, "ok"))
        /\ WF_allVars(campaign[n].phase = "announcing" /\ FinishCampaignStage(n))
        /\ WF_allVars(SendGlobalHeartbeats(n))
        /\ WF_allVars(LeadsGlobally(m) /\ \E h \in globalHeartbeats :
                         /\ h.leader = globalLeader[m] /\ h.hop = "direct"
                         /\ HeartbeatGlobal(n, h, "ok") \/ RejectHeartbeatGlobal(n, h))
        /\ WF_allVars(\E h \in globalHigher : h.to = n /\ observeHigherGlobalTerm(n, h.term, "ok"))

GlobalLiveSpec == GlobalSpec /\ GlobalFairness

-----------------------------------------------------------------------------
(* What the global layer promises.                                         *)

\* The domain layer is unaffected by the global one: every step of both layers together
\* is a step of DomainElection or leaves its state alone.
DomainLayer == Spec

\* At most one Global Leader is elected per global term (docs/tla/README.md, types.go).
OneGlobalLeaderPerTerm ==
    \A g, h \in elected : g.term = h.term => g = h

\* Two Global Leaders of one term can only come from a domain that voted twice, through
\* two nodes that led it in different domain terms: every other way of breaking uniqueness
\* (threshold, lost votes, restarts, concurrent campaigns) is excluded.
RivalsShareATurnedOverDomain ==
    \A g, h \in elected : g.term = h.term /\ g # h =>
        \E b, c \in globalGrants :
            /\ b.candidate = g.leader /\ b.term = g.term
            /\ c.candidate = h.leader /\ c.term = h.term
            /\ Own(b.voter.node) = Own(c.voter.node) /\ b.voter.node # c.voter.node

\* A global vote survives a crash of the voter (RequestVoteGlobalInternal: "must be
\* durable before we grant it"; campaignGlobal's own vote too).
GlobalGrantsAreDurable ==
    \A b \in globalGrants :
        \/ gdisk[b.voter.node].GlobalTerm > b.term
        \/ /\ gdisk[b.voter.node].GlobalTerm = b.term
           /\ gdisk[b.voter.node].GlobalVotedFor = b.candidate

\* Global votes are cast by elected Domain Leaders for elected Domain Leaders, and the
\* only vote of the candidate's own domain is the candidate's own: no domain counts
\* twice for one candidate.
VotesAmongDomainLeaders ==
    \A b \in globalGrants :
        /\ b.voter \in ready /\ b.candidate \in ready
        /\ Own(b.voter.node) = Own(b.candidate.node) => b.voter.node = b.candidate.node

\* A node whose global role is Leader won the election of its current global term and
\* follows itself: what Write and Read test before they serve.
GlobalLeaderIsCurrent ==
    \A n \in Node : globalRole[n] = "Leader" =>
        /\ globalLeader[n] \in elected
        /\ globalLeader[n].leader.node = n
        /\ globalLeader[n].term = gstate[n].GlobalTerm

\* A Global Leader that stays in office, leading its domain under the identity it was
\* elected with, opens the Serving gate of every lasting Domain Leader and its own again
\* and again, although publishDomainReady, deadlines and rivals' heartbeats close it.
StableGlobalLeaderServes ==
    \A n, m \in Node :
        <>[](/\ LeadsGlobally(n) /\ globalLeader[n].leader = domainLeaders[n][Own(n)]
             /\ domainRole[n] = "Leader" /\ domainRole[m] = "Leader")
          => []<>(stage[m] = "Serving" /\ globalLeader[m] = globalLeader[n])

-----------------------------------------------------------------------------
(* Why rivals need a turned-over domain: the inductive invariant.          *)

\* State g excludes a global vote for anybody but b.candidate in term b.term.
GlobalRemembers(g, b) ==
    \/ g.GlobalTerm > b.term
    \/ g.GlobalTerm = b.term /\ g.GlobalVotedFor = b.candidate

\* State g is state d, or d after more terms and votes.
GlobalExtends(g, d) ==
    \/ g.GlobalTerm > d.GlobalTerm
    \/ /\ g.GlobalTerm = d.GlobalTerm
       /\ d.GlobalVotedFor # NoLeader => g.GlobalVotedFor = d.GlobalVotedFor

GlobalBallotsRemembered ==
    \A b \in globalGrants : /\ GlobalRemembers(gstate[b.voter.node], b)
                            /\ GlobalRemembers(gdisk[b.voter.node], b)

OneGlobalBallotPerTerm ==
    \A b, c \in globalGrants :
        b.voter.node = c.voter.node /\ b.term = c.term => b.candidate = c.candidate

GlobalMemoryAheadOfDisk == \A n \in Node : GlobalExtends(gstate[n], gdisk[n])

OwnBallot(candidate, term) == [voter |-> candidate, candidate |-> candidate, term |-> term]

\* A campaign has its own vote, and asks for others only once.
CampaignsVoted ==
    \A n \in Node : globalCampaign[n] # NoCampaign =>
        LET c == globalCampaign[n]
        IN  /\ c.candidate.node = n
            /\ OwnBallot(c.candidate, c.term) \in globalGrants
            /\ c.phase = "starting" =>
                 \A r \in globalRequests : ~(r.candidate = c.candidate /\ r.term = c.term)

RequestsFollowBallots ==
    \A r \in globalRequests : OwnBallot(r.candidate, r.term) \in globalGrants

OneRequestPerDomain ==
    \A r, s \in globalRequests :
        r.candidate = s.candidate /\ r.term = s.term /\ Own(r.to) = Own(s.to) => r.to = s.to

BallotsWereAsked ==
    \A b \in globalGrants :
        \/ b.voter.node = b.candidate.node
        \/ /\ Own(b.voter.node) # Own(b.candidate.node)
           /\ \E r \in globalRequests :
                r.to = b.voter.node /\ r.candidate = b.candidate /\ r.term = b.term

\* Global votes are remembered and each candidate asks every domain at most once, so the
\* voters of an elected Global Leader are threshold many nodes of different domains.
GlobalElectionInv ==
    /\ GlobalBallotsRemembered
    /\ OneGlobalBallotPerTerm
    /\ GlobalMemoryAheadOfDisk
    /\ CampaignsVoted
    /\ RequestsFollowBallots
    /\ OneRequestPerDomain
    /\ BallotsWereAsked
    /\ \A e \in elected : Cardinality(Voters(e.leader, e.term)) >=
                            globalElectionThreshold(Cardinality(Domain))

\* What a node follows or is told to follow won an election: with CampaignsVoted, what
\* makes GlobalLeaderIsCurrent inductive.
GlobalLeaderInv ==
    /\ GlobalLeaderIsCurrent
    /\ \A n \in Node : globalLeader[n] \in elected \cup {NoGlobalLeader}
    /\ \A h \in globalHeartbeats : h.leader \in elected
=============================================================================
