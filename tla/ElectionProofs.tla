--------------------------- MODULE ElectionProofs ---------------------------
(***************************************************************************)
(* Proofs about DomainElection and GlobalElection, for every configuration *)
(* of nodes and domains, every set of disks that may fail and every bound  *)
(* on the terms.  The domain layer comes first; then the two layers        *)
(* together, which implement it, and in which a global term has rival      *)
(* leaders only if a domain voted through two nodes.                       *)
(***************************************************************************)
EXTENDS GlobalElection, FiniteSetTheorems, TLAPS

-----------------------------------------------------------------------------
(* The domain layer: types.                                              *)

\* The transitions of transitions.go return well-formed states.
LEMMA StartType ==
    \A s \in DomainState, n \in Node :
        /\ transitionStartDomainCampaign(s, n) \in DomainState
        /\ transitionStartDomainCampaign(s, n).DomainTerm \in Nat \ {0}
  BY DEF transitionStartDomainCampaign, DomainState

\* The transitions of a domain state yield a domain state.
LEMMA ObserveType ==
    \A s \in DomainState, t \in Nat :
        transitionObserveHigherDomainTerm(s, t) \in DomainState
  BY DEF transitionObserveHigherDomainTerm, DomainState

\* So does a vote,
LEMMA VoteType ==
    ASSUME NEW s \in DomainState, NEW r, NEW log, r.candidate \in Node, r.term \in Nat
    PROVE  transitionDomainVote(s, r, log) \in DomainState
  BY ObserveType DEF transitionDomainVote, DomainState

\* and a leader that is accepted, made or given up.
LEMMA LeaderType ==
    \A s \in DomainState, id \in Identity :
        /\ transitionAcceptDomainLeader(s, id) \in DomainState
        /\ transitionBecomeDomainLeader(s, id) \in DomainState
        /\ [s EXCEPT !.DomainLeader = NoLeader] \in DomainState
  BY ObserveType DEF transitionAcceptDomainLeader, transitionBecomeDomainLeader,
                     DomainState, Identity

\* Saving keeps both copies of the state well-formed.
LEMMA PersistType ==
    ASSUME TypeOK, NEW n \in Node, NEW s \in DomainState, NEW save,
           persistLocked(n, s, save)
    PROVE  /\ state' \in [Node -> DomainState]
           /\ disk' \in [Node -> DomainState]
  BY DEF TypeOK, persistLocked

\* A node has a domain.
LEMMA OwnType == \A n \in Node : Own(n) \in Domain
  BY ConfigAssumption DEF Own

\* Writing or deleting an entry keeps the domainLeaders maps well-formed.
LEMMA ViewType ==
    ASSUME TypeOK, NEW n \in Node, NEW d \in Domain, NEW id \in Identity \cup {NoLeader},
           SetView(n, d, id)
    PROVE  domainLeaders' \in [Node -> [Domain -> Identity \cup {NoLeader}]]
  BY DEF TypeOK, SetView

\* The type invariant of the domain layer is preserved by every step.
LEMMA TypeStep == TypeOK /\ [Next]_vars => TypeOK'
  <1> SUFFICES ASSUME TypeOK, [Next]_vars PROVE TypeOK'
    OBVIOUS
  <1> DEFINE StateTyped == state \in [Node -> DomainState] /\ disk \in [Node -> DomainState]
             ViewsTyped == domainLeaders \in [Node -> [Domain -> Identity \cup {NoLeader}]]
             RestTyped ==
                /\ domainRole \in [Node -> Role]
                /\ campaign \in [Node -> Campaign]
                /\ lastLog \in [Node -> Summaries]
             WireTyped ==
                /\ voteRequests \subseteq [candidate : Node, term : Nat \ {0}, log : Summaries]
                /\ voteGrants \subseteq [voter : Node, candidate : Node, term : Nat]
                /\ higherTerms \subseteq [to : Node, term : Nat]
                /\ ready \subseteq Identity
  <1>0. StateTyped /\ ViewsTyped /\ RestTyped /\ WireTyped
    BY DEF TypeOK
  <1>a. SUFFICES StateTyped' /\ ViewsTyped' /\ RestTyped' /\ WireTyped'
    BY DEF TypeOK
  <1> USE <1>0 DEF Role, SetRole, ReplyTerm, wire
  <1>1. ASSUME NEW n \in Node, NEW save \in SaveResult(n), CampaignDomain(n, save)
        PROVE  StateTyped' /\ ViewsTyped' /\ RestTyped' /\ WireTyped'
    <2>1. StateTyped'
      BY <1>1, StartType, PersistType DEF CampaignDomain
    <2>2. ViewsTyped' /\ RestTyped' /\ WireTyped'
      BY <1>1, StartType DEF CampaignDomain, Campaign
    <2> QED
      BY <2>1, <2>2
  <1>2. ASSUME NEW n \in Node, NEW save \in SaveResult(n), WinDomain(n, save)
        PROVE  StateTyped' /\ ViewsTyped' /\ RestTyped' /\ WireTyped'
    <2> DEFINE id == [node |-> n, term |-> campaign[n].term]
    <2>1. id \in Identity /\ campaign[n] \in [phase : {"voting"}, term : Nat \ {0}]
      BY <1>2 DEF WinDomain, Campaign, Idle, Identity
    <2>2. StateTyped' /\ ViewsTyped'
      BY <1>2, <2>1, LeaderType, PersistType, OwnType, ViewType DEF WinDomain
    <2>3. RestTyped' /\ WireTyped'
      BY <1>2, <2>1 DEF WinDomain, Campaign
    <2> QED
      BY <2>2, <2>3
  <1>3. ASSUME NEW n \in Node, NEW save \in SaveResult(n), NEW r \in voteRequests,
               RequestVote(n, r, save)
        PROVE  StateTyped' /\ ViewsTyped' /\ RestTyped' /\ WireTyped'
    <2>1. r.candidate \in Node /\ r.term \in Nat
      OBVIOUS
    <2>2. transitionDomainVote(state[n], r, lastLog[n]) \in DomainState
      BY <2>1, VoteType
    <2>3. StateTyped'
      BY <1>3, <2>2, PersistType DEF RequestVote
    <2>4. transitionDomainVote(state[n], r, lastLog[n]).DomainTerm \in Nat
      BY <2>2 DEF DomainState
    <2>5. ViewsTyped' /\ RestTyped' /\ WireTyped'
      BY <1>3, <2>1, <2>4 DEF RequestVote
    <2> QED
      BY <2>3, <2>5
  <1>4. ASSUME NEW n \in Node, NEW save \in SaveResult(n), NEW id \in ready,
               Heartbeat(n, id, save) \/ PublishReady(n, id, save)
        PROVE  StateTyped' /\ ViewsTyped' /\ RestTyped' /\ WireTyped'
    <2>1. /\ id \in Identity /\ id.node \in Node /\ Own(n) \in Domain /\ Own(id.node) \in Domain
          /\ transitionAcceptDomainLeader(state[n], id) \in DomainState
          /\ state[n] \in DomainState /\ state[n].DomainTerm \in Nat
      BY OwnType, LeaderType DEF Identity, DomainState
    <2>2. StateTyped'
      BY <1>4, <2>1, PersistType DEF Heartbeat, PublishReady
    <2>3. ViewsTyped'
      BY <1>4, <2>1, ViewType DEF Heartbeat, PublishReady
    <2>4. RestTyped' /\ WireTyped'
      BY <1>4, <2>1 DEF Heartbeat, PublishReady
    <2> QED
      BY <2>2, <2>3, <2>4
  <1>5. ASSUME NEW n \in Node, NEW save \in SaveResult(n), NEW h \in higherTerms,
               observeHigherDomainTerm(n, h.term, save)
        PROVE  StateTyped' /\ ViewsTyped' /\ RestTyped' /\ WireTyped'
    <2>0. h.term \in Nat /\ state[n] \in DomainState
      OBVIOUS
    <2>1. StateTyped'
      BY <1>5, <2>0, ObserveType, PersistType DEF observeHigherDomainTerm
    <2>2. ViewsTyped'
      BY <1>5, OwnType, ViewType DEF observeHigherDomainTerm
    <2>3. RestTyped' /\ WireTyped'
      BY <1>5 DEF observeHigherDomainTerm
    <2> QED
      BY <2>1, <2>2, <2>3
  <1>6. ASSUME NEW n \in Node, NEW save \in SaveResult(n), DomainDeadline(n, save)
        PROVE  StateTyped' /\ ViewsTyped' /\ RestTyped' /\ WireTyped'
    <2>0. state[n] \in DomainState
      OBVIOUS
    <2>1. [state[n] EXCEPT !.DomainLeader = NoLeader] \in DomainState
      BY <2>0 DEF DomainState
    <2>2. StateTyped' /\ ViewsTyped'
      BY <1>6, <2>1, PersistType, OwnType, ViewType DEF DomainDeadline
    <2>3. RestTyped' /\ WireTyped'
      BY <1>6 DEF DomainDeadline
    <2> QED
      BY <2>2, <2>3
  <1>7. ASSUME NEW n \in Node, Tick(n)
        PROVE  StateTyped' /\ ViewsTyped' /\ RestTyped' /\ WireTyped'
    BY <1>7, PersistType DEF Tick
  <1>8. ASSUME NEW n \in Node, Restart(n)
        PROVE  StateTyped' /\ ViewsTyped' /\ RestTyped' /\ WireTyped'
    BY <1>8 DEF Restart, Campaign
  <1>9. ASSUME NEW n \in Node, FinishCampaign(n)
        PROVE  StateTyped' /\ ViewsTyped' /\ RestTyped' /\ WireTyped'
    BY <1>9 DEF FinishCampaign, Campaign
  <1>10. ASSUME NEW n \in Node, LogChanges(n)
         PROVE  StateTyped' /\ ViewsTyped' /\ RestTyped' /\ WireTyped'
    BY <1>10 DEF LogChanges
  <1>11. CASE UNCHANGED vars
    BY <1>11 DEF vars
  <1> HIDE <1>0 DEF StateTyped, ViewsTyped, RestTyped, WireTyped
  <1> QED
    BY <1>1, <1>2, <1>3, <1>4, <1>5, <1>6, <1>7, <1>8, <1>9, <1>10, <1>11 DEF Next

\* Every reachable state is well-formed: the type invariant of the domain layer.
THEOREM TypeCorrect == Spec => []TypeOK
  <1>1. Init => TypeOK
    BY ConfigAssumption DEF Init, TypeOK, DomainState, Role, Campaign
  <1> QED
    BY <1>1, TypeStep, PTL DEF Spec

-----------------------------------------------------------------------------
(* Election safety.                                                        *)

\* Two majorities of one domain have a member in common.
LEMMA MajoritiesIntersect ==
    ASSUME NEW S, IsFiniteSet(S), NEW P \in SUBSET S, NEW Q \in SUBSET S,
           Cardinality(P) >= majority(Cardinality(S)),
           Cardinality(Q) >= majority(Cardinality(S))
    PROVE  P \cap Q # {}
  <1>1. IsFiniteSet(P) /\ IsFiniteSet(Q) /\ IsFiniteSet(P \cup Q)
    BY FS_Subset, FS_Union
  <1>2. Cardinality(P \cup Q) <= Cardinality(S)
    BY FS_Subset, P \cup Q \subseteq S
  <1>3. Cardinality(P \cup Q) = Cardinality(P) + Cardinality(Q) - Cardinality(P \cap Q)
    BY <1>1, FS_Union
  <1>4. /\ Cardinality(S) \in Nat /\ Cardinality(P) \in Nat /\ Cardinality(Q) \in Nat
    BY <1>1, FS_CardinalityType
  <1>5. Cardinality(P \cap Q) # 0
    <2> SUFFICES ASSUME Cardinality(P \cap Q) = 0 PROVE FALSE
      OBVIOUS
    <2>1. Cardinality(P) + Cardinality(Q) <= Cardinality(S)
      BY <1>2, <1>3, <1>4
    <2> QED
      BY <1>4, <2>1 DEF majority
  <1> QED
    BY <1>5, FS_EmptySet

\* The transitions of transitions.go only add terms and votes to a state.
LEMMA TransitionsExtend ==
    ASSUME NEW s \in DomainState
    PROVE  /\ Extends(s, s)
           /\ \A n \in Node : Extends(transitionStartDomainCampaign(s, n), s)
           /\ \A t \in Nat : Extends(transitionObserveHigherDomainTerm(s, t), s)
           /\ \A id \in Identity : /\ Extends(transitionAcceptDomainLeader(s, id), s)
                                    /\ Extends(transitionBecomeDomainLeader(s, id), s)
           /\ Extends([s EXCEPT !.DomainLeader = NoLeader], s)
  BY DEF DomainState, Identity, Extends, transitionStartDomainCampaign,
         transitionObserveHigherDomainTerm, transitionAcceptDomainLeader,
         transitionBecomeDomainLeader

\* A vote never takes back a term or another vote of the same term.
LEMMA VoteExtends ==
    ASSUME NEW s \in DomainState, NEW r, NEW log, r.candidate \in Node, r.term \in Nat
    PROVE  Extends(transitionDomainVote(s, r, log), s)
  BY DEF DomainState, Extends, transitionDomainVote, VoteGranted,
         transitionObserveHigherDomainTerm

\* What a state remembers, every state that extends it remembers.
LEMMA ExtendsRemembers ==
    ASSUME NEW s \in DomainState, NEW d \in DomainState, Extends(s, d),
           NEW b \in [voter : Node, candidate : Node, term : Nat], Remembers(d, b)
    PROVE  Remembers(s, b)
  BY ConfigAssumption DEF DomainState, Extends, Remembers

\* Neither do several transitions.
LEMMA ExtendsTransitive ==
    ASSUME NEW s \in DomainState, NEW d \in DomainState, NEW e \in DomainState,
           Extends(s, d), Extends(d, e)
    PROVE  Extends(s, e)
  BY DEF DomainState, Extends

\* A step extends the memory of a node or reloads it from the disk, and writes nothing
\* to the disk but the extended memory.
Progressed(n) ==
    /\ Extends(state'[n], state[n]) \/ state'[n] = disk[n]
    /\ \/ disk'[n] = disk[n]
       \/ disk'[n] = state'[n] /\ Extends(state'[n], state[n])

\* Memory and disk of every node go forward when one node saves such a state,
LEMMA PersistProgress ==
    ASSUME TypeOK, NEW n \in Node, NEW s \in DomainState, NEW save,
           Extends(s, state[n]), persistLocked(n, s, save)
    PROVE  \A m \in Node : Progressed(m)
  <1>1. \A m \in Node : state[m] \in DomainState
    BY DEF TypeOK
  <1>2. \A m \in Node : Extends(state[m], state[m])
    BY <1>1, TransitionsExtend
  <1> QED
    BY <1>2 DEF TypeOK, persistLocked, Progressed

\* so they do in every step.
LEMMA StepProgress ==
    ASSUME TypeOK, [Next]_vars
    PROVE  \A m \in Node : Progressed(m)
  <1>0. /\ \A m \in Node : state[m] \in DomainState /\ Extends(state[m], state[m])
        /\ \A r \in voteRequests : r.candidate \in Node /\ r.term \in Nat
        /\ \A id \in ready : id \in Identity
        /\ \A h \in higherTerms : h.term \in Nat
    BY TransitionsExtend DEF TypeOK
  <1>1. ASSUME NEW n \in Node, NEW save \in SaveResult(n), CampaignDomain(n, save)
        PROVE  \A m \in Node : Progressed(m)
    BY <1>0, <1>1, StartType, TransitionsExtend, PersistProgress DEF CampaignDomain
  <1>2. ASSUME NEW n \in Node, NEW save \in SaveResult(n), WinDomain(n, save)
        PROVE  \A m \in Node : Progressed(m)
    <2>1. [node |-> n, term |-> campaign[n].term] \in Identity
      BY <1>2 DEF TypeOK, WinDomain, Campaign, Idle, Identity
    <2> QED
      BY <1>0, <1>2, <2>1, LeaderType, TransitionsExtend, PersistProgress DEF WinDomain
  <1>3. ASSUME NEW n \in Node, NEW save \in SaveResult(n), NEW r \in voteRequests,
               RequestVote(n, r, save)
        PROVE  \A m \in Node : Progressed(m)
    <2>1. /\ transitionDomainVote(state[n], r, lastLog[n]) \in DomainState
          /\ Extends(transitionDomainVote(state[n], r, lastLog[n]), state[n])
      BY <1>0, VoteType, VoteExtends
    <2> QED
      BY <1>3, <2>1, PersistProgress DEF RequestVote
  <1>4. ASSUME NEW n \in Node, NEW save \in SaveResult(n), NEW id \in ready,
               Heartbeat(n, id, save) \/ PublishReady(n, id, save)
        PROVE  \A m \in Node : Progressed(m)
    <2>1. /\ transitionAcceptDomainLeader(state[n], id) \in DomainState
          /\ Extends(transitionAcceptDomainLeader(state[n], id), state[n])
      BY <1>0, LeaderType, TransitionsExtend
    <2>2. CASE UNCHANGED <<state, disk>>
      BY <1>0, <2>2 DEF Progressed
    <2> QED
      BY <1>0, <1>4, <2>1, <2>2, PersistProgress DEF Heartbeat, PublishReady
  <1>5. ASSUME NEW n \in Node, NEW save \in SaveResult(n), NEW h \in higherTerms,
               observeHigherDomainTerm(n, h.term, save)
        PROVE  \A m \in Node : Progressed(m)
    BY <1>0, <1>5, ObserveType, TransitionsExtend, PersistProgress DEF observeHigherDomainTerm
  <1>6. ASSUME NEW n \in Node, NEW save \in SaveResult(n), DomainDeadline(n, save)
        PROVE  \A m \in Node : Progressed(m)
    <2>1. [state[n] EXCEPT !.DomainLeader = NoLeader] \in DomainState
      BY <1>0 DEF DomainState
    <2> QED
      BY <1>0, <1>6, <2>1, TransitionsExtend, PersistProgress DEF DomainDeadline
  <1>7. ASSUME NEW n \in Node, Tick(n)
        PROVE  \A m \in Node : Progressed(m)
    BY <1>0, <1>7, PersistProgress DEF Tick
  <1>8. ASSUME NEW n \in Node, Restart(n)
        PROVE  \A m \in Node : Progressed(m)
    BY <1>0, <1>8 DEF Restart, Progressed, TypeOK
  <1>9. CASE UNCHANGED <<state, disk>>
    BY <1>0, <1>9 DEF Progressed
  <1> QED
    BY <1>1, <1>2, <1>3, <1>4, <1>5, <1>6, <1>7, <1>8, <1>9
       DEF Next, FinishCampaign, LogChanges, vars

\* Which actions change which part of the state.
LEMMA Frame ==
    ASSUME [Next]_vars
    PROVE  /\ \/ \E n \in Node : \E save \in SaveResult(n) : CampaignDomain(n, save)
              \/ \E n \in Node : \E save \in SaveResult(n), r \in voteRequests : RequestVote(n, r, save)
              \/ UNCHANGED <<voteRequests, voteGrants>>
           /\ \/ \E n \in Node : \E save \in SaveResult(n) : CampaignDomain(n, save)
              \/ \E n \in Node : \E save \in SaveResult(n) : WinDomain(n, save)
              \/ \E n \in Node : FinishCampaign(n) \/ Restart(n)
              \/ UNCHANGED campaign
           /\ \/ \E n \in Node : \E save \in SaveResult(n) : WinDomain(n, save)
              \/ UNCHANGED ready
  <1>1. \A n \in Node : \A save \in SaveResult(n) :
           /\ CampaignDomain(n, save) => UNCHANGED ready
           /\ WinDomain(n, save) => UNCHANGED <<voteRequests, voteGrants>>
           /\ DomainDeadline(n, save) =>
                UNCHANGED <<voteRequests, voteGrants, campaign, ready>>
    BY DEF CampaignDomain, WinDomain, DomainDeadline, wire
  <1>2. \A n \in Node : \A save \in SaveResult(n), r \in voteRequests :
           RequestVote(n, r, save) => UNCHANGED <<campaign, ready>>
    BY DEF RequestVote
  <1>3. \A n \in Node : \A save \in SaveResult(n), id \in ready :
           Heartbeat(n, id, save) \/ PublishReady(n, id, save) =>
             UNCHANGED <<voteRequests, voteGrants, campaign, ready>>
    BY DEF Heartbeat, PublishReady, wire
  <1>4. \A n \in Node : \A save \in SaveResult(n), h \in higherTerms :
           observeHigherDomainTerm(n, h.term, save) =>
             UNCHANGED <<voteRequests, voteGrants, campaign, ready>>
    BY DEF observeHigherDomainTerm, wire
  <1>5. \A n \in Node :
           /\ Tick(n) \/ LogChanges(n) => UNCHANGED <<voteRequests, voteGrants, campaign, ready>>
           /\ FinishCampaign(n) \/ Restart(n) => UNCHANGED <<voteRequests, voteGrants, ready>>
    BY DEF Tick, LogChanges, FinishCampaign, Restart, wire
  <1>6. CASE UNCHANGED vars
    BY <1>6 DEF vars
  <1>7. CASE Next
    BY <1>1, <1>2, <1>3, <1>4, <1>5, <1>7 DEF Next
  <1> QED
    BY <1>6, <1>7

\* Every ballot counted has a voter, a candidate and a term.
LEMMA BallotType == TypeOK => Ballots \subseteq [voter : Node, candidate : Node, term : Nat]
  BY DEF TypeOK, Ballots

\* A ballot cast in a step is remembered at once, and agrees with every earlier one.
LEMMA NewBallots ==
    ASSUME TypeOK, BallotsRemembered, [Next]_vars
    PROVE  /\ Ballots \subseteq Ballots'
           /\ \A b \in Ballots' \ Ballots :
                /\ Remembers(state'[b.voter], b) /\ Remembers(disk'[b.voter], b)
                /\ \A c \in Ballots' :
                     c.voter = b.voter /\ c.term = b.term => c.candidate = b.candidate
  <1> DEFINE Good == /\ Ballots \subseteq Ballots'
                     /\ \A b \in Ballots' \ Ballots :
                          /\ Remembers(state'[b.voter], b) /\ Remembers(disk'[b.voter], b)
                          /\ \A c \in Ballots' :
                               c.voter = b.voter /\ c.term = b.term => c.candidate = b.candidate
  <1>0. \A b \in Ballots : /\ b \in [voter : Node, candidate : Node, term : Nat]
                            /\ Remembers(state[b.voter], b)
    BY BallotType DEF BallotsRemembered
  <1>1. ASSUME NEW n \in Node, NEW save \in SaveResult(n), CampaignDomain(n, save)
        PROVE  Good
    <2> DEFINE t == state[n].DomainTerm + 1
               new == [voter |-> n, candidate |-> n, term |-> t]
    <2>1. state[n].DomainTerm \in Nat /\ t \in Nat
      BY DEF TypeOK, DomainState
    <2>2. Ballots' = Ballots \cup (IF save = "ok" THEN {new} ELSE {})
      <3> DEFINE req == [candidate |-> n, term |-> t, log |-> lastLog[n]]
      <3>1. /\ voteGrants' = voteGrants
            /\ save = "ok" => voteRequests' = voteRequests \cup {req}
            /\ save # "ok" => voteRequests' = voteRequests
        BY <1>1 DEF CampaignDomain, transitionStartDomainCampaign
      <3>2. CASE save # "ok"
        BY <3>1, <3>2 DEF Ballots
      <3>3. CASE save = "ok"
        <4> DEFINE vote(r) == [voter |-> r.candidate, candidate |-> r.candidate, term |-> r.term]
        <4>1. voteRequests' = voteRequests \cup {req} /\ vote(req) = new
          BY <3>1, <3>3
        <4> HIDE DEF req, new, vote
        <4>2. {vote(r) : r \in voteRequests'} = {vote(r) : r \in voteRequests} \cup {new}
          BY <4>1
        <4>3. /\ Ballots = voteGrants \cup {vote(r) : r \in voteRequests}
              /\ Ballots' = voteGrants' \cup {vote(r) : r \in voteRequests'}
          BY DEF Ballots, vote
        <4> QED
          BY <3>1, <3>3, <4>2, <4>3
      <3> QED
        BY <3>2, <3>3
    <2>3. save = "ok" => Remembers(state'[n], new) /\ Remembers(disk'[n], new)
      BY <1>1, <2>1 DEF CampaignDomain, persistLocked, transitionStartDomainCampaign,
                        Remembers, TypeOK, DomainState
    <2>4. \A c \in Ballots : ~(c.voter = n /\ c.term = t)
      BY <1>0, <2>1 DEF Remembers
    <2> QED
      BY <2>2, <2>3, <2>4
  <1>2. ASSUME NEW n \in Node, NEW save \in SaveResult(n), NEW r \in voteRequests,
               RequestVote(n, r, save)
        PROVE  Good
    <2> DEFINE seen == transitionObserveHigherDomainTerm(state[n], r.term)
               granted == VoteGranted(seen, r, lastLog[n]) /\ save = "ok"
               new == [voter |-> n, candidate |-> r.candidate, term |-> r.term]
               s == transitionDomainVote(state[n], r, lastLog[n])
    <2>1. /\ r.candidate \in Node /\ r.term \in Nat /\ state[n] \in DomainState
          /\ state[n].DomainTerm \in Nat
      BY DEF TypeOK, DomainState
    <2>2. Ballots' = Ballots \cup (IF granted THEN {new} ELSE {})
      BY <1>2 DEF RequestVote, Ballots
    <2>3. granted => state'[n] = s /\ disk'[n] = s
      BY <1>2 DEF RequestVote, persistLocked, TypeOK
    <2>4. granted => s.DomainTerm = r.term /\ s.DomainVotedFor = r.candidate
      BY <2>1 DEF transitionDomainVote, VoteGranted, transitionObserveHigherDomainTerm,
                  DomainState
    <2>5. granted => Remembers(state'[n], new) /\ Remembers(disk'[n], new)
      BY <2>3, <2>4 DEF Remembers
    <2>6. ASSUME granted, NEW c \in Ballots, c.voter = n, c.term = r.term
          PROVE  c.candidate = r.candidate
      <3>1. Remembers(state[n], c) /\ c.candidate \in Node
        BY <1>0, <2>6
      <3>2. r.term >= state[n].DomainTerm
        BY <2>1, <2>6 DEF VoteGranted, transitionObserveHigherDomainTerm
      <3>3. state[n].DomainTerm = r.term /\ state[n].DomainVotedFor = c.candidate
        BY <2>1, <2>6, <3>1, <3>2 DEF Remembers
      <3>4. state[n].DomainVotedFor \in {None, r.candidate}
        BY <2>1, <2>6, <3>3 DEF VoteGranted, transitionObserveHigherDomainTerm
      <3> QED
        BY <3>1, <3>3, <3>4, ConfigAssumption
    <2> HIDE DEF granted
    <2> QED
      BY <2>2, <2>5, <2>6
  <1>3. ASSUME UNCHANGED <<voteRequests, voteGrants>>
        PROVE  Good
    BY <1>3 DEF Ballots
  <1>f. \/ UNCHANGED <<voteRequests, voteGrants>>
        \/ \E n \in Node : \E save \in SaveResult(n) : CampaignDomain(n, save)
        \/ \E n \in Node : \E save \in SaveResult(n), r \in voteRequests : RequestVote(n, r, save)
    BY Frame
  <1> HIDE DEF Good
  <1>4. Good
    BY <1>1, <1>2, <1>3, <1>f
  <1> QED
    BY <1>4 DEF Good

\* The election invariant is inductive.
LEMMA ElectionStep == TypeOK /\ ElectionInv /\ [Next]_vars => ElectionInv'
  <1> SUFFICES ASSUME TypeOK, ElectionInv, [Next]_vars PROVE ElectionInv'
    OBVIOUS
  <1>0. TypeOK' /\ \A m \in Node : Progressed(m)
    BY TypeStep, StepProgress
  <1>1. \A m \in Node : /\ state[m] \in DomainState /\ state'[m] \in DomainState
                         /\ disk[m] \in DomainState /\ disk'[m] \in DomainState
    BY <1>0 DEF TypeOK
  <1>2. MemoryAheadOfDisk'
    <2> SUFFICES ASSUME NEW m \in Node PROVE Extends(state'[m], disk'[m])
      BY DEF MemoryAheadOfDisk
    <2>1. Extends(state[m], disk[m])
      BY DEF ElectionInv, MemoryAheadOfDisk
    <2>2. Extends(state'[m], state'[m])
      BY <1>1, TransitionsExtend
    <2>3. CASE Extends(state'[m], state[m])
      BY <1>0, <1>1, <2>1, <2>2, <2>3, ExtendsTransitive DEF Progressed
    <2>4. CASE state'[m] = disk[m]
      BY <1>0, <1>1, <2>1, <2>2, <2>4, ExtendsTransitive DEF Progressed
    <2> QED
      BY <1>0, <2>3, <2>4 DEF Progressed
  <1>3. /\ Ballots \subseteq Ballots'
        /\ \A b \in Ballots' \ Ballots :
             /\ Remembers(state'[b.voter], b) /\ Remembers(disk'[b.voter], b)
             /\ \A c \in Ballots' :
                  c.voter = b.voter /\ c.term = b.term => c.candidate = b.candidate
    BY NewBallots DEF ElectionInv
  <1>4. BallotsRemembered'
    <2> SUFFICES ASSUME NEW b \in Ballots'
                 PROVE  Remembers(state'[b.voter], b) /\ Remembers(disk'[b.voter], b)
      BY DEF BallotsRemembered
    <2>1. CASE b \in Ballots
      <3>1. /\ b \in [voter : Node, candidate : Node, term : Nat] /\ b.voter \in Node
            /\ Remembers(state[b.voter], b) /\ Remembers(disk[b.voter], b)
        BY <2>1, BallotType DEF ElectionInv, BallotsRemembered
      <3> QED
        BY <1>0, <1>1, <3>1, ExtendsRemembers DEF Progressed
    <2> QED
      BY <1>3, <2>1
  <1>5. OneBallotPerTerm'
    BY <1>3 DEF ElectionInv, OneBallotPerTerm
  <1>6. CandidatesVoted'
    <2>1. ASSUME NEW n \in Node, NEW save \in SaveResult(n), CampaignDomain(n, save)
          PROVE  CandidatesVoted'
      <3>1. save = "ok" => [voter |-> n, candidate |-> n, term |-> campaign'[n].term] \in Ballots'
        <4> DEFINE req == [candidate |-> n, term |-> campaign'[n].term, log |-> lastLog[n]]
        <4>1. save = "ok" => req \in voteRequests'
          BY <2>1 DEF CampaignDomain, TypeOK
        <4>2. req.candidate = n /\ req.term = campaign'[n].term
          OBVIOUS
        <4> HIDE DEF req
        <4> QED
          BY <4>1, <4>2 DEF Ballots
      <3> QED
        BY <1>3, <2>1, <3>1 DEF CampaignDomain, CandidatesVoted, ElectionInv, TypeOK
    <2>2. CASE \A m \in Node : campaign'[m].phase = "voting" => campaign'[m] = campaign[m]
      BY <1>3, <2>2 DEF CandidatesVoted, ElectionInv
    <2>3. ASSUME NEW n \in Node, FinishCampaign(n) \/ Restart(n)
          PROVE  CandidatesVoted'
      BY <2>2, <2>3 DEF FinishCampaign, Restart, Idle, TypeOK
    <2>4. ASSUME NEW n \in Node, NEW save \in SaveResult(n), WinDomain(n, save)
          PROVE  CandidatesVoted'
      BY <2>2, <2>4 DEF WinDomain, TypeOK, Campaign, Idle
    <2>5. CASE UNCHANGED campaign
      BY <2>2, <2>5
    <2> QED
      BY <2>1, <2>3, <2>4, <2>5, Frame
  <1>7. (\A id \in ready : BackedByMajority(id))'
    <2> SUFFICES ASSUME NEW id \in ready' PROVE BackedByMajority(id)'
      OBVIOUS
    <2>1. CASE id \in ready
      <3>1. BackedByMajority(id)
        BY <2>1 DEF ElectionInv
      <3> QED
        BY <1>3, <3>1 DEF BackedByMajority
    <2>2. ASSUME NEW n \in Node, NEW save \in SaveResult(n), WinDomain(n, save), id \notin ready
          PROVE  BackedByMajority(id)'
      <3> DEFINE Q == Votes(n, campaign[n].term)
      <3>1. id = [node |-> n, term |-> campaign[n].term]
        BY <2>2 DEF WinDomain
      <3>2. Q \in SUBSET Members(Own(n))
        BY DEF Votes, Members, Own
      <3>3. \A v \in Q : [voter |-> v, candidate |-> n, term |-> campaign[n].term] \in Ballots
        BY <2>2 DEF Votes, Ballots, WinDomain, ElectionInv, CandidatesVoted
      <3>4. Cardinality(Q) >= majority(Cardinality(Members(Own(n))))
        BY <2>2 DEF WinDomain
      <3> QED
        BY <1>3, <3>1, <3>2, <3>3, <3>4 DEF BackedByMajority
    <2> QED
      BY <2>1, <2>2, Frame
  <1> QED
    BY <1>2, <1>4, <1>5, <1>6, <1>7 DEF ElectionInv

\* The inductive invariant of the election: votes are remembered through failed saves and
\* restarts, and every announced leader has a majority of them.
THEOREM ElectionInvariant == Spec => []ElectionInv
  <1>1. Init => ElectionInv
    BY DEF Init, ElectionInv, BallotsRemembered, OneBallotPerTerm, CandidatesVoted, Ballots,
           MemoryAheadOfDisk, Extends, Idle
  <1> QED
    BY <1>1, ElectionStep, TypeCorrect, PTL DEF Spec

\* Two majorities meet in a voter, who has voted once in the term.
LEMMA MajoritiesDecide == TypeOK /\ ElectionInv => OneDomainLeaderPerTerm
  <1> SUFFICES ASSUME TypeOK, ElectionInv, NEW i \in ready, NEW j \in ready,
                      Own(i.node) = Own(j.node), i.term = j.term
               PROVE  i.node = j.node
    BY DEF OneDomainLeaderPerTerm
  <1> DEFINE S == Members(Own(i.node))
  <1>1. PICK P \in SUBSET S :
            /\ Cardinality(P) >= majority(Cardinality(S))
            /\ \A v \in P : [voter |-> v, candidate |-> i.node, term |-> i.term] \in Ballots
    BY DEF ElectionInv, BackedByMajority
  <1>2. PICK Q \in SUBSET S :
            /\ Cardinality(Q) >= majority(Cardinality(S))
            /\ \A v \in Q : [voter |-> v, candidate |-> j.node, term |-> j.term] \in Ballots
    BY DEF ElectionInv, BackedByMajority
  <1>3. IsFiniteSet(S)
    BY ConfigAssumption, FS_Subset, S \subseteq Node DEF Members
  <1>4. PICK v : v \in P /\ v \in Q
    BY <1>1, <1>2, <1>3, MajoritiesIntersect
  <1> DEFINE b == [voter |-> v, candidate |-> i.node, term |-> i.term]
             c == [voter |-> v, candidate |-> j.node, term |-> j.term]
  <1>5. b \in Ballots /\ c \in Ballots
    BY <1>1, <1>2, <1>4
  <1> QED
    BY <1>5 DEF ElectionInv, OneBallotPerTerm

\* Election safety of the domain layer: no two nodes of a domain are elected in the same
\* domain term, for any number of nodes, any failing disks and any restarts.
THEOREM DomainElectionSafety == Spec => []OneDomainLeaderPerTerm
  BY TypeCorrect, ElectionInvariant, MajoritiesDecide, PTL

\* A granted vote stays excluded from being recast by what the voter's store holds.
THEOREM VotesAreDurable == Spec => []GrantsAreDurable
  <1>1. ElectionInv => GrantsAreDurable
    BY DEF ElectionInv, BallotsRemembered, Ballots, Remembers, GrantsAreDurable
  <1> QED
    BY <1>1, ElectionInvariant, PTL

\* A saved vote is final and a saved term never goes back.
THEOREM SavedVoteIsFinal == Spec => DurableVoteIsFinal
  <1> DEFINE Final == \A n \in Node :
                        \/ disk'[n].DomainTerm > disk[n].DomainTerm
                        \/ /\ disk'[n].DomainTerm = disk[n].DomainTerm
                           /\ disk[n].DomainVotedFor # None =>
                                disk'[n].DomainVotedFor = disk[n].DomainVotedFor
  <1>1. TypeOK /\ ElectionInv /\ [Next]_vars => [Final]_disk
    <2> SUFFICES ASSUME TypeOK, ElectionInv, [Next]_vars, NEW n \in Node
                 PROVE  Extends(disk'[n], disk[n])
      BY DEF Extends
    <2>1. TypeOK' /\ Progressed(n) /\ Extends(state[n], disk[n])
      BY TypeStep, StepProgress DEF ElectionInv, MemoryAheadOfDisk
    <2>2. /\ state[n] \in DomainState /\ state'[n] \in DomainState
          /\ disk[n] \in DomainState /\ disk'[n] \in DomainState
      BY <2>1 DEF TypeOK
    <2>3. Extends(disk[n], disk[n])
      BY <2>2, TransitionsExtend
    <2> QED
      BY <2>1, <2>2, <2>3, ExtendsTransitive DEF Progressed
  <1> QED
    BY <1>1, TypeCorrect, ElectionInvariant, PTL DEF Spec, DurableVoteIsFinal

-----------------------------------------------------------------------------
(* Views.                                                                  *)

\* The transitions keep the leader of a state that of its term.
LEMMA TransitionsRecord ==
    ASSUME NEW L \in SUBSET Identity, NEW s \in DomainState, LeaderOfItsTerm(s, L)
    PROVE  /\ \A n \in Node : LeaderOfItsTerm(transitionStartDomainCampaign(s, n), L)
           /\ \A t \in Nat : LeaderOfItsTerm(transitionObserveHigherDomainTerm(s, t), L)
           /\ \A id \in L : id.term >= s.DomainTerm =>
                LeaderOfItsTerm(transitionAcceptDomainLeader(s, id), L)
           /\ \A id \in L : id.term = s.DomainTerm =>
                LeaderOfItsTerm(transitionBecomeDomainLeader(s, id), L)
           /\ LeaderOfItsTerm([s EXCEPT !.DomainLeader = NoLeader], L)
  <1>1. ASSUME NEW id \in L, id.term >= s.DomainTerm
        PROVE  LeaderOfItsTerm(transitionAcceptDomainLeader(s, id), L)
    <2>1. id.term \in Nat /\ s.DomainTerm \in Nat
      BY DEF Identity, DomainState
    <2>2. transitionAcceptDomainLeader(s, id).DomainLeader = id
      BY DEF DomainState, transitionAcceptDomainLeader, transitionObserveHigherDomainTerm
    <2>3. transitionAcceptDomainLeader(s, id).DomainTerm = id.term
      BY <1>1, <2>1 DEF DomainState, transitionAcceptDomainLeader,
                        transitionObserveHigherDomainTerm
    <2> QED
      BY <2>2, <2>3 DEF LeaderOfItsTerm
  <1>2. ASSUME NEW id \in L, id.term = s.DomainTerm
        PROVE  LeaderOfItsTerm(transitionBecomeDomainLeader(s, id), L)
    BY <1>2 DEF DomainState, LeaderOfItsTerm, transitionBecomeDomainLeader
  <1> QED
    BY <1>1, <1>2 DEF DomainState, LeaderOfItsTerm, Valid, NoLeader,
                      transitionStartDomainCampaign, transitionObserveHigherDomainTerm

\* A vote keeps the leader on record, or forgets it with the term.
LEMMA VoteRecord ==
    ASSUME NEW L, NEW s \in DomainState, LeaderOfItsTerm(s, L), NEW r, NEW log, r.term \in Nat
    PROVE  LeaderOfItsTerm(transitionDomainVote(s, r, log), L)
  BY DEF DomainState, LeaderOfItsTerm, Valid, NoLeader, transitionDomainVote, VoteGranted,
         transitionObserveHigherDomainTerm

StatesRecorded ==
    \A m \in Node : LeaderOfItsTerm(state[m], ready) /\ LeaderOfItsTerm(disk[m], ready)

ViewsRecorded ==
    \A n \in Node, d \in Domain : Valid(domainLeaders[n][d]) =>
        domainLeaders[n][d] \in ready /\ Own(domainLeaders[n][d].node) = d

\* Both copies of the states are good if the one that is saved is.
LEMMA PersistRecord ==
    ASSUME TypeOK, StatesRecorded, ready \subseteq ready', NEW n \in Node, NEW s, NEW save,
           LeaderOfItsTerm(s, ready'), persistLocked(n, s, save)
    PROVE  StatesRecorded'
  BY DEF TypeOK, StatesRecorded, LeaderOfItsTerm, persistLocked

\* All views are good if the entry that is written is.
LEMMA ViewRecord ==
    ASSUME TypeOK, ViewsRecorded, ready \subseteq ready', NEW n \in Node, NEW d \in Domain, NEW id,
           id = NoLeader \/ (id \in ready' /\ Own(id.node) = d), SetView(n, d, id)
    PROVE  ViewsRecorded'
  <1> SUFFICES ASSUME NEW m \in Node, NEW e \in Domain, Valid(domainLeaders'[m][e])
               PROVE  domainLeaders'[m][e] \in ready' /\ Own(domainLeaders'[m][e].node) = e
    BY DEF ViewsRecorded
  <1>1. CASE m = n /\ e = d
    <2>1. domainLeaders'[m][e] = id
      BY <1>1 DEF TypeOK, SetView
    <2>2. ~Valid(NoLeader)
      BY DEF Valid, NoLeader
    <2> QED
      BY <1>1, <2>1, <2>2
  <1>2. CASE ~(m = n /\ e = d)
    <2>1. domainLeaders'[m][e] = domainLeaders[m][e]
      BY <1>2 DEF TypeOK, SetView
    <2> QED
      BY <2>1 DEF ViewsRecorded
  <1> QED
    BY <1>1, <1>2

\* The records of who leads a term are kept by every step.
LEMMA RecordStep == TypeOK /\ RecordInv /\ [Next]_vars => RecordInv'
  <1> SUFFICES ASSUME TypeOK, RecordInv, [Next]_vars PROVE RecordInv'
    OBVIOUS
  <1>a. StatesRecorded /\ ViewsRecorded
    BY DEF RecordInv, StatesRecorded, ViewsRecorded
  <1>b. SUFFICES StatesRecorded' /\ ViewsRecorded'
    BY DEF RecordInv, StatesRecorded, ViewsRecorded
  <1>0. /\ \A m \in Node : /\ state[m] \in DomainState /\ state[m].DomainTerm \in Nat
                            /\ LeaderOfItsTerm(state[m], ready)
                            /\ Own(m) \in Domain
        /\ \A r \in voteRequests : r.candidate \in Node /\ r.term \in Nat
        /\ ready \in SUBSET Identity
        /\ \A id \in ready : id.node \in Node /\ id.term \in Nat
        /\ \A h \in higherTerms : h.term \in Nat
    BY <1>a, OwnType DEF TypeOK, DomainState, Identity, StatesRecorded
  <1>1. ASSUME NEW n \in Node, NEW save \in SaveResult(n), CampaignDomain(n, save)
        PROVE  StatesRecorded' /\ ViewsRecorded'
    <2>1. ready' = ready /\ domainLeaders' = domainLeaders
      BY <1>1 DEF CampaignDomain
    <2>2. StatesRecorded'
      BY <1>0, <1>1, <1>a, <2>1, TransitionsRecord, PersistRecord DEF CampaignDomain
    <2> QED
      BY <1>a, <2>1, <2>2 DEF ViewsRecorded
  <1>2. ASSUME NEW n \in Node, NEW save \in SaveResult(n), WinDomain(n, save)
        PROVE  StatesRecorded' /\ ViewsRecorded'
    <2> DEFINE id == [node |-> n, term |-> campaign[n].term]
    <2>1. id \in Identity
      BY <1>2 DEF TypeOK, WinDomain, Campaign, Idle, Identity
    <2>2. /\ ready' = ready \cup {id} /\ id.term = state[n].DomainTerm /\ id.node = n
          /\ persistLocked(n, transitionBecomeDomainLeader(state[n], id), save)
          /\ SetView(n, Own(n), id)
      BY <1>2 DEF WinDomain
    <2> HIDE DEF id
    <2>3. LeaderOfItsTerm(state[n], ready') /\ ready' \in SUBSET Identity
      BY <1>0, <2>1, <2>2 DEF LeaderOfItsTerm
    <2>4. LeaderOfItsTerm(transitionBecomeDomainLeader(state[n], id), ready')
      BY <1>0, <2>2, <2>3, TransitionsRecord
    <2>5. StatesRecorded'
      BY <1>a, <2>2, <2>4, PersistRecord
    <2>6. ViewsRecorded'
      BY <1>0, <1>a, <2>2, ViewRecord
    <2> QED
      BY <2>5, <2>6
  <1>3. ASSUME NEW n \in Node, NEW save \in SaveResult(n), NEW r \in voteRequests,
               RequestVote(n, r, save)
        PROVE  StatesRecorded' /\ ViewsRecorded'
    <2>1. ready' = ready /\ domainLeaders' = domainLeaders
      BY <1>3 DEF RequestVote
    <2>2. LeaderOfItsTerm(transitionDomainVote(state[n], r, lastLog[n]), ready)
      BY <1>0, VoteRecord
    <2>3. StatesRecorded'
      BY <1>3, <1>a, <2>1, <2>2, PersistRecord DEF RequestVote
    <2> QED
      BY <1>a, <2>1, <2>3 DEF ViewsRecorded
  <1>4. ASSUME NEW n \in Node, NEW save \in SaveResult(n), NEW id \in ready,
               Heartbeat(n, id, save) \/ PublishReady(n, id, save)
        PROVE  StatesRecorded' /\ ViewsRecorded'
    <2>1. ready' = ready /\ LeaderOfItsTerm(state[n], ready') /\ Own(id.node) \in Domain
      BY <1>0, <1>4 DEF Heartbeat, PublishReady, wire
    <2>2. id.term >= state[n].DomainTerm =>
            LeaderOfItsTerm(transitionAcceptDomainLeader(state[n], id), ready')
      BY <1>0, <2>1, TransitionsRecord
    <2>3. CASE UNCHANGED <<state, disk, domainLeaders>>
      BY <1>a, <2>1, <2>3 DEF StatesRecorded, ViewsRecorded
    <2>4. CASE Heartbeat(n, id, save) /\ ~(id.term < state[n].DomainTerm)
      <3>1. /\ id.term >= state[n].DomainTerm
            /\ persistLocked(n, transitionAcceptDomainLeader(state[n], id), save)
            /\ SetView(n, Own(n), id) /\ Own(n) = Own(id.node)
        BY <1>0, <2>4 DEF Heartbeat, Members, Own
      <3>2. StatesRecorded'
        BY <1>a, <2>1, <2>2, <3>1, PersistRecord
      <3>3. ViewsRecorded'
        BY <1>a, <2>1, <3>1, ViewRecord
      <3> QED
        BY <3>2, <3>3
    <2>5. CASE PublishReady(n, id, save)
      <3>1. /\ \/ persistLocked(n, state[n], save)
               \/ /\ persistLocked(n, transitionAcceptDomainLeader(state[n], id), save)
                  /\ id.term >= state[n].DomainTerm
            /\ SetView(n, Own(id.node), id)
        BY <2>5 DEF PublishReady
      <3>2. StatesRecorded'
        BY <1>a, <2>1, <2>2, <3>1, PersistRecord
      <3>3. ViewsRecorded'
        BY <1>a, <2>1, <3>1, ViewRecord
      <3> QED
        BY <3>2, <3>3
    <2> QED
      BY <1>4, <2>3, <2>4, <2>5 DEF Heartbeat
  <1>5. ASSUME NEW n \in Node, NEW save \in SaveResult(n), NEW h \in higherTerms,
               observeHigherDomainTerm(n, h.term, save)
        PROVE  StatesRecorded' /\ ViewsRecorded'
    <2>1. ready' = ready
      BY <1>5 DEF observeHigherDomainTerm, wire
    <2>2. StatesRecorded'
      BY <1>0, <1>5, <1>a, <2>1, TransitionsRecord, PersistRecord DEF observeHigherDomainTerm
    <2>3. CASE SetView(n, Own(n), NoLeader)
      BY <1>0, <1>a, <2>1, <2>2, <2>3, ViewRecord
    <2>4. CASE UNCHANGED domainLeaders
      BY <1>a, <2>1, <2>2, <2>4 DEF ViewsRecorded
    <2> QED
      BY <1>5, <2>3, <2>4 DEF observeHigherDomainTerm
  <1>6. ASSUME NEW n \in Node, NEW save \in SaveResult(n), DomainDeadline(n, save)
        PROVE  StatesRecorded' /\ ViewsRecorded'
    <2>1. ready' = ready
      BY <1>6 DEF DomainDeadline, wire
    <2>2. LeaderOfItsTerm([state[n] EXCEPT !.DomainLeader = NoLeader], ready)
      BY <1>0, TransitionsRecord
    <2>3. StatesRecorded'
      BY <1>6, <1>a, <2>1, <2>2, PersistRecord DEF DomainDeadline
    <2>4. ViewsRecorded'
      BY <1>0, <1>6, <1>a, <2>1, ViewRecord DEF DomainDeadline
    <2> QED
      BY <2>3, <2>4
  <1>7. ASSUME NEW n \in Node, Tick(n)
        PROVE  StatesRecorded' /\ ViewsRecorded'
    <2>1. ready' = ready /\ domainLeaders' = domainLeaders
      BY <1>7 DEF Tick, wire
    <2>2. StatesRecorded'
      BY <1>0, <1>7, <1>a, <2>1, PersistRecord DEF Tick
    <2> QED
      BY <1>a, <2>1, <2>2 DEF ViewsRecorded
  <1>8. ASSUME NEW n \in Node, Restart(n)
        PROVE  StatesRecorded' /\ ViewsRecorded'
    <2>1. ~Valid(NoLeader)
      BY DEF Valid, NoLeader
    <2>2. StatesRecorded'
      BY <1>8, <1>a DEF Restart, StatesRecorded, TypeOK
    <2>3. ViewsRecorded'
      BY <1>8, <1>a, <2>1 DEF Restart, ViewsRecorded, TypeOK
    <2> QED
      BY <2>2, <2>3
  <1>9. CASE UNCHANGED <<state, disk, domainLeaders, ready>>
    BY <1>9, <1>a DEF StatesRecorded, ViewsRecorded
  <1> QED
    BY <1>1, <1>2, <1>3, <1>4, <1>5, <1>6, <1>7, <1>8, <1>9
       DEF Next, FinishCampaign, LogChanges, vars, wire

\* Every leader a node has on record, in memory or on disk, was elected: the inductive
\* form of RecordedLeadersWereElected.
THEOREM RecordInvariant == Spec => []RecordInv
  <1>1. Init => RecordInv
    BY DEF Init, RecordInv, LeaderOfItsTerm, Valid, NoLeader
  <1> QED
    BY <1>1, RecordStep, TypeCorrect, PTL DEF Spec

\* No late, repeated or reordered heartbeat or announcement, and no restart, makes a node
\* record a leader that was never elected or that led an older term than its own.
THEOREM LeadersOnRecordWereElected == Spec => []RecordedLeadersWereElected
  <1>1. RecordInv => RecordedLeadersWereElected
    BY DEF RecordInv, LeaderOfItsTerm, RecordedLeadersWereElected
  <1> QED
    BY <1>1, RecordInvariant, PTL

\* A record of another domain's leader never goes back to an older term while the process
\* lives: only PublishReady writes it, and PublishReady compares the terms.
THEOREM ForeignViewsAdvance == Spec => ForeignViewNeverGoesBack
  <1> DEFINE Advances == \A n \in Node : \A d \in Domain \ {Own(n)} :
                           \/ domainLeaders'[n][d].term >= domainLeaders[n][d].term
                           \/ Restart(n)
  <1>1. TypeOK /\ [Next]_vars => [Advances]_vars
    <2> SUFFICES ASSUME TypeOK, [Next]_vars, NEW n \in Node, NEW d \in Domain \ {Own(n)}
                 PROVE  domainLeaders'[n][d].term >= domainLeaders[n][d].term \/ Restart(n)
      OBVIOUS
    <2>0. domainLeaders[n][d].term \in Nat
      BY DEF TypeOK, Identity, NoLeader
    <2>1. CASE domainLeaders'[n][d] = domainLeaders[n][d]
      BY <2>0, <2>1
    <2>2. ASSUME NEW m \in Node, NEW id, SetView(m, Own(m), id)
          PROVE  domainLeaders'[n][d] = domainLeaders[n][d]
      BY <2>2 DEF TypeOK, SetView
    <2>3. ASSUME NEW m \in Node, NEW save, NEW id \in ready, PublishReady(m, id, save)
          PROVE  domainLeaders'[n][d].term >= domainLeaders[n][d].term
      <3>1. id.term \in Nat /\ id.node \in Node /\ Own(id.node) \in Domain
        BY OwnType DEF TypeOK, Identity
      <3>2. CASE m = n /\ Own(id.node) = d
        BY <2>0, <2>3, <3>1, <3>2 DEF PublishReady, SetView, TypeOK
      <3>3. CASE ~(m = n /\ Own(id.node) = d)
        BY <2>0, <2>3, <3>1, <3>3 DEF PublishReady, SetView, TypeOK
      <3> QED
        BY <3>2, <3>3
    <2>4. ASSUME NEW m \in Node, m # n, Restart(m)
          PROVE  domainLeaders'[n][d] = domainLeaders[n][d]
      BY <2>4 DEF Restart, TypeOK
    <2>5. ASSUME NEW m \in Node, NEW save \in SaveResult(m)
          PROVE  /\ CampaignDomain(m, save) => UNCHANGED domainLeaders
                 /\ WinDomain(m, save) => \E id : SetView(m, Own(m), id)
                 /\ \A r \in voteRequests : RequestVote(m, r, save) => UNCHANGED domainLeaders
                 /\ \A id \in ready : Heartbeat(m, id, save) =>
                      UNCHANGED domainLeaders \/ SetView(m, Own(m), id)
                 /\ \A h \in higherTerms : observeHigherDomainTerm(m, h.term, save) =>
                      UNCHANGED domainLeaders \/ SetView(m, Own(m), NoLeader)
                 /\ DomainDeadline(m, save) => SetView(m, Own(m), NoLeader)
      BY DEF CampaignDomain, WinDomain, RequestVote, Heartbeat, observeHigherDomainTerm,
             DomainDeadline
    <2>6. CASE UNCHANGED domainLeaders
      BY <2>1, <2>6
    <2>7. ASSUME NEW m \in Node, NEW id, UNCHANGED domainLeaders \/ SetView(m, Own(m), id)
          PROVE  domainLeaders'[n][d].term >= domainLeaders[n][d].term
      BY <2>0, <2>2, <2>7
    <2>8. ASSUME NEW m \in Node, Restart(m)
          PROVE  domainLeaders'[n][d].term >= domainLeaders[n][d].term \/ Restart(n)
      BY <2>0, <2>4, <2>8
    <2>9. CASE \E m \in Node : FinishCampaign(m) \/ Tick(m) \/ LogChanges(m)
      BY <2>6, <2>9 DEF FinishCampaign, Tick, LogChanges
    <2>10. CASE UNCHANGED vars
      BY <2>6, <2>10 DEF vars
    <2> QED
      BY <2>3, <2>5, <2>6, <2>7, <2>8, <2>9, <2>10 DEF Next
  <1> QED
    BY <1>1, TypeCorrect, PTL DEF Spec, ForeignViewNeverGoesBack

-----------------------------------------------------------------------------
(* The domain layer under the global one.                                  *)

\* A handler of the global layer does to the domain state what the idle tick does.
LEMMA PersistGlobalTicks ==
    ASSUME TypeOK, NEW n \in Node, NEW g, NEW save \in SaveResult(n),
           persistGlobal(n, g, save), UNCHANGED domainFields
    PROVE  [Next]_vars
  <1>1. CASE save = "ok"
    BY <1>1 DEF persistGlobal, Tick, domainFields, Next
  <1>2. CASE save # "ok"
    <2>1. state' = state /\ disk' = disk
      BY <1>2 DEF persistGlobal, persistLocked, TypeOK
    <2> QED
      BY <2>1 DEF domainFields, vars, wire
  <1> QED
    BY <1>1, <1>2

\* Every step of the two layers is a step of the domain layer or leaves it alone.
LEMMA DomainProjection == TypeOK /\ [GlobalNext]_allVars => [Next]_vars
  <1> SUFFICES ASSUME TypeOK, [GlobalNext]_allVars PROVE [Next]_vars
    OBVIOUS
  <1>1. ASSUME NEW n \in Node, DomainLayerStep(n)
        PROVE  Next
    <2>1. ASSUME NEW save \in SaveResult(n), DomainStepSaving(n, save)
          PROVE  Next
      BY <2>1 DEF DomainStepSaving, Next
    <2>2. ASSUME NEW save \in SaveResult(n), WinDomainStage(n, save)
          PROVE  Next
      BY <2>2 DEF WinDomainStage, Next
    <2>3. ASSUME NEW save \in SaveResult(n), NEW id \in ready, AcceptDomainLeader(n, id, save)
          PROVE  Next
      BY <2>3 DEF AcceptDomainLeader, Next
    <2>4. ASSUME NEW save \in SaveResult(n), NEW h \in higherTerms, h.to = n,
                 observeHigherDomainTermGlobal(n, h.term, save)
          PROVE  Next
      BY <2>4 DEF observeHigherDomainTermGlobal, Next
    <2>5. ASSUME NEW save \in SaveResult(n), DomainDeadlineStage(n, save)
          PROVE  Next
      BY <2>5 DEF DomainDeadlineStage, Next
    <2>6. CASE FinishCampaignStage(n)
      BY <2>6 DEF FinishCampaignStage, Next
    <2>7. ASSUME NEW id \in ready, RejectDomainLeader(n, id)
          PROVE  Next
      <3>1. "ok" \in SaveResult(n)
        BY DEF SaveResult
      <3> QED
        BY <2>7, <3>1 DEF RejectDomainLeader, Next
    <2>8. CASE RestartNode(n)
      BY <2>8 DEF RestartNode, Next
    <2>9. CASE LogChanges(n)
      BY <2>9 DEF Next
    <2> QED
      BY <1>1, <2>1, <2>2, <2>3, <2>4, <2>5, <2>6, <2>7, <2>8, <2>9 DEF DomainLayerStep
  <1>2. ASSUME NEW n \in Node, GlobalLayerStep(n)
        PROVE  [Next]_vars
    <2>1. ASSUME NEW save \in SaveResult(n),
                 \/ CampaignGlobal(n, save)
                 \/ \E r \in globalRequests : RequestVoteGlobal(n, r, save)
                 \/ WinGlobal(n, save)
                 \/ \E h \in globalHigher : observeHigherGlobalTerm(n, h.term, save)
                 \/ \E h \in globalHeartbeats : HeartbeatGlobal(n, h, save)
                 \/ StepDownGlobal(n, save)
                 \/ GlobalDeadline(n, save)
          PROVE  [Next]_vars
      <3>1. (\E g : persistGlobal(n, g, save)) /\ UNCHANGED domainFields
        BY <2>1 DEF CampaignGlobal, RequestVoteGlobal, WinGlobal, observeHigherGlobalTerm,
                    HeartbeatGlobal, StepDownGlobal, GlobalDeadline
      <3> QED
        BY <3>1, PersistGlobalTicks
    <2>2. CASE \/ AskGlobalVotes(n)
               \/ \E r \in globalRequests : RefuseVoteGlobal(n, r)
               \/ FinishGlobalCampaign(n)
               \/ SendGlobalHeartbeats(n)
               \/ \E h \in globalHeartbeats : RejectHeartbeatGlobal(n, h)
      BY <2>2 DEF AskGlobalVotes, RefuseVoteGlobal, FinishGlobalCampaign,
                  SendGlobalHeartbeats, RejectHeartbeatGlobal
    <2> QED
      BY <1>2, <2>1, <2>2 DEF GlobalLayerStep
  <1>3. CASE UNCHANGED allVars
    BY <1>3 DEF allVars
  <1> QED
    BY <1>1, <1>2, <1>3 DEF GlobalNext

\* The domain part of the composed system keeps its types.
LEMMA GlobalDomainTypes == GlobalSpec => []TypeOK
  <1>1. GlobalInit => TypeOK
    BY ConfigAssumption DEF GlobalInit, Init, TypeOK, DomainState, Role, Campaign
  <1>2. TypeOK /\ [GlobalNext]_allVars => TypeOK'
    BY DomainProjection, TypeStep
  <1> QED
    BY <1>1, <1>2, PTL DEF GlobalSpec

\* The global layer, whose handlers save the whole state under the same mutex, never does
\* anything to the domain layer that the domain layer could not have done by itself.
THEOREM GlobalImplementsDomain == GlobalSpec => DomainLayer
  <1>1. GlobalInit => Init
    BY DEF GlobalInit
  <1> QED
    BY <1>1, DomainProjection, GlobalDomainTypes, PTL DEF GlobalSpec, DomainLayer, Spec

-----------------------------------------------------------------------------
(* Types.                                                                  *)

\* The transitions of the global layer return well-formed states.
LEMMA GlobalTransitionTypes ==
    ASSUME NEW g \in GlobalState
    PROVE  /\ \A id \in Identity :
                /\ transitionStartGlobalCampaign(g, id) \in GlobalState
                /\ transitionStartGlobalCampaign(g, id).GlobalTerm \in Nat \ {0}
           /\ \A t \in Nat : transitionObserveHigherGlobalTerm(g, t) \in GlobalState
  BY DEF GlobalState, transitionStartGlobalCampaign, transitionObserveHigherGlobalTerm

\* A global vote yields a global state,
LEMMA GlobalVoteType ==
    ASSUME NEW g \in GlobalState, NEW r, NEW log, r.candidate \in Identity, r.term \in Nat
    PROVE  transitionGlobalVote(g, r, log) \in GlobalState
  BY GlobalTransitionTypes DEF transitionGlobalVote, GlobalState

\* Saving keeps both copies of the global state well-formed.
LEMMA SaveGlobalType ==
    ASSUME GlobalTypeOK, NEW n \in Node, NEW g \in GlobalState, NEW save, SaveGlobal(n, g, save)
    PROVE  gstate' \in [Node -> GlobalState] /\ gdisk' \in [Node -> GlobalState]
  BY DEF GlobalTypeOK, SaveGlobal

\* A known leader is an identity as soon as its term or its node says so.
LEMMA KnownLeaders ==
    ASSUME TypeOK, NEW n \in Node
    PROVE  /\ \A d \in Domain : domainLeaders[n][d].node \in Node => domainLeaders[n][d] \in Identity
           /\ Snapshot(n) \subseteq Identity
           /\ domainLeaders[n][Own(n)].node = n => domainLeaders[n][Own(n)] \in Identity
  <1>1. \A d \in Domain : domainLeaders[n][d] \in Identity \cup {NoLeader}
    BY DEF TypeOK
  <1>2. NoLeader.node \notin Node /\ ~Valid(NoLeader)
    BY ConfigAssumption DEF NoLeader, Valid
  <1>3. Own(n) \in Domain
    BY OwnType
  <1> QED
    BY <1>1, <1>2, <1>3 DEF Snapshot

\* The type invariant of the global layer is preserved by every step.
LEMMA GlobalTypeStep == TypeOK /\ GlobalTypeOK /\ [GlobalNext]_allVars => GlobalTypeOK'
  <1> SUFFICES ASSUME TypeOK, GlobalTypeOK, [GlobalNext]_allVars PROVE GlobalTypeOK'
    OBVIOUS
  <1> DEFINE
        StatesTyped == gstate \in [Node -> GlobalState] /\ gdisk \in [Node -> GlobalState]
        NodesTyped ==
            /\ globalRole \in [Node -> Role]
            /\ globalLeader \in [Node -> GlobalIdentity \cup {NoGlobalLeader}]
            /\ stage \in [Node -> Stage]
        CampaignsTyped == globalCampaign \in [Node -> GlobalCampaign]
        VotesTyped ==
            /\ globalRequests \subseteq [to : Node, candidate : Identity, term : Nat \ {0},
                                         log : Summaries]
            /\ globalGrants \subseteq [voter : Identity, candidate : Identity, term : Nat \ {0}]
            /\ globalHigher \subseteq [to : Node, term : Nat]
        HeartbeatsTyped == globalHeartbeats \subseteq [to : Node, leader : GlobalIdentity,
                                                       hop : {"direct", "relayed"}]
        ElectedTyped == elected \subseteq GlobalIdentity
        Typed == /\ StatesTyped /\ NodesTyped /\ CampaignsTyped /\ VotesTyped
                 /\ HeartbeatsTyped /\ ElectedTyped
  <1>0. Typed
    BY DEF GlobalTypeOK
  <1>a. SUFFICES Typed'
    BY DEF GlobalTypeOK
  <1>b. ASSUME NEW n \in Node
        PROVE  /\ gstate[n] \in GlobalState /\ gstate[n].GlobalTerm \in Nat
               /\ gdisk[n] \in GlobalState
               /\ stage[n] \in Stage /\ CloseGate(stage[n]) \in Stage
               /\ AwaitGlobal(stage[n]) \in Stage
               /\ lastLog[n] \in Summaries
               /\ domainLeaders[n][Own(n)].node = n => domainLeaders[n][Own(n)] \in Identity
               /\ Snapshot(n) \subseteq Identity
    BY <1>0, KnownLeaders DEF GlobalState, Stage, CloseGate, AwaitGlobal, TypeOK
  <1>c. \A r \in globalRequests : /\ r.to \in Node /\ r.candidate \in Identity
                                  /\ r.candidate.node \in Node /\ r.term \in Nat \ {0}
                                  /\ r.term \in Nat
    BY <1>0 DEF Identity
  <1>d. \A h \in globalHeartbeats : /\ h.to \in Node /\ h.leader \in GlobalIdentity
                                    /\ h.leader.term \in Nat /\ h.leader.leader.node \in Node
    BY <1>0 DEF GlobalIdentity, Identity
  <1>e. ASSUME NEW n \in Node, globalCampaign[n] # NoCampaign
        PROVE  /\ globalCampaign[n] \in [phase : {"starting", "voting"}, candidate : Identity,
                                         term : Nat \ {0}, log : Summaries]
               /\ globalCampaign[n].candidate \in Identity
               /\ globalCampaign[n].term \in Nat \ {0}
               /\ globalCampaign[n].log \in Summaries
    BY <1>0, <1>e DEF GlobalCampaign
  <1>r. "Follower" \in Role /\ "Candidate" \in Role /\ "Leader" \in Role
    BY DEF Role
  <1>s. /\ "DomainElecting" \in Stage /\ "DomainReady" \in Stage
        /\ "GlobalElecting" \in Stage /\ "Serving" \in Stage
    BY DEF Stage
  <1>g. NoCampaign \in GlobalCampaign
    BY DEF GlobalCampaign
  <1>1. ASSUME NEW n \in Node, NEW save,
               \/ DomainStepSaving(n, save) \/ WinDomainStage(n, save)
               \/ \E id \in ready : AcceptDomainLeader(n, id, save)
               \/ \E h \in higherTerms : observeHigherDomainTermGlobal(n, h.term, save)
               \/ DomainDeadlineStage(n, save)
        PROVE  Typed'
    <2>1. SaveGlobal(n, gstate[n], save)
      BY <1>1 DEF DomainStepSaving, WinDomainStage, AcceptDomainLeader,
                  observeHigherDomainTermGlobal, DomainDeadlineStage
    <2>2. StatesTyped'
      BY <1>b, <2>1, SaveGlobalType
    <2>3. NodesTyped'
      BY <1>0, <1>1, <1>b, <1>r, <1>s
         DEF DomainStepSaving, WinDomainStage, AcceptDomainLeader, observeHigherDomainTermGlobal,
             DomainDeadlineStage, SetStage, SetGlobalRole, Follow
    <2>4. UNCHANGED <<globalCampaign, globalWire, elected>>
      BY <1>1 DEF DomainStepSaving, WinDomainStage, AcceptDomainLeader,
                  observeHigherDomainTermGlobal, DomainDeadlineStage
    <2> QED
      BY <1>0, <2>2, <2>3, <2>4 DEF globalWire
  <1>2. ASSUME NEW n \in Node, FinishCampaignStage(n)
        PROVE  Typed'
    BY <1>0, <1>2, <1>b, <1>s DEF FinishCampaignStage, SetStage, globalWire
  <1>3. ASSUME NEW n \in Node, RestartNode(n)
        PROVE  Typed'
    BY <1>0, <1>3, <1>b, <1>r, <1>s, <1>g
       DEF RestartNode, SetStage, SetGlobalRole, Follow
  <1>4. ASSUME NEW n \in Node, NEW save, CampaignGlobal(n, save)
        PROVE  Typed'
    <2> DEFINE candidate == domainLeaders[n][Own(n)]
               g == transitionStartGlobalCampaign(gstate[n], candidate)
    <2>1. candidate \in Identity
      BY <1>4, <1>b DEF CampaignGlobal
    <2>2. g \in GlobalState /\ g.GlobalTerm \in Nat \ {0}
      BY <1>b, <2>1, GlobalTransitionTypes
    <2>3. StatesTyped'
      BY <1>4, <2>2, SaveGlobalType DEF CampaignGlobal, persistGlobal
    <2>4. NodesTyped'
      BY <1>0, <1>4, <1>r DEF CampaignGlobal, SetGlobalRole, Follow
    <2>5. CASE save = "ok"
      <3>1. /\ globalCampaign' = [globalCampaign EXCEPT ![n] =
                 [phase |-> "starting", candidate |-> candidate, term |-> g.GlobalTerm,
                  log |-> lastLog[n]]]
            /\ globalGrants' = globalGrants \cup
                 {[voter |-> candidate, candidate |-> candidate, term |-> g.GlobalTerm]}
            /\ UNCHANGED <<globalRequests, globalHigher, globalHeartbeats, elected>>
        BY <1>4, <2>5 DEF CampaignGlobal
      <3> HIDE DEF candidate, g
      <3>2. CampaignsTyped'
        BY <1>0, <1>b, <2>1, <2>2, <3>1 DEF GlobalCampaign
      <3>3. VotesTyped' /\ HeartbeatsTyped' /\ ElectedTyped'
        BY <1>0, <2>1, <2>2, <3>1
      <3> QED
        BY <2>3, <2>4, <3>2, <3>3
    <2>6. CASE save # "ok"
      BY <1>0, <1>4, <2>3, <2>4, <2>6 DEF CampaignGlobal
    <2> QED
      BY <2>5, <2>6
  <1>5. ASSUME NEW n \in Node, NEW save, NEW r \in globalRequests, RequestVoteGlobal(n, r, save)
        PROVE  Typed'
    <2>1. transitionGlobalVote(gstate[n], r, lastLog[n]) \in GlobalState
      BY <1>b, <1>c, GlobalVoteType
    <2>2. StatesTyped'
      BY <1>5, <2>1, SaveGlobalType DEF RequestVoteGlobal, persistGlobal
    <2>3. NodesTyped'
      <3>1. \/ /\ SetGlobalRole(n, "Follower") /\ Follow(n, NoGlobalLeader)
               /\ SetStage(n, CloseGate(stage[n]))
            \/ UNCHANGED <<globalRole, globalLeader, stage>>
        BY <1>5 DEF RequestVoteGlobal
      <3> QED
        BY <1>0, <1>b, <1>r, <3>1 DEF SetGlobalRole, Follow, SetStage
    <2>4. domainLeaders[n][Own(n)] \in Identity
      BY <1>5, <1>b DEF RequestVoteGlobal, MayVoteFor
    <2>5. CampaignsTyped' /\ VotesTyped' /\ HeartbeatsTyped' /\ ElectedTyped'
      BY <1>0, <1>5, <1>c, <2>4 DEF RequestVoteGlobal
    <2> QED
      BY <2>2, <2>3, <2>5
  <1>6. ASSUME NEW n \in Node, NEW save, WinGlobal(n, save)
        PROVE  Typed'
    <2> DEFINE leader == [leader |-> globalCampaign[n].candidate, term |-> globalCampaign[n].term]
    <2>1. leader \in GlobalIdentity
      BY <1>6, <1>e DEF WinGlobal, NoCampaign, GlobalIdentity
    <2>2. StatesTyped'
      BY <1>6, <1>b, SaveGlobalType DEF WinGlobal, persistGlobal
    <2>3. /\ Follow(n, leader) /\ elected' = elected \cup {leader}
          /\ SetGlobalRole(n, "Leader") /\ SetStage(n, "Serving")
          /\ globalCampaign' = [globalCampaign EXCEPT ![n] = NoCampaign]
          /\ UNCHANGED globalWire
      BY <1>6 DEF WinGlobal
    <2> HIDE DEF leader
    <2>4. NodesTyped'
      BY <1>0, <1>r, <1>s, <2>1, <2>3 DEF SetGlobalRole, Follow, SetStage
    <2>5. CampaignsTyped' /\ VotesTyped' /\ HeartbeatsTyped' /\ ElectedTyped'
      BY <1>0, <1>g, <2>1, <2>3 DEF globalWire
    <2> QED
      BY <2>2, <2>4, <2>5
  <1>7. ASSUME NEW n \in Node, NEW save, NEW h \in globalHigher,
               observeHigherGlobalTerm(n, h.term, save)
        PROVE  Typed'
    <2>1. h.term \in Nat
      BY <1>0
    <2>2. StatesTyped'
      BY <1>7, <1>b, <2>1, GlobalTransitionTypes, SaveGlobalType
         DEF observeHigherGlobalTerm, persistGlobal
    <2> QED
      BY <1>0, <1>7, <1>b, <1>r, <2>2
         DEF observeHigherGlobalTerm, SetGlobalRole, Follow, SetStage, globalWire
  <1>8. ASSUME NEW n \in Node, NEW save, NEW h \in globalHeartbeats, HeartbeatGlobal(n, h, save)
        PROVE  Typed'
    <2>1. StatesTyped'
      BY <1>8, <1>b, <1>d, GlobalTransitionTypes, SaveGlobalType DEF HeartbeatGlobal, persistGlobal
    <2>2. NodesTyped'
      BY <1>0, <1>8, <1>d, <1>r, <1>s DEF HeartbeatGlobal, SetGlobalRole, Follow, SetStage
    <2>3. HeartbeatsTyped'
      BY <1>0, <1>8, <1>d DEF HeartbeatGlobal, Members
    <2> QED
      BY <1>0, <1>8, <2>1, <2>2, <2>3 DEF HeartbeatGlobal
  <1>9. ASSUME NEW n \in Node, NEW save, StepDownGlobal(n, save) \/ GlobalDeadline(n, save)
        PROVE  Typed'
    <2>1. StatesTyped'
      BY <1>9, <1>b, SaveGlobalType DEF StepDownGlobal, GlobalDeadline, persistGlobal
    <2> QED
      BY <1>0, <1>9, <1>b, <1>r, <1>s, <2>1, ZenonT(60)
         DEF StepDownGlobal, GlobalDeadline, SetGlobalRole, Follow, SetStage, globalWire
  <1>10. ASSUME NEW n \in Node, AskGlobalVotes(n)
         PROVE  Typed'
    <2>1. globalCampaign[n] # NoCampaign
      BY <1>10 DEF AskGlobalVotes, NoCampaign
    <2>2. VotesTyped'
      BY <1>0, <1>10, <1>b, <1>e, <2>1 DEF AskGlobalVotes, Identity
    <2>3. CampaignsTyped'
      BY <1>0, <1>10, <1>e, <2>1 DEF AskGlobalVotes, GlobalCampaign
    <2> QED
      BY <1>0, <1>10, <2>2, <2>3 DEF AskGlobalVotes
  <1>11. ASSUME NEW n \in Node, NEW r \in globalRequests, RefuseVoteGlobal(n, r)
         PROVE  Typed'
    BY <1>0, <1>11, <1>b, <1>c DEF RefuseVoteGlobal, ReplyGlobalTerm
  <1>12. ASSUME NEW n \in Node, FinishGlobalCampaign(n)
         PROVE  Typed'
    BY <1>0, <1>12, <1>g DEF FinishGlobalCampaign, globalWire
  <1>13. ASSUME NEW n \in Node, SendGlobalHeartbeats(n)
         PROVE  Typed'
    <2>1. globalLeader[n] \in GlobalIdentity
      <3>1. NoGlobalLeader.leader.node \notin Node
        BY ConfigAssumption DEF NoGlobalLeader, NoLeader
      <3> QED
        BY <1>0, <1>13, <3>1 DEF SendGlobalHeartbeats, LeadsGlobally
    <2>2. \A id \in Snapshot(n) : id.node \in Node
      BY <1>b DEF Identity
    <2> QED
      BY <1>0, <1>13, <2>1, <2>2 DEF SendGlobalHeartbeats
  <1>14. ASSUME NEW n \in Node, NEW h \in globalHeartbeats, RejectHeartbeatGlobal(n, h)
         PROVE  Typed'
    BY <1>0, <1>14, <1>b, <1>d DEF RejectHeartbeatGlobal, ReplyGlobalTerm
  <1>15. CASE UNCHANGED globalVars
    BY <1>0, <1>15 DEF globalVars, globalWire
  <1> HIDE DEF Typed
  <1>16. ASSUME NEW n \in Node, DomainLayerStep(n)
         PROVE  Typed'
    BY <1>1, <1>2, <1>3, <1>15, <1>16 DEF DomainLayerStep, RejectDomainLeader
  <1>17. ASSUME NEW n \in Node, GlobalLayerStep(n)
         PROVE  Typed'
    BY <1>4, <1>5, <1>6, <1>7, <1>8, <1>9, <1>10, <1>11, <1>12, <1>13, <1>14, <1>17
       DEF GlobalLayerStep
  <1> QED
    BY <1>15, <1>16, <1>17 DEF GlobalNext, allVars

\* Every reachable state of the global layer is well-formed.
THEOREM GlobalTypeCorrect == GlobalSpec => []GlobalTypeOK
  <1>1. GlobalInit => GlobalTypeOK
    BY DEF GlobalInit, GlobalTypeOK, GlobalState, Role, Stage, GlobalCampaign
  <1> QED
    BY <1>1, GlobalTypeStep, GlobalDomainTypes, PTL DEF GlobalSpec

-----------------------------------------------------------------------------
(* Global ballots.                                                         *)

\* The transitions of the global layer only add terms and votes to a state.
LEMMA GlobalTransitionsExtend ==
    ASSUME NEW g \in GlobalState
    PROVE  /\ GlobalExtends(g, g)
           /\ \A id \in Identity : GlobalExtends(transitionStartGlobalCampaign(g, id), g)
           /\ \A t \in Nat : GlobalExtends(transitionObserveHigherGlobalTerm(g, t), g)
  BY DEF GlobalState, GlobalExtends, transitionStartGlobalCampaign,
         transitionObserveHigherGlobalTerm

\* and never takes back a global term or another vote of the same term.
LEMMA GlobalVoteExtends ==
    ASSUME NEW g \in GlobalState, NEW r, NEW log, r.candidate \in Identity, r.term \in Nat
    PROVE  GlobalExtends(transitionGlobalVote(g, r, log), g)
  BY DEF GlobalState, GlobalExtends, transitionGlobalVote, GlobalVoteGranted,
         transitionObserveHigherGlobalTerm

\* What a global state remembers, every state that extends it remembers.
LEMMA GlobalExtendsRemembers ==
    ASSUME NEW g \in GlobalState, NEW d \in GlobalState, GlobalExtends(g, d),
           NEW b \in [voter : Identity, candidate : Identity, term : Nat \ {0}],
           GlobalRemembers(d, b)
    PROVE  GlobalRemembers(g, b)
  <1>1. b.candidate # NoLeader
    BY DEF Identity, NoLeader
  <1> QED
    BY <1>1 DEF GlobalState, GlobalExtends, GlobalRemembers

\* Neither do several transitions.
LEMMA GlobalExtendsTransitive ==
    ASSUME NEW g \in GlobalState, NEW d \in GlobalState, NEW e \in GlobalState,
           GlobalExtends(g, d), GlobalExtends(d, e)
    PROVE  GlobalExtends(g, e)
  BY DEF GlobalState, GlobalExtends

\* A step extends the global state of a node or reloads it from the disk, and writes
\* nothing to the disk but the extended state.
GlobalProgressed(n) ==
    /\ GlobalExtends(gstate'[n], gstate[n]) \/ gstate'[n] = gdisk[n]
    /\ \/ gdisk'[n] = gdisk[n]
       \/ gdisk'[n] = gstate'[n] /\ GlobalExtends(gstate'[n], gstate[n])

\* Memory and disk of every node go forward when one node saves such a state,
LEMMA SaveGlobalProgress ==
    ASSUME GlobalTypeOK, NEW n \in Node, NEW g \in GlobalState, NEW save,
           GlobalExtends(g, gstate[n]), SaveGlobal(n, g, save)
    PROVE  \A m \in Node : GlobalProgressed(m)
  <1>1. \A m \in Node : gstate[m] \in GlobalState
    BY DEF GlobalTypeOK
  <1>2. \A m \in Node : GlobalExtends(gstate[m], gstate[m])
    BY <1>1, GlobalTransitionsExtend
  <1> QED
    BY <1>2 DEF GlobalTypeOK, SaveGlobal, GlobalProgressed

\* so they do in every step of the composed system.
LEMMA GlobalStepProgress ==
    ASSUME TypeOK, GlobalTypeOK, [GlobalNext]_allVars
    PROVE  \A m \in Node : GlobalProgressed(m)
  <1>0. /\ \A m \in Node : /\ gstate[m] \in GlobalState /\ GlobalExtends(gstate[m], gstate[m])
                           /\ domainLeaders[m][Own(m)].node = m =>
                                 domainLeaders[m][Own(m)] \in Identity
        /\ \A r \in globalRequests : r.candidate \in Identity /\ r.term \in Nat
        /\ \A h \in globalHigher : h.term \in Nat
        /\ \A h \in globalHeartbeats : h.leader.term \in Nat
    BY GlobalTransitionsExtend, KnownLeaders DEF GlobalTypeOK, GlobalIdentity
  <1>s. ASSUME NEW n \in Node, NEW save, SaveGlobal(n, gstate[n], save)
        PROVE  \A m \in Node : GlobalProgressed(m)
    BY <1>0, <1>s, SaveGlobalProgress
  <1>u. CASE UNCHANGED <<gstate, gdisk>>
    BY <1>0, <1>u DEF GlobalProgressed
  <1>1. ASSUME NEW n \in Node, DomainLayerStep(n)
        PROVE  \A m \in Node : GlobalProgressed(m)
    <2>1. CASE RestartNode(n)
      BY <1>0, <2>1 DEF RestartNode, GlobalProgressed, GlobalTypeOK
    <2>2. CASE FinishCampaignStage(n) \/ UNCHANGED globalVars
      BY <1>u, <2>2 DEF FinishCampaignStage, globalVars
    <2>3. ASSUME NEW save,
                 \/ DomainStepSaving(n, save) \/ WinDomainStage(n, save)
                 \/ \E id \in ready : AcceptDomainLeader(n, id, save)
                 \/ \E h \in higherTerms : observeHigherDomainTermGlobal(n, h.term, save)
                 \/ DomainDeadlineStage(n, save)
          PROVE  \A m \in Node : GlobalProgressed(m)
      BY <1>s, <2>3 DEF DomainStepSaving, WinDomainStage, AcceptDomainLeader,
                  observeHigherDomainTermGlobal, DomainDeadlineStage
    <2> QED
      BY <1>1, <2>1, <2>2, <2>3 DEF DomainLayerStep, RejectDomainLeader
  <1>2. ASSUME NEW n \in Node, GlobalLayerStep(n)
        PROVE  \A m \in Node : GlobalProgressed(m)
    <2>1. ASSUME NEW save, CampaignGlobal(n, save)
          PROVE  \A m \in Node : GlobalProgressed(m)
      <3> DEFINE id == domainLeaders[n][Own(n)]
      <3>1. id \in Identity
        BY <1>0, <2>1 DEF CampaignGlobal
      <3>2. SaveGlobal(n, transitionStartGlobalCampaign(gstate[n], id), save)
        BY <2>1 DEF CampaignGlobal, persistGlobal
      <3> HIDE DEF id
      <3> QED
        BY <1>0, <3>1, <3>2, GlobalTransitionTypes, GlobalTransitionsExtend, SaveGlobalProgress
    <2>2. ASSUME NEW save, NEW r \in globalRequests, RequestVoteGlobal(n, r, save)
          PROVE  \A m \in Node : GlobalProgressed(m)
      <3> DEFINE g == transitionGlobalVote(gstate[n], r, lastLog[n])
      <3>1. g \in GlobalState /\ GlobalExtends(g, gstate[n])
        BY <1>0, GlobalVoteType, GlobalVoteExtends
      <3>2. SaveGlobal(n, g, save)
        BY <2>2 DEF RequestVoteGlobal, persistGlobal
      <3> QED
        BY <3>1, <3>2, SaveGlobalProgress
    <2>3. ASSUME NEW save, \/ \E h \in globalHigher : observeHigherGlobalTerm(n, h.term, save)
                           \/ \E h \in globalHeartbeats : HeartbeatGlobal(n, h, save)
          PROVE  \A m \in Node : GlobalProgressed(m)
      <3>1. PICK t \in Nat : SaveGlobal(n, transitionObserveHigherGlobalTerm(gstate[n], t), save)
        BY <1>0, <2>3 DEF observeHigherGlobalTerm, HeartbeatGlobal, persistGlobal
      <3> QED
        BY <1>0, <3>1, GlobalTransitionTypes, GlobalTransitionsExtend, SaveGlobalProgress
    <2>4. ASSUME NEW save, \/ WinGlobal(n, save) \/ StepDownGlobal(n, save)
                           \/ GlobalDeadline(n, save)
          PROVE  \A m \in Node : GlobalProgressed(m)
      BY <1>s, <2>4 DEF WinGlobal, StepDownGlobal, GlobalDeadline, persistGlobal
    <2>5. CASE \/ AskGlobalVotes(n)
               \/ \E r \in globalRequests : RefuseVoteGlobal(n, r)
               \/ FinishGlobalCampaign(n)
               \/ SendGlobalHeartbeats(n)
               \/ \E h \in globalHeartbeats : RejectHeartbeatGlobal(n, h)
      BY <1>u, <2>5 DEF AskGlobalVotes, RefuseVoteGlobal, FinishGlobalCampaign,
                        SendGlobalHeartbeats, RejectHeartbeatGlobal
    <2> QED
      BY <1>2, <2>1, <2>2, <2>3, <2>4, <2>5 DEF GlobalLayerStep
  <1> QED
    BY <1>1, <1>2, <1>u DEF GlobalNext, allVars, globalVars

\* Which actions cast votes, ask for them, run campaigns and elect.
LEMMA GlobalFrame ==
    ASSUME GlobalTypeOK, [GlobalNext]_allVars
    PROVE  /\ \/ \E n \in Node : \E save \in SaveResult(n) : CampaignGlobal(n, save)
              \/ \E n \in Node : \E save \in SaveResult(n), r \in globalRequests :
                   RequestVoteGlobal(n, r, save)
              \/ UNCHANGED globalGrants
           /\ (\E n \in Node : AskGlobalVotes(n)) \/ UNCHANGED globalRequests
           /\ \/ \E n \in Node : \E save \in SaveResult(n) : CampaignGlobal(n, save)
              \/ \E n \in Node : AskGlobalVotes(n)
              \/ \A m \in Node : globalCampaign'[m] \in {globalCampaign[m], NoCampaign}
           /\ \/ \E n \in Node : \E save \in SaveResult(n) : WinGlobal(n, save)
              \/ UNCHANGED elected
  <1> DEFINE
        Casts == \/ \E n \in Node : \E save \in SaveResult(n) : CampaignGlobal(n, save)
                 \/ \E n \in Node : \E save \in SaveResult(n), r \in globalRequests :
                      RequestVoteGlobal(n, r, save)
                 \/ UNCHANGED globalGrants
        Asks == (\E n \in Node : AskGlobalVotes(n)) \/ UNCHANGED globalRequests
        Campaigns == \/ \E n \in Node : \E save \in SaveResult(n) : CampaignGlobal(n, save)
                     \/ \E n \in Node : AskGlobalVotes(n)
                     \/ \A m \in Node : globalCampaign'[m] \in {globalCampaign[m], NoCampaign}
        Elects == \/ \E n \in Node : \E save \in SaveResult(n) : WinGlobal(n, save)
                  \/ UNCHANGED elected
        All == Casts /\ Asks /\ Campaigns /\ Elects
  <1>u. ASSUME UNCHANGED <<globalGrants, globalRequests, globalCampaign, elected>>
        PROVE  All
    BY <1>u
  <1>1. ASSUME NEW n \in Node, DomainLayerStep(n)
        PROVE  All
    <2>1. CASE RestartNode(n)
      BY <2>1 DEF RestartNode, GlobalTypeOK
    <2>2. CASE FinishCampaignStage(n) \/ UNCHANGED globalVars
      BY <1>u, <2>2 DEF FinishCampaignStage, globalVars, globalWire
    <2>3. ASSUME NEW save,
                 \/ DomainStepSaving(n, save) \/ WinDomainStage(n, save)
                 \/ \E id \in ready : AcceptDomainLeader(n, id, save)
                 \/ \E h \in higherTerms : observeHigherDomainTermGlobal(n, h.term, save)
                 \/ DomainDeadlineStage(n, save)
          PROVE  All
      BY <1>u, <2>3 DEF DomainStepSaving, WinDomainStage, AcceptDomainLeader,
                  observeHigherDomainTermGlobal, DomainDeadlineStage, globalWire
    <2> QED
      BY <1>1, <2>1, <2>2, <2>3 DEF DomainLayerStep, RejectDomainLeader
  <1>2. ASSUME NEW n \in Node, GlobalLayerStep(n)
        PROVE  All
    <2>1. ASSUME NEW save \in SaveResult(n), CampaignGlobal(n, save)
          PROVE  All
      BY <2>1 DEF CampaignGlobal
    <2>2. ASSUME NEW save \in SaveResult(n), NEW r \in globalRequests, RequestVoteGlobal(n, r, save)
          PROVE  All
      BY <2>2 DEF RequestVoteGlobal
    <2>3. ASSUME NEW save \in SaveResult(n), WinGlobal(n, save)
          PROVE  All
      BY <2>3 DEF WinGlobal, globalWire, GlobalTypeOK
    <2>4. CASE AskGlobalVotes(n)
      BY <2>4 DEF AskGlobalVotes
    <2>5. CASE FinishGlobalCampaign(n)
      BY <2>5 DEF FinishGlobalCampaign, globalWire, GlobalTypeOK
    <2>6. ASSUME NEW save,
                 \/ \E h \in globalHigher : observeHigherGlobalTerm(n, h.term, save)
                 \/ \E h \in globalHeartbeats : HeartbeatGlobal(n, h, save)
                 \/ StepDownGlobal(n, save) \/ GlobalDeadline(n, save)
          PROVE  All
      BY <1>u, <2>6 DEF observeHigherGlobalTerm, HeartbeatGlobal, StepDownGlobal, GlobalDeadline,
                  globalWire
    <2>7. CASE \/ \E r \in globalRequests : RefuseVoteGlobal(n, r)
               \/ SendGlobalHeartbeats(n)
               \/ \E h \in globalHeartbeats : RejectHeartbeatGlobal(n, h)
      BY <1>u, <2>7 DEF RefuseVoteGlobal, SendGlobalHeartbeats, RejectHeartbeatGlobal
    <2> HIDE DEF All
    <2> QED
      BY <1>2, <2>1, <2>2, <2>3, <2>4, <2>5, <2>6, <2>7 DEF GlobalLayerStep
  <1>3. CASE UNCHANGED allVars
    BY <1>3, <1>u DEF allVars, globalVars, globalWire
  <1> QED
    BY <1>1, <1>2, <1>3 DEF GlobalNext

\* The votes of a step are for somebody the voter knows, remembered at once, and agree
\* with every earlier vote of the voter.
GoodBallot(b) ==
    /\ GlobalRemembers(gstate'[b.voter.node], b) /\ GlobalRemembers(gdisk'[b.voter.node], b)
    /\ \A c \in globalGrants' :
         c.voter.node = b.voter.node /\ c.term = b.term => c.candidate = b.candidate
    /\ b.voter \in ready /\ b.candidate \in ready
    /\ \/ b.voter.node = b.candidate.node
       \/ /\ Own(b.voter.node) # Own(b.candidate.node)
          /\ \E r \in globalRequests :
               r.to = b.voter.node /\ r.candidate = b.candidate /\ r.term = b.term

\* Ballots are never withdrawn, and every new one is good.
LEMMA NewGlobalBallots ==
    ASSUME TypeOK, GlobalTypeOK, RecordInv, GlobalBallotsRemembered, [GlobalNext]_allVars
    PROVE  /\ globalGrants \subseteq globalGrants'
           /\ \A b \in globalGrants' \ globalGrants : GoodBallot(b)
  <1>0. \A b \in globalGrants : /\ b.voter.node \in Node /\ b.term \in Nat
                                /\ b.candidate \in Identity
                                /\ GlobalRemembers(gstate[b.voter.node], b)
    BY DEF GlobalTypeOK, Identity, GlobalBallotsRemembered
  <1>r. \A m \in Node : domainLeaders[m][Own(m)].node = m =>
            domainLeaders[m][Own(m)] \in Identity /\ domainLeaders[m][Own(m)] \in ready
    BY KnownLeaders, OwnType DEF RecordInv, Valid, Identity
  <1>1. ASSUME NEW n \in Node, NEW save, CampaignGlobal(n, save)
        PROVE  /\ globalGrants \subseteq globalGrants'
               /\ \A b \in globalGrants' \ globalGrants : GoodBallot(b)
    <2> DEFINE id == domainLeaders[n][Own(n)]
               t == gstate[n].GlobalTerm + 1
               g == transitionStartGlobalCampaign(gstate[n], id)
               new == [voter |-> id, candidate |-> id, term |-> t]
    <2>1. id \in ready /\ id.node = n /\ gstate[n].GlobalTerm \in Nat
      BY <1>1, <1>r DEF CampaignGlobal, GlobalTypeOK, GlobalState
    <2>2. globalGrants' = globalGrants \cup (IF save = "ok" THEN {new} ELSE {})
      BY <1>1 DEF CampaignGlobal, transitionStartGlobalCampaign
    <2>3. save = "ok" => gstate'[n] = g /\ gdisk'[n] = g
      BY <1>1 DEF CampaignGlobal, persistGlobal, SaveGlobal, GlobalTypeOK
    <2>4. g.GlobalTerm = t /\ g.GlobalVotedFor = id
      BY DEF transitionStartGlobalCampaign
    <2>5. new.voter = id /\ new.candidate = id /\ new.term = t
      OBVIOUS
    <2> HIDE DEF id, t, g, new
    <2>6. \A c \in globalGrants : ~(c.voter.node = n /\ c.term = t)
      BY <1>0, <2>1 DEF GlobalRemembers, t
    <2>7. save = "ok" => GoodBallot(new)
      BY <2>1, <2>2, <2>3, <2>4, <2>5, <2>6 DEF GoodBallot, GlobalRemembers
    <2> QED
      BY <2>2, <2>7
  <1>2. ASSUME NEW n \in Node, NEW save, NEW r \in globalRequests, RequestVoteGlobal(n, r, save)
        PROVE  /\ globalGrants \subseteq globalGrants'
               /\ \A b \in globalGrants' \ globalGrants : GoodBallot(b)
    <2> DEFINE id == domainLeaders[n][Own(n)]
               seen == transitionObserveHigherGlobalTerm(gstate[n], r.term)
               granted == GlobalVoteGranted(seen, r, lastLog[n]) /\ save = "ok"
               g == transitionGlobalVote(gstate[n], r, lastLog[n])
               new == [voter |-> id, candidate |-> r.candidate, term |-> r.term]
    <2>0. /\ r.candidate \in Identity /\ r.candidate.node \in Node /\ r.term \in Nat
          /\ gstate[n] \in GlobalState /\ gstate[n].GlobalTerm \in Nat
      BY DEF GlobalTypeOK, GlobalState, Identity
    <2>1. /\ n = r.to /\ id.node = n /\ id \in ready
          /\ domainLeaders[n][Own(r.candidate.node)] = r.candidate
          /\ r.term >= gstate[n].GlobalTerm
      BY <1>2, <1>r DEF RequestVoteGlobal, MayVoteFor
    <2>2. globalGrants' = globalGrants \cup (IF granted THEN {new} ELSE {})
      BY <1>2 DEF RequestVoteGlobal
    <2>3. granted => gstate'[n] = g /\ gdisk'[n] = g
      BY <1>2 DEF RequestVoteGlobal, persistGlobal, SaveGlobal, GlobalTypeOK
    <2>4. granted => g.GlobalTerm = r.term /\ g.GlobalVotedFor = r.candidate
      <3>1. seen.GlobalTerm = r.term /\ seen \in GlobalState
        BY <2>0, <2>1, GlobalTransitionTypes DEF transitionObserveHigherGlobalTerm
      <3> QED
        BY <3>1 DEF transitionGlobalVote, GlobalState
    <2>5. r.candidate \in ready
      BY <2>0, <2>1, OwnType DEF RecordInv, Valid, Identity
    <2>6. Own(n) = Own(r.candidate.node) => r.candidate.node = n
      BY <2>1
    <2>7. ASSUME granted, NEW c \in globalGrants, c.voter.node = n, c.term = r.term
          PROVE  c.candidate = r.candidate
      <3>1. GlobalRemembers(gstate[n], c) /\ c.candidate # NoLeader
        BY <1>0, <2>7 DEF Identity, NoLeader
      <3>2. gstate[n].GlobalTerm = r.term /\ gstate[n].GlobalVotedFor = c.candidate
        BY <2>0, <2>1, <2>7, <3>1 DEF GlobalRemembers
      <3>3. gstate[n].GlobalVotedFor \in {NoLeader, r.candidate}
        BY <2>0, <2>7, <3>2 DEF GlobalVoteGranted, transitionObserveHigherGlobalTerm
      <3> QED
        BY <3>1, <3>2, <3>3
    <2>8. new.voter = id /\ new.candidate = r.candidate /\ new.term = r.term
      OBVIOUS
    <2> HIDE DEF id, granted, g, new
    <2>9. granted => GoodBallot(new)
      <3> SUFFICES ASSUME granted PROVE GoodBallot(new)
        OBVIOUS
      <3>1. /\ GlobalRemembers(gstate'[n], new) /\ GlobalRemembers(gdisk'[n], new)
        BY <2>3, <2>4, <2>8 DEF GlobalRemembers
      <3>2. \A c \in globalGrants' :
              c.voter.node = n /\ c.term = r.term => c.candidate = r.candidate
        BY <2>2, <2>7, <2>8
      <3> QED
        BY <2>1, <2>5, <2>6, <2>8, <3>1, <3>2 DEF GoodBallot
    <2> QED
      BY <2>2, <2>9
  <1>3. CASE UNCHANGED globalGrants
    BY <1>3
  <1> QED
    BY <1>1, <1>2, <1>3, GlobalFrame

\* The voters of a candidate can be counted.
LEMMA VotersFinite ==
    ASSUME GlobalTypeOK, NEW c, NEW t
    PROVE  Voters(c, t) \subseteq Node /\ IsFiniteSet(Voters(c, t))
  <1>1. Voters(c, t) \subseteq Node
    BY DEF Voters, GlobalTypeOK, Identity
  <1> QED
    BY <1>1, ConfigAssumption, FS_Subset

\* A request a candidate sends goes to the leaders it knows, one per domain, and nobody has
\* asked on its behalf in that term before.
LEMMA NewGlobalRequests ==
    ASSUME TypeOK, GlobalTypeOK, RecordInv, CampaignsVoted, NEW n \in Node, AskGlobalVotes(n)
    PROVE  /\ globalRequests \subseteq globalRequests'
           /\ \A r \in globalRequests' \ globalRequests :
                /\ r.candidate = globalCampaign[n].candidate
                /\ r.term = globalCampaign[n].term
                /\ r.candidate.node = n
                /\ OwnBallot(r.candidate, r.term) \in globalGrants
                /\ \A s \in globalRequests' :
                     r.candidate = s.candidate /\ r.term = s.term /\ Own(r.to) = Own(s.to)
                       => r.to = s.to
  <1> DEFINE c == globalCampaign[n]
             req(id) == [to |-> id.node, candidate |-> c.candidate, term |-> c.term,
                         log |-> c.log]
             ids == {i \in Snapshot(n) : i.node # n}
  <1>1. globalRequests' = globalRequests \cup {req(id) : id \in ids}
    BY DEF AskGlobalVotes
  <1>2. /\ c.candidate.node = n /\ OwnBallot(c.candidate, c.term) \in globalGrants
        /\ \A r \in globalRequests : ~(r.candidate = c.candidate /\ r.term = c.term)
    BY DEF CampaignsVoted, AskGlobalVotes, NoCampaign
  <1>3. \A id \in ids : req(id).to = id.node /\ req(id).candidate = c.candidate
                        /\ req(id).term = c.term
    OBVIOUS
  <1> HIDE DEF req, c
  <1>4. \A i, j \in ids : Own(i.node) = Own(j.node) => i.node = j.node
    <2> SUFFICES ASSUME NEW d \in Domain, NEW e \in Domain,
                        Valid(domainLeaders[n][d]), Valid(domainLeaders[n][e]),
                        Own(domainLeaders[n][d].node) = Own(domainLeaders[n][e].node)
                 PROVE  domainLeaders[n][d].node = domainLeaders[n][e].node
      BY DEF Snapshot
    <2>1. d = e
      BY DEF RecordInv
    <2> QED
      BY <2>1
  <1> HIDE DEF ids
  <1> QED
    BY <1>1, <1>2, <1>3, <1>4 DEF c

\* The global election invariant is inductive.
LEMMA GlobalElectionStep ==
    TypeOK /\ GlobalTypeOK /\ RecordInv /\ GlobalElectionInv /\ [GlobalNext]_allVars
      => GlobalElectionInv'
  <1> SUFFICES ASSUME TypeOK, GlobalTypeOK, RecordInv, GlobalElectionInv, [GlobalNext]_allVars
               PROVE  GlobalElectionInv'
    OBVIOUS
  <1>0. GlobalTypeOK' /\ \A m \in Node : GlobalProgressed(m)
    BY GlobalTypeStep, GlobalStepProgress
  <1>1. \A m \in Node : /\ gstate[m] \in GlobalState /\ gstate'[m] \in GlobalState
                        /\ gdisk[m] \in GlobalState /\ gdisk'[m] \in GlobalState
    BY <1>0 DEF GlobalTypeOK
  <1>2. GlobalMemoryAheadOfDisk'
    <2> SUFFICES ASSUME NEW m \in Node PROVE GlobalExtends(gstate'[m], gdisk'[m])
      BY DEF GlobalMemoryAheadOfDisk
    <2>1. GlobalExtends(gstate[m], gdisk[m])
      BY DEF GlobalElectionInv, GlobalMemoryAheadOfDisk
    <2>2. GlobalExtends(gstate'[m], gstate'[m])
      BY <1>1, GlobalTransitionsExtend
    <2>3. CASE GlobalExtends(gstate'[m], gstate[m])
      BY <1>0, <1>1, <2>1, <2>2, <2>3, GlobalExtendsTransitive DEF GlobalProgressed
    <2>4. CASE gstate'[m] = gdisk[m]
      BY <1>0, <1>1, <2>1, <2>2, <2>4, GlobalExtendsTransitive DEF GlobalProgressed
    <2> QED
      BY <1>0, <2>3, <2>4 DEF GlobalProgressed
  <1>3. /\ globalGrants \subseteq globalGrants'
        /\ \A b \in globalGrants' \ globalGrants : GoodBallot(b)
    BY NewGlobalBallots DEF GlobalElectionInv
  <1>4. GlobalBallotsRemembered'
    <2> SUFFICES ASSUME NEW b \in globalGrants'
                 PROVE  /\ GlobalRemembers(gstate'[b.voter.node], b)
                        /\ GlobalRemembers(gdisk'[b.voter.node], b)
      BY DEF GlobalBallotsRemembered
    <2>1. CASE b \in globalGrants
      <3>1. /\ b \in [voter : Identity, candidate : Identity, term : Nat \ {0}]
            /\ b.voter.node \in Node
            /\ GlobalRemembers(gstate[b.voter.node], b)
            /\ GlobalRemembers(gdisk[b.voter.node], b)
        BY <2>1 DEF GlobalElectionInv, GlobalBallotsRemembered, GlobalTypeOK, Identity
      <3> QED
        BY <1>0, <1>1, <3>1, GlobalExtendsRemembers DEF GlobalProgressed
    <2> QED
      BY <1>3, <2>1 DEF GoodBallot
  <1>5. OneGlobalBallotPerTerm'
    BY <1>3 DEF GlobalElectionInv, OneGlobalBallotPerTerm, GoodBallot
  <1>6. RequestsFollowBallots' /\ OneRequestPerDomain' /\ globalRequests \subseteq globalRequests'
    <2>1. ASSUME NEW n \in Node, AskGlobalVotes(n)
          PROVE  RequestsFollowBallots' /\ OneRequestPerDomain' /\ globalRequests \subseteq globalRequests'
      <3>1. /\ globalRequests \subseteq globalRequests'
            /\ \A r \in globalRequests' \ globalRequests :
                 /\ OwnBallot(r.candidate, r.term) \in globalGrants
                 /\ \A s \in globalRequests' :
                      r.candidate = s.candidate /\ r.term = s.term /\ Own(r.to) = Own(s.to)
                        => r.to = s.to
        BY <2>1, NewGlobalRequests DEF GlobalElectionInv
      <3>2. RequestsFollowBallots'
        BY <1>3, <3>1 DEF GlobalElectionInv, RequestsFollowBallots, OwnBallot
      <3>3. OneRequestPerDomain'
        BY <3>1 DEF GlobalElectionInv, OneRequestPerDomain
      <3> QED
        BY <3>1, <3>2, <3>3
    <2>2. CASE UNCHANGED globalRequests
      BY <1>3, <2>2 DEF GlobalElectionInv, RequestsFollowBallots, OneRequestPerDomain, OwnBallot
    <2> QED
      BY <2>1, <2>2, GlobalFrame
  <1>7. BallotsWereAsked'
    <2> SUFFICES ASSUME NEW b \in globalGrants'
                 PROVE  \/ b.voter.node = b.candidate.node
                        \/ /\ Own(b.voter.node) # Own(b.candidate.node)
                           /\ \E r \in globalRequests : r.to = b.voter.node
                                /\ r.candidate = b.candidate /\ r.term = b.term
      BY <1>6 DEF BallotsWereAsked
    <2> QED
      BY <1>3 DEF GlobalElectionInv, BallotsWereAsked, GoodBallot
  <1>8. CampaignsVoted'
    <2> SUFFICES ASSUME NEW m \in Node, globalCampaign'[m] # NoCampaign
                 PROVE  LET c == globalCampaign'[m]
                        IN  /\ c.candidate.node = m
                            /\ OwnBallot(c.candidate, c.term) \in globalGrants'
                            /\ c.phase = "starting" =>
                                 \A r \in globalRequests' :
                                    ~(r.candidate = c.candidate /\ r.term = c.term)
      BY DEF CampaignsVoted, OwnBallot
    <2> DEFINE c == globalCampaign[m]
    <2>1. CASE globalCampaign'[m] = c
      <3>1. /\ c.candidate.node = m
            /\ OwnBallot(c.candidate, c.term) \in globalGrants
            /\ c.phase = "starting" =>
                 \A r \in globalRequests : ~(r.candidate = c.candidate /\ r.term = c.term)
        BY <2>1 DEF GlobalElectionInv, CampaignsVoted
      <3>2. ASSUME NEW n \in Node, AskGlobalVotes(n), c.phase = "starting"
            PROVE  \A r \in globalRequests' : ~(r.candidate = c.candidate /\ r.term = c.term)
        <4>1. n # m
          BY <2>1, <3>2 DEF AskGlobalVotes, GlobalTypeOK, GlobalCampaign, NoCampaign
        <4>2. \A r \in globalRequests' \ globalRequests : r.candidate.node = n
          BY <3>2, NewGlobalRequests DEF GlobalElectionInv
        <4> QED
          BY <3>1, <3>2, <4>1, <4>2
      <3>3. c.phase = "starting" =>
              \A r \in globalRequests' : ~(r.candidate = c.candidate /\ r.term = c.term)
        BY <3>1, <3>2, GlobalFrame
      <3> QED
        BY <1>3, <2>1, <3>1, <3>3
    <2>2. ASSUME NEW n \in Node, NEW save, CampaignGlobal(n, save), globalCampaign'[m] # c
          PROVE  /\ globalCampaign'[m].candidate.node = m
                 /\ OwnBallot(globalCampaign'[m].candidate, globalCampaign'[m].term)
                      \in globalGrants'
                 /\ \A r \in globalRequests' :
                      ~(/\ r.candidate = globalCampaign'[m].candidate
                        /\ r.term = globalCampaign'[m].term)
      <3> DEFINE id == domainLeaders[n][Own(n)]
                 t == gstate[n].GlobalTerm + 1
      <3>1. /\ m = n /\ save = "ok"
            /\ globalCampaign'[m].candidate = id /\ globalCampaign'[m].term = t
        BY <2>2 DEF CampaignGlobal, GlobalTypeOK, transitionStartGlobalCampaign
      <3>2. OwnBallot(id, t) \in globalGrants' /\ id.node = n /\ gstate[n].GlobalTerm \in Nat
        BY <2>2, <3>1 DEF CampaignGlobal, transitionStartGlobalCampaign, OwnBallot, GlobalTypeOK,
                          GlobalState
      <3> HIDE DEF id
      <3>3. ASSUME NEW r \in globalRequests, r.candidate = id, r.term = t
            PROVE  FALSE
        <4> DEFINE b == OwnBallot(id, t)
        <4>1. b \in globalGrants /\ b.voter = id /\ b.term = t
          BY <3>3 DEF GlobalElectionInv, RequestsFollowBallots, OwnBallot
        <4>2. GlobalRemembers(gstate[n], b)
          BY <3>2, <4>1 DEF GlobalElectionInv, GlobalBallotsRemembered
        <4> QED
          BY <3>2, <4>1, <4>2 DEF GlobalRemembers
      <3>4. globalRequests' = globalRequests
        BY <2>2 DEF CampaignGlobal
      <3> QED
        BY <3>1, <3>2, <3>3, <3>4
    <2>3. ASSUME NEW n \in Node, AskGlobalVotes(n), globalCampaign'[m] # c
          PROVE  /\ globalCampaign'[m].candidate.node = m
                 /\ OwnBallot(globalCampaign'[m].candidate, globalCampaign'[m].term)
                      \in globalGrants'
                 /\ globalCampaign'[m].phase = "voting"
      <3>1. /\ m = n /\ c # NoCampaign /\ globalCampaign'[m] = [c EXCEPT !.phase = "voting"]
        BY <2>3 DEF AskGlobalVotes, GlobalTypeOK, NoCampaign
      <3>2. /\ globalCampaign'[m].candidate = c.candidate /\ globalCampaign'[m].term = c.term
            /\ globalCampaign'[m].phase = "voting"
        BY <3>1 DEF GlobalTypeOK, GlobalCampaign
      <3> QED
        BY <1>3, <3>1, <3>2 DEF GlobalElectionInv, CampaignsVoted
    <2> QED
      BY <2>1, <2>2, <2>3, GlobalFrame
  <1>9. (\A e \in elected : Cardinality(Voters(e.leader, e.term)) >=
                              globalElectionThreshold(Cardinality(Domain)))'
    <2> SUFFICES ASSUME NEW e \in elected'
                 PROVE  Cardinality(Voters(e.leader, e.term)') >=
                          globalElectionThreshold(Cardinality(Domain))
      OBVIOUS
    <2>1. Cardinality(Voters(e.leader, e.term)) >= globalElectionThreshold(Cardinality(Domain))
      <3>1. CASE e \in elected
        BY <3>1 DEF GlobalElectionInv
      <3>2. ASSUME NEW n \in Node, NEW save, WinGlobal(n, save), e \notin elected
            PROVE  Cardinality(Voters(e.leader, e.term)) >=
                     globalElectionThreshold(Cardinality(Domain))
        BY <3>2 DEF WinGlobal
      <3> QED
        BY <3>1, <3>2, GlobalFrame
    <2>2. Voters(e.leader, e.term) \subseteq Voters(e.leader, e.term)'
      BY <1>3 DEF Voters
    <2>3. IsFiniteSet(Voters(e.leader, e.term)')
      BY <1>0, ConfigAssumption, FS_Subset, Voters(e.leader, e.term)' \subseteq Node
         DEF Voters, GlobalTypeOK, Identity
    <2> DEFINE V == Voters(e.leader, e.term)
               W == Voters(e.leader, e.term)'
    <2>4. Cardinality(V) <= Cardinality(W) /\ Cardinality(V) \in Nat /\ Cardinality(W) \in Nat
      <3> HIDE DEF V, W
      <3>1. V \in SUBSET W /\ IsFiniteSet(W)
        BY <2>2, <2>3 DEF V, W
      <3> QED
        BY <3>1, FS_Subset, FS_CardinalityType
    <2>5. globalElectionThreshold(Cardinality(Domain)) \in Int
      BY GlobalConfigAssumption, FS_CardinalityType DEF globalElectionThreshold, majority
    <2> QED
      BY <2>1, <2>4, <2>5
  <1> QED
    BY <1>2, <1>4, <1>5, <1>6, <1>7, <1>8, <1>9 DEF GlobalElectionInv

\* What the domain layer promises, it promises under the global layer.
LEMMA GlobalDomainRecords == GlobalSpec => []RecordInv
  BY GlobalImplementsDomain, RecordInvariant, PTL DEF DomainLayer

\* The inductive invariant of the global election: votes are remembered through failed
\* saves and restarts, and every candidate asks each domain at most once in a term.
THEOREM GlobalElectionInvariant == GlobalSpec => []GlobalElectionInv
  <1>1. GlobalInit => GlobalElectionInv
    <2> SUFFICES ASSUME GlobalInit PROVE GlobalElectionInv
      OBVIOUS
    <2>1. \A n \in Node : gstate[n] = gdisk[n] /\ globalCampaign[n] = NoCampaign
      BY DEF GlobalInit
    <2> QED
      BY <2>1 DEF GlobalInit, GlobalElectionInv, GlobalBallotsRemembered, OneGlobalBallotPerTerm,
                  GlobalMemoryAheadOfDisk, GlobalExtends, CampaignsVoted, RequestsFollowBallots,
                  OneRequestPerDomain, BallotsWereAsked
  <1> QED
    BY <1>1, GlobalElectionStep, GlobalDomainTypes, GlobalTypeCorrect, GlobalDomainRecords, PTL
       DEF GlobalSpec

\* A global vote survives a crash of its voter, whichever save of either layer failed.
THEOREM GlobalVotesAreDurable == GlobalSpec => []GlobalGrantsAreDurable
  <1>1. GlobalElectionInv => GlobalGrantsAreDurable
    BY DEF GlobalElectionInv, GlobalBallotsRemembered, GlobalRemembers, GlobalGrantsAreDurable
  <1> QED
    BY <1>1, GlobalElectionInvariant, PTL

\* Only elected Domain Leaders vote globally, only for elected Domain Leaders, and none of
\* the candidate's own domain but itself.
THEOREM VotersAreDomainLeaders == GlobalSpec => []VotesAmongDomainLeaders
  <1>1. GlobalInit => VotesAmongDomainLeaders
    BY DEF GlobalInit, VotesAmongDomainLeaders
  <1>2. TypeOK /\ GlobalTypeOK /\ RecordInv /\ GlobalElectionInv /\ VotesAmongDomainLeaders
          /\ [GlobalNext]_allVars => VotesAmongDomainLeaders'
    <2> SUFFICES ASSUME TypeOK, GlobalTypeOK, RecordInv, GlobalElectionInv,
                        VotesAmongDomainLeaders, [GlobalNext]_allVars,
                        NEW b \in globalGrants'
                 PROVE  /\ b.voter \in ready' /\ b.candidate \in ready'
                        /\ Own(b.voter.node) = Own(b.candidate.node) =>
                             b.voter.node = b.candidate.node
      BY DEF VotesAmongDomainLeaders
    <2>1. ready \subseteq ready'
      BY DomainProjection, Frame DEF WinDomain
    <2>2. b \notin globalGrants => GoodBallot(b)
      BY NewGlobalBallots DEF GlobalElectionInv
    <2> QED
      BY <2>1, <2>2 DEF VotesAmongDomainLeaders, GoodBallot
  <1> QED
    BY <1>1, <1>2, GlobalDomainTypes, GlobalTypeCorrect, GlobalDomainRecords,
       GlobalElectionInvariant, PTL DEF GlobalSpec

-----------------------------------------------------------------------------
(* Rival Global Leaders.                                                   *)

\* The voters of one candidate in one term are nodes of different domains.
LEMMA VotersOfDifferentDomains ==
    ASSUME GlobalTypeOK, GlobalElectionInv, NEW c, NEW t,
           NEW v \in Voters(c, t), NEW w \in Voters(c, t), Own(v) = Own(w)
    PROVE  v = w
  <1>1. PICK a \in globalGrants : a.candidate = c /\ a.term = t /\ a.voter.node = v
    BY DEF Voters
  <1>2. PICK b \in globalGrants : b.candidate = c /\ b.term = t /\ b.voter.node = w
    BY DEF Voters
  <1>3. \/ v = c.node
        \/ /\ Own(v) # Own(c.node)
           /\ \E r \in globalRequests : r.to = v /\ r.candidate = c /\ r.term = t
    BY <1>1 DEF GlobalElectionInv, BallotsWereAsked
  <1>4. \/ w = c.node
        \/ /\ Own(w) # Own(c.node)
           /\ \E r \in globalRequests : r.to = w /\ r.candidate = c /\ r.term = t
    BY <1>2 DEF GlobalElectionInv, BallotsWereAsked
  <1> QED
    BY <1>3, <1>4 DEF GlobalElectionInv, OneRequestPerDomain

\* As many domains as voters stand behind a candidate.
LEMMA VotersSpanDomains ==
    ASSUME GlobalTypeOK, GlobalElectionInv, NEW c, NEW t
    PROVE  LET D == {Own(v) : v \in Voters(c, t)}
           IN  D \subseteq Domain /\ Cardinality(D) = Cardinality(Voters(c, t))
  <1> DEFINE V == Voters(c, t)
             D == {Own(v) : v \in V}
             f == [v \in V |-> Own(v)]
  <1>1. V \subseteq Node /\ IsFiniteSet(V)
    BY VotersFinite
  <1>2. D \subseteq Domain
    BY <1>1, OwnType
  <1>3. f \in Surjection(V, D) /\ f \in Injection(V, D)
    <2>1. \A v, w \in V : Own(v) = Own(w) => v = w
      BY VotersOfDifferentDomains
    <2> HIDE DEF V
    <2>2. f \in [V -> D] /\ \A v \in V : f[v] = Own(v)
      OBVIOUS
    <2> QED
      BY <2>1, <2>2 DEF Surjection, Injection, IsInjective
  <1>4. Cardinality(D) = Cardinality(V)
    <2> HIDE DEF V, D, f
    <2> QED
      BY <1>1, <1>3, FS_Surjection
  <1> QED
    BY <1>2, <1>4

\* The threshold of the global election is a majority of the domains.
LEMMA ThresholdIsMajority ==
    ASSUME NEW k \in Nat \ {0}
    PROVE  globalElectionThreshold(k) >= majority(k) /\ globalElectionThreshold(k) \in Nat
  BY DEF globalElectionThreshold, majority

\* The voters of two winners of a term meet in a domain, where two nodes have voted.
LEMMA RivalsMeet ==
    TypeOK /\ GlobalTypeOK /\ GlobalElectionInv => RivalsShareATurnedOverDomain
  <1> SUFFICES ASSUME TypeOK, GlobalTypeOK, GlobalElectionInv, NEW g \in elected,
                      NEW h \in elected, g.term = h.term, g # h
               PROVE  \E b, c \in globalGrants :
                        /\ b.candidate = g.leader /\ b.term = g.term
                        /\ c.candidate = h.leader /\ c.term = h.term
                        /\ Own(b.voter.node) = Own(c.voter.node) /\ b.voter.node # c.voter.node
    BY DEF RivalsShareATurnedOverDomain
  <1> DEFINE V == Voters(g.leader, g.term)
             W == Voters(h.leader, h.term)
             P == {Own(v) : v \in V}
             Q == {Own(w) : w \in W}
             N == Cardinality(Domain)
  <1>1. /\ g \in GlobalIdentity /\ h \in GlobalIdentity
        /\ g.leader.node \in Node
    BY DEF GlobalTypeOK, GlobalIdentity, Identity
  <1>2. g.leader # h.leader
    BY <1>1 DEF GlobalIdentity
  <1>3. N \in Nat \ {0}
    <2>1. N \in Nat /\ Own(g.leader.node) \in Domain
      BY <1>1, OwnType, GlobalConfigAssumption, FS_CardinalityType
    <2> QED
      BY <2>1, GlobalConfigAssumption, FS_EmptySet
  <1>4. /\ P \in SUBSET Domain /\ Q \in SUBSET Domain
        /\ Cardinality(P) >= globalElectionThreshold(N)
        /\ Cardinality(Q) >= globalElectionThreshold(N)
    BY VotersSpanDomains DEF GlobalElectionInv
  <1>5. Cardinality(P) >= majority(N) /\ Cardinality(Q) >= majority(N)
    <2>1. Cardinality(P) \in Nat /\ Cardinality(Q) \in Nat
      BY <1>4, GlobalConfigAssumption, FS_Subset, FS_CardinalityType
    <2>2. majority(N) \in Nat
      BY <1>3 DEF majority
    <2> HIDE DEF P, Q, N
    <2> QED
      BY <1>3, <1>4, <2>1, <2>2, ThresholdIsMajority
  <1>6. P \cap Q # {}
    <2> HIDE DEF P, Q
    <2> QED
      BY <1>4, <1>5, GlobalConfigAssumption, MajoritiesIntersect
  <1>7. PICK v \in V, w \in W : Own(v) = Own(w)
    BY <1>6
  <1>8. PICK b \in globalGrants : b.candidate = g.leader /\ b.term = g.term /\ b.voter.node = v
    BY DEF Voters
  <1>9. PICK c \in globalGrants : c.candidate = h.leader /\ c.term = h.term /\ c.voter.node = w
    BY DEF Voters
  <1>10. v # w
    BY <1>2, <1>8, <1>9 DEF GlobalElectionInv, OneGlobalBallotPerTerm
  <1> QED
    BY <1>7, <1>8, <1>9, <1>10

\* Two Global Leaders of one term have a domain in common that voted through two of its
\* nodes, whatever else is lost, repeated or restarted: without a change of Domain Leader
\* between the votes a global term has at most one leader.
THEOREM RivalsNeedATurnedOverDomain == GlobalSpec => []RivalsShareATurnedOverDomain
  BY GlobalDomainTypes, GlobalTypeCorrect, GlobalElectionInvariant, RivalsMeet, PTL

-----------------------------------------------------------------------------
(* The Global Leader in office.                                            *)

\* Every step keeps that whoever is followed has won an election.
LEMMA GlobalLeaderStep ==
    TypeOK /\ GlobalTypeOK /\ CampaignsVoted /\ GlobalLeaderInv /\ [GlobalNext]_allVars
      => GlobalLeaderInv'
  <1> SUFFICES ASSUME TypeOK, GlobalTypeOK, CampaignsVoted, GlobalLeaderInv,
                      [GlobalNext]_allVars
               PROVE  GlobalLeaderInv'
    OBVIOUS
  <1> DEFINE InOffice(role, leader, g, m, won) ==
                /\ leader \in won \cup {NoGlobalLeader}
                /\ role = "Leader" =>
                     leader \in won /\ leader.leader.node = m /\ leader.term = g.GlobalTerm
             Office == \A m \in Node :
                         InOffice(globalRole[m], globalLeader[m], gstate[m], m, elected)
             Told == \A h \in globalHeartbeats : h.leader \in elected
  <1>0. Office /\ Told
    BY DEF GlobalLeaderInv, GlobalLeaderIsCurrent
  <1>a. SUFFICES Office' /\ Told'
    BY DEF GlobalLeaderInv, GlobalLeaderIsCurrent
  <1>t. /\ globalRole \in [Node -> Role] /\ gstate \in [Node -> GlobalState]
        /\ DOMAIN globalLeader = Node /\ globalLeader = [m \in Node |-> globalLeader[m]]
    BY DEF GlobalTypeOK
  <1>e. elected \subseteq elected'
    BY GlobalFrame DEF WinGlobal
  <1>s. ASSUME NEW n \in Node,
               \A m \in Node \ {n} : /\ globalRole'[m] = globalRole[m]
                                     /\ globalLeader'[m] = globalLeader[m]
                                     /\ gstate'[m] = gstate[m],
               InOffice(globalRole'[n], globalLeader'[n], gstate'[n], n, elected')
        PROVE  Office'
    BY <1>0, <1>e, <1>s
  <1>1. ASSUME NEW n \in Node, DomainLayerStep(n)
        PROVE  Office' /\ Told'
    <2>1. UNCHANGED <<globalHeartbeats, elected>>
      BY <1>1 DEF DomainLayerStep, DomainStepSaving, WinDomainStage, AcceptDomainLeader,
                  observeHigherDomainTermGlobal, DomainDeadlineStage, FinishCampaignStage,
                  RejectDomainLeader, RestartNode, globalVars, globalWire
    <2>2. CASE UNCHANGED globalVars
      BY <1>0, <2>2 DEF globalVars, globalWire
    <2>3. CASE RestartNode(n)
      BY <1>0, <1>t, <1>s, <2>1, <2>3 DEF RestartNode, SetGlobalRole, Follow
    <2>4. CASE UNCHANGED <<globalRole, globalLeader, gstate>>
      BY <1>0, <2>1, <2>4
    <2>5. ASSUME NEW save, NEW h \in higherTerms, observeHigherDomainTermGlobal(n, h.term, save)
          PROVE  Office'
      <3>1. gstate' = gstate
        BY <1>t, <2>5 DEF observeHigherDomainTermGlobal, SaveGlobal
      <3>2. CASE LeadsGlobally(n)
        <4>1. SetGlobalRole(n, "Follower") /\ Follow(n, NoGlobalLeader)
          BY <2>5, <3>2 DEF observeHigherDomainTermGlobal
        <4> QED
          BY <1>t, <1>s, <3>1, <4>1 DEF SetGlobalRole, Follow
      <3>3. CASE ~LeadsGlobally(n)
        BY <2>1, <2>4, <2>5, <3>1, <3>3 DEF observeHigherDomainTermGlobal
      <3> QED
        BY <3>2, <3>3
    <2>6. ASSUME NEW save, \/ DomainStepSaving(n, save) \/ WinDomainStage(n, save)
                           \/ \E id \in ready : AcceptDomainLeader(n, id, save)
                           \/ DomainDeadlineStage(n, save)
          PROVE  Office'
      <3>1. UNCHANGED <<globalRole, globalLeader, gstate>>
        BY <1>t, <2>6 DEF DomainStepSaving, WinDomainStage, AcceptDomainLeader,
                          DomainDeadlineStage, SaveGlobal
      <3> QED
        BY <2>4, <3>1
    <2>7. CASE FinishCampaignStage(n)
      BY <2>4, <2>7 DEF FinishCampaignStage
    <2>8. Told'
      BY <1>0, <2>1
    <2> HIDE DEF Office, Told
    <2> QED
      BY <1>1, <2>2, <2>3, <2>5, <2>6, <2>7, <2>8 DEF DomainLayerStep, RejectDomainLeader
  <1>2. ASSUME NEW n \in Node, GlobalLayerStep(n)
        PROVE  Office' /\ Told'
    <2>o. ASSUME NEW save, NEW r, NEW leader, NEW g,
                 SetGlobalRole(n, r), Follow(n, leader), SaveGlobal(n, g, save),
                 InOffice(r, leader, g, n, elected')
          PROVE  Office'
      BY <1>t, <1>s, <2>o DEF SetGlobalRole, Follow, SaveGlobal
    <2>1. ASSUME NEW save, CampaignGlobal(n, save)
          PROVE  Office' /\ Told'
      BY <1>0, <2>1, <2>o DEF CampaignGlobal, persistGlobal
    <2>2. ASSUME NEW save, NEW r \in globalRequests, RequestVoteGlobal(n, r, save)
          PROVE  Office' /\ Told'
      <3>0. gstate[n].GlobalTerm \in Nat /\ r.term \in Nat
        BY <1>t DEF GlobalState, GlobalTypeOK
      <3>1. Told'
        BY <1>0, <2>2 DEF RequestVoteGlobal
      <3>2. CASE r.term > gstate[n].GlobalTerm
        BY <2>2, <2>o, <3>1, <3>2 DEF RequestVoteGlobal, persistGlobal
      <3>3. CASE ~(r.term > gstate[n].GlobalTerm)
        <4> DEFINE g == transitionGlobalVote(gstate[n], r, lastLog[n])
        <4>1. g.GlobalTerm = gstate[n].GlobalTerm
          BY <1>t, <3>3 DEF transitionGlobalVote, transitionObserveHigherGlobalTerm, GlobalState
        <4>2. /\ gstate' = [gstate EXCEPT ![n] = g]
              /\ UNCHANGED <<globalRole, globalLeader, elected>>
          BY <2>2, <3>3 DEF RequestVoteGlobal, persistGlobal, SaveGlobal
        <4> HIDE DEF g
        <4>3. Office'
          BY <1>0, <1>s, <1>t, <4>1, <4>2
        <4> QED
          BY <3>1, <4>3
      <3> QED
        BY <3>2, <3>3
    <2>3. ASSUME NEW save, WinGlobal(n, save)
          PROVE  Office' /\ Told'
      <3> DEFINE leader == [leader |-> globalCampaign[n].candidate, term |-> globalCampaign[n].term]
      <3>1. globalCampaign[n].candidate.node = n
        BY <2>3 DEF WinGlobal, CampaignsVoted, NoCampaign
      <3>2. /\ Follow(n, leader) /\ elected' = elected \cup {leader}
            /\ SetGlobalRole(n, "Leader") /\ SaveGlobal(n, gstate[n], save)
            /\ leader.term = gstate[n].GlobalTerm /\ leader.leader.node = n
            /\ UNCHANGED globalHeartbeats
        BY <2>3, <3>1 DEF WinGlobal, persistGlobal, globalWire
      <3> HIDE DEF leader
      <3> QED
        BY <1>0, <2>o, <3>2
    <2>4. ASSUME NEW save, NEW h \in globalHigher, observeHigherGlobalTerm(n, h.term, save)
          PROVE  Office' /\ Told'
      BY <1>0, <2>4, <2>o DEF observeHigherGlobalTerm, persistGlobal, globalWire
    <2>5. ASSUME NEW save, NEW h \in globalHeartbeats, HeartbeatGlobal(n, h, save)
          PROVE  Office' /\ Told'
      <3> DEFINE g == transitionObserveHigherGlobalTerm(gstate[n], h.leader.term)
                 r == IF h.leader.leader.node # n \/ h.leader.term > gstate[n].GlobalTerm
                      THEN "Follower" ELSE globalRole[n]
      <3>1. h.leader \in elected /\ elected' = elected
        BY <1>0, <2>5 DEF HeartbeatGlobal
      <3>2. SetGlobalRole(n, r) /\ Follow(n, h.leader) /\ SaveGlobal(n, g, save)
        BY <2>5 DEF HeartbeatGlobal, persistGlobal
      <3>3. h.leader.term \in Nat /\ gstate[n].GlobalTerm \in Nat
        BY <1>t DEF GlobalTypeOK, GlobalIdentity, GlobalState
      <3>4. g.GlobalTerm = h.leader.term
        BY <2>5, <3>3 DEF HeartbeatGlobal, AcceptsGlobal, transitionObserveHigherGlobalTerm
      <3>5. r = "Leader" => h.leader.leader.node = n
        OBVIOUS
      <3> HIDE DEF g, r
      <3>6. Office'
        BY <2>o, <3>1, <3>2, <3>4, <3>5
      <3>7. \A k \in globalHeartbeats' \ globalHeartbeats : k.leader = h.leader
        BY <2>5 DEF HeartbeatGlobal
      <3> QED
        BY <1>0, <3>1, <3>6, <3>7
    <2>6. ASSUME NEW save, StepDownGlobal(n, save)
          PROVE  Office' /\ Told'
      BY <1>0, <2>6, <2>o DEF StepDownGlobal, persistGlobal, globalWire
    <2>7. ASSUME NEW save, GlobalDeadline(n, save)
          PROVE  Office' /\ Told'
      <3>1. SetGlobalRole(n, globalRole[n])
        BY <1>t, <2>7 DEF GlobalDeadline, SetGlobalRole
      <3> QED
        BY <1>0, <2>7, <2>o, <3>1 DEF GlobalDeadline, persistGlobal, globalWire
    <2>8. CASE SendGlobalHeartbeats(n)
      <3>1. globalLeader[n] \in elected
        BY <1>0, <2>8 DEF SendGlobalHeartbeats, LeadsGlobally
      <3>2. \A k \in globalHeartbeats' \ globalHeartbeats : k.leader = globalLeader[n]
        BY <2>8 DEF SendGlobalHeartbeats
      <3>3. UNCHANGED <<globalRole, globalLeader, gstate, elected>>
        BY <2>8 DEF SendGlobalHeartbeats
      <3> QED
        BY <1>0, <3>1, <3>2, <3>3
    <2>9. CASE \/ AskGlobalVotes(n)
               \/ \E r \in globalRequests : RefuseVoteGlobal(n, r)
               \/ FinishGlobalCampaign(n)
               \/ \E h \in globalHeartbeats : RejectHeartbeatGlobal(n, h)
      <3>1. UNCHANGED <<globalRole, globalLeader, gstate, elected, globalHeartbeats>>
        BY <2>9 DEF AskGlobalVotes, RefuseVoteGlobal, FinishGlobalCampaign,
                    RejectHeartbeatGlobal, globalWire
      <3> QED
        BY <1>0, <3>1
    <2> HIDE DEF Office, Told
    <2> QED
      BY <1>2, <2>1, <2>2, <2>3, <2>4, <2>5, <2>6, <2>7, <2>8, <2>9 DEF GlobalLayerStep
  <1>3. CASE UNCHANGED allVars
    BY <1>0, <1>3 DEF allVars, globalVars, globalWire
  <1> HIDE DEF Office, Told
  <1> QED
    BY <1>1, <1>2, <1>3 DEF GlobalNext

\* A node acts as Global Leader only in the global term it was elected in and following
\* itself, although other leaders' late heartbeats, steps of the domain layer and restarts
\* change its term, its role and its leader separately.
THEOREM GlobalLeaderInOffice == GlobalSpec => []GlobalLeaderIsCurrent
  <1>1. GlobalInit => GlobalLeaderInv
    BY DEF GlobalInit, GlobalLeaderInv, GlobalLeaderIsCurrent
  <1>2. GlobalElectionInv => CampaignsVoted
    BY DEF GlobalElectionInv
  <1>3. GlobalLeaderInv => GlobalLeaderIsCurrent
    BY DEF GlobalLeaderInv
  <1> QED
    BY <1>1, <1>2, <1>3, GlobalLeaderStep, GlobalDomainTypes, GlobalTypeCorrect,
       GlobalElectionInvariant, PTL DEF GlobalSpec
=============================================================================
