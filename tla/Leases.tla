------------------------------- MODULE Leases -------------------------------
(***************************************************************************)
(* Who serves as Global Leader, and until when: the read lease, the votes  *)
(* that a voter withholds while it hears from a leader, the timers that    *)
(* start a campaign, and the handoff of a migration (rpc_node.go from      *)
(* refreshGlobalLeaseLocked to validateLeaseTiming, sendHeartbeats,        *)
(* campaignGlobal; telemetry.go from handleMove to beginMigration).        *)
(*                                                                         *)
(* A domain stands for its Domain Leader.  Time is in ticks, and a timer   *)
(* holds the ticks it has left, so that time itself has no bound; a call   *)
(* takes any time.  Logs are left out: a voter may find any log too old.   *)
(***************************************************************************)
EXTENDS Integers, FiniteSets

CONSTANTS
    Domain, None,
    Lease,         \* globalLeaseDuration
    Sticky,        \* globalStickyWindow, which is minGlobalElectionTimeout
    Racing,        \* bound: the domains that may make the one racing step of a behaviour
    MayMove,       \* bound: the domains that are asked to hand over, once each
    MaxTerm        \* bound: global terms

\* validateLeaseTiming.
ASSUME LeaseAssumption ==
    /\ None \notin Domain /\ IsFiniteSet(Domain)
    /\ Lease \in Nat \ {0} /\ Sticky \in Nat /\ Lease < Sticky
    /\ Racing \subseteq Domain /\ MayMove \subseteq Domain
    /\ MaxTerm \in Nat

VARIABLES
    term,       \* GlobalTerm
    votedFor,   \* GlobalVotedFor
    role,       \* globalRole
    follows,    \* globalLeader: a domain and its term
    contact,    \* what is left of the window after lastGlobalContact
    due,        \* domains whose globalDeadline was brought forward
    lease,      \* what is left until globalLeaseDeadline
    confirmed,  \* the part of the lease that rounds of heartbeats have confirmed
    pending,    \* goroutines that are about to call campaignGlobal
    campaign,   \* the running call of campaignGlobal
    rounds,     \* running rounds of heartbeats
    migration,  \* the running call of initiateMigration
    handoffs,   \* BeginMigration requests on the wire
    accepted,   \* their positive answers
    elected,    \* history: who has won which term, with whose votes, handed over by whom
    raced       \* the step that was taken on what had ceased to be so, if any

electionVars == <<term, votedFor, role, follows>>
timeVars == <<contact, due, lease, confirmed>>
moveVars == <<migration, handoffs, accepted>>
vars == <<electionVars, timeVars, pending, campaign, rounds, moveVars, elected, raced>>

\* A goroutine campaigns late; a late answer takes a leader away; a domain forgets its leader
\* in a crash; a handoff goes on after its caller has given up; its answer names a later term;
\* its failure brings forward the deadline of a domain that by now follows another leader.
Races == {"none", "campaign", "answer", "crash", "timeout", "reread", "deadline"}

NoLeader == [leader |-> None, term |-> 0]
Idle == [term |-> 0, from |-> None, votes |-> {}]
NoMove == [phase |-> "idle", target |-> None, term |-> 0]
Over == [NoMove EXCEPT !.phase = "over"]
Leaders == [leader : Domain, term : 1..MaxTerm]

\* Every variable has its Go type; a lease is never longer than the lease duration.
LeasesTypeOK ==
    /\ term \in [Domain -> 0..MaxTerm] /\ votedFor \in [Domain -> Domain \cup {None}]
    /\ role \in [Domain -> {"Follower", "Candidate", "Leader"}]
    /\ follows \in [Domain -> Leaders \cup {NoLeader}]
    /\ contact \in [Domain -> 0..Sticky] /\ due \subseteq Domain
    /\ lease \in [Domain -> 0..Lease] /\ confirmed \in [Domain -> 0..Lease]
    /\ pending \in [Domain -> {"no", "campaign"} \cup Domain]
    /\ campaign \in [Domain -> [term : 0..MaxTerm, from : Domain \cup {None}, votes : SUBSET Domain]]
    /\ rounds \in [Domain -> [term : 0..MaxTerm, left : 0..Lease, acks : SUBSET Domain]]
    /\ migration \in [Domain -> [phase : {"idle", "catchUp", "handoff", "over"},
                                 target : Domain \cup {None}, term : 0..MaxTerm]]
    /\ handoffs \subseteq [from : Domain, target : Domain, term : 1..MaxTerm]
    /\ accepted \subseteq [from : Domain, target : Domain, term : 1..MaxTerm]
    /\ elected \subseteq [leader : Domain, term : 1..MaxTerm, from : Domain \cup {None},
                           votes : SUBSET Domain]
    /\ raced \in Races

NoRound == [term |-> 0, left |-> 0, acks |-> {}]

Init ==
    /\ term = [d \in Domain |-> 0] /\ votedFor = [d \in Domain |-> None]
    /\ role = [d \in Domain |-> "Follower"] /\ follows = [d \in Domain |-> NoLeader]
    /\ contact = [d \in Domain |-> 0] /\ due = {}
    /\ lease = [d \in Domain |-> 0] /\ confirmed = [d \in Domain |-> 0]
    /\ pending = [d \in Domain |-> "no"] /\ campaign = [d \in Domain |-> Idle]
    /\ rounds = [d \in Domain |-> NoRound]
    /\ migration = [d \in Domain |-> NoMove] /\ handoffs = {} /\ accepted = {}
    /\ elected = {} /\ raced = "none"

-----------------------------------------------------------------------------

Set(f, d, v) == [f EXCEPT ![d] = v]
Less(i) == IF i = 0 THEN 0 ELSE i - 1
Longer(i, j) == IF i > j THEN i ELSE j

\* The one racing step of a behaviour.
Race(d, kind) == d \in Racing /\ raced = "none" /\ raced' = kind

globalElectionThreshold == IF Cardinality(Domain) <= 2 THEN Cardinality(Domain)
                           ELSE Cardinality(Domain) - 1

LeadsGlobally(d) == role[d] = "Leader" /\ follows[d].leader = d

\* servesAsGlobalLeaderLocked.
Serves(d) == LeadsGlobally(d) /\ lease[d] > 0

Tick ==
    /\ contact' = [d \in Domain |-> Less(contact[d])]
    /\ lease' = [d \in Domain |-> Less(lease[d])]
    /\ confirmed' = [d \in Domain |-> Less(confirmed[d])]
    /\ rounds' = [d \in Domain |-> [rounds[d] EXCEPT !.left = Less(@)]]
    /\ UNCHANGED <<electionVars, due, pending, campaign, moveVars, elected, raced>>

-----------------------------------------------------------------------------
(* Campaigns.                                                              *)

\* campaignGlobal up to the vote for a handoff from another domain or None.
\* term', votedFor', role' and follows' are transitionStartGlobalCampaign.
campaignGlobal(d, from) ==
    /\ campaign[d] = Idle /\ term[d] < MaxTerm
    /\ term' = Set(term, d, term[d] + 1)
    /\ votedFor' = Set(votedFor, d, d)
    /\ role' = Set(role, d, "Candidate")
    /\ follows' = Set(follows, d, NoLeader)
    /\ campaign' = Set(campaign, d, [term |-> term[d] + 1, from |-> from, votes |-> {d}])
    /\ pending' = Set(pending, d, "no")

\* needsGlobalElectionLocked: no leader has been heard of for the shortest election timeout
\* (which is the sticky window), or the deadline was brought forward.
NeedsGlobalElection(d) ==
    /\ role[d] # "Leader" /\ campaign[d] = Idle
    /\ migration[d].phase \in {"idle", "over"}
    /\ contact[d] = 0 \/ d \in due

\* The loops campaign: failureDetectorLoop when its deadline has passed, bootstrapLoop,
\* migrating or not, when it knows no leader.
MayCampaign(d) == pending[d] = "no" /\ (NeedsGlobalElection(d) \/ follows[d] = NoLeader)

DecideToCampaign(d) ==
    /\ MayCampaign(d)
    /\ campaignGlobal(d, None)
    /\ due' = due \ {d}
    /\ UNCHANGED <<contact, lease, confirmed, rounds, moveVars, elected, raced>>

\* Deciding and campaigning are two critical sections: a goroutine waits between them.
Hesitate(d) ==
    /\ MayCampaign(d) /\ d \in Racing /\ raced = "none"
    /\ pending' = Set(pending, d, "campaign")
    /\ follows' = Set(follows, d, NoLeader)
    /\ due' = due \ {d}
    /\ UNCHANGED <<term, votedFor, role, contact, lease, confirmed, campaign, rounds,
                   moveVars, elected, raced>>

\* It goes on, whatever the node has heard by then.
Campaign(d) ==
    /\ pending[d] # "no"
    /\ campaignGlobal(d, IF pending[d] = "campaign" THEN None ELSE pending[d])
    /\ Race(d, "campaign")
    /\ UNCHANGED <<timeVars, rounds, moveVars, elected>>

\* Mutant: a vote request never meets a voter that sticks to its leader.
Sticks_never(v, c) == FALSE

\* The test of leader stickiness in RequestVoteGlobalInternal.
Sticks(v, c) ==
    /\ campaign[c].from = None
    /\ follows[v].leader \notin {None, c}
    /\ contact[v] > 0

\* RequestVoteGlobalInternal and transitionGlobalVote for candidate c, while it campaigns.
\* The log may be found too old.
RequestVote(v, c, grant) ==
    LET t == campaign[c].term
        higher == t > term[v]
    IN  /\ campaign[c] # Idle /\ v \notin campaign[c].votes /\ t >= term[v]
        /\ ~Sticks(v, c)
        /\ higher \/ grant
        /\ grant => higher \/ votedFor[v] \in {None, c}
        /\ term' = Set(term, v, t)
        /\ votedFor' = IF grant THEN Set(votedFor, v, c)
                       ELSE IF higher THEN Set(votedFor, v, None) ELSE votedFor
        /\ role' = IF higher THEN Set(role, v, "Follower") ELSE role
        /\ follows' = IF higher THEN Set(follows, v, NoLeader) ELSE follows
        /\ due' = IF grant THEN due \ {v} ELSE due
        /\ campaign' = IF grant THEN [campaign EXCEPT ![c].votes = @ \cup {v}] ELSE campaign
        /\ UNCHANGED <<contact, lease, confirmed, pending, rounds, moveVars, elected, raced>>

\* The end of campaignGlobal with enough votes: the winner takes a lease from now on.
WinGlobal(d) ==
    LET c == campaign[d]
    IN  /\ c # Idle /\ Cardinality(c.votes) >= globalElectionThreshold
        /\ term[d] = c.term
        /\ role' = Set(role, d, "Leader")
        /\ follows' = Set(follows, d, [leader |-> d, term |-> c.term])
        /\ lease' = Set(lease, d, Lease) /\ confirmed' = Set(confirmed, d, 0)
        /\ due' = due \ {d}
        /\ campaign' = Set(campaign, d, Idle)
        /\ elected' = elected \cup {[leader |-> d, term |-> c.term, from |-> c.from,
                                      votes |-> c.votes]}
        /\ accepted' = IF c.from = None THEN accepted
                       ELSE accepted \cup {[from |-> c.from, target |-> d, term |-> c.term]}
        /\ UNCHANGED <<term, votedFor, contact, pending, rounds,
                       migration, handoffs, raced>>

\* Its end otherwise, with the votes or the term missing.
LoseGlobal(d) ==
    /\ campaign[d] # Idle
    /\ campaign' = Set(campaign, d, Idle)
    /\ due' = due \ {d}
    /\ UNCHANGED <<electionVars, contact, lease, confirmed, pending, rounds, moveVars,
                   elected, raced>>

\* observeHigherGlobalTerm, from an answer to a vote request or a heartbeat.  A late answer
\* takes away a leader that the node has begun to follow since.
observeHigherGlobalTerm(d, e) ==
    /\ term[e] > term[d]
    /\ campaign[d] # Idle \/ rounds[d] # NoRound
    /\ term' = Set(term, d, term[e])
    /\ votedFor' = Set(votedFor, d, None)
    /\ role' = Set(role, d, "Follower")
    /\ follows' = Set(follows, d, NoLeader)
    /\ IF contact[d] > 0 /\ follows[d].leader \notin {None, d} THEN Race(d, "answer")
       ELSE UNCHANGED raced
    /\ UNCHANGED <<timeVars, pending, campaign, rounds, moveVars, elected>>

-----------------------------------------------------------------------------
(* Heartbeats and leases.                                                  *)

\* sendHeartbeats of a Global Leader, which also calls itself; bound: one round at a time.
sendHeartbeats(d) ==
    /\ LeadsGlobally(d) /\ rounds[d] = NoRound
    /\ rounds' = Set(rounds, d, [term |-> follows[d].term, left |-> Lease, acks |-> {d}])
    /\ contact' = Set(contact, d, Sticky) /\ due' = due \ {d}
    /\ UNCHANGED <<electionVars, lease, confirmed, pending, campaign, moveVars, elected, raced>>

\* HeartbeatGlobalInternal at d of a round of leader l.  A Domain Leader that has lost its
\* own domain follows, but does not confirm.
HeartbeatGlobal(l, d) ==
    LET r == rounds[l]
        higher == r.term > term[d]
    IN  /\ r # NoRound /\ d \notin r.acks /\ r.term >= term[d]
        /\ term' = Set(term, d, r.term)
        /\ votedFor' = IF higher THEN Set(votedFor, d, None) ELSE votedFor
        /\ role' = Set(role, d, "Follower")
        /\ follows' = Set(follows, d, [leader |-> l, term |-> r.term])
        /\ contact' = Set(contact, d, Sticky)
        /\ due' = due \ {d}
        /\ rounds' = [rounds EXCEPT ![l].acks = @ \cup {d}]
        /\ UNCHANGED <<lease, confirmed, pending, campaign, moveVars, elected, raced>>

\* Mutants: the lease counts from the end of the round, or is added to what is left.
LeaseFrom_now(r) == Lease
LeaseFrom_sum(r) == r.left + Lease

\* A round counts from when it was sent, and for the leader that sent it.
LeaseFrom(r) == r.left
Confirms(d, r) ==
    /\ Cardinality(r.acks) >= globalElectionThreshold
    /\ LeadsGlobally(d) /\ follows[d].term = r.term

\* The end of a round: refreshGlobalLeaseLocked if enough domains have confirmed.
EndRound(d) ==
    LET r == rounds[d]
        extend(f) == IF Confirms(d, r) THEN Set(f, d, Longer(f[d], LeaseFrom(r))) ELSE f
    IN  /\ r # NoRound
        /\ lease' = extend(lease) /\ confirmed' = extend(confirmed)
        /\ rounds' = Set(rounds, d, NoRound)
        /\ UNCHANGED <<electionVars, contact, due, pending, campaign, moveVars, elected, raced>>

\* transitionRevokeGlobalLeadership.
Revoked(d) ==
    /\ role' = Set(role, d, "Follower")
    /\ follows' = Set(follows, d, NoLeader)

\* maybeStepDownExpiredGlobalLeaseLocked, and with a lease left
\* maybeStepDownGlobalOnExpiredDomainLeaseLocked.
StepDown(d) ==
    /\ LeadsGlobally(d)
    /\ Revoked(d)
    /\ due' = due \ {d}
    /\ UNCHANGED <<term, votedFor, contact, lease, confirmed, pending, campaign,
                   rounds, moveVars, elected, raced>>

\* A crash: lastGlobalContact is not on disk.
Restart(d) ==
    /\ Race(d, "crash")
    /\ Revoked(d)
    /\ contact' = Set(contact, d, 0) /\ due' = due \ {d}
    /\ lease' = Set(lease, d, 0) /\ confirmed' = Set(confirmed, d, 0)
    /\ pending' = Set(pending, d, "no") /\ campaign' = Set(campaign, d, Idle)
    /\ rounds' = Set(rounds, d, NoRound) /\ migration' = Set(migration, d, NoMove)
    /\ UNCHANGED <<term, votedFor, handoffs, accepted, elected>>

-----------------------------------------------------------------------------
(* Migration.                                                              *)

\* handleMove and the start of initiateMigration: writes drain from here on.
handleMove(d, target) ==
    /\ d \in MayMove /\ LeadsGlobally(d) /\ target # d
    /\ migration[d] = NoMove
    /\ migration' = Set(migration, d, [phase |-> "catchUp", target |-> target, term |-> term[d]])
    /\ UNCHANGED <<electionVars, timeVars, pending, campaign, rounds, handoffs,
                   accepted, elected, raced>>

\* Too few domains are known, or runCatchUp gives up: the incumbent is left untouched.
AbortMove(d) ==
    /\ migration[d].phase = "catchUp"
    /\ migration' = Set(migration, d, Over)
    /\ UNCHANGED <<electionVars, timeVars, pending, campaign, rounds, handoffs,
                   accepted, elected, raced>>

\* Mutant: the incumbent goes on serving until the target has won.
revokeForHandoff_not(d) == UNCHANGED <<role, follows, lease, confirmed>>

\* revokeGlobalLeadershipForHandoffLocked.
revokeForHandoff(d) ==
    /\ IF LeadsGlobally(d) THEN Revoked(d) ELSE UNCHANGED <<role, follows>>
    /\ lease' = Set(lease, d, 0) /\ confirmed' = Set(confirmed, d, 0)

\* runCatchUp has succeeded, maybe long after the leader has lost its leadership.
Handoff(d) ==
    LET m == migration[d]
    IN  /\ m.phase = "catchUp"
        /\ revokeForHandoff(d)
        /\ migration' = [migration EXCEPT ![d].phase = "handoff"]
        /\ handoffs' = handoffs \cup {[from |-> d, target |-> m.target, term |-> m.term]}
        /\ due' = due \ {d}
        /\ UNCHANGED <<term, votedFor, contact, pending, campaign, rounds, accepted,
                       elected, raced>>

\* beginMigration at the target, if it follows the leader of the named term.
beginMigration(h) ==
    LET d == h.target
    IN  /\ h \in handoffs
        /\ handoffs' = handoffs \ {h}
        /\ ~LeadsGlobally(d) /\ term[d] = h.term /\ follows[d].term = h.term
        /\ pending[d] = "no"
        /\ \/ campaignGlobal(d, h.from)
           \/ /\ d \in Racing /\ raced = "none"
              /\ pending' = Set(pending, d, h.from)
              /\ UNCHANGED <<electionVars, campaign>>
        /\ UNCHANGED <<timeVars, rounds, migration, accepted, elected, raced>>

\* Mutant: the incumbent stays in the term that it has handed over.
adoptHandedOffLeader_ownTerm(d, a) ==
    /\ follows' = Set(follows, d, [leader |-> a.target, term |-> term[d]])
    /\ UNCHANGED term

\* adoptHandedOffLeaderLocked.
adoptHandedOffLeader(d, a) ==
    IF a.term >= term[d]
    THEN /\ term' = Set(term, d, a.term)
         /\ follows' = Set(follows, d, [leader |-> a.target, term |-> a.term])
    ELSE UNCHANGED <<term, follows>>

\* initiateMigration gets a positive answer.  It names the term that beginMigration has read
\* when campaignGlobal was over.
HandoffSucceeds(d, a) ==
    /\ migration[d].phase = "handoff" /\ a.from = d /\ a \in accepted
    /\ accepted' = accepted \ {a}
    /\ \E t \in {a.term, term[a.target]} :
          /\ adoptHandedOffLeader(d, [a EXCEPT !.term = t])
          /\ IF t = a.term THEN UNCHANGED raced ELSE Race(a.target, "reread")
    /\ contact' = Set(contact, d, Sticky)
    /\ due' = due \ {d}
    /\ migration' = Set(migration, d, Over)
    /\ UNCHANGED <<votedFor, role, lease, confirmed, pending, campaign, rounds,
                   handoffs, elected>>

\* The call of initiateMigration fails.  Its request was lost or refused and its campaign is
\* over, or it has timed out and the target goes on.  The deadline is brought forward,
\* whomever the node follows by now.
HandoffFails(d) ==
    LET sent == {h \in handoffs : h.from = d}
        over == /\ \A a \in accepted : a.from # d
                /\ \A e \in Domain : campaign[e].from # d /\ pending[e] # d
    IN  /\ migration[d].phase = "handoff"
        /\ \/ /\ over /\ handoffs' = handoffs \ sent
              /\ raced' = IF raced = "none" /\ contact[d] > 0 /\ follows[d].leader \notin {None, d}
                          THEN "deadline" ELSE raced
           \/ (sent # {} \/ ~over) /\ UNCHANGED handoffs /\ Race(migration[d].target, "timeout")
        /\ due' = due \cup {d}
        /\ migration' = Set(migration, d, Over)
        /\ UNCHANGED <<electionVars, contact, lease, confirmed, pending, campaign, rounds,
                       accepted, elected>>

-----------------------------------------------------------------------------

Next ==
    \/ Tick
    \/ \E d \in Domain :
         \/ DecideToCampaign(d) \/ Hesitate(d) \/ Campaign(d) \/ WinGlobal(d) \/ LoseGlobal(d)
         \/ sendHeartbeats(d) \/ EndRound(d) \/ StepDown(d) \/ Restart(d)
         \/ AbortMove(d) \/ Handoff(d) \/ HandoffFails(d)
         \/ \E c \in Domain, grant \in BOOLEAN : RequestVote(d, c, grant)
         \/ \E e \in Domain : observeHigherGlobalTerm(d, e) \/ handleMove(d, e)
         \/ \E l \in Domain : HeartbeatGlobal(l, d)
         \/ \E a \in accepted : HandoffSucceeds(d, a)
    \/ \E h \in handoffs : beginMigration(h)

Spec == Init /\ [][Next]_vars

-----------------------------------------------------------------------------
(* What the timing is for.                                                 *)

\* While a leader holds a lease that a round of heartbeats has confirmed, no domain is
\* elected in a later term, unless a voter crashed, campaigned late, or forgot its leader
\* over a late answer or a failed handoff of its own: stickiness protects such a lease from
\* every other rival.  (The lease a leader takes when it wins is not protected: its voters
\* do not follow it yet.)
ConfirmedLeaseIsExclusive ==
    \A d \in Domain : LeadsGlobally(d) /\ confirmed[d] > 0 =>
        raced # "none" \/ \A w \in elected : w.term <= follows[d].term

\* A handoff never overlaps: a leader that a transfer has replaced does not serve in the term
\* that it handed over, although the transfer skips stickiness and a round that it sent
\* before may still end.  (A target that campaigns late wins a later term than the next.)
HandoffNeverOverlaps ==
    \A w \in elected : w.from # None /\ Serves(w.from) /\ raced # "campaign" =>
        follows[w.from].term >= w.term

\* Whoever a domain follows was elected in the term it names, even after the leader of an
\* earlier term has adopted its successor.
FollowedWereElected ==
    \A d \in Domain : follows[d] # NoLeader /\ raced # "reread" =>
        \E w \in elected : w.leader = follows[d].leader /\ w.term = follows[d].term

-----------------------------------------------------------------------------
(* Why they hold: the inductive invariants.                                *)

\* Somebody has won term t; so has l.
Won(l, t) == \E w \in elected : w.leader = l /\ w.term = t
Later(t) == \E w \in elected : w.term > t

\* The vote of v in term t is no longer to be had by anybody but c.
Bound(v, c, t) == term[v] > t \/ (term[v] = t /\ votedFor[v] = c)

\* A domain that leads campaigns no more and is in the term it leads; a round has its sender's
\* own confirmation; nobody hands over to itself.
OfficeInv ==
    /\ \A d \in Domain :
         /\ LeadsGlobally(d) => campaign[d] = Idle /\ follows[d].term = term[d]
         /\ rounds[d] # NoRound => d \in rounds[d].acks /\ rounds[d].term \in 1..MaxTerm
         /\ campaign[d] # Idle =>
              d \in campaign[d].votes /\ campaign[d].from # d /\ campaign[d].term \in 1..term[d]
         /\ pending[d] \in {"no", "campaign"} \/ pending[d] # d
         /\ migration[d].phase \in {"catchUp", "handoff"} =>
              migration[d].target \in Domain \ {d} /\ migration[d].term \in 1..term[d]
    /\ \A h \in handoffs : h.from # h.target
    /\ \A a \in accepted : a.from # a.target /\ term[a.target] >= a.term

\* No domain votes twice in a term, so no term has two leaders.
VotesInv ==
    /\ \A c \in Domain : campaign[c] # Idle =>
         /\ \A v \in campaign[c].votes : Bound(v, c, campaign[c].term)
         /\ \A b \in Domain \ {c} : campaign[b] # Idle /\ campaign[b].term = campaign[c].term =>
              campaign[b].votes \cap campaign[c].votes = {}
         /\ \A w \in elected : w.term = campaign[c].term => w.votes \cap campaign[c].votes = {}
    /\ \A w \in elected :
         /\ w.leader \in w.votes /\ Cardinality(w.votes) >= globalElectionThreshold
         /\ \A v \in w.votes : Bound(v, w.leader, w.term)
    /\ \A w, x \in elected : w.term = x.term => w.leader = x.leader

\* What domains are told by heartbeats and answers was elected.
FollowInv ==
    /\ FollowedWereElected
    /\ raced # "reread" => \A d \in Domain : rounds[d] # NoRound => Won(d, rounds[d].term)
    /\ \A a \in accepted : Won(a.target, a.term)

\* f has done with leading term t and every earlier one.
Ended(f, t) ==
    /\ term[f] >= t
    /\ LeadsGlobally(f) => follows[f].term > t
    /\ campaign[f] # Idle => campaign[f].term > t

\* A term that is handed over was the leader's own, and is over for it before the target
\* can campaign for the next.
HandoffInv ==
    /\ \A d \in Domain : migration[d].phase = "catchUp" =>
         /\ campaign[d] # Idle => campaign[d].term > migration[d].term
         /\ raced # "reread" => Won(d, migration[d].term)
    /\ \A h \in handoffs :
         /\ Ended(h.from, h.term)
         /\ raced # "reread" => Won(h.from, h.term)
    /\ \A c \in Domain : campaign[c] # Idle /\ campaign[c].from # None /\ raced # "campaign" =>
         /\ Ended(campaign[c].from, campaign[c].term - 1)
         /\ raced # "reread" => Won(campaign[c].from, campaign[c].term - 1)
    /\ \A w \in elected : w.from # None /\ raced # "campaign" => Ended(w.from, w.term - 1)

\* v follows d in term t and will not listen to others while a lease with so much left runs.
Held(v, d, t, left) ==
    /\ term[v] = t /\ follows[v] = [leader |-> d, term |-> t]
    /\ contact[v] >= left + Sticky - Lease
    /\ v = d \/ v \notin due

\* Enough domains have moved on for a round of term t never to be confirmed.
Deserted(acks, t) ==
    \E V \in SUBSET Domain : /\ Cardinality(V) >= globalElectionThreshold /\ V \cap acks = {}
                             /\ \A v \in V : term[v] > t

\* Without a race, the domains that have confirmed a round or a lease hold on to its leader
\* until it has run out, and a round that a later election overtakes is never confirmed.
LeaseInv ==
    raced = "none" =>
        \A d \in Domain : LeadsGlobally(d) =>
            LET t == follows[d].term
                r == rounds[d]
            IN  /\ r.left > 0 /\ r.term = t =>
                     IF Later(t) THEN Deserted(r.acks, t)
                     ELSE \A v \in r.acks : Held(v, d, t, r.left)
                /\ confirmed[d] > 0 =>
                     /\ ~Later(t)
                     /\ \E Q \in SUBSET Domain :
                          /\ Cardinality(Q) >= globalElectionThreshold
                          /\ \A v \in Q : Held(v, d, t, confirmed[d])
=============================================================================
