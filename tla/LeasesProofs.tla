---------------------------- MODULE LeasesProofs ----------------------------
(***************************************************************************)
(* Proofs about Leases, for any number of domains, any lease shorter than  *)
(* the sticky window, any number of moves and of global terms.             *)
(***************************************************************************)
EXTENDS Leases, FiniteSetTheorems, TLAPS

-----------------------------------------------------------------------------
(* Types and offices.                                                      *)

\* Arithmetic of the timers.
LEMMA Timers ==
    ASSUME NEW m \in Nat, NEW i \in 0..m
    PROVE  /\ Less(i) \in 0..m /\ Less(i) <= i
           /\ \A j \in 0..m : Longer(i, j) \in 0..m
           /\ \A j \in Nat : j > 0 => (Less(i) >= j <=> i >= j + 1)
  BY DEF Less, Longer

\* The type invariant of the leases is preserved by every step; that a lease is never longer
\* than the lease duration is part of it.
LEMMA LeasesTypeStep == LeasesTypeOK /\ OfficeInv /\ [Next]_vars => LeasesTypeOK'
  <1> SUFFICES ASSUME LeasesTypeOK, OfficeInv, [Next]_vars PROVE LeasesTypeOK'
    OBVIOUS
  <1> DEFINE
        Term == 0..MaxTerm
        Maybe == Domain \cup {None}
        ElectionTyped ==
            /\ term \in [Domain -> Term] /\ votedFor \in [Domain -> Maybe]
            /\ role \in [Domain -> {"Follower", "Candidate", "Leader"}]
            /\ follows \in [Domain -> Leaders \cup {NoLeader}]
        TimeTyped ==
            /\ contact \in [Domain -> 0..Sticky] /\ due \subseteq Domain
            /\ lease \in [Domain -> 0..Lease] /\ confirmed \in [Domain -> 0..Lease]
            /\ rounds \in [Domain -> [term : Term, left : 0..Lease, acks : SUBSET Domain]]
        CampaignTyped ==
            /\ pending \in [Domain -> {"no", "campaign"} \cup Domain]
            /\ campaign \in [Domain -> [term : Term, from : Maybe, votes : SUBSET Domain]]
            /\ elected \subseteq [leader : Domain, term : 1..MaxTerm, from : Maybe,
                                   votes : SUBSET Domain]
            /\ raced \in Races
        MoveTyped ==
            /\ migration \in [Domain -> [phase : {"idle", "catchUp", "handoff", "over"},
                                         target : Maybe, term : Term]]
            /\ handoffs \subseteq [from : Domain, target : Domain, term : 1..MaxTerm]
            /\ accepted \subseteq [from : Domain, target : Domain, term : 1..MaxTerm]
        Typed == ElectionTyped /\ TimeTyped /\ CampaignTyped /\ MoveTyped
  <1>0. Typed
    BY DEF LeasesTypeOK
  <1>a. SUFFICES Typed'
    BY DEF LeasesTypeOK
  <1>c. /\ Lease \in Nat /\ Sticky \in Nat /\ MaxTerm \in Nat /\ None \notin Domain
        /\ 0 \in 0..Lease /\ Lease \in 0..Lease /\ 0 \in 0..Sticky /\ Sticky \in 0..Sticky
    BY LeaseAssumption
  <1>n. /\ NoLeader \in Leaders \cup {NoLeader}
        /\ Idle \in [term : Term, from : Maybe, votes : SUBSET Domain]
        /\ NoRound \in [term : Term, left : 0..Lease, acks : SUBSET Domain]
        /\ NoMove \in [phase : {"idle", "catchUp", "handoff", "over"}, target : Maybe, term : Term]
        /\ Over \in [phase : {"idle", "catchUp", "handoff", "over"}, target : Maybe, term : Term]
    BY <1>c DEF Idle, NoRound, NoMove, Over
  <1>r. \A k \in {"none", "campaign", "answer", "crash", "timeout", "reread", "deadline"} : k \in Races
    BY DEF Races
  <1>l. \A d \in Domain, t \in 1..MaxTerm : [leader |-> d, term |-> t] \in Leaders
    BY DEF Leaders
  <1>t. \A d \in Domain : term[d] \in Term /\ term[d] \in Nat /\ term[d] <= MaxTerm
    BY <1>0, <1>c
  <1>f. \A d \in Domain : LeadsGlobally(d) => follows[d] \in Leaders /\ follows[d].term \in 1..MaxTerm
    <2>1. NoLeader.leader \notin Domain
      BY <1>c DEF NoLeader
    <2> QED
      BY <1>0, <2>1 DEF LeadsGlobally, Leaders
  <1> DEFINE Started(d, from) == campaignGlobal(d, from) /\ from \in Maybe
  <1>s. ASSUME NEW d \in Domain, NEW from, Started(d, from)
        PROVE  /\ ElectionTyped'
               /\ pending' \in [Domain -> {"no", "campaign"} \cup Domain]
               /\ campaign' \in [Domain -> [term : Term, from : Maybe, votes : SUBSET Domain]]
    <2>1. term[d] + 1 \in Term
      BY <1>s, <1>t, <1>c DEF campaignGlobal
    <2>2. ElectionTyped'
      BY <1>0, <1>n, <1>s, <2>1 DEF campaignGlobal, Set
    <2>3. [term |-> term[d] + 1, from |-> from, votes |-> {d}]
            \in [term : Term, from : Maybe, votes : SUBSET Domain]
      BY <1>s, <2>1
    <2> HIDE DEF Term, Maybe
    <2>4. campaign' \in [Domain -> [term : Term, from : Maybe, votes : SUBSET Domain]]
      BY <1>0, <1>s, <2>3 DEF campaignGlobal, Set
    <2>5. pending' \in [Domain -> {"no", "campaign"} \cup Domain]
      BY <1>0, <1>s DEF campaignGlobal, Set
    <2> QED
      BY <2>2, <2>4, <2>5
  <1>1. CASE Tick
    <2>1. \A d \in Domain : /\ Less(contact[d]) \in 0..Sticky /\ Less(lease[d]) \in 0..Lease
                            /\ Less(confirmed[d]) \in 0..Lease /\ Less(rounds[d].left) \in 0..Lease
      BY <1>0, <1>c, Timers
    <2>2. \A d \in Domain : [rounds[d] EXCEPT !.left = Less(rounds[d].left)]
                             \in [term : Term, left : 0..Lease, acks : SUBSET Domain]
      <3> TAKE d \in Domain
      <3>1. rounds[d] \in [term : Term, left : 0..Lease, acks : SUBSET Domain]
        BY <1>0
      <3>2. Less(rounds[d].left) \in 0..Lease
        BY <2>1
      <3> HIDE DEF Term
      <3> QED
        BY <3>1, <3>2
    <2>3. TimeTyped'
      BY <1>0, <1>1, <2>1, <2>2 DEF Tick
    <2> QED
      BY <1>0, <1>1, <2>3 DEF Tick, electionVars, moveVars
  <1>2. ASSUME NEW d \in Domain, DecideToCampaign(d)
        PROVE  Typed'
    BY <1>0, <1>2, <1>s DEF DecideToCampaign, moveVars
  <1>3. ASSUME NEW d \in Domain, Hesitate(d)
        PROVE  Typed'
    BY <1>0, <1>3, <1>n DEF Hesitate, Set, moveVars
  <1>4. ASSUME NEW d \in Domain, Campaign(d)
        PROVE  Typed'
    BY <1>0, <1>4, <1>s, <1>r DEF Campaign, Race, timeVars, moveVars
  <1>5. ASSUME NEW d \in Domain, NEW c \in Domain, NEW grant \in BOOLEAN, RequestVote(d, c, grant)
        PROVE  Typed'
    <2>1. campaign[c].term \in Term /\ campaign[c].votes \cup {d} \in SUBSET Domain
      BY <1>0
    <2>2. term' \in [Domain -> Term] /\ votedFor' \in [Domain -> Maybe]
      BY <1>0, <1>5, <2>1 DEF RequestVote, Set
    <2>3. role' \in [Domain -> {"Follower", "Candidate", "Leader"}] /\ follows' \in [Domain -> Leaders \cup {NoLeader}]
      BY <1>0, <1>5, <1>n DEF RequestVote, Set
    <2>4. campaign' \in [Domain -> [term : Term, from : Maybe, votes : SUBSET Domain]]
      BY <1>0, <1>5, <2>1, SMTT(30) DEF RequestVote
    <2>5. /\ due' \subseteq Domain
          /\ UNCHANGED <<contact, lease, confirmed, pending, rounds, moveVars, elected, raced>>
      BY <1>0, <1>5 DEF RequestVote
    <2> QED
      BY <1>0, <2>2, <2>3, <2>4, <2>5 DEF moveVars
  <1>6. ASSUME NEW d \in Domain, WinGlobal(d)
        PROVE  Typed'
    <2>1. campaign[d].term \in 1..MaxTerm /\ campaign[d].from \in Maybe
          /\ campaign[d].votes \in SUBSET Domain
      BY <1>0, <1>6, <1>t DEF WinGlobal, OfficeInv
    <2>2. ElectionTyped' /\ TimeTyped'
      BY <1>0, <1>6, <1>c, <1>l, <2>1 DEF WinGlobal, Set
    <2>3. CampaignTyped'
      BY <1>0, <1>6, <1>n, <2>1 DEF WinGlobal, Set
    <2>4. MoveTyped'
      BY <1>0, <1>6, <2>1 DEF WinGlobal
    <2> QED
      BY <2>2, <2>3, <2>4
  <1>7. ASSUME NEW d \in Domain, LoseGlobal(d)
        PROVE  Typed'
    BY <1>0, <1>7, <1>n DEF LoseGlobal, Set, electionVars, moveVars
  <1>8. ASSUME NEW d \in Domain, NEW e \in Domain, observeHigherGlobalTerm(d, e)
        PROVE  Typed'
    <2>1. raced' \in Races
      BY <1>0, <1>8, <1>r DEF observeHigherGlobalTerm, Race
    <2> QED
      BY <1>0, <1>8, <1>n, <1>t, <2>1 DEF observeHigherGlobalTerm, Set, timeVars, moveVars
  <1>9. ASSUME NEW d \in Domain, sendHeartbeats(d)
        PROVE  Typed'
    <2>1. [term |-> follows[d].term, left |-> Lease, acks |-> {d}]
            \in [term : Term, left : 0..Lease, acks : SUBSET Domain]
      BY <1>9, <1>c, <1>f DEF sendHeartbeats
    <2> QED
      BY <1>0, <1>9, <1>c, <2>1 DEF sendHeartbeats, Set, electionVars, moveVars
  <1>10. ASSUME NEW l \in Domain, NEW d \in Domain, HeartbeatGlobal(l, d)
         PROVE  Typed'
    <2>1. rounds[l].term \in Term /\ rounds[l].acks \cup {d} \in SUBSET Domain
      BY <1>0
    <2>2. [leader |-> l, term |-> rounds[l].term] \in Leaders
      BY <1>10, <1>l DEF HeartbeatGlobal, OfficeInv
    <2>3. ElectionTyped'
      BY <1>0, <1>10, <2>1, <2>2 DEF HeartbeatGlobal, Set
    <2>4. rounds' \in [Domain -> [term : Term, left : 0..Lease, acks : SUBSET Domain]]
      <3>1. rounds' = [rounds EXCEPT ![l] = [rounds[l] EXCEPT !.acks = rounds[l].acks \cup {d}]]
        BY <1>10 DEF HeartbeatGlobal
      <3>2. [rounds[l] EXCEPT !.acks = rounds[l].acks \cup {d}]
              \in [term : Term, left : 0..Lease, acks : SUBSET Domain]
        <4>1. rounds[l] \in [term : Term, left : 0..Lease, acks : SUBSET Domain]
          BY <1>0
        <4> HIDE DEF Term
        <4> QED
          BY <2>1, <4>1
      <3> QED
        BY <1>0, <3>1, <3>2
    <2>5. /\ contact' \in [Domain -> 0..Sticky] /\ due' \subseteq Domain
          /\ lease' = lease /\ confirmed' = confirmed
      BY <1>0, <1>10, <1>c DEF HeartbeatGlobal, Set
    <2> QED
      BY <1>0, <1>10, <2>3, <2>4, <2>5 DEF HeartbeatGlobal, moveVars
  <1>11. ASSUME NEW d \in Domain, EndRound(d)
         PROVE  Typed'
    <2>1. rounds[d].left \in 0..Lease
      BY <1>0
    <2>2. \A i \in 0..Lease : Longer(i, rounds[d].left) \in 0..Lease
      BY <1>c, <2>1, Timers
    <2>3. TimeTyped'
      BY <1>0, <1>11, <1>n, <2>2 DEF EndRound, Set, LeaseFrom
    <2> QED
      BY <1>0, <1>11, <2>3 DEF EndRound, electionVars, moveVars
  <1>12. ASSUME NEW d \in Domain, StepDown(d)
         PROVE  Typed'
    BY <1>0, <1>12, <1>n DEF StepDown, Revoked, Set, moveVars
  <1>13. ASSUME NEW d \in Domain, Restart(d)
         PROVE  Typed'
    BY <1>0, <1>13, <1>c, <1>n, <1>r DEF Restart, Race, Revoked, Set
  <1>14. ASSUME NEW d \in Domain, NEW e \in Domain, handleMove(d, e)
         PROVE  Typed'
    BY <1>0, <1>14, <1>t DEF handleMove, Set, electionVars, timeVars
  <1>15. ASSUME NEW d \in Domain, AbortMove(d)
         PROVE  Typed'
    BY <1>0, <1>15, <1>n DEF AbortMove, Set, electionVars, timeVars
  <1>16. ASSUME NEW d \in Domain, Handoff(d)
         PROVE  Typed'
    <2>1. migration[d].target \in Domain /\ migration[d].term \in 1..MaxTerm
      <3>1. migration[d].target \in Domain \ {d} /\ migration[d].term \in 1..term[d]
        BY <1>16 DEF Handoff, OfficeInv
      <3> QED
        BY <1>t, <1>c, <3>1
    <2>2. ElectionTyped' /\ TimeTyped'
      BY <1>0, <1>16, <1>c, <1>n DEF Handoff, revokeForHandoff, Revoked, Set
    <2>3. MoveTyped'
      BY <1>0, <1>16, <2>1 DEF Handoff
    <2> QED
      BY <1>0, <1>16, <2>2, <2>3 DEF Handoff
  <1>17. ASSUME NEW h \in handoffs, beginMigration(h)
         PROVE  Typed'
    <2>1. h.target \in Domain /\ h.from \in Domain
      BY <1>0
    <2>2. CASE campaignGlobal(h.target, h.from)
      BY <1>0, <1>17, <1>s, <2>1, <2>2 DEF beginMigration, timeVars
    <2>3. CASE pending' = Set(pending, h.target, h.from) /\ UNCHANGED <<electionVars, campaign>>
      BY <1>0, <1>17, <2>1, <2>3 DEF beginMigration, Set, timeVars, electionVars
    <2> QED
      BY <1>17, <2>2, <2>3 DEF beginMigration
  <1>18. ASSUME NEW d \in Domain, NEW a \in accepted, HandoffSucceeds(d, a)
         PROVE  Typed'
    <2>1. a.target \in Domain /\ a.term \in 1..MaxTerm /\ term[a.target] \in 1..MaxTerm
      BY <1>0, <1>t DEF OfficeInv
    <2>2. PICK t \in {a.term, term[a.target]} :
             /\ adoptHandedOffLeader(d, [a EXCEPT !.term = t])
             /\ IF t = a.term THEN UNCHANGED raced ELSE Race(a.target, "reread")
      BY <1>18 DEF HandoffSucceeds
    <2>3. t \in 1..MaxTerm /\ [a EXCEPT !.term = t].term = t /\ [a EXCEPT !.term = t].target = a.target
      BY <1>0, <2>1
    <2>4. term' \in [Domain -> Term] /\ follows' \in [Domain -> Leaders \cup {NoLeader}]
      <3>1. t \in Term /\ [leader |-> a.target, term |-> t] \in Leaders
        BY <1>c, <1>l, <2>1, <2>3
      <3>2. CASE t >= term[d]
        <4>1. term' = Set(term, d, t) /\ follows' = Set(follows, d, [leader |-> a.target, term |-> t])
          BY <2>2, <2>3, <3>2 DEF adoptHandedOffLeader
        <4> QED
          BY <1>0, <3>1, <4>1 DEF Set
      <3>3. CASE ~(t >= term[d])
        BY <1>0, <2>2, <2>3, <3>3 DEF adoptHandedOffLeader
      <3> QED
        BY <3>2, <3>3
    <2>5. raced' \in Races
      BY <1>0, <1>r, <2>2 DEF Race
    <2>6. MoveTyped' /\ TimeTyped'
      BY <1>0, <1>18, <1>c, <1>n DEF HandoffSucceeds, Set
    <2> QED
      BY <1>0, <1>18, <2>4, <2>5, <2>6 DEF HandoffSucceeds
  <1>19. ASSUME NEW d \in Domain, HandoffFails(d)
         PROVE  Typed'
    <2>1. raced' \in Races /\ handoffs' \subseteq handoffs
      BY <1>0, <1>19, <1>r DEF HandoffFails, Race
    <2> QED
      BY <1>0, <1>19, <1>n, <2>1 DEF HandoffFails, Set, electionVars
  <1>20. CASE UNCHANGED vars
    BY <1>0, <1>20 DEF vars, electionVars, timeVars, moveVars
  <1> HIDE DEF Typed
  <1> QED
    BY <1>1, <1>2, <1>3, <1>4, <1>5, <1>6, <1>7, <1>8, <1>9, <1>10, <1>11, <1>12, <1>13,
       <1>14, <1>15, <1>16, <1>17, <1>18, <1>19, <1>20 DEF Next

-----------------------------------------------------------------------------
(* What a step can do.                                                     *)

\* Terms only grow, and a vote is only given where none is given yet in the term.
Forward(d) ==
    /\ term'[d] >= term[d]
    /\ term'[d] = term[d] => votedFor'[d] = votedFor[d] \/ votedFor[d] = None

\* Whoever leads after a step has led before it or wins in it.
Stays(d) == LeadsGlobally(d) /\ follows'[d] = follows[d] /\ term'[d] = term[d]
InOffice(d) == LeadsGlobally(d)' => Stays(d) \/ WinGlobal(d)

\* What becomes of the campaigns: some end, one starts, one gets a vote or one is won.
Quiet ==
    /\ \A d \in Domain : campaign'[d] = campaign[d] \/ campaign'[d] = Idle
    /\ elected' = elected /\ accepted' \subseteq accepted
Starts(d, from) ==
    /\ campaignGlobal(d, from) /\ from \in (Domain \cup {None}) \ {d}
    /\ \/ from = None
       \/ raced' = "campaign"
       \/ \E h \in handoffs : h.from = from /\ h.term = term[d]
    /\ UNCHANGED <<elected, accepted>>
Electoral ==
    \/ Quiet
    \/ \E d \in Domain, from \in Domain \cup {None} : Starts(d, from)
    \/ \E v, c \in Domain, grant \in BOOLEAN : RequestVote(v, c, grant)
    \/ \E d \in Domain : WinGlobal(d)

\* Every step goes forward, keeps leaders in office or ends them, moves the campaigns in one
\* of four ways and records at most one race.
LEMMA StepShape ==
    ASSUME LeasesTypeOK, OfficeInv, [Next]_vars
    PROVE  /\ \A d \in Domain : Forward(d) /\ InOffice(d)
           /\ Electoral
           /\ raced' = raced \/ raced = "none"
  <1> DEFINE Shape == /\ \A d \in Domain : Forward(d) /\ InOffice(d)
                      /\ Electoral
                      /\ raced' = raced \/ raced = "none"
             Pass == (\A d \in Domain : Forward(d) /\ InOffice(d)) /\ Quiet
  <1>c. None \notin Domain /\ MaxTerm \in Nat
    BY LeaseAssumption
  <1>t. /\ term \in [Domain -> 0..MaxTerm] /\ votedFor \in [Domain -> Domain \cup {None}]
        /\ role \in [Domain -> {"Follower", "Candidate", "Leader"}]
        /\ follows \in [Domain -> Leaders \cup {NoLeader}]
        /\ \A d \in Domain : term[d] \in Nat
    BY <1>c DEF LeasesTypeOK
  <1>w. DOMAIN campaign = Domain /\ DOMAIN follows = Domain /\ DOMAIN role = Domain
        /\ DOMAIN term = Domain /\ DOMAIN votedFor = Domain
    BY DEF LeasesTypeOK
  <1>n. NoLeader.leader = None /\ "Candidate" # "Leader" /\ "Follower" # "Leader"
    BY DEF NoLeader
  <1>q. Pass /\ (raced' = raced \/ raced = "none") => Shape
    BY DEF Electoral
  <1>e. ASSUME electionVars' = electionVars PROVE \A d \in Domain : Forward(d) /\ InOffice(d)
    <2>1. term' = term /\ votedFor' = votedFor /\ role' = role /\ follows' = follows
      BY <1>e DEF electionVars
    <2> QED
      BY <2>1, <1>t DEF Forward, InOffice, Stays, LeadsGlobally
  <1>v. ASSUME NEW d \in Domain, term' = term, votedFor' = votedFor, Revoked(d)
        PROVE  \A e \in Domain : Forward(e) /\ InOffice(e)
    BY <1>v, <1>t, <1>w, <1>n, <1>c DEF Revoked, Set, Forward, InOffice, Stays, LeadsGlobally
  <1>s. ASSUME NEW d \in Domain, NEW from \in Domain \cup {None}, from # d,
               campaignGlobal(d, from), UNCHANGED <<elected, accepted>>,
               \/ from = None
               \/ raced' = "campaign"
               \/ \E h \in handoffs : h.from = from /\ h.term = term[d]
        PROVE  (\A e \in Domain : Forward(e) /\ InOffice(e)) /\ Electoral
    <2>1. ASSUME NEW e \in Domain
          PROVE  Forward(e) /\ InOffice(e)
      BY <1>s, <1>t, <1>w, <1>n DEF campaignGlobal, Set, Forward, InOffice, Stays, LeadsGlobally
    <2>2. Electoral
      BY <1>s DEF Electoral, Starts
    <2> QED
      BY <2>1, <2>2
  <1>1. ASSUME Tick PROVE Shape
    BY <1>1, <1>e, <1>q DEF Tick, Quiet, moveVars
  <1>2. ASSUME NEW d \in Domain, DecideToCampaign(d)
        PROVE  Shape
    <2>1. campaignGlobal(d, None) /\ UNCHANGED <<elected, accepted, raced>>
      BY <1>2 DEF DecideToCampaign, moveVars
    <2> QED
      BY <2>1, <1>s, <1>c
  <1>3. ASSUME NEW d \in Domain, Hesitate(d)
        PROVE  Shape
    <2>1. \A e \in Domain : Forward(e) /\ InOffice(e)
      BY <1>3, <1>t, <1>w, <1>n, <1>c DEF Hesitate, Set, Forward, InOffice, Stays, LeadsGlobally
    <2> QED
      BY <1>3, <2>1, <1>q DEF Hesitate, Quiet, moveVars
  <1>4. ASSUME NEW d \in Domain, Campaign(d)
        PROVE  Shape
    <2>1. PICK from : from = IF pending[d] = "campaign" THEN None ELSE pending[d]
      OBVIOUS
    <2>2. from \in Domain \cup {None} /\ from # d
      <3>1. pending[d] \in {"no", "campaign"} \cup Domain /\ pending[d] # "no"
        BY <1>4 DEF LeasesTypeOK, Campaign
      <3>2. pending[d] \in {"no", "campaign"} \/ pending[d] # d
        BY DEF OfficeInv
      <3> QED
        BY <2>1, <3>1, <3>2, <1>c
    <2>3. /\ campaignGlobal(d, from) /\ UNCHANGED <<elected, accepted>>
          /\ raced = "none" /\ raced' = "campaign"
      BY <1>4, <2>1 DEF Campaign, Race, moveVars
    <2> QED
      BY <2>2, <2>3, <1>s
  <1>5. ASSUME NEW d \in Domain, NEW c \in Domain, NEW grant \in BOOLEAN, RequestVote(d, c, grant)
        PROVE  Shape
    <2>1. campaign[c].term \in Nat
      BY <1>c DEF LeasesTypeOK
    <2>2. ASSUME NEW e \in Domain
          PROVE  Forward(e) /\ InOffice(e)
      BY <1>5, <2>1, <1>t, <1>w, <1>n, <1>c
         DEF RequestVote, Set, Forward, InOffice, Stays, LeadsGlobally
    <2> QED
      BY <1>5, <2>2 DEF Electoral, RequestVote
  <1>6. ASSUME NEW d \in Domain, WinGlobal(d)
        PROVE  Shape
    <2>1. ASSUME NEW e \in Domain
          PROVE  Forward(e) /\ InOffice(e)
      <3>1. /\ term' = term /\ votedFor' = votedFor
            /\ e # d => role'[e] = role[e] /\ follows'[e] = follows[e]
        BY <1>6, <1>w DEF WinGlobal, Set
      <3> QED
        BY <1>6, <1>t, <3>1 DEF Forward, InOffice, Stays, LeadsGlobally
    <2> QED
      BY <1>6, <2>1 DEF Electoral, WinGlobal
  <1>7. ASSUME NEW d \in Domain, LoseGlobal(d)
        PROVE  Shape
    <2>1. Quiet /\ raced' = raced /\ electionVars' = electionVars
      BY <1>7, <1>w DEF LoseGlobal, Set, Quiet, moveVars
    <2> QED
      BY <2>1, <1>e, <1>q
  <1>8. ASSUME NEW d \in Domain, NEW e \in Domain, observeHigherGlobalTerm(d, e)
        PROVE  Shape
    <2>1. ASSUME NEW f \in Domain
          PROVE  Forward(f) /\ InOffice(f)
      BY <1>8, <1>t, <1>w, <1>n, <1>c
         DEF observeHigherGlobalTerm, Set, Forward, InOffice, Stays, LeadsGlobally
    <2> QED
      BY <1>8, <2>1, <1>q DEF observeHigherGlobalTerm, Quiet, moveVars, Race
  <1>9. ASSUME NEW d \in Domain, sendHeartbeats(d)
        PROVE  Shape
    BY <1>9, <1>e, <1>q DEF sendHeartbeats, Quiet, moveVars
  <1>10. ASSUME NEW l \in Domain, NEW d \in Domain, HeartbeatGlobal(l, d)
         PROVE  Shape
    <2>1. rounds[l].term \in Nat
      BY <1>c DEF LeasesTypeOK
    <2>2. ASSUME NEW e \in Domain
          PROVE  Forward(e) /\ InOffice(e)
      BY <1>10, <2>1, <1>t, <1>w, <1>n
         DEF HeartbeatGlobal, Set, Forward, InOffice, Stays, LeadsGlobally
    <2> QED
      BY <1>10, <2>2, <1>q DEF HeartbeatGlobal, Quiet, moveVars
  <1>11. ASSUME NEW d \in Domain, EndRound(d)
         PROVE  Shape
    BY <1>11, <1>e, <1>q DEF EndRound, Quiet, moveVars
  <1>12. ASSUME NEW d \in Domain, StepDown(d)
         PROVE  Shape
    BY <1>12, <1>v, <1>q DEF StepDown, Quiet, moveVars
  <1>13. ASSUME NEW d \in Domain, Restart(d)
         PROVE  Shape
    <2>1. Quiet /\ raced = "none" /\ term' = term /\ votedFor' = votedFor /\ Revoked(d)
      BY <1>13, <1>w DEF Restart, Race, Set, Quiet
    <2> QED
      BY <2>1, <1>v, <1>q
  <1>14. ASSUME NEW d \in Domain, NEW e \in Domain, handleMove(d, e)
         PROVE  Shape
    BY <1>14, <1>e, <1>q DEF handleMove, Quiet
  <1>15. ASSUME NEW d \in Domain, AbortMove(d)
         PROVE  Shape
    BY <1>15, <1>e, <1>q DEF AbortMove, Quiet
  <1>16. ASSUME NEW d \in Domain, Handoff(d)
         PROVE  Shape
    <2>1. /\ Quiet /\ raced' = raced /\ term' = term /\ votedFor' = votedFor
          /\ Revoked(d) \/ (role' = role /\ follows' = follows)
      BY <1>16 DEF Handoff, revokeForHandoff, Quiet
    <2> QED
      BY <2>1, <1>v, <1>e, <1>q DEF electionVars
  <1>17. ASSUME NEW h \in handoffs, beginMigration(h)
         PROVE  Shape
    <2>1. /\ h.target \in Domain /\ h.from \in Domain /\ h.from # h.target
          /\ UNCHANGED <<elected, accepted, raced>> /\ term[h.target] = h.term
      BY <1>17 DEF LeasesTypeOK, OfficeInv, beginMigration
    <2>2. CASE campaignGlobal(h.target, h.from)
      BY <1>s, <2>1, <2>2
    <2>3. CASE UNCHANGED <<electionVars, campaign>>
      BY <1>e, <1>q, <2>1, <2>3 DEF Quiet
    <2> QED
      BY <1>17, <2>2, <2>3 DEF beginMigration
  <1>18. ASSUME NEW d \in Domain, NEW a \in accepted, HandoffSucceeds(d, a)
         PROVE  Shape
    <2>1. /\ a.target \in Domain /\ a.term \in 1..MaxTerm /\ term[a.target] \in Nat
          /\ a.from # a.target /\ a.from = d /\ votedFor' = votedFor /\ role' = role
      BY <1>18, <1>t DEF LeasesTypeOK, OfficeInv, HandoffSucceeds
    <2>2. PICK t \in {a.term, term[a.target]} :
             /\ adoptHandedOffLeader(d, [a EXCEPT !.term = t])
             /\ IF t = a.term THEN UNCHANGED raced ELSE Race(a.target, "reread")
      BY <1>18 DEF HandoffSucceeds
    <2>3. t \in Nat /\ [a EXCEPT !.term = t].term = t /\ [a EXCEPT !.term = t].target = a.target
      BY <2>1 DEF LeasesTypeOK
    <2>4. \/ /\ t >= term[d] /\ term' = Set(term, d, t)
             /\ follows' = Set(follows, d, [leader |-> a.target, term |-> t])
          \/ term' = term /\ follows' = follows
      BY <2>2, <2>3 DEF adoptHandedOffLeader
    <2>5. ASSUME NEW e \in Domain
          PROVE  Forward(e) /\ InOffice(e)
      BY <2>1, <2>3, <2>4, <1>t, <1>w DEF Set, Forward, InOffice, Stays, LeadsGlobally
    <2>6. Quiet
      BY <1>18 DEF HandoffSucceeds, Quiet
    <2> QED
      BY <2>2, <2>5, <2>6, <1>q DEF Race
  <1>19. ASSUME NEW d \in Domain, HandoffFails(d)
         PROVE  Shape
    <2>1. Quiet /\ electionVars' = electionVars /\ (raced' = raced \/ raced = "none")
      BY <1>19 DEF HandoffFails, Quiet, Race
    <2> QED
      BY <2>1, <1>e, <1>q
  <1>20. ASSUME UNCHANGED vars PROVE Shape
    BY <1>20, <1>e, <1>q DEF vars, Quiet, moveVars
  <1> HIDE DEF Shape
  <1>z. Shape
    BY <1>1, <1>2, <1>3, <1>4, <1>5, <1>6, <1>7, <1>8, <1>9, <1>10, <1>11, <1>12, <1>13,
       <1>14, <1>15, <1>16, <1>17, <1>18, <1>19, <1>20 DEF Next
  <1> QED
    BY <1>z DEF Shape

-----------------------------------------------------------------------------
(* Offices.                                                                *)

\* What a step can do to the rounds of heartbeats.
RoundStep ==
    \/ rounds' = rounds
    \/ Tick
    \/ \E d \in Domain : sendHeartbeats(d)
    \/ \E d \in Domain : rounds' = Set(rounds, d, NoRound)
    \/ \E l, d \in Domain : HeartbeatGlobal(l, d)

\* What a step can do to the moves and to the goroutines that wait to campaign.
MoveStep ==
    /\ \A d \in Domain :
         \/ migration'[d] = migration[d]
         \/ migration'[d] = NoMove \/ migration'[d] = Over
         \/ \E e \in Domain : handleMove(d, e)
         \/ Handoff(d)
    /\ \A h \in handoffs' : h \in handoffs \/ Handoff(h.from)
    /\ \A d \in Domain : pending'[d] \in {pending[d], "no", "campaign"}
                         \/ \E h \in handoffs : h.target = d /\ pending'[d] = h.from

\* What a step may do to a move and to a heartbeat round.
LEMMA MoveShape ==
    ASSUME LeasesTypeOK, OfficeInv, [Next]_vars
    PROVE  RoundStep /\ MoveStep
  <1> DEFINE Moves == RoundStep /\ MoveStep
             Still == migration' = migration /\ handoffs' = handoffs
             Calm == pending' = pending
             Rest == rounds' = rounds
  <1>w. DOMAIN pending = Domain /\ DOMAIN migration = Domain
    BY DEF LeasesTypeOK
  <1>m. Still /\ (Calm \/ \E d \in Domain : pending' = Set(pending, d, "no")) => MoveStep
    BY <1>w DEF MoveStep, Set
  <1>o. ASSUME NEW d \in Domain, migration' = Set(migration, d, Over), handoffs' \subseteq handoffs,
               pending' = pending
        PROVE  MoveStep
    BY <1>o, <1>w DEF MoveStep, Set
  <1>1. ASSUME Tick PROVE Moves
    BY <1>1, <1>m DEF Tick, RoundStep, moveVars
  <1>2. ASSUME NEW d \in Domain, DecideToCampaign(d)
        PROVE  Moves
    BY <1>2, <1>m DEF DecideToCampaign, campaignGlobal, RoundStep, moveVars
  <1>3. ASSUME NEW d \in Domain, Hesitate(d)
        PROVE  Moves
    BY <1>3, <1>w DEF Hesitate, RoundStep, MoveStep, Set, moveVars
  <1>4. ASSUME NEW d \in Domain, Campaign(d)
        PROVE  Moves
    BY <1>4, <1>m DEF Campaign, campaignGlobal, RoundStep, moveVars
  <1>5. ASSUME NEW d \in Domain, NEW c \in Domain, NEW grant \in BOOLEAN, RequestVote(d, c, grant)
        PROVE  Moves
    BY <1>5, <1>m DEF RequestVote, RoundStep, moveVars
  <1>6. ASSUME NEW d \in Domain, WinGlobal(d)
        PROVE  Moves
    BY <1>6, <1>m DEF WinGlobal, RoundStep, moveVars
  <1>7. ASSUME NEW d \in Domain, LoseGlobal(d)
        PROVE  Moves
    BY <1>7, <1>m DEF LoseGlobal, RoundStep, moveVars
  <1>8. ASSUME NEW d \in Domain, NEW e \in Domain, observeHigherGlobalTerm(d, e)
        PROVE  Moves
    BY <1>8, <1>m DEF observeHigherGlobalTerm, RoundStep, moveVars
  <1>9. ASSUME NEW d \in Domain, sendHeartbeats(d)
        PROVE  Moves
    <2>1. Still /\ Calm
      BY <1>9 DEF sendHeartbeats, moveVars
    <2> QED
      BY <1>9, <2>1, <1>m DEF RoundStep
  <1>10. ASSUME NEW l \in Domain, NEW d \in Domain, HeartbeatGlobal(l, d)
         PROVE  Moves
    <2>1. Still /\ Calm
      BY <1>10 DEF HeartbeatGlobal, moveVars
    <2> QED
      BY <1>10, <2>1, <1>m DEF RoundStep
  <1>11. ASSUME NEW d \in Domain, EndRound(d)
         PROVE  Moves
    <2>1. Still /\ Calm /\ rounds' = Set(rounds, d, NoRound)
      BY <1>11 DEF EndRound, moveVars
    <2> QED
      BY <2>1, <1>m DEF RoundStep
  <1>12. ASSUME NEW d \in Domain, StepDown(d)
         PROVE  Moves
    BY <1>12, <1>m DEF StepDown, RoundStep, moveVars
  <1>13. ASSUME NEW d \in Domain, Restart(d)
         PROVE  Moves
    <2>1. /\ rounds' = Set(rounds, d, NoRound) /\ migration' = Set(migration, d, NoMove)
          /\ handoffs' = handoffs /\ pending' = Set(pending, d, "no")
      BY <1>13 DEF Restart
    <2> QED
      BY <2>1, <1>w DEF RoundStep, MoveStep, Set
  <1>14. ASSUME NEW d \in Domain, NEW e \in Domain, handleMove(d, e)
         PROVE  Moves
    <2>1. \A f \in Domain : f # d => migration'[f] = migration[f]
      BY <1>14, <1>w DEF handleMove, Set
    <2>2. handoffs' = handoffs /\ pending' = pending /\ rounds' = rounds
      BY <1>14 DEF handleMove
    <2> QED
      BY <1>14, <2>1, <2>2 DEF RoundStep, MoveStep
  <1>15. ASSUME NEW d \in Domain, AbortMove(d)
         PROVE  Moves
    BY <1>15, <1>o DEF AbortMove, RoundStep
  <1>16. ASSUME NEW d \in Domain, Handoff(d)
         PROVE  Moves
    <2>1. \A f \in Domain : f # d => migration'[f] = migration[f]
      BY <1>16, <1>w DEF Handoff
    <2>2. \A h \in handoffs' : h \in handoffs \/ h.from = d
      BY <1>16 DEF Handoff
    <2>3. pending' = pending /\ rounds' = rounds
      BY <1>16 DEF Handoff
    <2> QED
      BY <1>16, <2>1, <2>2, <2>3 DEF RoundStep, MoveStep
  <1>17. ASSUME NEW h \in handoffs, beginMigration(h)
         PROVE  Moves
    <2>1. /\ h.target \in Domain
          /\ UNCHANGED <<rounds, migration>> /\ handoffs' \subseteq handoffs
          /\ pending' = Set(pending, h.target, "no") \/ pending' = Set(pending, h.target, h.from)
      BY <1>17 DEF LeasesTypeOK, beginMigration, campaignGlobal
    <2>2. \A d \in Domain : pending'[d] \in {pending[d], "no", "campaign"}
                            \/ (h.target = d /\ pending'[d] = h.from)
      BY <2>1, <1>w DEF Set
    <2> QED
      BY <2>1, <2>2 DEF RoundStep, MoveStep
  <1>18. ASSUME NEW d \in Domain, NEW a \in accepted, HandoffSucceeds(d, a)
         PROVE  Moves
    BY <1>18, <1>o DEF HandoffSucceeds, RoundStep
  <1>19. ASSUME NEW d \in Domain, HandoffFails(d)
         PROVE  Moves
    <2>1. /\ migration' = Set(migration, d, Over) /\ handoffs' \subseteq handoffs
          /\ pending' = pending /\ rounds' = rounds
      BY <1>19 DEF HandoffFails
    <2> QED
      BY <2>1, <1>o DEF RoundStep
  <1>20. ASSUME UNCHANGED vars PROVE Moves
    BY <1>20, <1>m DEF vars, RoundStep, moveVars
  <1> HIDE DEF Moves
  <1>z. Moves
    BY <1>1, <1>2, <1>3, <1>4, <1>5, <1>6, <1>7, <1>8, <1>9, <1>10, <1>11, <1>12, <1>13,
       <1>14, <1>15, <1>16, <1>17, <1>18, <1>19, <1>20 DEF Next
  <1> QED
    BY <1>z DEF Moves

\* A step keeps the offices in order.
LEMMA OfficeStep ==
    ASSUME LeasesTypeOK, OfficeInv, [Next]_vars
    PROVE  OfficeInv'
  <1>a. LeasesTypeOK' /\ RoundStep /\ MoveStep /\ Electoral
        /\ \A d \in Domain : Forward(d) /\ InOffice(d)
    BY LeasesTypeStep, StepShape, MoveShape
  <1>c. MaxTerm \in Nat /\ None \notin Domain
    BY LeaseAssumption
  <1>t. \A d \in Domain : term[d] \in Nat /\ term'[d] \in Nat /\ term'[d] <= MaxTerm /\ term'[d] >= term[d]
    BY <1>a, <1>c DEF LeasesTypeOK, Forward
  <1>w. DOMAIN campaign = Domain /\ DOMAIN rounds = Domain
    BY DEF LeasesTypeOK
  <1>s. \A d \in Domain, from \in Domain \cup {None} : Starts(d, from) =>
          /\ campaign'[d] = [term |-> term[d] + 1, from |-> from, votes |-> {d}]
          /\ term'[d] = term[d] + 1 /\ role'[d] # "Leader" /\ from # d
          /\ \A e \in Domain \ {d} : campaign'[e] = campaign[e]
    BY <1>w DEF Starts, campaignGlobal, Set, LeasesTypeOK
  <1>v. \A v, c \in Domain, grant \in BOOLEAN : RequestVote(v, c, grant) =>
          /\ campaign[c] # Idle
          /\ \A e \in Domain : /\ campaign'[e].term = campaign[e].term
                               /\ campaign'[e].from = campaign[e].from
                               /\ campaign[e].votes \subseteq campaign'[e].votes
                               /\ e # c => campaign'[e] = campaign[e]
    BY DEF RequestVote, LeasesTypeOK
  <1>x. \A d \in Domain : WinGlobal(d) =>
          /\ campaign'[d] = Idle
          /\ \A e \in Domain \ {d} : campaign'[e] = campaign[e]
    BY <1>w DEF WinGlobal, Set
  <1>1. ASSUME NEW d \in Domain, LeadsGlobally(d)'
        PROVE  campaign'[d] = Idle /\ follows'[d].term = term'[d]
    <2>1. CASE WinGlobal(d)
      BY <2>1 DEF WinGlobal, Set, LeasesTypeOK
    <2>2. CASE Stays(d)
      <3>1. campaign[d] = Idle /\ follows'[d].term = term'[d]
        BY <2>2 DEF Stays, OfficeInv
      <3>2. role'[d] = "Leader"
        BY <1>1 DEF LeadsGlobally
      <3>3. CASE Quiet
        BY <3>1, <3>3 DEF Quiet
      <3>4. ASSUME NEW e \in Domain, NEW from \in Domain \cup {None}, Starts(e, from)
            PROVE  campaign'[d] = Idle
        BY <3>1, <3>2, <3>4, <1>s
      <3>5. ASSUME NEW v \in Domain, NEW c \in Domain, NEW grant \in BOOLEAN, RequestVote(v, c, grant)
            PROVE  campaign'[d] = Idle
        BY <3>1, <3>5, <1>v
      <3>6. ASSUME NEW e \in Domain, WinGlobal(e)
            PROVE  campaign'[d] = Idle
        BY <3>1, <3>6, <1>x
      <3> QED
        BY <1>a, <3>1, <3>3, <3>4, <3>5, <3>6 DEF Electoral
    <2> QED
      BY <1>1, <1>a, <2>1, <2>2 DEF InOffice
  <1>2. ASSUME NEW d \in Domain, rounds'[d] # NoRound
        PROVE  d \in rounds'[d].acks /\ rounds'[d].term \in 1..MaxTerm
    <2>1. rounds[d] # NoRound => d \in rounds[d].acks /\ rounds[d].term \in 1..MaxTerm
      BY DEF OfficeInv
    <2>r. rounds[d] \in [term : 0..MaxTerm, left : 0..Lease, acks : SUBSET Domain]
      BY DEF LeasesTypeOK
    <2>2. CASE rounds' = rounds
      BY <1>2, <2>1, <2>2
    <2>3. CASE Tick
      <3>1. rounds'[d] = [rounds[d] EXCEPT !.left = Less(@)]
        BY <2>3 DEF Tick
      <3>2. rounds'[d].acks = rounds[d].acks /\ rounds'[d].term = rounds[d].term
        BY <3>1, <2>r
      <3>3. rounds[d] = NoRound => rounds'[d] = NoRound
        BY <3>1 DEF NoRound, Less
      <3> QED
        BY <1>2, <2>1, <3>2, <3>3
    <2>4. ASSUME NEW e \in Domain, sendHeartbeats(e)
          PROVE  d \in rounds'[d].acks /\ rounds'[d].term \in 1..MaxTerm
      <3>1. CASE e = d
        <4>1. rounds'[d].acks = {d} /\ rounds'[d].term = follows[d].term /\ LeadsGlobally(d)
          BY <1>w, <2>4, <3>1 DEF sendHeartbeats, Set
        <4>2. follows[d] \in Leaders \cup {NoLeader} /\ follows[d].leader = d
          BY <4>1 DEF LeasesTypeOK, LeadsGlobally
        <4> QED
          BY <1>c, <4>1, <4>2 DEF Leaders, NoLeader
      <3>2. CASE e # d
        BY <1>2, <1>w, <2>1, <2>4, <3>2 DEF sendHeartbeats, Set
      <3> QED
        BY <3>1, <3>2
    <2>5. ASSUME NEW e \in Domain, rounds' = Set(rounds, e, NoRound)
          PROVE  rounds'[d] = rounds[d]
      BY <1>2, <1>w, <2>5 DEF Set
    <2>6. ASSUME NEW l \in Domain, NEW e \in Domain, HeartbeatGlobal(l, e)
          PROVE  d \in rounds'[d].acks /\ rounds'[d].term \in 1..MaxTerm
      <3>1. rounds' = [rounds EXCEPT ![l].acks = @ \cup {e}] /\ rounds[l] # NoRound
        BY <2>6 DEF HeartbeatGlobal
      <3>2. rounds'[d].term = rounds[d].term /\ rounds[d].acks \subseteq rounds'[d].acks
        BY <3>1, <1>w, <2>r
      <3>3. rounds[d] # NoRound
        BY <1>2, <3>1, <1>w
      <3> QED
        BY <2>1, <3>2, <3>3
    <2> QED
      BY <1>2, <1>a, <2>1, <2>2, <2>3, <2>4, <2>5, <2>6 DEF RoundStep
  <1>3. ASSUME NEW d \in Domain, campaign'[d] # Idle
        PROVE  d \in campaign'[d].votes /\ campaign'[d].from # d /\ campaign'[d].term \in 1..term'[d]
    <2>1. campaign[d] # Idle =>
            d \in campaign[d].votes /\ campaign[d].from # d /\ campaign[d].term \in 1..term[d]
      BY DEF OfficeInv
    <2>2. campaign[d].term \in 1..term[d] => campaign[d].term \in 1..term'[d]
      BY <1>t
    <2>3. CASE Quiet
      BY <1>3, <2>1, <2>2, <2>3 DEF Quiet
    <2>4. ASSUME NEW e \in Domain, NEW from \in Domain \cup {None}, Starts(e, from), e = d
          PROVE  d \in campaign'[d].votes /\ campaign'[d].from # d /\ campaign'[d].term \in 1..term'[d]
      <3>1. /\ campaign'[d] = [term |-> term[d] + 1, from |-> from, votes |-> {d}]
            /\ term'[d] = term[d] + 1 /\ from # d
        BY <2>4, <1>s
      <3>2. term[d] + 1 \in 1..term'[d]
        BY <3>1, <1>t
      <3> QED
        BY <3>1, <3>2
    <2>5. ASSUME NEW e \in Domain, NEW from \in Domain \cup {None}, Starts(e, from), e # d
          PROVE  d \in campaign'[d].votes /\ campaign'[d].from # d /\ campaign'[d].term \in 1..term'[d]
      BY <1>3, <2>1, <2>2, <2>5, <1>s
    <2>6. ASSUME NEW v \in Domain, NEW c \in Domain, NEW grant \in BOOLEAN, RequestVote(v, c, grant)
          PROVE  d \in campaign'[d].votes /\ campaign'[d].from # d /\ campaign'[d].term \in 1..term'[d]
      <3>1. campaign[d] # Idle
        BY <1>3, <2>6, <1>v
      <3> QED
        BY <2>1, <2>2, <2>6, <1>v, <3>1
    <2>7. ASSUME NEW e \in Domain, WinGlobal(e)
          PROVE  d \in campaign'[d].votes /\ campaign'[d].from # d /\ campaign'[d].term \in 1..term'[d]
      BY <1>3, <2>1, <2>2, <2>7, <1>x
    <2> QED
      BY <1>a, <2>3, <2>4, <2>5, <2>6, <2>7 DEF Electoral
  <1>4. ASSUME NEW d \in Domain
        PROVE  pending'[d] \in {"no", "campaign"} \/ pending'[d] # d
    <2>1. pending[d] \in {"no", "campaign"} \/ pending[d] # d
      BY DEF OfficeInv
    <2>2. \A h \in handoffs : h.from # h.target
      BY DEF OfficeInv
    <2>3. pending'[d] \in {pending[d], "no", "campaign"}
          \/ \E h \in handoffs : h.target = d /\ pending'[d] = h.from
      BY <1>a DEF MoveStep
    <2> QED
      BY <2>1, <2>2, <2>3
  <1>5. ASSUME NEW d \in Domain, migration'[d].phase \in {"catchUp", "handoff"}
        PROVE  migration'[d].target \in Domain \ {d} /\ migration'[d].term \in 1..term'[d]
    <2>1. migration[d].phase \in {"catchUp", "handoff"} =>
            migration[d].target \in Domain \ {d} /\ migration[d].term \in 1..term[d]
      BY DEF OfficeInv
    <2>2. migration[d].term \in 1..term[d] => migration[d].term \in 1..term'[d]
      BY <1>t
    <2>w. DOMAIN migration = Domain
          /\ migration[d] \in [phase : {"idle", "catchUp", "handoff", "over"},
                               target : Domain \cup {None}, term : 0..MaxTerm]
      BY DEF LeasesTypeOK
    <2>3. CASE migration'[d] = migration[d]
      BY <1>5, <2>1, <2>2, <2>3
    <2>4. migration'[d] # NoMove /\ migration'[d] # Over
      BY <1>5 DEF NoMove, Over
    <2>5. ASSUME NEW e \in Domain, handleMove(d, e)
          PROVE  migration'[d].target \in Domain \ {d} /\ migration'[d].term \in 1..term'[d]
      <3>1. migration'[d] = [phase |-> "catchUp", target |-> e, term |-> term[d]] /\ e # d
            /\ LeadsGlobally(d)
        BY <2>5, <2>w DEF handleMove, Set
      <3>2. follows[d].term = term[d]
        BY <3>1 DEF OfficeInv
      <3>3. follows[d] \in Leaders \cup {NoLeader} /\ follows[d].leader = d
        BY <3>1 DEF LeasesTypeOK, LeadsGlobally
      <3>4. term[d] >= 1
        BY <3>2, <3>3, <1>c DEF Leaders, NoLeader
      <3> QED
        BY <3>1, <3>4, <1>t
    <2>6. CASE Handoff(d)
      <3>1. migration[d].phase = "catchUp" /\ migration' = [migration EXCEPT ![d].phase = "handoff"]
        BY <2>6 DEF Handoff
      <3>2. migration'[d].target = migration[d].target /\ migration'[d].term = migration[d].term
        BY <3>1, <2>w
      <3> QED
        BY <2>1, <2>2, <3>1, <3>2
    <2> QED
      BY <1>a, <2>3, <2>4, <2>5, <2>6 DEF MoveStep
  <1>6. ASSUME NEW h \in handoffs'
        PROVE  h.from # h.target
    <2>1. CASE h \in handoffs
      BY <2>1 DEF OfficeInv
    <2>2. ASSUME Handoff(h.from), h \notin handoffs
          PROVE  h.from # h.target
      <3>1. h = [from |-> h.from, target |-> migration[h.from].target, term |-> migration[h.from].term]
            /\ migration[h.from].phase = "catchUp"
        BY <2>2, <1>6 DEF Handoff
      <3>2. h.from \in Domain
        BY <1>6, <1>a DEF LeasesTypeOK
      <3> QED
        BY <3>1, <3>2 DEF OfficeInv
    <2> QED
      BY <1>a, <1>6, <2>1, <2>2 DEF MoveStep
  <1>7. ASSUME NEW a \in accepted'
        PROVE  a.from # a.target /\ term'[a.target] >= a.term
    <2>1. a.target \in Domain /\ a.term \in Nat
      BY <1>7, <1>a DEF LeasesTypeOK
    <2>2. CASE a \in accepted
      <3>1. a.from # a.target /\ term[a.target] >= a.term
        BY <2>2 DEF OfficeInv
      <3> QED
        BY <2>1, <3>1, <1>t
    <2>3. ASSUME NEW d \in Domain, WinGlobal(d), a \notin accepted
          PROVE  a.from # a.target /\ term'[a.target] >= a.term
      <3>1. /\ a = [from |-> campaign[d].from, target |-> d, term |-> campaign[d].term]
            /\ campaign[d] # Idle /\ term[d] = campaign[d].term
        BY <2>3, <1>7 DEF WinGlobal
      <3> QED
        BY <3>1, <1>t DEF OfficeInv
    <2>4. \A v, c \in Domain, grant \in BOOLEAN : RequestVote(v, c, grant) => accepted' = accepted
      BY DEF RequestVote, moveVars
    <2> QED
      BY <1>a, <1>7, <2>2, <2>3, <2>4 DEF Electoral, Quiet, Starts
  <1> QED
    BY <1>1, <1>2, <1>3, <1>4, <1>5, <1>6, <1>7 DEF OfficeInv

-----------------------------------------------------------------------------
(* Votes.                                                                  *)

\* Two sets of domains that each pass globalElectionThreshold have a domain in common.
LEMMA ThresholdsMeet ==
    ASSUME NEW d \in Domain, NEW V \in SUBSET Domain, NEW W \in SUBSET Domain,
           Cardinality(V) >= globalElectionThreshold, Cardinality(W) >= globalElectionThreshold
    PROVE  V \cap W # {}
  <1>1. IsFiniteSet(Domain) /\ IsFiniteSet(V) /\ IsFiniteSet(W)
    BY LeaseAssumption, FS_Subset
  <1>2. /\ Cardinality(Domain) \in Nat /\ Cardinality(V) \in Nat /\ Cardinality(W) \in Nat
        /\ Cardinality(Domain) # 0 /\ Cardinality(V \cap W) \in Nat
        /\ IsFiniteSet(V \cup W) /\ V \cup W \subseteq Domain /\ IsFiniteSet(V \cap W)
    BY <1>1, FS_CardinalityType, FS_EmptySet, FS_Union, FS_Intersection
  <1>3. Cardinality(V \cup W) <= Cardinality(Domain)
    BY <1>1, <1>2, FS_Subset
  <1>4. Cardinality(V \cup W) = Cardinality(V) + Cardinality(W) - Cardinality(V \cap W)
    BY <1>1, FS_Union
  <1>5. 2 * globalElectionThreshold > Cardinality(Domain) /\ globalElectionThreshold \in Nat
    BY <1>2 DEF globalElectionThreshold
  <1>6. Cardinality(V \cup W) \in Nat
    BY <1>2, FS_CardinalityType
  <1>7. Cardinality(V \cap W) # 0
    BY <1>2, <1>3, <1>4, <1>5, <1>6
  <1> QED
    BY <1>7, <1>2, FS_EmptySet

\* A vote that is given stays given.
LEMMA BoundStays ==
    ASSUME LeasesTypeOK, LeasesTypeOK', NEW v \in Domain, Forward(v),
           NEW c \in Domain, NEW t \in Nat, Bound(v, c, t)
    PROVE  Bound(v, c, t)'
  <1>1. term[v] \in Nat /\ term'[v] \in Nat /\ c # None
    BY LeaseAssumption DEF LeasesTypeOK
  <1> QED
    BY <1>1 DEF Bound, Forward

\* A step keeps the votes of a term apart: this is where one vote per term and the
\* election threshold meet.
LEMMA VotesStep ==
    ASSUME LeasesTypeOK, OfficeInv, VotesInv, [Next]_vars
    PROVE  VotesInv'
  <1>a. LeasesTypeOK' /\ OfficeInv' /\ Electoral /\ \A d \in Domain : Forward(d)
    BY LeasesTypeStep, OfficeStep, StepShape
  <1>c. MaxTerm \in Nat /\ None \notin Domain
    BY LeaseAssumption
  <1>t. \A d \in Domain : term[d] \in Nat /\ campaign[d].term \in Nat /\ campaign[d].votes \subseteq Domain
    BY <1>c DEF LeasesTypeOK
  <1>w. DOMAIN campaign = Domain /\ DOMAIN term = Domain /\ DOMAIN votedFor = Domain
    BY DEF LeasesTypeOK
  <1>l. \A w \in elected : w.leader \in Domain /\ w.term \in Nat /\ w.votes \in SUBSET Domain
    BY <1>c DEF LeasesTypeOK
  <1>b. \A v, c \in Domain, t \in Nat : Bound(v, c, t) => Bound(v, c, t)'
    BY <1>a, BoundStays
  <1> DEFINE
        Own(c) == \A v \in campaign[c].votes : Bound(v, c, campaign[c].term)
        Apart(c, b) == campaign[b].term = campaign[c].term =>
                         campaign[b].votes \cap campaign[c].votes = {}
        Fresh(c, w) == w.term = campaign[c].term => w.votes \cap campaign[c].votes = {}
        Rightful(w) == /\ w.leader \in w.votes /\ Cardinality(w.votes) >= globalElectionThreshold
                       /\ \A v \in w.votes : Bound(v, w.leader, w.term)
        Alone(w, x) == w.term = x.term => w.leader = x.leader
  <1>0. /\ \A c \in Domain : campaign[c] # Idle =>
             /\ Own(c)
             /\ \A b \in Domain \ {c} : campaign[b] # Idle => Apart(c, b)
             /\ \A w \in elected : Fresh(c, w)
        /\ \A w \in elected : Rightful(w)
        /\ \A w, x \in elected : Alone(w, x)
    BY DEF VotesInv
  <1>z. SUFFICES /\ \A c \in Domain : campaign'[c] # Idle =>
                      /\ Own(c)'
                      /\ \A b \in Domain \ {c} : campaign'[b] # Idle => Apart(c, b)'
                      /\ \A w \in elected' : Fresh(c, w)'
                 /\ \A w \in elected' : Rightful(w)'
                 /\ \A w, x \in elected' : Alone(w, x)
    BY DEF VotesInv
  <1>r. \A w \in elected : Rightful(w)'
    <2> TAKE w \in elected
    <2>1. Rightful(w)
      BY <1>0
    <2> QED
      BY <2>1, <1>b, <1>l DEF globalElectionThreshold
  <1>o. \A c \in Domain : campaign[c] # Idle =>
          \A v \in campaign[c].votes :
             \/ term'[v] > campaign[c].term
             \/ term'[v] = campaign[c].term /\ votedFor'[v] = c
    BY <1>0, <1>b, <1>t DEF Bound
  <1>1. CASE Quiet
    <2>1. elected' = elected /\ \A c \in Domain : campaign'[c] # Idle => campaign'[c] = campaign[c]
      BY <1>1 DEF Quiet
    <2>2. \A c \in Domain : campaign'[c] # Idle => Own(c)'
      BY <2>1, <1>o DEF Bound
    <2>3. \A c \in Domain : campaign'[c] # Idle =>
            /\ \A b \in Domain \ {c} : campaign'[b] # Idle => Apart(c, b)'
            /\ \A w \in elected' : Fresh(c, w)'
      BY <2>1, <1>0
    <2> QED
      BY <2>1, <2>2, <2>3, <1>r, <1>0
  <1>2. ASSUME NEW d \in Domain, NEW from \in Domain \cup {None}, Starts(d, from)
        PROVE  /\ \A c \in Domain : campaign'[c] # Idle =>
                    /\ Own(c)'
                    /\ \A b \in Domain \ {c} : campaign'[b] # Idle => Apart(c, b)'
                    /\ \A w \in elected' : Fresh(c, w)'
               /\ \A w \in elected' : Rightful(w)'
               /\ \A w, x \in elected' : Alone(w, x)
    <2>1. /\ elected' = elected
          /\ campaign'[d].term = term[d] + 1 /\ campaign'[d].votes = {d}
          /\ term'[d] = term[d] + 1 /\ votedFor'[d] = d
          /\ \A e \in Domain \ {d} : campaign'[e] = campaign[e]
      BY <1>2, <1>w DEF Starts, campaignGlobal, Set
    <2>2. \A c \in Domain : campaign'[c] # Idle => Own(c)'
      BY <2>1, <1>o, <1>t DEF Bound
    <2>3. \A b \in Domain \ {d} : campaign[b] # Idle /\ campaign[b].term = term[d] + 1 =>
             d \notin campaign[b].votes
      BY <1>0, <1>t DEF Bound
    <2>4. \A w \in elected : w.term = term[d] + 1 => d \notin w.votes
      BY <1>0, <1>t, <1>l DEF Bound
    <2>5. ASSUME NEW c \in Domain, campaign'[c] # Idle, NEW b \in Domain \ {c}, campaign'[b] # Idle
          PROVE  Apart(c, b)'
      <3>1. CASE c = d
        BY <2>1, <2>3, <2>5, <3>1
      <3>2. CASE b = d
        BY <2>1, <2>3, <2>5, <3>2
      <3>3. CASE c # d /\ b # d
        BY <2>1, <1>0, <2>5, <3>3
      <3> QED
        BY <3>1, <3>2, <3>3
    <2>6. ASSUME NEW c \in Domain, campaign'[c] # Idle, NEW w \in elected'
          PROVE  Fresh(c, w)'
      <3>1. CASE c = d
        BY <2>1, <2>4, <2>6, <3>1
      <3>2. CASE c # d
        BY <2>1, <1>0, <2>6, <3>2
      <3> QED
        BY <3>1, <3>2
    <2> QED
      BY <2>1, <2>2, <2>5, <2>6, <1>r, <1>0
  <1>3. ASSUME NEW v \in Domain, NEW d \in Domain, NEW grant \in BOOLEAN, RequestVote(v, d, grant)
        PROVE  /\ \A c \in Domain : campaign'[c] # Idle =>
                    /\ Own(c)'
                    /\ \A b \in Domain \ {c} : campaign'[b] # Idle => Apart(c, b)'
                    /\ \A w \in elected' : Fresh(c, w)'
               /\ \A w \in elected' : Rightful(w)'
               /\ \A w, x \in elected' : Alone(w, x)
    <2>t. DEFINE t == campaign[d].term
    <2>1. /\ elected' = elected /\ campaign[d] # Idle /\ t >= term[v]
          /\ \A e \in Domain \ {d} : campaign'[e] = campaign[e]
          /\ campaign'[d].term = t
          /\ campaign'[d].votes = campaign[d].votes \/ (grant /\ campaign'[d].votes = campaign[d].votes \cup {v})
          /\ grant => /\ t > term[v] \/ votedFor[v] \in {None, d}
                      /\ term'[v] = t /\ votedFor'[v] = d
      BY <1>3, <1>w DEF RequestVote, Set, LeasesTypeOK
    <2>i. \A e \in Domain : campaign'[e] # Idle => campaign[e] # Idle
      BY <2>1
    <2>2. \A c \in Domain : campaign'[c] # Idle => Own(c)'
      BY <2>1, <2>i, <1>o, <1>t DEF Bound
    <2>3. grant => \A b \in Domain \ {d} : campaign[b] # Idle /\ campaign[b].term = t =>
             v \notin campaign[b].votes
      BY <2>1, <1>0, <1>t, <1>c DEF Bound
    <2>4. grant => \A w \in elected : w.term = t => v \notin w.votes
      <3> SUFFICES ASSUME grant, NEW w \in elected, w.term = t, v \in w.votes PROVE FALSE
        OBVIOUS
      <3>1. Bound(v, w.leader, t) /\ w.leader \in w.votes
        BY <1>0
      <3>2. term[v] = t /\ votedFor[v] = w.leader
        BY <3>1, <2>1, <1>t DEF Bound
      <3>3. w.leader = d
        BY <3>2, <2>1, <1>t, <1>l, <1>c
      <3>4. d \in campaign[d].votes /\ w.votes \cap campaign[d].votes = {}
        BY <2>1, <1>0 DEF OfficeInv
      <3> QED
        BY <3>1, <3>3, <3>4
    <2>5. ASSUME NEW c \in Domain, campaign'[c] # Idle, NEW b \in Domain \ {c}, campaign'[b] # Idle
          PROVE  Apart(c, b)'
      <3>0. campaign[b] # Idle /\ campaign[c] # Idle /\ Apart(c, b)
        BY <2>i, <2>5, <1>0
      <3>1. CASE c = d
        BY <2>1, <2>3, <3>0, <3>1
      <3>2. CASE b = d
        BY <2>1, <2>3, <3>0, <3>2
      <3>3. CASE c # d /\ b # d
        BY <2>1, <3>0, <3>3
      <3> QED
        BY <3>1, <3>2, <3>3
    <2>6. ASSUME NEW c \in Domain, campaign'[c] # Idle, NEW w \in elected'
          PROVE  Fresh(c, w)'
      <3>0. Fresh(c, w) /\ w \in elected
        BY <2>i, <2>1, <2>6, <1>0
      <3>1. CASE c = d
        BY <2>1, <2>4, <3>0, <3>1
      <3>2. CASE c # d
        BY <2>1, <3>0, <3>2
      <3> QED
        BY <3>1, <3>2
    <2> QED
      BY <2>1, <2>2, <2>5, <2>6, <1>r, <1>0
  <1>4. ASSUME NEW d \in Domain, WinGlobal(d)
        PROVE  /\ \A c \in Domain : campaign'[c] # Idle =>
                    /\ Own(c)'
                    /\ \A b \in Domain \ {c} : campaign'[b] # Idle => Apart(c, b)'
                    /\ \A w \in elected' : Fresh(c, w)'
               /\ \A w \in elected' : Rightful(w)'
               /\ \A w, x \in elected' : Alone(w, x)
    <2> DEFINE n == [leader |-> d, term |-> campaign[d].term, from |-> campaign[d].from,
                     votes |-> campaign[d].votes]
    <2>1. /\ elected' = elected \cup {n} /\ campaign[d] # Idle /\ campaign'[d] = Idle
          /\ \A e \in Domain \ {d} : campaign'[e] = campaign[e]
          /\ Cardinality(campaign[d].votes) >= globalElectionThreshold
      BY <1>4, <1>w DEF WinGlobal, Set
    <2>n. n.leader = d /\ n.term = campaign[d].term /\ n.votes = campaign[d].votes
      OBVIOUS
    <2> HIDE DEF n
    <2>2. \A c \in Domain : campaign'[c] # Idle => c # d /\ campaign'[c] = campaign[c]
      BY <2>1
    <2>3. \A c \in Domain : campaign'[c] # Idle =>
             Own(c)' /\ \A b \in Domain \ {c} : campaign'[b] # Idle => Apart(c, b)'
      BY <2>2, <1>o, <1>0 DEF Bound
    <2>4. ASSUME NEW c \in Domain, campaign'[c] # Idle, NEW w \in elected'
          PROVE  Fresh(c, w)'
      <3>1. CASE w \in elected
        BY <2>2, <2>4, <1>0, <3>1
      <3>2. CASE w = n
        <4>1. c # d /\ campaign'[c] = campaign[c] /\ campaign[c] # Idle
          BY <2>2, <2>4
        <4>2. Apart(c, d)
          BY <4>1, <2>1, <1>0
        <4> QED
          BY <4>1, <4>2, <2>n, <3>2
      <3> QED
        BY <2>1, <2>4, <3>1, <3>2
    <2>5. \A w \in {n} : Rightful(w)'
      <3>1. d \in campaign[d].votes
        BY <2>1 DEF OfficeInv
      <3> QED
        BY <2>1, <2>n, <3>1, <1>o DEF globalElectionThreshold, Bound
    <2>6. \A x \in elected : x.term # n.term
      <3> SUFFICES ASSUME NEW x \in elected, x.term = n.term PROVE FALSE
        OBVIOUS
      <3>1. Fresh(d, x) /\ Rightful(x)
        BY <1>0, <2>1
      <3>2. x.votes \cap campaign[d].votes = {}
        BY <3>1, <2>n
      <3> QED
        BY <2>1, <3>1, <3>2, <1>l, <1>t, ThresholdsMeet
    <2>7. \A w, x \in elected' : Alone(w, x)
      BY <2>1, <2>6, <1>0
    <2> QED
      BY <2>1, <2>3, <2>4, <2>5, <2>7, <1>r
  <1> QED
    BY <1>a, <1>1, <1>2, <1>3, <1>4 DEF Electoral

-----------------------------------------------------------------------------
(* Followers and handoffs.                                                 *)

\* What a step can make a domain follow.
FollowShape(d) ==
    \/ follows'[d] = follows[d]
    \/ follows'[d] = NoLeader
    \/ WinGlobal(d)
    \/ \E l \in Domain : HeartbeatGlobal(l, d)
    \/ \E a \in accepted : HandoffSucceeds(d, a)

\* What a step may do to whom a domain follows.
LEMMA FollowsChange ==
    ASSUME LeasesTypeOK, [Next]_vars, NEW d \in Domain
    PROVE  FollowShape(d)
  <1>w. DOMAIN follows = Domain
    BY DEF LeasesTypeOK
  <1>1. CASE \/ Tick \/ UNCHANGED vars
             \/ \E e \in Domain : LoseGlobal(e) \/ sendHeartbeats(e) \/ EndRound(e)
                                  \/ AbortMove(e) \/ HandoffFails(e)
             \/ \E e, f \in Domain : handleMove(e, f)
    <2>1. follows' = follows
      BY <1>1 DEF Tick, vars, LoseGlobal, sendHeartbeats, EndRound, AbortMove, HandoffFails,
                  handleMove, electionVars
    <2> QED
      BY <2>1 DEF FollowShape
  <1>2. ASSUME NEW e \in Domain, follows' = Set(follows, e, NoLeader) \/ follows' = follows
        PROVE  FollowShape(d)
    BY <1>2, <1>w DEF FollowShape, Set
  <1>3. ASSUME NEW e \in Domain, NEW from, campaignGlobal(e, from)
        PROVE  FollowShape(d)
    BY <1>2, <1>3 DEF campaignGlobal
  <1>4. ASSUME NEW e \in Domain, \/ DecideToCampaign(e) \/ Hesitate(e) \/ Campaign(e)
                                 \/ StepDown(e) \/ Restart(e) \/ Handoff(e)
        PROVE  FollowShape(d)
    BY <1>2, <1>3, <1>4 DEF DecideToCampaign, Hesitate, Campaign, StepDown, Restart, Handoff,
                            revokeForHandoff, Revoked
  <1>5. ASSUME NEW e \in Domain, NEW f \in Domain, observeHigherGlobalTerm(e, f)
        PROVE  FollowShape(d)
    BY <1>2, <1>5 DEF observeHigherGlobalTerm
  <1>6. ASSUME NEW e \in Domain, NEW c \in Domain, NEW grant \in BOOLEAN, RequestVote(e, c, grant)
        PROVE  FollowShape(d)
    BY <1>2, <1>6 DEF RequestVote
  <1>7. ASSUME NEW h \in handoffs, beginMigration(h)
        PROVE  FollowShape(d)
    <2>1. h.target \in Domain
      BY DEF LeasesTypeOK
    <2> QED
      BY <1>2, <1>3, <1>7, <2>1 DEF beginMigration, electionVars
  <1>8. ASSUME NEW e \in Domain, WinGlobal(e)
        PROVE  FollowShape(d)
    <2>1. e = d \/ follows'[d] = follows[d]
      BY <1>8, <1>w DEF WinGlobal, Set
    <2> QED
      BY <1>8, <2>1 DEF FollowShape
  <1>9. ASSUME NEW l \in Domain, NEW e \in Domain, HeartbeatGlobal(l, e)
        PROVE  FollowShape(d)
    <2>1. e = d \/ follows'[d] = follows[d]
      BY <1>9, <1>w DEF HeartbeatGlobal, Set
    <2> QED
      BY <1>9, <2>1 DEF FollowShape
  <1>10. ASSUME NEW e \in Domain, NEW a \in accepted, HandoffSucceeds(e, a)
         PROVE  FollowShape(d)
    <2>1. e = d \/ follows'[d] = follows[d]
      BY <1>10, <1>w DEF HandoffSucceeds, adoptHandedOffLeader, Set
    <2> QED
      BY <1>10, <2>1 DEF FollowShape
  <1> QED
    BY <1>1, <1>4, <1>5, <1>6, <1>7, <1>8, <1>9, <1>10 DEF Next

\* Elections stay on record.
LEMMA ElectedGrows ==
    ASSUME Electoral
    PROVE  elected \subseteq elected' /\ \A l, t : Won(l, t) => Won(l, t)'
  <1>1. elected \subseteq elected'
    BY ZenonT(30) DEF Electoral, Quiet, Starts, RequestVote, WinGlobal
  <1> QED
    BY <1>1 DEF Won

\* A step keeps what the domains are told about leaders true to the record.
LEMMA FollowStep ==
    ASSUME LeasesTypeOK, OfficeInv, FollowInv, [Next]_vars
    PROVE  FollowInv'
  <1>a. /\ LeasesTypeOK' /\ OfficeInv' /\ Electoral /\ RoundStep
        /\ raced' = raced \/ raced = "none"
        /\ \A d \in Domain : FollowShape(d)
    BY LeasesTypeStep, OfficeStep, StepShape, MoveShape, FollowsChange
  <1> DEFINE Wins(l, t) == \E w \in elected' : w.leader = l /\ w.term = t
  <1>e. \A l, t : Won(l, t) => Wins(l, t)
    BY <1>a, ElectedGrows DEF Won
  <1>w. DOMAIN follows = Domain /\ DOMAIN rounds = Domain
    BY DEF LeasesTypeOK
  <1>x. \A d \in Domain : WinGlobal(d) =>
          Wins(d, campaign[d].term) /\ follows'[d] = [leader |-> d, term |-> campaign[d].term]
    <2> SUFFICES ASSUME NEW d \in Domain, WinGlobal(d)
                 PROVE  Wins(d, campaign[d].term)
                        /\ follows'[d] = [leader |-> d, term |-> campaign[d].term]
      OBVIOUS
    <2> DEFINE n == [leader |-> d, term |-> campaign[d].term, from |-> campaign[d].from,
                     votes |-> campaign[d].votes]
    <2>1. n \in elected' /\ n.leader = d /\ n.term = campaign[d].term
      BY DEF WinGlobal
    <2>2. follows'[d] = [leader |-> d, term |-> campaign[d].term]
      BY <1>w DEF WinGlobal, Set
    <2> QED
      BY <2>1, <2>2
  <1>r. raced' # "reread" => raced # "reread"
    BY <1>a
  <1>k. \A a \in accepted : Won(a.target, a.term)
    BY DEF FollowInv
  <1>1. ASSUME NEW d \in Domain, follows'[d] # NoLeader, raced' # "reread"
        PROVE  Wins(follows'[d].leader, follows'[d].term)
    <2>1. follows[d] # NoLeader => Won(follows[d].leader, follows[d].term)
      BY <1>1, <1>r DEF FollowInv, FollowedWereElected, Won
    <2>2. CASE follows'[d] = follows[d]
      BY <1>1, <1>e, <2>1, <2>2
    <2>3. CASE WinGlobal(d)
      <3> HIDE DEF Wins
      <3>1. Wins(d, campaign[d].term) /\ follows'[d] = [leader |-> d, term |-> campaign[d].term]
        BY <1>x, <2>3
      <3>2. follows'[d].leader = d /\ follows'[d].term = campaign[d].term
        BY <3>1
      <3> QED
        BY <3>1, <3>2
    <2>4. ASSUME NEW l \in Domain, HeartbeatGlobal(l, d)
          PROVE  Wins(follows'[d].leader, follows'[d].term)
      <3>1. follows'[d] = [leader |-> l, term |-> rounds[l].term] /\ rounds[l] # NoRound
        BY <2>4, <1>w DEF HeartbeatGlobal, Set
      <3>2. Won(l, rounds[l].term)
        BY <3>1, <1>1, <1>r DEF FollowInv
      <3> QED
        BY <3>1, <3>2, <1>e
    <2>5. ASSUME NEW a \in accepted, HandoffSucceeds(d, a), follows'[d] # follows[d]
          PROVE  Wins(follows'[d].leader, follows'[d].term)
      <3>1. PICK t \in {a.term, term[a.target]} :
               /\ adoptHandedOffLeader(d, [a EXCEPT !.term = t])
               /\ IF t = a.term THEN UNCHANGED raced ELSE Race(a.target, "reread")
        BY <2>5 DEF HandoffSucceeds
      <3>2. t = a.term
        BY <1>1, <3>1 DEF Race
      <3>3. [a EXCEPT !.term = t].term = t /\ [a EXCEPT !.term = t].target = a.target
        BY DEF LeasesTypeOK
      <3>4. follows'[d] = [leader |-> a.target, term |-> a.term]
        BY <2>5, <3>1, <3>2, <3>3, <1>w DEF adoptHandedOffLeader, Set
      <3> QED
        BY <3>4, <1>k, <1>e
    <2> QED
      BY <1>1, <1>a, <2>2, <2>3, <2>4, <2>5 DEF FollowShape
  <1>2. ASSUME NEW d \in Domain, rounds'[d] # NoRound, raced' # "reread"
        PROVE  Wins(d, rounds'[d].term)
    <2>r. rounds[d] \in [term : 0..MaxTerm, left : 0..Lease, acks : SUBSET Domain]
      BY DEF LeasesTypeOK
    <2>1. rounds[d] # NoRound => Wins(d, rounds[d].term)
      BY <1>2, <1>r, <1>e DEF FollowInv
    <2>2. CASE rounds' = rounds
      BY <1>2, <2>1, <2>2
    <2>3. CASE Tick
      <3>1. rounds'[d] = [rounds[d] EXCEPT !.left = Less(@)]
        BY <2>3 DEF Tick
      <3>2. rounds'[d].term = rounds[d].term
        BY <3>1, <2>r
      <3>3. rounds[d] = NoRound => rounds'[d] = NoRound
        BY <3>1 DEF NoRound, Less
      <3> QED
        BY <1>2, <2>1, <3>2, <3>3
    <2>4. ASSUME NEW e \in Domain, sendHeartbeats(e)
          PROVE  Wins(d, rounds'[d].term)
      <3>1. CASE e = d
        <4>1. rounds'[d].term = follows[d].term /\ LeadsGlobally(d) /\ follows[d].leader = d
          BY <1>w, <2>4, <3>1 DEF sendHeartbeats, Set, LeadsGlobally
        <4>2. follows[d] # NoLeader
          BY <4>1, LeaseAssumption DEF NoLeader
        <4>3. Won(d, follows[d].term)
          BY <1>2, <1>r, <4>1, <4>2 DEF FollowInv, FollowedWereElected, Won
        <4> QED
          BY <4>1, <4>3, <1>e
      <3>2. CASE e # d
        BY <1>2, <1>w, <2>1, <2>4, <3>2 DEF sendHeartbeats, Set
      <3> QED
        BY <3>1, <3>2
    <2>5. ASSUME NEW e \in Domain, rounds' = Set(rounds, e, NoRound)
          PROVE  rounds'[d] = rounds[d]
      BY <1>2, <1>w, <2>5 DEF Set
    <2>6. ASSUME NEW l \in Domain, NEW e \in Domain, HeartbeatGlobal(l, e)
          PROVE  Wins(d, rounds'[d].term)
      <3>1. rounds' = [rounds EXCEPT ![l].acks = @ \cup {e}] /\ rounds[l] # NoRound
        BY <2>6 DEF HeartbeatGlobal
      <3>2. rounds'[d].term = rounds[d].term
        BY <3>1, <1>w, <2>r
      <3>3. rounds[d] # NoRound
        BY <1>2, <3>1, <1>w
      <3> QED
        BY <2>1, <3>2, <3>3
    <2> QED
      BY <1>2, <1>a, <2>1, <2>2, <2>3, <2>4, <2>5, <2>6 DEF RoundStep
  <1>3. ASSUME NEW a \in accepted'
        PROVE  Wins(a.target, a.term)
    <2>1. CASE a \in accepted
      BY <1>k, <1>e, <2>1
    <2>2. ASSUME NEW d \in Domain, WinGlobal(d), a \notin accepted
          PROVE  Wins(a.target, a.term)
      <3>1. a = [from |-> campaign[d].from, target |-> d, term |-> campaign[d].term]
        BY <2>2, <1>3 DEF WinGlobal
      <3> QED
        BY <3>1, <2>2, <1>x
    <2>3. \A v, c \in Domain, grant \in BOOLEAN : RequestVote(v, c, grant) => accepted' = accepted
      BY DEF RequestVote, moveVars
    <2> QED
      BY <1>a, <1>3, <2>1, <2>2, <2>3 DEF Electoral, Quiet, Starts
  <1> QED
    BY <1>1, <1>2, <1>3 DEF FollowInv, FollowedWereElected, Won

\* A domain that has done with a term never comes back to it.
LEMMA EndedStays ==
    ASSUME LeasesTypeOK, OfficeInv, [Next]_vars, NEW f \in Domain, NEW t \in Nat, Ended(f, t)
    PROVE  Ended(f, t)'
  <1>a. LeasesTypeOK' /\ Forward(f) /\ InOffice(f) /\ Electoral
    BY LeasesTypeStep, StepShape
  <1>t. term[f] \in Nat /\ term'[f] \in Nat /\ DOMAIN campaign = Domain /\ DOMAIN follows = Domain
    BY <1>a, LeaseAssumption DEF LeasesTypeOK
  <1>1. term'[f] >= t
    BY <1>a, <1>t DEF Ended, Forward
  <1>2. ASSUME LeadsGlobally(f)' PROVE follows'[f].term > t
    <2>1. CASE Stays(f)
      BY <2>1 DEF Stays, Ended
    <2>2. CASE WinGlobal(f)
      BY <2>2, <1>t DEF WinGlobal, Set, Ended
    <2> QED
      BY <1>2, <1>a, <2>1, <2>2 DEF InOffice
  <1>3. ASSUME campaign'[f] # Idle PROVE campaign'[f].term > t
    <2>1. campaign[f] # Idle => campaign[f].term > t
      BY DEF Ended
    <2>2. CASE Quiet
      BY <1>3, <2>1, <2>2 DEF Quiet
    <2>3. ASSUME NEW d \in Domain, NEW from \in Domain \cup {None}, Starts(d, from)
          PROVE  campaign'[f].term > t
      <3>1. d = f => campaign'[f].term = term[f] + 1
        BY <2>3, <1>t DEF Starts, campaignGlobal, Set
      <3>2. d # f => campaign'[f] = campaign[f]
        BY <2>3, <1>t DEF Starts, campaignGlobal, Set
      <3> QED
        BY <1>3, <2>1, <3>1, <3>2, <1>t DEF Ended
    <2>4. ASSUME NEW v \in Domain, NEW c \in Domain, NEW grant \in BOOLEAN, RequestVote(v, c, grant)
          PROVE  campaign'[f].term > t
      <3>1. campaign'[f].term = campaign[f].term /\ (c # f => campaign'[f] = campaign[f]) /\ campaign[c] # Idle
        BY <2>4 DEF RequestVote, LeasesTypeOK
      <3> QED
        BY <1>3, <2>1, <3>1
    <2>5. ASSUME NEW d \in Domain, WinGlobal(d)
          PROVE  campaign'[f].term > t
      BY <1>3, <1>t, <2>1, <2>5 DEF WinGlobal, Set
    <2> QED
      BY <1>a, <2>2, <2>3, <2>4, <2>5 DEF Electoral
  <1> QED
    BY <1>1, <1>2, <1>3 DEF Ended

\* A step keeps handoffs in order: a term is over for the leader that handed it over.
LEMMA HandoffStep ==
    ASSUME LeasesTypeOK, OfficeInv, FollowInv, HandoffInv, [Next]_vars
    PROVE  HandoffInv'
  <1>a. /\ LeasesTypeOK' /\ OfficeInv' /\ Electoral /\ MoveStep
        /\ raced' = raced \/ raced = "none"
        /\ \A d \in Domain : Forward(d) /\ InOffice(d)
    BY LeasesTypeStep, OfficeStep, StepShape, MoveShape
  <1>t. \A d \in Domain : term[d] \in Nat /\ campaign[d].term \in Nat
    BY LeaseAssumption DEF LeasesTypeOK
  <1>w. DOMAIN campaign = Domain /\ DOMAIN migration = Domain /\ DOMAIN term = Domain
        /\ DOMAIN follows = Domain /\ DOMAIN role = Domain
    BY DEF LeasesTypeOK
  <1> DEFINE Wins(l, t) == \E w \in elected' : w.leader = l /\ w.term = t
             Done(f, t) == /\ term'[f] >= t
                           /\ role'[f] = "Leader" /\ follows'[f].leader = f =>
                                follows'[f].term > t
                           /\ campaign'[f] # Idle => campaign'[f].term > t
  <1>e. \A l, t : Won(l, t) => Wins(l, t)
    BY <1>a, ElectedGrows DEF Won
  <1>d. \A f \in Domain, t \in Nat : Ended(f, t) => Done(f, t)
    BY EndedStays DEF Ended, LeadsGlobally
  <1>r. (raced' # "reread" => raced # "reread") /\ (raced' # "campaign" => raced # "campaign")
    BY <1>a
  <1>s. \A d \in Domain, from \in Domain \cup {None} : Starts(d, from) =>
          /\ campaign'[d].term = term[d] + 1 /\ campaign'[d].from = from
          /\ \A e \in Domain \ {d} : campaign'[e] = campaign[e]
    BY <1>w DEF Starts, campaignGlobal, Set
  <1>v. \A v, c \in Domain, grant \in BOOLEAN : RequestVote(v, c, grant) =>
          /\ campaign[c] # Idle /\ elected' = elected
          /\ \A e \in Domain : /\ campaign'[e].term = campaign[e].term
                               /\ campaign'[e].from = campaign[e].from
                               /\ e # c => campaign'[e] = campaign[e]
    BY DEF RequestVote, LeasesTypeOK
  <1>x. \A d \in Domain : WinGlobal(d) =>
          /\ campaign'[d] = Idle /\ campaign[d] # Idle
          /\ \A e \in Domain \ {d} : campaign'[e] = campaign[e]
          /\ elected' = elected \cup {[leader |-> d, term |-> campaign[d].term,
                                       from |-> campaign[d].from, votes |-> campaign[d].votes]}
    BY <1>w DEF WinGlobal, Set
  <1>1. ASSUME NEW d \in Domain, migration'[d].phase = "catchUp"
        PROVE  /\ campaign'[d] # Idle => campaign'[d].term > migration'[d].term
               /\ raced' # "reread" => Wins(d, migration'[d].term)
    <2>1. CASE migration'[d] = migration[d]
      <3>1. /\ campaign[d] # Idle => campaign[d].term > migration[d].term
            /\ raced # "reread" => Won(d, migration[d].term)
            /\ migration[d].term \in 1..term[d]
        BY <1>1, <2>1 DEF HandoffInv, OfficeInv
      <3>2. campaign'[d] # Idle => campaign'[d].term > migration[d].term
        <4> SUFFICES ASSUME campaign'[d] # Idle PROVE campaign'[d].term > migration[d].term
          OBVIOUS
        <4>1. CASE Quiet
          BY <3>1, <4>1 DEF Quiet
        <4>2. ASSUME NEW e \in Domain, NEW from \in Domain \cup {None}, Starts(e, from)
              PROVE  campaign'[d].term > migration[d].term
          <5>1. CASE e = d
            <6>1. campaign'[d].term = term[d] + 1
              BY <4>2, <5>1, <1>s
            <6> QED
              BY <3>1, <6>1, <1>t
          <5>2. CASE e # d
            BY <3>1, <4>2, <5>2, <1>s
          <5> QED
            BY <5>1, <5>2
        <4>3. ASSUME NEW v \in Domain, NEW c \in Domain, NEW grant \in BOOLEAN, RequestVote(v, c, grant)
              PROVE  campaign'[d].term > migration[d].term
          BY <3>1, <4>3, <1>v
        <4>4. ASSUME NEW e \in Domain, WinGlobal(e)
              PROVE  campaign'[d].term > migration[d].term
          BY <3>1, <4>4, <1>x
        <4> QED
          BY <1>a, <4>1, <4>2, <4>3, <4>4 DEF Electoral
      <3> QED
        BY <2>1, <3>1, <3>2, <1>r, <1>e
    <2>2. ASSUME NEW e \in Domain, handleMove(d, e)
          PROVE  /\ campaign'[d] # Idle => campaign'[d].term > migration'[d].term
                 /\ raced' # "reread" => Wins(d, migration'[d].term)
      <3>1. migration'[d].term = term[d] /\ LeadsGlobally(d) /\ campaign' = campaign
        BY <2>2, <1>w DEF handleMove, Set
      <3>2. campaign[d] = Idle /\ follows[d].term = term[d] /\ follows[d].leader = d
        BY <3>1 DEF OfficeInv, LeadsGlobally
      <3>3. raced # "reread" => Won(d, term[d])
        BY <3>2, LeaseAssumption DEF FollowInv, FollowedWereElected, Won, NoLeader
      <3> QED
        BY <3>1, <3>2, <3>3, <1>r, <1>e
    <2>3. migration'[d] # NoMove /\ migration'[d] # Over
      BY <1>1 DEF NoMove, Over
    <2>4. ~Handoff(d)
      <3>1. migration[d] \in [phase : {"idle", "catchUp", "handoff", "over"},
                              target : Domain \cup {None}, term : 0..MaxTerm]
        BY DEF LeasesTypeOK
      <3> QED
        BY <1>1, <1>w, <3>1 DEF Handoff
    <2> QED
      BY <1>a, <2>1, <2>2, <2>3, <2>4 DEF MoveStep
  <1>2. ASSUME NEW h \in handoffs'
        PROVE  Done(h.from, h.term) /\ (raced' # "reread" => Wins(h.from, h.term))
    <2>0. h.from \in Domain /\ h.term \in Nat
      BY <1>2, <1>a, LeaseAssumption DEF LeasesTypeOK
    <2>1. CASE h \in handoffs
      <3>1. Ended(h.from, h.term) /\ (raced # "reread" => Won(h.from, h.term))
        BY <2>1 DEF HandoffInv
      <3> QED
        BY <2>0, <3>1, <1>d, <1>e, <1>r
    <2>2. ASSUME Handoff(h.from), h \notin handoffs
          PROVE  Done(h.from, h.term) /\ (raced' # "reread" => Wins(h.from, h.term))
      <3> DEFINE d == h.from
      <3>1. /\ h = [from |-> d, target |-> migration[d].target, term |-> migration[d].term]
            /\ migration[d].phase = "catchUp" /\ campaign' = campaign /\ term' = term
        BY <2>2, <1>2 DEF Handoff
      <3>2. ~LeadsGlobally(d)'
        <4>1. CASE LeadsGlobally(d)
          <5>1. role'[d] = "Follower"
            BY <2>0, <2>2, <4>1, <1>w DEF Handoff, revokeForHandoff, Revoked, Set
          <5> QED
            BY <5>1 DEF LeadsGlobally
        <4>2. CASE ~LeadsGlobally(d)
          BY <2>2, <4>2 DEF Handoff, revokeForHandoff, LeadsGlobally
        <4> QED
          BY <4>1, <4>2
      <3>3. /\ campaign[d] # Idle => campaign[d].term > migration[d].term
            /\ raced # "reread" => Won(d, migration[d].term)
            /\ migration[d].term \in 1..term[d]
        BY <2>0, <3>1 DEF HandoffInv, OfficeInv
      <3>4. h.term = migration[d].term /\ term[d] >= h.term
        BY <2>0, <3>1, <3>3, <1>t
      <3>5. ~(role'[d] = "Leader" /\ follows'[d].leader = d)
        BY <3>2 DEF LeadsGlobally
      <3>6. Done(d, h.term)
        BY <3>1, <3>3, <3>4, <3>5
      <3> HIDE DEF Done
      <3> QED
        BY <3>3, <3>4, <3>6, <1>e, <1>r
    <2> QED
      BY <1>a, <1>2, <2>1, <2>2 DEF MoveStep
  <1>3. ASSUME NEW c \in Domain, campaign'[c] # Idle, campaign'[c].from # None, raced' # "campaign"
        PROVE  /\ Done(campaign'[c].from, campaign'[c].term - 1)
               /\ raced' # "reread" => Wins(campaign'[c].from, campaign'[c].term - 1)
    <2>1. ASSUME campaign[c] # Idle, campaign'[c].term = campaign[c].term,
                 campaign'[c].from = campaign[c].from
          PROVE  /\ Done(campaign'[c].from, campaign'[c].term - 1)
                 /\ raced' # "reread" => Wins(campaign'[c].from, campaign'[c].term - 1)
      <3>1. /\ Ended(campaign[c].from, campaign[c].term - 1)
            /\ raced # "reread" => Won(campaign[c].from, campaign[c].term - 1)
        BY <1>3, <1>r, <2>1 DEF HandoffInv
      <3>2. campaign[c].from \in Domain /\ campaign[c].term - 1 \in Nat
        BY <1>3, <2>1, <1>t DEF LeasesTypeOK, OfficeInv
      <3> HIDE DEF Done, Wins
      <3> QED
        BY <2>1, <3>1, <3>2, <1>d, <1>e, <1>r
    <2>2. CASE Quiet
      BY <1>3, <2>1, <2>2 DEF Quiet
    <2>3. ASSUME NEW e \in Domain, NEW from \in Domain \cup {None}, Starts(e, from)
          PROVE  /\ Done(campaign'[c].from, campaign'[c].term - 1)
                 /\ raced' # "reread" => Wins(campaign'[c].from, campaign'[c].term - 1)
      <3>1. CASE e # c
        BY <1>3, <2>1, <2>3, <3>1, <1>s
      <3>2. CASE e = c
        <4>1. campaign'[c].term = term[c] + 1 /\ campaign'[c].from = from
          BY <2>3, <3>2, <1>s
        <4>2. PICK h \in handoffs : h.from = from /\ h.term = term[c]
          BY <1>3, <2>3, <3>2, <4>1 DEF Starts
        <4>3. Ended(h.from, h.term) /\ (raced # "reread" => Won(h.from, h.term))
          BY <4>2 DEF HandoffInv
        <4>4. h.from \in Domain /\ h.term \in Nat /\ campaign'[c].term - 1 = h.term
          BY <4>1, <4>2, <1>t DEF LeasesTypeOK
        <4> HIDE DEF Done, Wins
        <4> QED
          BY <4>1, <4>2, <4>3, <4>4, <1>d, <1>e, <1>r
      <3> QED
        BY <3>1, <3>2
    <2>4. ASSUME NEW v \in Domain, NEW b \in Domain, NEW grant \in BOOLEAN, RequestVote(v, b, grant)
          PROVE  /\ Done(campaign'[c].from, campaign'[c].term - 1)
                 /\ raced' # "reread" => Wins(campaign'[c].from, campaign'[c].term - 1)
      BY <1>3, <2>1, <2>4, <1>v
    <2>5. ASSUME NEW e \in Domain, WinGlobal(e)
          PROVE  /\ Done(campaign'[c].from, campaign'[c].term - 1)
                 /\ raced' # "reread" => Wins(campaign'[c].from, campaign'[c].term - 1)
      BY <1>3, <2>1, <2>5, <1>x
    <2> HIDE DEF Done, Wins
    <2> QED
      BY <1>a, <2>2, <2>3, <2>4, <2>5 DEF Electoral
  <1>4. ASSUME NEW w \in elected', w.from # None, raced' # "campaign"
        PROVE  Done(w.from, w.term - 1)
    <2>1. CASE w \in elected
      <3>1. Ended(w.from, w.term - 1)
        BY <1>4, <1>r, <2>1 DEF HandoffInv
      <3>2. w.from \in Domain /\ w.term - 1 \in Nat
        BY <1>4, <2>1, LeaseAssumption DEF LeasesTypeOK
      <3> QED
        BY <3>1, <3>2, <1>d
    <2>2. ASSUME NEW d \in Domain, WinGlobal(d), w \notin elected
          PROVE  Done(w.from, w.term - 1)
      <3>1. w.from = campaign[d].from /\ w.term = campaign[d].term /\ campaign[d] # Idle
        BY <2>2, <1>x
      <3>2. Ended(w.from, w.term - 1)
        BY <1>4, <1>r, <3>1 DEF HandoffInv
      <3>3. w.from \in Domain /\ w.term - 1 \in Nat
        BY <1>4, <3>1, <1>t DEF LeasesTypeOK, OfficeInv
      <3> QED
        BY <3>2, <3>3, <1>d
    <2>3. w \notin elected => \E d \in Domain : WinGlobal(d)
      BY <1>a, <1>4, <1>v DEF Electoral, Quiet, Starts
    <2> QED
      BY <2>1, <2>2, <2>3
  <1>5. \A d \in Domain : migration'[d].phase = "catchUp" =>
          /\ campaign'[d] # Idle => campaign'[d].term > migration'[d].term
          /\ raced' # "reread" => Won(d, migration[d].term)'
    BY <1>1 DEF Won
  <1>6. \A h \in handoffs' : Ended(h.from, h.term)' /\ (raced' # "reread" => Won(h.from, h.term)')
    BY <1>2 DEF Ended, Won, LeadsGlobally
  <1>7. \A c \in Domain : campaign'[c] # Idle /\ campaign'[c].from # None /\ raced' # "campaign" =>
          /\ Ended(campaign[c].from, campaign[c].term - 1)'
          /\ raced' # "reread" => Won(campaign[c].from, campaign[c].term - 1)'
    <2>1. \A f, t : (Done(f, t) <=> Ended(f, t)') /\ (Wins(f, t) <=> Won(f, t)')
      BY DEF Ended, Won, LeadsGlobally
    <2> HIDE DEF Done, Wins
    <2> TAKE c \in Domain
    <2> HAVE campaign'[c] # Idle /\ campaign'[c].from # None /\ raced' # "campaign"
    <2>2. Done(campaign'[c].from, campaign'[c].term - 1)
      BY <1>3
    <2>3. raced' # "reread" => Wins(campaign'[c].from, campaign'[c].term - 1)
      BY <1>3
    <2> QED
      BY <2>1, <2>2, <2>3
  <1>8. \A w \in elected' : w.from # None /\ raced' # "campaign" => Ended(w.from, w.term - 1)'
    BY <1>4 DEF Ended, LeadsGlobally
  <1> QED
    BY <1>5, <1>6, <1>7, <1>8 DEF HandoffInv

-----------------------------------------------------------------------------
(* Leases.                                                                 *)

\* A domain that has confirmed a leader holds on to it, whatever happens but the passing of
\* time, as long as nobody has won a later term: its sticky window outlasts the lease, a
\* handoff could only come from the leader itself, and everything else is a race.
LEMMA HeldStays ==
    ASSUME LeasesTypeOK, OfficeInv, VotesInv, FollowInv, HandoffInv, [Next]_vars, raced' = "none",
           NEW d \in Domain, LeadsGlobally(d), LeadsGlobally(d)',
           NEW t \in Nat, t = follows[d].term, ~Later(t),
           NEW v \in Domain, NEW left \in 1..Lease, Held(v, d, t, left), ~Tick
    PROVE  Held(v, d, t, left)'
  <1>a. /\ LeasesTypeOK' /\ VotesInv' /\ Electoral /\ raced = "none"
        /\ Stays(d) \/ WinGlobal(d)
    BY LeasesTypeStep, VotesStep, StepShape DEF InOffice
  <1>c. Lease \in Nat /\ Sticky \in Nat /\ Lease < Sticky /\ None \notin Domain /\ MaxTerm \in Nat
    BY LeaseAssumption
  <1>o. campaign[d] = Idle /\ term[d] = t /\ follows[d].leader = d /\ follows[d] # NoLeader
    BY <1>c DEF OfficeInv, LeadsGlobally, NoLeader
  <1>s. Stays(d)
    BY <1>a, <1>o DEF WinGlobal
  <1>h. /\ term[v] = t /\ follows[v].leader = d /\ follows[v].term = t /\ follows[v] # NoLeader
        /\ contact[v] >= left + Sticky - Lease /\ contact[v] > 0 /\ contact[v] \in Nat
        /\ v = d \/ v \notin due
    BY <1>c DEF Held, NoLeader, LeasesTypeOK
  <1>w. /\ DOMAIN term = Domain /\ DOMAIN follows = Domain /\ DOMAIN contact = Domain
        /\ \A e \in Domain : term[e] \in Nat /\ campaign[e].term \in Nat /\ rounds[e].term \in Nat
    BY <1>c DEF LeasesTypeOK
  <1>1. Won(d, t)
    BY <1>a, <1>o DEF FollowInv, FollowedWereElected, Won
  <1>2. \A l : Won(l, t) => l = d
    BY <1>1 DEF VotesInv, Won
  <1>3. \A l, u : Won(l, u) => u \in Nat /\ u <= t
    BY <1>c DEF Won, Later, LeasesTypeOK
  <1>4. ~Ended(d, t)
    BY DEF Ended
  <1> DEFINE Keeps == term'[v] = term[v] /\ follows'[v] = follows[v]
             Hears == contact'[v] = contact[v] \/ contact'[v] = Sticky
             NotDue == v \in due' => v \in due
             Good == Keeps /\ Hears /\ (v # d => NotDue)
  <1>k. Good => Held(v, d, t, left)'
    BY <1>h, <1>c DEF Held
  <1>d. v = d => Keeps
    BY <1>s DEF Stays
  <1>m. ASSUME NEW c \in Domain, campaign[c] # Idle, campaign[c].from # None
        PROVE  campaign[c].term <= t
    <2>1. /\ Ended(campaign[c].from, campaign[c].term - 1)
          /\ Won(campaign[c].from, campaign[c].term - 1)
      BY <1>m, <1>a DEF HandoffInv
    <2>2. campaign[c].term - 1 <= t /\ campaign[c].term - 1 # t
      BY <2>1, <1>2, <1>3, <1>4
    <2> QED
      BY <2>2, <1>w
  <1>5. ASSUME NEW e \in Domain, DecideToCampaign(e) \/ Hesitate(e)
        PROVE  Good
    <2>1. e # v
      <3>1. MayCampaign(e) /\ (DecideToCampaign(e) => role'[e] = "Candidate")
            /\ (Hesitate(e) => follows'[e] = NoLeader)
        BY <1>5, <1>w DEF DecideToCampaign, Hesitate, campaignGlobal, Set, LeasesTypeOK
      <3>2. e = d => FALSE
        BY <3>1, <1>5, <1>o, <1>c DEF LeadsGlobally, NoLeader
      <3> QED
        BY <3>1, <3>2, <1>h DEF MayCampaign, NeedsGlobalElection
    <2> QED
      BY <1>5, <1>w, <2>1 DEF DecideToCampaign, Hesitate, campaignGlobal, Set
  <1>6. ASSUME NEW e \in Domain, Campaign(e) \/ Restart(e)
        PROVE  FALSE
    BY <1>6 DEF Campaign, Restart, Race
  <1>7. ASSUME NEW e \in Domain, NEW c \in Domain, NEW grant \in BOOLEAN, RequestVote(e, c, grant)
        PROVE  Good
    <2>1. contact' = contact /\ due' \subseteq due
      BY <1>7 DEF RequestVote
    <2>2. CASE e # v
      BY <1>7, <1>w, <2>1, <2>2 DEF RequestVote, Set
    <2>3. CASE e = v /\ campaign[c].term > t
      <3>1. campaign[c] # Idle /\ ~Sticks(v, c)
        BY <1>7, <2>3 DEF RequestVote
      <3>2. c # d
        BY <3>1, <1>o
      <3>3. campaign[c].from # None
        BY <3>1, <3>2, <1>h, <1>c DEF Sticks
      <3> QED
        BY <3>1, <3>3, <2>3, <1>m, <1>w
    <2>4. CASE e = v /\ ~(campaign[c].term > t)
      <3>1. campaign[c].term = t
        BY <1>7, <2>4, <1>h, <1>w DEF RequestVote
      <3> QED
        BY <1>7, <2>1, <2>4, <3>1, <1>h, <1>w DEF RequestVote, Set
    <2> QED
      BY <2>2, <2>3, <2>4
  <1>8. ASSUME NEW e \in Domain, WinGlobal(e)
        PROVE  Good
    <2>1. contact' = contact /\ due' \subseteq due /\ term' = term
      BY <1>8 DEF WinGlobal
    <2>2. e # v
      <3> SUFFICES ASSUME e = v PROVE FALSE
        OBVIOUS
      <3>1. campaign[v] # Idle /\ campaign[v].term = t
        BY <1>8, <1>h DEF WinGlobal
      <3> DEFINE n == [leader |-> v, term |-> campaign[v].term, from |-> campaign[v].from,
                       votes |-> campaign[v].votes]
      <3>2. n \in elected' /\ n.leader = v /\ n.term = t
        BY <1>8, <3>1 DEF WinGlobal
      <3>3. PICK w \in elected : w.leader = d /\ w.term = t
        BY <1>1 DEF Won
      <3>4. w \in elected'
        BY <1>a, ElectedGrows
      <3> HIDE DEF n
      <3>5. v = d
        BY <1>a, <3>2, <3>3, <3>4 DEF VotesInv
      <3> QED
        BY <3>1, <3>5, <1>o
    <2>3. follows'[v] = follows[v]
      BY <1>8, <1>w, <2>2 DEF WinGlobal, Set
    <2> QED
      BY <2>1, <2>3
  <1>9. ASSUME NEW e \in Domain, NEW f \in Domain, observeHigherGlobalTerm(e, f)
        PROVE  Good
    <2>1. contact' = contact /\ due' = due
      BY <1>9 DEF observeHigherGlobalTerm, timeVars
    <2>2. CASE e # v
      BY <1>9, <1>w, <2>1, <2>2 DEF observeHigherGlobalTerm, Set
    <2>3. CASE e = v /\ v # d
      <3>1. contact[v] > 0 /\ follows[v].leader \notin {None, v}
        BY <1>h, <1>c, <2>3
      <3> QED
        BY <1>9, <2>3, <3>1 DEF observeHigherGlobalTerm, Race
    <2>4. CASE e = v /\ v = d
      BY <1>d, <2>1, <2>4
    <2> QED
      BY <2>2, <2>3, <2>4
  <1>10. ASSUME NEW e \in Domain, sendHeartbeats(e)
         PROVE  Good
    BY <1>10, <1>w DEF sendHeartbeats, Set, electionVars
  <1>11. ASSUME NEW l \in Domain, NEW e \in Domain, HeartbeatGlobal(l, e)
         PROVE  Good
    <2>1. Hears /\ due' \subseteq due
      BY <1>11, <1>w DEF HeartbeatGlobal, Set
    <2>2. CASE e # v
      BY <1>11, <1>w, <2>1, <2>2 DEF HeartbeatGlobal, Set
    <2>3. CASE e = v
      <3>1. /\ rounds[l] # NoRound /\ rounds[l].term >= t
            /\ term'[v] = rounds[l].term /\ follows'[v] = [leader |-> l, term |-> rounds[l].term]
        BY <1>11, <1>w, <1>h, <2>3 DEF HeartbeatGlobal, Set
      <3>2. Won(l, rounds[l].term)
        BY <3>1, <1>a DEF FollowInv
      <3>3. rounds[l].term = t
        BY <3>1, <3>2, <1>3, <1>w
      <3>4. l = d
        BY <3>2, <3>3, <1>2
      <3> QED
        BY <2>1, <3>1, <3>3, <3>4, <1>h DEF Held
    <2> QED
      BY <2>2, <2>3
  <1>12. ASSUME NEW e \in Domain, EndRound(e) \/ AbortMove(e) \/ LoseGlobal(e)
         PROVE  Good
    <2>1. term' = term /\ follows' = follows /\ contact' = contact /\ due' \subseteq due
      BY <1>12 DEF EndRound, AbortMove, LoseGlobal, electionVars, timeVars
    <2> QED
      BY <2>1
  <1>13. ASSUME NEW e \in Domain, StepDown(e) \/ Handoff(e)
         PROVE  Good
    <2>1. term' = term /\ contact' = contact /\ due' \subseteq due
      BY <1>13 DEF StepDown, Handoff
    <2>2. CASE e # v \/ ~LeadsGlobally(e)
      BY <1>13, <1>w, <2>1, <2>2 DEF StepDown, Handoff, revokeForHandoff, Revoked, Set
    <2>3. CASE e = v /\ LeadsGlobally(e)
      <3>1. v = d
        BY <2>3, <1>h DEF LeadsGlobally
      <3> QED
        BY <3>1, <1>d, <2>1
    <2> QED
      BY <2>2, <2>3
  <1>14. ASSUME NEW e \in Domain, NEW f \in Domain, handleMove(e, f)
         PROVE  Good
    BY <1>14 DEF handleMove, electionVars, timeVars
  <1>15. ASSUME NEW h \in handoffs, beginMigration(h)
         PROVE  Good
    <2>1. contact' = contact /\ due' = due /\ h.target \in Domain /\ term[h.target] = h.term
      BY <1>15 DEF beginMigration, timeVars, LeasesTypeOK
    <2>2. CASE electionVars' = electionVars
      BY <2>1, <2>2 DEF electionVars
    <2>3. CASE campaignGlobal(h.target, h.from)
      <3>1. CASE h.target # v
        BY <1>w, <2>1, <2>3, <3>1 DEF campaignGlobal, Set
      <3>2. CASE h.target = v
        <4>1. Won(h.from, t) /\ Ended(h.from, t)
          BY <1>a, <1>h, <2>1, <3>2 DEF HandoffInv
        <4> QED
          BY <4>1, <1>2, <1>4
      <3> QED
        BY <3>1, <3>2
    <2> QED
      BY <1>15, <2>2, <2>3 DEF beginMigration
  <1>16. ASSUME NEW e \in Domain, NEW a \in accepted, HandoffSucceeds(e, a)
         PROVE  Good
    <2>1. Hears /\ due' \subseteq due
      BY <1>16, <1>w DEF HandoffSucceeds, Set
    <2>2. CASE e # v
      BY <1>16, <1>w, <2>1, <2>2 DEF HandoffSucceeds, adoptHandedOffLeader, Set
    <2>3. CASE e = v
      <3>1. PICK u \in {a.term, term[a.target]} :
               /\ adoptHandedOffLeader(e, [a EXCEPT !.term = u])
               /\ IF u = a.term THEN UNCHANGED raced ELSE Race(a.target, "reread")
        BY <1>16 DEF HandoffSucceeds
      <3>2. u = a.term
        BY <3>1, <1>a DEF Race
      <3>3. /\ [a EXCEPT !.term = u].term = a.term /\ [a EXCEPT !.term = u].target = a.target
            /\ Won(a.target, a.term)
        BY <3>2 DEF LeasesTypeOK, FollowInv
      <3>4. CASE a.term >= term[v]
        <4>1. term'[v] = a.term /\ follows'[v] = [leader |-> a.target, term |-> a.term]
          BY <2>3, <3>1, <3>3, <3>4, <1>w DEF adoptHandedOffLeader, Set
        <4>2. a.term = t /\ a.target = d
          BY <3>3, <3>4, <1>2, <1>3, <1>h
        <4> QED
          BY <2>1, <4>1, <4>2, <1>h DEF Held
      <3>5. CASE ~(a.term >= term[v])
        BY <2>1, <2>3, <3>1, <3>3, <3>5 DEF adoptHandedOffLeader
      <3> QED
        BY <3>4, <3>5
    <2> QED
      BY <2>2, <2>3
  <1>17. ASSUME NEW e \in Domain, HandoffFails(e)
         PROVE  Good
    <2>1. term' = term /\ follows' = follows /\ contact' = contact /\ due' = due \cup {e}
      BY <1>17 DEF HandoffFails, electionVars
    <2>2. e = v => v = d
      <3> SUFFICES ASSUME e = v, v # d PROVE FALSE
        OBVIOUS
      <3>1. contact[v] > 0 /\ follows[v].leader \notin {None, v}
        BY <1>h, <1>c
      <3> QED
        BY <1>17, <1>a, <3>1 DEF HandoffFails, Race
    <2> QED
      BY <2>1, <2>2
  <1>18. ASSUME UNCHANGED vars
         PROVE  Good
    BY <1>18 DEF vars, electionVars, timeVars
  <1> HIDE DEF Good
  <1> QED
    BY <1>k, <1>5, <1>6, <1>7, <1>8, <1>9, <1>10, <1>11, <1>12, <1>13, <1>14, <1>15, <1>16,
       <1>17, <1>18 DEF Next

\* What a step can do to the confirmed part of a lease.
LEMMA ConfirmedChange ==
    ASSUME LeasesTypeOK, [Next]_vars, NEW d \in Domain
    PROVE  confirmed'[d] = confirmed[d] \/ confirmed'[d] = 0 \/ Tick \/ EndRound(d)
  <1> DEFINE Shape == confirmed'[d] = confirmed[d] \/ confirmed'[d] = 0 \/ Tick \/ EndRound(d)
  <1>w. DOMAIN confirmed = Domain
    BY DEF LeasesTypeOK
  <1>s. ASSUME NEW e \in Domain, confirmed' = Set(confirmed, e, 0) \/ confirmed' = confirmed
        PROVE  Shape
    BY <1>s, <1>w DEF Set
  <1>1. ASSUME NEW e \in Domain, WinGlobal(e) \/ Restart(e) \/ Handoff(e)
        PROVE  Shape
    BY <1>s, <1>1 DEF WinGlobal, Restart, Handoff, revokeForHandoff
  <1>2. ASSUME NEW e \in Domain,
               \/ DecideToCampaign(e) \/ Hesitate(e) \/ Campaign(e) \/ LoseGlobal(e)
               \/ sendHeartbeats(e) \/ StepDown(e) \/ AbortMove(e) \/ HandoffFails(e)
        PROVE  Shape
    BY <1>s, <1>2 DEF DecideToCampaign, Hesitate, Campaign, LoseGlobal, sendHeartbeats,
                      StepDown, AbortMove, HandoffFails, timeVars
  <1>3. ASSUME NEW e \in Domain, EndRound(e)
        PROVE  Shape
    BY <1>3, <1>w DEF EndRound, Set
  <1>4. ASSUME NEW e \in Domain, NEW c \in Domain, NEW grant \in BOOLEAN, RequestVote(e, c, grant)
        PROVE  Shape
    BY <1>4 DEF RequestVote
  <1>5. ASSUME NEW e \in Domain, NEW f \in Domain,
               observeHigherGlobalTerm(e, f) \/ handleMove(e, f) \/ HeartbeatGlobal(f, e)
        PROVE  Shape
    BY <1>5 DEF observeHigherGlobalTerm, handleMove, HeartbeatGlobal, timeVars
  <1>6. ASSUME NEW e \in Domain, NEW a \in accepted, HandoffSucceeds(e, a)
        PROVE  Shape
    BY <1>6 DEF HandoffSucceeds
  <1>7. ASSUME NEW h \in handoffs, beginMigration(h)
        PROVE  Shape
    BY <1>7 DEF beginMigration, timeVars
  <1>8. ASSUME UNCHANGED vars
        PROVE  Shape
    BY <1>8 DEF vars, timeVars
  <1> HIDE DEF Shape
  <1>9. Tick => Shape
    BY DEF Shape
  <1>10. Shape
    BY <1>1, <1>2, <1>3, <1>4, <1>5, <1>6, <1>7, <1>8, <1>9 DEF Next
  <1> QED
    BY <1>10 DEF Shape

\* A step keeps the confirmed leases of a behaviour without a race: the domains that confirm
\* one hold on to its leader, and they meet the voters of every rival.
LEMMA LeaseStep ==
    ASSUME LeasesTypeOK, OfficeInv, VotesInv, FollowInv, HandoffInv, LeaseInv, [Next]_vars
    PROVE  LeaseInv'
  <1> DEFINE
        LaterThen(t) == \E w \in elected' : w.term > t
        HeldThen(v, d, t, left) ==
            /\ term'[v] = t /\ follows'[v] = [leader |-> d, term |-> t]
            /\ contact'[v] >= left + Sticky - Lease
            /\ v = d \/ v \notin due'
        DesertedThen(acks, t) ==
            \E V \in SUBSET Domain : /\ Cardinality(V) >= globalElectionThreshold /\ V \cap acks = {}
                                     /\ \A v \in V : term'[v] > t
        RoundThen(d, t) ==
            rounds'[d].left > 0 /\ rounds'[d].term = t =>
                IF LaterThen(t) THEN DesertedThen(rounds'[d].acks, t)
                ELSE \A v \in rounds'[d].acks : HeldThen(v, d, t, rounds'[d].left)
        ConfirmedThen(d, t) ==
            confirmed'[d] > 0 =>
                /\ ~LaterThen(t)
                /\ \E Q \in SUBSET Domain :
                     /\ Cardinality(Q) >= globalElectionThreshold
                     /\ \A v \in Q : HeldThen(v, d, t, confirmed'[d])
  <1>z. SUFFICES ASSUME raced' = "none", NEW d \in Domain, LeadsGlobally(d)',
                        NEW t, t = follows'[d].term
                 PROVE  RoundThen(d, t) /\ ConfirmedThen(d, t)
    BY DEF LeaseInv, Later, Held, Deserted, globalElectionThreshold
  <1>a. /\ LeasesTypeOK' /\ OfficeInv' /\ VotesInv' /\ Electoral /\ RoundStep /\ raced = "none"
        /\ Stays(d) \/ WinGlobal(d)
        /\ \A v \in Domain : Forward(v)
    BY <1>z, LeasesTypeStep, OfficeStep, VotesStep, StepShape, MoveShape DEF InOffice
  <1>c. Lease \in Nat /\ Lease # 0 /\ Sticky \in Nat /\ Lease < Sticky /\ None \notin Domain
        /\ MaxTerm \in Nat
    BY LeaseAssumption
  <1>w. /\ DOMAIN rounds = Domain /\ DOMAIN confirmed = Domain /\ DOMAIN contact = Domain
        /\ DOMAIN term = Domain /\ DOMAIN follows = Domain /\ DOMAIN lease = Domain
        /\ \A e \in Domain : /\ term[e] \in Nat /\ term'[e] \in Nat /\ term'[e] >= term[e]
                             /\ contact[e] \in Nat /\ confirmed[e] \in 0..Lease
                             /\ rounds[e] \in [term : 0..MaxTerm, left : 0..Lease, acks : SUBSET Domain]
                             /\ rounds'[e].acks \subseteq Domain
    BY <1>a, <1>c DEF LeasesTypeOK, Forward
  <1>t. t \in Nat /\ term'[d] = t /\ follows'[d].leader = d /\ follows'[d] = [leader |-> d, term |-> t]
    <2>1. follows'[d] \in Leaders \cup {NoLeader} /\ follows'[d].leader = d /\ term'[d] = t
      BY <1>a, <1>z DEF LeasesTypeOK, OfficeInv, LeadsGlobally
    <2>2. follows'[d] \in Leaders
      BY <2>1, <1>c DEF NoLeader
    <2>3. follows'[d] = [leader |-> d, term |-> t]
      BY <2>1, <2>2, <1>z DEF Leaders
    <2> QED
      BY <2>1, <2>3, <1>w
  \* The voters of a later leader have moved on.
  <1>l. ASSUME LaterThen(t)
        PROVE  \E V \in SUBSET Domain : /\ Cardinality(V) >= globalElectionThreshold
                                        /\ \A v \in V : term'[v] > t
    <2>1. PICK w \in elected' : w.term > t
      BY <1>l
    <2>2. w.votes \in SUBSET Domain /\ w.term \in Nat
      BY <1>a, <1>c DEF LeasesTypeOK
    <2>3. /\ Cardinality(w.votes) >= globalElectionThreshold
          /\ \A v \in w.votes : term'[v] >= w.term
      <3>1. Cardinality(w.votes) >= globalElectionThreshold /\ \A v \in w.votes : Bound(v, w.leader, w.term)'
        BY <1>a DEF VotesInv, globalElectionThreshold
      <3> QED
        BY <3>1, <2>2, <1>w DEF Bound
    <2> QED
      BY <2>1, <2>2, <2>3, <1>w, <1>t
  \* A quorum that holds on to the leader excludes them.
  <1>q. ASSUME NEW Q \in SUBSET Domain, NEW left, Cardinality(Q) >= globalElectionThreshold,
               \A v \in Q : HeldThen(v, d, t, left)
        PROVE  ~LaterThen(t)
    <2> SUFFICES ASSUME LaterThen(t) PROVE FALSE
      OBVIOUS
    <2>1. PICK V \in SUBSET Domain : /\ Cardinality(V) >= globalElectionThreshold
                                     /\ \A v \in V : term'[v] > t
      BY <1>l
    <2>2. V \cap Q # {}
      BY <2>1, <1>q, ThresholdsMeet
    <2> QED
      BY <2>1, <2>2, <1>q, <1>t
  \* A round whose domains hold on to the leader is in order, overtaken or not.
  <1>r. ASSUME \A v \in rounds'[d].acks : HeldThen(v, d, t, rounds'[d].left)
        PROVE  RoundThen(d, t)
    <2>1. ASSUME LaterThen(t) PROVE DesertedThen(rounds'[d].acks, t)
      <3>1. PICK V \in SUBSET Domain : /\ Cardinality(V) >= globalElectionThreshold
                                       /\ \A v \in V : term'[v] > t
        BY <1>l, <2>1
      <3>2. V \cap rounds'[d].acks = {}
        BY <3>1, <1>r, <1>t
      <3> QED
        BY <3>1, <3>2
    <2> QED
      BY <1>r, <2>1
  <1>1. CASE WinGlobal(d)
    <2>1. /\ confirmed'[d] = 0 /\ rounds' = rounds /\ campaign[d] # Idle /\ t = campaign[d].term
      BY <1>1, <1>w, <1>z DEF WinGlobal, Set
    <2>2. rounds[d].left > 0 => rounds[d].term # t
      <3> SUFFICES ASSUME rounds[d].left > 0, rounds[d].term = t PROVE FALSE
        OBVIOUS
      <3>1. rounds[d] # NoRound
        BY DEF NoRound
      <3>2. PICK w \in elected : w.leader = d /\ w.term = t
        BY <3>1, <1>a DEF FollowInv, Won
      <3>3. w.leader \in w.votes /\ d \in campaign[d].votes /\ w.votes \cap campaign[d].votes = {}
        BY <2>1, <3>2 DEF VotesInv, OfficeInv
      <3> QED
        BY <3>2, <3>3
    <2> QED
      BY <2>1, <2>2
  <1>2. CASE Stays(d)
    <2>1. LeadsGlobally(d) /\ t = follows[d].term /\ term[d] = t
      BY <1>2, <1>z, <1>t DEF Stays
    <2>2. /\ rounds[d].left > 0 /\ rounds[d].term = t =>
               IF Later(t) THEN Deserted(rounds[d].acks, t)
               ELSE \A v \in rounds[d].acks : Held(v, d, t, rounds[d].left)
          /\ confirmed[d] > 0 =>
               /\ ~Later(t)
               /\ \E Q \in SUBSET Domain : /\ Cardinality(Q) >= globalElectionThreshold
                                           /\ \A v \in Q : Held(v, d, t, confirmed[d])
      BY <1>a, <2>1 DEF LeaseInv
    <2>h. ASSUME ~Tick, ~Later(t), NEW v \in Domain, NEW left \in 1..Lease, Held(v, d, t, left)
          PROVE  HeldThen(v, d, t, left)
      <3>1. Held(v, d, t, left)'
        BY <1>z, <1>t, <2>h, <2>1, HeldStays
      <3> QED
        BY <3>1 DEF Held
    \* As time passes, the lease and the windows of its domains get shorter alike.
    <2>t. ASSUME Tick, NEW v \in Domain, NEW left \in 1..Lease, left > 1, Held(v, d, t, left)
          PROVE  HeldThen(v, d, t, left - 1)
      <3>1. term' = term /\ follows' = follows /\ due' = due /\ contact'[v] = Less(contact[v])
        BY <2>t DEF Tick, electionVars
      <3>2. contact[v] >= left + Sticky - Lease /\ contact[v] \in Nat
        BY <2>t, <1>w DEF Held
      <3>3. Less(contact[v]) >= (left - 1) + Sticky - Lease
        BY <3>2, <1>c DEF Less
      <3> QED
        BY <2>t, <3>1, <3>3 DEF Held
    <2>d. ASSUME Later(t), NEW A, Deserted(rounds[d].acks, t),
                 \A e \in A : e \in rounds[d].acks \/ (e \in Domain /\ term[e] <= t)
          PROVE  LaterThen(t) /\ DesertedThen(A, t)
      <3>1. elected \subseteq elected'
        BY <1>a, ElectedGrows
      <3>2. PICK V \in SUBSET Domain : /\ Cardinality(V) >= globalElectionThreshold
                                       /\ V \cap rounds[d].acks = {} /\ \A v \in V : term[v] > t
        BY <2>d DEF Deserted
      <3>3. V \cap A = {} /\ \A v \in V : term'[v] > t
        BY <2>d, <3>2, <1>w, <1>t
      <3> QED
        BY <2>d, <3>1, <3>2, <3>3 DEF Later
    <2>3. RoundThen(d, t)
      <3> SUFFICES ASSUME rounds'[d].left > 0, rounds'[d].term = t PROVE RoundThen(d, t)
        OBVIOUS
      <3>l. rounds[d].left \in 0..Lease /\ rounds[d].acks \subseteq Domain
        BY <1>w
      <3>1. CASE rounds'[d] = rounds[d] /\ ~Tick
        <4>1. CASE Later(t)
          BY <2>2, <2>d, <3>1, <4>1, ZenonT(30)
        <4>2. CASE ~Later(t)
          <5>1. \A v \in rounds[d].acks : HeldThen(v, d, t, rounds[d].left)
            BY <2>2, <2>h, <3>1, <3>l, <4>2
          <5> QED
            BY <3>1, <5>1, <1>r
        <4> QED
          BY <4>1, <4>2
      <3>2. CASE Tick
        <4>1. rounds'[d] = [rounds[d] EXCEPT !.left = Less(@)] /\ elected' = elected
          BY <3>2 DEF Tick
        <4>2. /\ rounds'[d].acks = rounds[d].acks /\ rounds'[d].term = rounds[d].term
              /\ rounds'[d].left = Less(rounds[d].left)
          BY <4>1, <1>w
        <4>3. rounds[d].left > 1 /\ rounds[d].left \in 1..Lease /\ rounds'[d].left = rounds[d].left - 1
          BY <4>2, <3>l, <1>c DEF Less
        <4>4. CASE Later(t)
          <5>1. Deserted(rounds[d].acks, t)
            BY <2>2, <4>2, <4>3, <4>4
          <5> HIDE DEF LaterThen, DesertedThen, HeldThen
          <5>2. LaterThen(t) /\ DesertedThen(rounds'[d].acks, t)
            BY <2>d, <4>2, <4>4, <5>1
          <5> QED
            BY <5>2
        <4>5. CASE ~Later(t)
          <5>1. \A v \in rounds[d].acks : HeldThen(v, d, t, rounds[d].left - 1)
            BY <2>2, <2>t, <3>2, <3>l, <4>2, <4>3, <4>5
          <5> QED
            BY <4>2, <4>3, <5>1, <1>r
        <4> QED
          BY <4>4, <4>5
      <3>3. ASSUME NEW e \in Domain, sendHeartbeats(e), rounds'[d] # rounds[d]
            PROVE  RoundThen(d, t)
        <4>1. e = d
          BY <3>3, <1>w DEF sendHeartbeats, Set
        <4>2. rounds'[d].acks = {d} /\ rounds'[d].left = Lease /\ contact'[d] = Sticky
          BY <3>3, <4>1, <1>w DEF sendHeartbeats, Set
        <4>3. HeldThen(d, d, t, Lease)
          BY <4>2, <1>t, <1>c
        <4> QED
          BY <4>2, <4>3, <1>r
      <3>4. ASSUME NEW e \in Domain, rounds' = Set(rounds, e, NoRound)
            PROVE  rounds'[d] = rounds[d]
        BY <3>4, <1>w DEF Set, NoRound
      <3>5. ASSUME NEW l \in Domain, NEW e \in Domain, HeartbeatGlobal(l, e), ~Tick, rounds'[d] # rounds[d]
            PROVE  RoundThen(d, t)
        <4>1. l = d
          BY <3>5, <1>w DEF HeartbeatGlobal
        <4>2. /\ rounds'[d].term = rounds[d].term /\ rounds'[d].left = rounds[d].left
              /\ rounds'[d].acks = rounds[d].acks \cup {e}
              /\ term[e] <= rounds[d].term
              /\ term'[e] = t /\ follows'[e] = [leader |-> d, term |-> t]
              /\ contact'[e] = Sticky /\ e \notin due'
          <5>1. /\ rounds' = [rounds EXCEPT ![d].acks = @ \cup {e}] /\ rounds[d].term >= term[e]
                /\ term'[e] = rounds[d].term /\ follows'[e] = [leader |-> d, term |-> rounds[d].term]
                /\ contact'[e] = Sticky /\ e \notin due'
            BY <3>5, <4>1, <1>w DEF HeartbeatGlobal, Set
          <5>2. rounds[d] \in [term : 0..MaxTerm, left : 0..Lease, acks : SUBSET Domain]
            BY <1>w
          <5>3. rounds'[d] = [rounds[d] EXCEPT !.acks = @ \cup {e}]
            BY <5>1, <1>w
          <5>4. /\ rounds'[d].term = rounds[d].term /\ rounds'[d].left = rounds[d].left
                /\ rounds'[d].acks = rounds[d].acks \cup {e}
            BY <5>2, <5>3
          <5>5. rounds[d].term = t /\ rounds[d].term \in Nat
            BY <5>4, <1>t
          <5> QED
            BY <5>1, <5>4, <5>5, <1>w
        <4>3. CASE Later(t)
          <5>1. \A f \in rounds'[d].acks : f \in rounds[d].acks \/ (f \in Domain /\ term[f] <= t)
            BY <4>2
          <5>2. Deserted(rounds[d].acks, t)
            BY <2>2, <4>2, <4>3
          <5> HIDE DEF LaterThen, DesertedThen, HeldThen
          <5>3. LaterThen(t) /\ DesertedThen(rounds'[d].acks, t)
            BY <2>d, <4>3, <5>1, <5>2
          <5> QED
            BY <5>3
        <4>4. CASE ~Later(t)
          <5>1. \A v \in rounds[d].acks : HeldThen(v, d, t, rounds[d].left)
            <6>1. rounds[d].left \in 1..Lease /\ rounds[d].term = t
              BY <4>2, <3>l, <1>c
            <6>2. \A v \in rounds[d].acks : Held(v, d, t, rounds[d].left)
              BY <2>2, <4>4, <6>1
            <6>3. rounds[d].acks \subseteq Domain /\ ~Tick
              BY <3>5, <3>l
            <6> HIDE DEF HeldThen
            <6> QED
              BY <2>h, <4>4, <6>1, <6>2, <6>3
          <5>2. HeldThen(e, d, t, rounds[d].left)
            <6>1. Sticky >= rounds[d].left + Sticky - Lease
              BY <3>l, <1>c
            <6>2. contact'[e] >= rounds[d].left + Sticky - Lease
              BY <4>2, <6>1
            <6> QED
              BY <4>2, <6>2
          <5> QED
            BY <4>2, <5>1, <5>2, <1>r
        <4> QED
          BY <4>3, <4>4
      <3> HIDE DEF RoundThen
      <3> QED
        BY <1>a, <3>1, <3>2, <3>3, <3>4, <3>5 DEF RoundStep
    <2>4. ConfirmedThen(d, t)
      <3> SUFFICES ASSUME confirmed'[d] > 0
                   PROVE  \E Q \in SUBSET Domain :
                            /\ Cardinality(Q) >= globalElectionThreshold
                            /\ \A v \in Q : HeldThen(v, d, t, confirmed'[d])
        BY <1>q
      <3>l. confirmed[d] \in 0..Lease /\ rounds[d].left \in 0..Lease /\ rounds[d].acks \subseteq Domain
        BY <1>w
      <3>1. ASSUME ~Tick, ~Later(t), NEW Q \in SUBSET Domain,
                   Cardinality(Q) >= globalElectionThreshold,
                   NEW left \in 1..Lease, \A v \in Q : Held(v, d, t, left), confirmed'[d] = left
            PROVE  \E W \in SUBSET Domain :
                            /\ Cardinality(W) >= globalElectionThreshold
                            /\ \A v \in W : HeldThen(v, d, t, confirmed'[d])
        <4>1. \A v \in Q : HeldThen(v, d, t, confirmed'[d])
          BY <3>1, <2>h
        <4> HIDE DEF HeldThen
        <4> QED
          BY <3>1, <4>1
      <3>2. CASE confirmed'[d] = confirmed[d] /\ ~Tick
        <4>1. confirmed[d] \in 1..Lease
          BY <3>2, <3>l, <1>c
        <4>2. PICK Q \in SUBSET Domain : /\ Cardinality(Q) >= globalElectionThreshold
                                         /\ \A v \in Q : Held(v, d, t, confirmed[d])
          BY <2>2, <3>2
        <4>3. ~Later(t)
          BY <2>2, <3>2
        <4> QED
          BY <3>1, <3>2, <4>1, <4>2, <4>3
      <3>3. CASE Tick
        <4>1. confirmed'[d] = Less(confirmed[d])
          BY <3>3 DEF Tick
        <4>2. confirmed[d] > 1 /\ confirmed[d] \in 1..Lease /\ confirmed'[d] = confirmed[d] - 1
          BY <4>1, <3>l, <1>c DEF Less
        <4>3. PICK Q \in SUBSET Domain : /\ Cardinality(Q) >= globalElectionThreshold
                                         /\ \A v \in Q : Held(v, d, t, confirmed[d])
          BY <2>2, <4>2
        <4>4. \A v \in Q : HeldThen(v, d, t, confirmed'[d])
          BY <2>t, <3>3, <4>2, <4>3
        <4> HIDE DEF HeldThen
        <4> QED
          BY <4>3, <4>4
      <3>4. CASE EndRound(d) /\ ~Tick /\ confirmed'[d] # confirmed[d]
        <4>1. /\ Cardinality(rounds[d].acks) >= globalElectionThreshold /\ rounds[d].term = t
              /\ confirmed'[d] = Longer(confirmed[d], rounds[d].left)
          BY <3>4, <1>w, <2>1 DEF EndRound, Confirms, LeaseFrom, Set
        <4>2. confirmed'[d] = rounds[d].left /\ rounds[d].left \in 1..Lease
          BY <4>1, <3>4, <3>l, <1>c DEF Longer
        <4>3. ~Later(t)
          <5> SUFFICES ASSUME Later(t) PROVE FALSE
            OBVIOUS
          <5>1. Deserted(rounds[d].acks, t)
            BY <2>2, <4>1, <4>2
          <5> QED
            BY <4>1, <5>1, <3>l, ThresholdsMeet DEF Deserted
        <4>4. \A v \in rounds[d].acks : Held(v, d, t, rounds[d].left)
          BY <2>2, <4>1, <4>2, <4>3
        <4> QED
          BY <3>1, <3>4, <3>l, <4>1, <4>2, <4>3, <4>4
      <3> QED
        BY <3>2, <3>3, <3>4, ConfirmedChange
    <2> QED
      BY <2>3, <2>4
  <1> QED
    BY <1>a, <1>1, <1>2

-----------------------------------------------------------------------------
(* The theorems.                                                           *)

LeasesInv ==
    /\ LeasesTypeOK /\ OfficeInv /\ VotesInv /\ FollowInv /\ HandoffInv /\ LeaseInv

\* The inductive invariant of the leases, for every lease shorter than the sticky window.
THEOREM LeasesInvariant == Spec => []LeasesInv
  <1>1. Init => LeasesInv
    <2> SUFFICES ASSUME Init PROVE LeasesInv
      OBVIOUS
    <2>c. /\ Lease \in Nat /\ Sticky \in Nat /\ MaxTerm \in Nat /\ None \notin Domain
          /\ 0 \in 0..MaxTerm /\ 0 \in 0..Lease /\ 0 \in 0..Sticky
      BY LeaseAssumption
    <2>1. LeasesTypeOK
      <3>1. /\ Idle \in [term : 0..MaxTerm, from : Domain \cup {None}, votes : SUBSET Domain]
            /\ NoRound \in [term : 0..MaxTerm, left : 0..Lease, acks : SUBSET Domain]
            /\ NoMove \in [phase : {"idle", "catchUp", "handoff", "over"},
                           target : Domain \cup {None}, term : 0..MaxTerm]
        BY <2>c DEF Idle, NoRound, NoMove
      <3> QED
        BY <2>c, <3>1 DEF Init, LeasesTypeOK, Races
    <2>2. \A d \in Domain : ~LeadsGlobally(d) /\ migration[d].phase = "idle"
      BY DEF Init, LeadsGlobally, NoMove
    <2>3. OfficeInv
      BY <2>2 DEF Init, OfficeInv
    <2>4. VotesInv /\ FollowInv /\ HandoffInv /\ LeaseInv
      BY <2>2 DEF Init, VotesInv, FollowInv, FollowedWereElected, HandoffInv, LeaseInv
    <2> QED
      BY <2>1, <2>3, <2>4 DEF LeasesInv
  <1>2. LeasesInv /\ [Next]_vars => LeasesInv'
    BY LeasesTypeStep, OfficeStep, VotesStep, FollowStep, HandoffStep, LeaseStep DEF LeasesInv
  <1> QED
    BY <1>1, <1>2, PTL DEF Spec

\* The variables of the leases keep their types, and no lease is longer than its duration.
THEOREM LeasesTypeCorrect == Spec => []LeasesTypeOK
  <1>1. LeasesInv => LeasesTypeOK
    BY DEF LeasesInv
  <1> QED
    BY <1>1, LeasesInvariant, PTL

\* Whoever a domain follows as Global Leader has been elected in the term it names.
THEOREM FollowersAreRight == Spec => []FollowedWereElected
  <1>1. LeasesInv => FollowedWereElected
    BY DEF LeasesInv, FollowInv
  <1> QED
    BY <1>1, LeasesInvariant, PTL

\* A leader that a transfer has replaced serves no more in the term it handed over.
THEOREM HandoffsNeverOverlap == Spec => []HandoffNeverOverlaps
  <1>1. LeasesInv => HandoffNeverOverlaps
    <2> SUFFICES ASSUME LeasesInv, NEW w \in elected, w.from # None, Serves(w.from),
                        raced # "campaign"
                 PROVE  follows[w.from].term >= w.term
      BY DEF HandoffNeverOverlaps
    <2>1. follows[w.from].term > w.term - 1
      BY DEF LeasesInv, HandoffInv, Ended, Serves
    <2>2. w.from \in Domain /\ w.term \in Nat
      BY LeaseAssumption DEF LeasesInv, LeasesTypeOK
    <2>3. follows[w.from].term \in Nat
      BY <2>2, LeaseAssumption DEF LeasesInv, LeasesTypeOK, Leaders, NoLeader
    <2> QED
      BY <2>1, <2>2, <2>3
  <1> QED
    BY <1>1, LeasesInvariant, PTL

\* Lease safety: as long as a confirmed lease runs, nobody is elected in a later term, unless
\* one of the races has happened.
THEOREM ConfirmedLeasesAreExclusive == Spec => []ConfirmedLeaseIsExclusive
  <1>1. LeasesInv => ConfirmedLeaseIsExclusive
    <2> SUFFICES ASSUME LeasesInv, NEW d \in Domain, LeadsGlobally(d), confirmed[d] > 0,
                        raced = "none", NEW w \in elected
                 PROVE  w.term <= follows[d].term
      BY DEF ConfirmedLeaseIsExclusive
    <2>1. ~Later(follows[d].term)
      BY DEF LeasesInv, LeaseInv
    <2>2. w.term \in Nat /\ follows[d].term \in Nat
      BY LeaseAssumption DEF LeasesInv, LeasesTypeOK, Leaders, NoLeader
    <2> QED
      BY <2>1, <2>2 DEF Later
  <1> QED
    BY <1>1, LeasesInvariant, PTL
=============================================================================
