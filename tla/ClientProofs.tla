---------------------------- MODULE ClientProofs ----------------------------
(***************************************************************************)
(* Proofs about Client, for any number of nodes, elections, background     *)
(* calls and calls of Write.                                               *)
(***************************************************************************)
EXTENDS Client, FiniteSetTheorems, TLAPS

ClusterTyped ==
    /\ term \in Entry /\ decided \subseteq 1..MaxTerm
    /\ leads \in [Node -> Entry] /\ entry \in [Node -> Entry] /\ result \in [Node -> Entry]
    /\ draining \subseteq Node /\ crashed \subseteq MayRestart

CommitTyped ==
    /\ committing \in [Node -> Channel] /\ closed \subseteq 1..MaxCommits
    /\ commits \in Seq(Commit) /\ Len(commits) <= MaxCommits
    /\ orphaned \subseteq 1..MaxCommits

CallTyped ==
    /\ call \in [phase : {"idle", "racing", "draining"}, registered : BOOLEAN,
                 global : Entry, fast : Entry, winner : {"none", "global", "fast"}]
    /\ calls \in 0..MaxCalls /\ answers \subseteq 1..MaxTerm

RpcTyped ==
    /\ lastLeader \in Node \cup {None}
    /\ rpc \in [at : {"off", "calling", "waiting", "ended"}, node : Node \cup {None},
                done : Channel]
    /\ rpc.at # "off" => rpc.node \in Node

\* The type invariant, by the parts of the system.
LEMMA TypesSplit == ClientTypeOK <=> ClusterTyped /\ CommitTyped /\ CallTyped /\ RpcTyped
  BY DEF ClientTypeOK, ClusterTyped, CommitTyped, CallTyped, RpcTyped

\* What the bounds give.
LEMMA Constants ==
    /\ MaxTerm \in Nat /\ MaxTerm >= 1 /\ MaxCommits \in Nat /\ MaxCalls \in Nat
    /\ Target \in Node /\ None \notin Node
    /\ 0 \in Entry /\ 0 \in Channel
    /\ 1..MaxTerm \subseteq Entry /\ 1..MaxCommits \subseteq Channel
    /\ Entry \ {0} \subseteq 1..MaxTerm /\ Channel \ {0} \subseteq 1..MaxCommits
  BY ClientAssumption DEF Entry, Channel

\* The client's calls stay typed on every path.
LEMMA RetryTyped == RpcTyped /\ Retry => RpcTyped'
  <1> SUFFICES ASSUME RpcTyped, Retry PROVE RpcTyped'
    OBVIOUS
  <1>1. /\ rpc'.at = "calling" /\ rpc'.node = Target /\ rpc'.done = 0 /\ lastLeader' = None
        /\ rpc' \in [at : {"off", "calling", "waiting", "ended"}, node : Node \cup {None},
                     done : Channel]
    BY Constants DEF RpcTyped, Retry
  <1> QED
    BY <1>1, Constants DEF RpcTyped

\* An answer to the pending call.
LEMMA AnswerTyped ==
    ASSUME RpcTyped, CallTyped, NEW n \in Node, NEW e \in Entry, rpc.at # "off", GlobalAnswer(n, e)
    PROVE  RpcTyped' /\ call' \in [phase : {"idle", "racing", "draining"}, registered : BOOLEAN,
                                   global : Entry, fast : Entry, winner : {"none", "global", "fast"}]
  <1>1. call' \in [phase : {"idle", "racing", "draining"}, registered : BOOLEAN,
                   global : Entry, fast : Entry, winner : {"none", "global", "fast"}]
    BY DEF CallTyped, GlobalAnswer
  <1>2. /\ rpc'.at = "ended" /\ rpc'.node = rpc.node /\ rpc'.done = 0 /\ lastLeader' = n
        /\ rpc' \in [at : {"off", "calling", "waiting", "ended"}, node : Node \cup {None},
                     done : Channel]
    BY Constants DEF RpcTyped, GlobalAnswer
  <1> QED
    BY <1>1, <1>2 DEF RpcTyped

\* Releasing the waiters keeps the channels typed, and so does a new phase of a call.
LEMMA SignalTyped ==
    ASSUME CommitTyped, NEW n \in Node, signalCommittedWaiterLocked(n)
    PROVE  committing' \in [Node -> Channel] /\ closed' \subseteq 1..MaxCommits
  <1>1. committing[n] \in Channel
    BY DEF CommitTyped
  <1>2. {committing[n]} \ {0} \subseteq 1..MaxCommits
    BY <1>1, Constants
  <1> QED
    BY <1>2, Constants DEF CommitTyped, signalCommittedWaiterLocked

\* A commit that moves on to its next phase.
LEMMA PhaseTyped ==
    ASSUME CommitTyped, NEW k \in DOMAIN commits,
           NEW phase \in {"fanout", "committed", "drain", "returned", "gone"}, SetPhase(k, phase)
    PROVE  /\ commits' \in Seq(Commit) /\ Len(commits') <= MaxCommits
           /\ commits' # << >> <=> commits # << >>
  <1>1. commits[k] \in Commit /\ k \in 1..Len(commits)
    BY DEF CommitTyped
  <1>2. [commits[k] EXCEPT !.phase = phase] \in Commit
    BY <1>1 DEF Commit
  <1>3. commits' = [commits EXCEPT ![k] = [commits[k] EXCEPT !.phase = phase]]
    BY DEF SetPhase
  <1> HIDE DEF Commit
  <1> QED
    BY <1>1, <1>2, <1>3 DEF CommitTyped

\* Every step keeps the types.
LEMMA ClientTypeStep == ClientTypeOK /\ [Next]_vars => ClientTypeOK'
  <1> SUFFICES ASSUME ClientTypeOK, [Next]_vars PROVE ClientTypeOK'
    OBVIOUS
  <1> DEFINE Typed == ClusterTyped /\ CommitTyped /\ CallTyped /\ RpcTyped
  <1>0. Typed
    BY TypesSplit
  <1>s. SUFFICES Typed'
    BY TypesSplit, PTL
  <1>u. ASSUME UNCHANGED clusterVars PROVE ClusterTyped'
    BY <1>0, <1>u DEF clusterVars, ClusterTyped
  <1>v. ASSUME UNCHANGED commitVars PROVE CommitTyped'
    BY <1>0, <1>v DEF commitVars, CommitTyped
  <1>w. ASSUME UNCHANGED <<call, calls, answers>> PROVE CallTyped'
    BY <1>0, <1>w DEF CallTyped
  <1>x. ASSUME UNCHANGED <<lastLeader, rpc>> PROVE RpcTyped'
    BY <1>0, <1>x DEF RpcTyped
  <1>y. ASSUME UNCHANGED clientVars PROVE CallTyped' /\ RpcTyped'
    BY <1>y, <1>w, <1>x DEF clientVars
  <1>k. \A k \in DOMAIN commits : commits[k] \in Commit /\ commits[k].node \in Node
                                  /\ commits[k].entry \in 1..MaxTerm
    <2>1. \A k \in DOMAIN commits : commits[k] \in Commit
      BY <1>0 DEF CommitTyped
    <2> QED
      BY <2>1 DEF Commit
  <1>1. ASSUME NEW n \in Node, NotGlobalLeader(n)
        PROVE  Typed'
    <2>1. CASE Retry
      BY <1>0, <1>1, <1>u, <1>v, <1>w, <2>1, RetryTyped DEF NotGlobalLeader
    <2>2. ASSUME NEW m \in Node, Redirect(m)
          PROVE  RpcTyped'
      <3>1. /\ rpc'.at = rpc.at /\ rpc'.node = m /\ lastLeader' = m
            /\ rpc' \in [at : {"off", "calling", "waiting", "ended"}, node : Node \cup {None},
                         done : Channel]
        BY <1>0, <2>2 DEF RpcTyped, Redirect
      <3> QED
        BY <3>1 DEF RpcTyped
    <2> QED
      BY <1>1, <1>u, <1>v, <1>w, <2>1, <2>2 DEF NotGlobalLeader, globalRedirectAddressLocked
  <1>2. ASSUME NEW n \in Node, WriteDraining(n)
        PROVE  Typed'
    BY <1>0, <1>2, <1>u, <1>v, <1>w, RetryTyped DEF WriteDraining
  <1>3. ASSUME NEW n \in Node, WriteSettled(n)
        PROVE  Typed'
    <2>1. result[n] \in Entry /\ rpc.at # "off"
      BY <1>0, <1>3 DEF ClusterTyped, WriteSettled, Calling
    <2>2. RpcTyped' /\ CallTyped'
      BY <1>0, <1>3, <2>1, AnswerTyped DEF WriteSettled, CallTyped
    <2> QED
      BY <1>3, <1>u, <1>v, <2>2 DEF WriteSettled
  <1>4. ASSUME NEW n \in Node, WriteOrdered(n)
        PROVE  Typed'
    <2>1. EntryFor(n) \in 1..MaxTerm
      BY <1>0, <1>4, Constants DEF ClusterTyped, WriteOrdered, EntryFor
    <2>2. ClusterTyped'
      BY <1>0, <1>4, <2>1, Constants DEF ClusterTyped, WriteOrdered
    <2>3. committing' \in [Node -> Channel] /\ committing'[n] \in Channel
      <3>1. Len(commits) \in Nat
        BY <1>0 DEF CommitTyped
      <3>2. committing[n] # 0 \/ Len(commits) + 1 \in Channel
        BY <1>4, <3>1, Constants DEF WriteOrdered, Channel
      <3> QED
        BY <1>0, <1>4, <3>2 DEF CommitTyped, WriteOrdered
    <2>4. commits' \in Seq(Commit) /\ Len(commits') <= MaxCommits
      <3>1. CASE commits' = commits
        BY <1>0, <3>1 DEF CommitTyped
      <3>2. CASE commits' # commits
        <4> DEFINE c == [node |-> n, entry |-> EntryFor(n), phase |-> "fanout"]
        <4>1. c \in Commit
          BY <2>1 DEF Commit
        <4>2. commits' = Append(commits, c) /\ Len(commits) + 1 <= MaxCommits
          BY <1>4, <3>2 DEF WriteOrdered
        <4> HIDE DEF c
        <4> QED
          BY <1>0, <4>1, <4>2 DEF CommitTyped
      <3> QED
        BY <3>1, <3>2
    <2>5. CommitTyped'
      BY <1>0, <1>4, <2>3, <2>4 DEF CommitTyped, WriteOrdered
    <2>6. RpcTyped'
      <3>1. /\ rpc'.at = "waiting" /\ rpc'.node = rpc.node /\ rpc.at = "calling" /\ lastLeader' = lastLeader
            /\ rpc' \in [at : {"off", "calling", "waiting", "ended"}, node : Node \cup {None},
                         done : Channel]
        BY <1>0, <1>4, <2>3 DEF RpcTyped, WriteOrdered, Calling
      <3> QED
        BY <1>0, <3>1 DEF RpcTyped
    <2> QED
      BY <1>4, <1>w, <2>2, <2>5, <2>6 DEF WriteOrdered
  <1>5. ASSUME NEW n \in Node, Elect(n)
        PROVE  Typed'
    <2>1. term + 1 \in Entry
      BY <1>0, <1>5, Constants DEF Elect, ClusterTyped, Entry
    <2>2. ClusterTyped'
      BY <1>0, <1>5, <2>1 DEF Elect, ClusterTyped
    <2> QED
      BY <1>5, <1>v, <1>y, <2>2 DEF Elect
  <1>6. ASSUME NEW n \in Node, StepDown(n) \/ Pause(n)
        PROVE  Typed'
    <2>1. ClusterTyped'
      BY <1>0, <1>6, Constants DEF StepDown, Pause, ClusterTyped
    <2> QED
      BY <1>6, <1>v, <1>y, <2>1 DEF StepDown, Pause
  <1>7. ASSUME NEW n \in Node, Restart(n)
        PROVE  Typed'
    <2>1. ClusterTyped'
      <3>1. PICK e \in {entry[n], result[n]} : entry' = [entry EXCEPT ![n] = e]
        BY <1>7 DEF Restart
      <3>2. e \in Entry
        BY <1>0, <3>1 DEF ClusterTyped
      <3> QED
        BY <1>0, <1>7, <3>1, <3>2, Constants DEF Restart, ClusterTyped
    <2>2. commits' \in Seq(Commit) /\ Len(commits') = Len(commits)
      <3> DEFINE f(k) == IF commits[k].node = n THEN [commits[k] EXCEPT !.phase = "gone"] ELSE commits[k]
      <3>1. \A k \in 1..Len(commits) : f(k) \in Commit
        BY <1>k, <1>0 DEF Commit, CommitTyped
      <3>2. commits' = [k \in 1..Len(commits) |-> f(k)] /\ Len(commits) \in Nat
        BY <1>0, <1>7 DEF Restart, CommitTyped
      <3> HIDE DEF f
      <3> QED
        BY <3>1, <3>2
    <2>3. CommitTyped'
      BY <1>0, <1>7, <2>2, Constants DEF Restart, CommitTyped
    <2>4. RpcTyped'
      BY <1>0, <1>7, <1>x, RetryTyped DEF Restart
    <2> QED
      BY <1>7, <1>w, <2>1, <2>3, <2>4 DEF Restart
  <1>8. ASSUME NEW m \in Node, NEW n \in Node, Follow(m, n)
        PROVE  Typed'
    <2>1. ClusterTyped'
      BY <1>0, <1>8, Constants DEF Follow, ClusterTyped
    <2> QED
      BY <1>8, <1>v, <1>y, <2>1 DEF Follow
  <1>9. ASSUME NEW n \in Node, NEW later \in BOOLEAN, CommitNotice(n, later)
        PROVE  Typed'
    <2>1. ClusterTyped'
      BY <1>0, <1>9 DEF CommitNotice, ClusterTyped
    <2>2. CommitTyped'
      BY <1>0, <1>9, SignalTyped DEF CommitNotice, CommitTyped
    <2> QED
      BY <1>9, <1>y, <2>1, <2>2 DEF CommitNotice
  <1>10. ASSUME NEW k \in DOMAIN commits, Evidence(k)
         PROVE  Typed'
    <2>1. ClusterTyped'
      BY <1>0, <1>10, <1>k DEF Evidence, ClusterTyped
    <2> QED
      BY <1>10, <1>v, <1>y, <2>1 DEF Evidence
  <1>11. ASSUME NEW k \in DOMAIN commits, NEW refused \in BOOLEAN, CommitAcrossDomains(k, refused)
         PROVE  Typed'
    <2>1. ClusterTyped'
      BY <1>0, <1>11, <1>k, Constants DEF CommitAcrossDomains, ClusterTyped
    <2>2. CommitTyped'
      BY <1>0, <1>11, PhaseTyped DEF CommitAcrossDomains, CommitTyped
    <2> QED
      BY <1>11, <1>y, <2>1, <2>2 DEF CommitAcrossDomains
  <1>12. ASSUME NEW k \in DOMAIN commits, Signal(k) \/ FanoutEnds(k)
         PROVE  Typed'
    <2>1. commits' \in Seq(Commit) /\ Len(commits') <= MaxCommits
      BY <1>0, <1>12, PhaseTyped DEF Signal, FanoutEnds
    <2>2. committing' \in [Node -> Channel] /\ closed' \subseteq 1..MaxCommits
      BY <1>0, <1>12, <1>k, SignalTyped DEF Signal, FanoutEnds, CommitTyped
    <2>3. CommitTyped'
      BY <1>0, <1>12, <2>1, <2>2 DEF Signal, FanoutEnds, CommitTyped
    <2> QED
      BY <1>12, <1>u, <1>y, <2>3 DEF Signal, FanoutEnds
  <1>13. ASSUME NEW k \in DOMAIN commits, DeleteCommitting(k)
         PROVE  Typed'
    <2>1. commits' \in Seq(Commit) /\ Len(commits') <= MaxCommits
      BY <1>0, <1>13, PhaseTyped DEF DeleteCommitting
    <2>2. committing[commits[k].node] \in Channel
      BY <1>0, <1>k DEF CommitTyped
    <2>3. CommitTyped'
      BY <1>0, <1>13, <2>1, <2>2, Constants DEF DeleteCommitting, CommitTyped
    <2> QED
      BY <1>13, <1>u, <1>y, <2>3 DEF DeleteCommitting
  <1>14. ASSUME Write
         PROVE  Typed'
    <2>1. leaderOr \in Node
      BY <1>0, Constants DEF RpcTyped, leaderOr
    <2>2. RpcTyped'
      BY <1>0, <1>14, <2>1, Constants DEF RpcTyped, Write
    <2>3. CallTyped'
      <3>1. calls' \in 0..MaxCalls /\ answers' = answers
        BY <1>0, <1>14, Constants DEF CallTyped, Write
      <3>2. call' = [phase |-> "racing", registered |-> TRUE, global |-> 0, fast |-> 0, winner |-> "none"]
        BY <1>14 DEF Write, NoCall
      <3> QED
        BY <1>0, <3>1, <3>2, Constants DEF CallTyped
    <2> QED
      BY <1>14, <1>u, <1>v, <2>2, <2>3 DEF Write
  <1>15. ASSUME WriteReleased
         PROVE  Typed'
    <2>1. rpc.node \in Node /\ rpc.at # "off" /\ result[rpc.node] \in Entry
      BY <1>0, <1>15 DEF WriteReleased, RpcTyped, ClusterTyped
    <2>2. CASE Retry /\ UNCHANGED call
      BY <1>0, <1>15, <1>u, <1>v, <1>w, <2>2, RetryTyped DEF WriteReleased
    <2>3. CASE GlobalAnswer(rpc.node, result[rpc.node])
      <3>1. RpcTyped' /\ CallTyped'
        BY <1>0, <1>15, <2>1, <2>3, AnswerTyped DEF WriteReleased, CallTyped
      <3> QED
        BY <1>15, <1>u, <1>v, <3>1 DEF WriteReleased
    <2> QED
      BY <1>15, <2>2, <2>3 DEF WriteReleased, Reply
  <1>16. ASSUME Lost
         PROVE  Typed'
    BY <1>0, <1>16, <1>u, <1>v, <1>w, RetryTyped DEF Lost
  <1>17. ASSUME drainLate \/ Deadline
         PROVE  Typed'
    <2>1. RpcTyped'
      BY <1>0, <1>17, Constants DEF drainLate, Deadline, RpcTyped, NoRpc
    <2>2. CallTyped'
      <3>1. call' = NoCall /\ calls' = calls
        BY <1>17 DEF drainLate, Deadline
      <3>2. answers' \subseteq 1..MaxTerm
        <4>1. call.fast \in Entry /\ call.global \in Entry
          BY <1>0 DEF CallTyped
        <4> QED
          BY <1>0, <1>17, <4>1, Constants DEF drainLate, Deadline, CallTyped
      <3> QED
        BY <1>0, <3>1, <3>2, Constants DEF CallTyped, NoCall
    <2> QED
      BY <1>17, <1>u, <1>v, <2>1, <2>2 DEF drainLate, Deadline
  <1>18. ASSUME NEW e \in decided, FastReturn(e)
         PROVE  Typed'
    <2>1. e \in Entry
      BY <1>0, Constants DEF ClusterTyped
    <2>2. CallTyped'
      BY <1>0, <1>18, <2>1 DEF FastReturn, CallTyped
    <2> QED
      BY <1>18, <1>u, <1>v, <1>x, <2>2 DEF FastReturn
  <1>19. ASSUME NEW winner \in {"global", "fast"}, NEW e \in Entry, RaceResponses(winner, e)
         PROVE  Typed'
    <2>1. CallTyped'
      BY <1>0, <1>19, Constants DEF RaceResponses, CallTyped
    <2> QED
      BY <1>19, <1>u, <1>v, <1>x, <2>1 DEF RaceResponses
  <1>20. ASSUME UNCHANGED vars
         PROVE  Typed'
    BY <1>20, <1>u, <1>v, <1>y DEF vars
  <1>21. call.global \in Entry /\ call.fast \in Entry
    BY <1>0 DEF CallTyped
  <1> HIDE DEF Typed
  <1> QED
    BY <1>1, <1>2, <1>3, <1>4, <1>5, <1>6, <1>7, <1>8, <1>9, <1>10, <1>11, <1>12, <1>13,
       <1>14, <1>15, <1>16, <1>17, <1>18, <1>19, <1>20, <1>21 DEF Next, BackgroundCall

-----------------------------------------------------------------------------
(* The request.                                                            *)

\* The leaders and the entries of the newest one are as RequestInv says after every step.
LEMMA RequestStep == ClientTypeOK /\ RequestInv /\ [Next]_vars => RequestInv'
  <1> SUFFICES ASSUME ClientTypeOK, RequestInv, [Next]_vars PROVE RequestInv'
    OBVIOUS
  <1> DEFINE
        Leading ==
            /\ \A n \in Node : leads[n] <= term
            /\ \A m, n \in Node : leads[m] = leads[n] /\ leads[n] # 0 => m = n
            /\ commits # << >> => term # 0
        Deciding ==
            /\ \A e, f \in decided : e = f
            /\ term # 0 => \A n \in Node : leads[n] = term => decided \subseteq {entry[n]}
        Telling ==
            /\ \A n \in Node : result[n] \in decided \cup {0}
            /\ {call.global, call.fast} \subseteq decided \cup {0}
            /\ answers \subseteq decided
        Good == Leading /\ Deciding /\ Telling
  <1>0. Good
    BY DEF RequestInv
  <1>s. SUFFICES Good'
    BY DEF RequestInv
  <1>t. ClusterTyped /\ CommitTyped /\ CallTyped /\ RpcTyped
    BY TypesSplit
  <1>n. /\ term \in Nat /\ \A n \in Node : leads[n] \in Nat /\ entry[n] \in Nat /\ result[n] \in Nat
        /\ 0 \notin decided
        /\ DOMAIN leads = Node /\ DOMAIN entry = Node /\ DOMAIN result = Node
    BY <1>t, Constants DEF ClusterTyped, Entry
  <1>k. \A k \in DOMAIN commits : commits # << >> /\ commits[k].node \in Node
    <2>1. \A k \in DOMAIN commits : commits # << >> /\ commits[k] \in Commit
      BY <1>t DEF CommitTyped
    <2> QED
      BY <2>1 DEF Commit
  <1>l. ASSUME UNCHANGED <<term, leads>>, commits' # << >> => commits # << >> PROVE Leading'
    BY <1>0, <1>l
  <1>d. ASSUME UNCHANGED <<term, leads, entry, decided>> PROVE Deciding'
    BY <1>0, <1>d
  <1>a. ASSUME UNCHANGED <<decided, result, call, answers>> PROVE Telling'
    BY <1>0, <1>a
  \* A step of the client alone, with what its channels hold afterwards.
  <1>c. ASSUME UNCHANGED <<clusterVars, commitVars>>,
               {call'.global, call'.fast} \subseteq decided \cup {0}, answers' \subseteq decided
        PROVE  Good'
    <2>1. UNCHANGED <<term, leads, entry, decided, result, commits>>
      BY <1>c DEF clusterVars, commitVars
    <2>2. Leading' /\ Deciding'
      BY <2>1, <1>l, <1>d
    <2>3. Telling'
      BY <1>0, <1>c, <2>1
    <2> QED
      BY <2>2, <2>3
  <1>e. {call.global, call.fast} \subseteq decided \cup {0} /\ answers \subseteq decided
    BY <1>0
  <1>g. ASSUME NEW n \in Node, NEW e \in decided \cup {0}, GlobalAnswer(n, e)
        PROVE  {call'.global, call'.fast} \subseteq decided \cup {0}
    <2>1. call'.global = e /\ call'.fast = call.fast
      BY <1>t, <1>g DEF GlobalAnswer, CallTyped
    <2> QED
      BY <1>e, <2>1
  <1>r. \A n \in Node : result[n] \in decided \cup {0}
    BY <1>0
  <1>1. ASSUME NEW n \in Node, NotGlobalLeader(n) \/ WriteDraining(n)
        PROVE  Good'
    BY <1>1, <1>c, <1>e DEF NotGlobalLeader, WriteDraining
  <1>2. ASSUME NEW n \in Node, WriteSettled(n)
        PROVE  Good'
    BY <1>2, <1>c, <1>e, <1>g, <1>r DEF WriteSettled
  <1>3. ASSUME NEW n \in Node, WriteOrdered(n)
        PROVE  Good'
    <2>1. /\ UNCHANGED <<term, leads, decided, result, call, answers>>
          /\ entry' = [entry EXCEPT ![n] = EntryFor(n)] /\ leads[n] # 0
      BY <1>3 DEF WriteOrdered
    <2>2. Leading'
      BY <1>0, <1>n, <2>1
    <2>3. Deciding'
      <3>1. \A m \in Node : m # n => entry'[m] = entry[m]
        BY <2>1, <1>n
      <3>2. entry[n] # 0 => entry'[n] = entry[n]
        BY <2>1, <1>n DEF EntryFor
      <3>3. term # 0 /\ leads[n] = term /\ entry[n] = 0 => decided = {}
        BY <1>0, <1>n
      <3> QED
        BY <1>0, <2>1, <3>1, <3>2, <3>3
    <2> QED
      BY <1>a, <2>1, <2>2, <2>3
  <1>4. ASSUME NEW n \in Node, Elect(n)
        PROVE  Good'
    <2>1. /\ decided \subseteq {entry[n]} /\ term' = term + 1
          /\ leads' = [leads EXCEPT ![n] = term + 1]
          /\ UNCHANGED <<entry, decided, result, call, answers, commits>>
      BY <1>4 DEF Elect, commitVars, clientVars
    <2>2. leads'[n] = term + 1 /\ \A m \in Node : m # n => leads'[m] = leads[m]
      BY <2>1, <1>n
    <2>3. Leading'
      BY <1>0, <1>n, <2>1, <2>2
    <2>4. Deciding'
      BY <1>0, <1>n, <2>1, <2>2
    <2> QED
      BY <1>a, <2>1, <2>3, <2>4
  <1>5. ASSUME NEW n \in Node, leads' = [leads EXCEPT ![n] = 0], commits' # << >> => commits # << >>,
               UNCHANGED <<term, decided, result, call, answers>>,
               \A m \in Node : m # n => entry'[m] = entry[m]
        PROVE  Good'
    <2>1. leads'[n] = 0 /\ \A m \in Node : m # n => leads'[m] = leads[m]
      BY <1>5, <1>n
    <2>2. Leading'
      BY <1>0, <1>5, <1>n, <2>1
    <2>3. Deciding'
      BY <1>0, <1>5, <1>n, <2>1
    <2> QED
      BY <1>5, <1>a, <2>2, <2>3
  <1>6. ASSUME NEW n \in Node, StepDown(n)
        PROVE  Good'
    BY <1>5, <1>6 DEF StepDown, commitVars, clientVars
  <1>7. ASSUME NEW n \in Node, Pause(n)
        PROVE  Good'
    BY <1>7, <1>l, <1>d, <1>a DEF Pause, commitVars, clientVars
  <1>8. ASSUME NEW n \in Node, Restart(n)
        PROVE  Good'
    <2>1. \A m \in Node : m # n => entry'[m] = entry[m]
      BY <1>8, <1>n DEF Restart
    <2>2. commits' # << >> => commits # << >>
      <3>1. DOMAIN commits' = DOMAIN commits
        BY <1>8 DEF Restart
      <3>2. commits = << >> => commits' = << >>
        BY <1>8 DEF Restart
      <3> QED
        BY <3>2
    <2> QED
      BY <1>5, <1>8, <2>1, <2>2 DEF Restart
  <1>9. ASSUME NEW m \in Node, NEW n \in Node, Follow(m, n)
        PROVE  Good'
    <2>1. \A p \in Node : p # n => entry'[p] = entry[p]
      BY <1>9, <1>n DEF Follow
    <2> QED
      BY <1>5, <1>9, <2>1 DEF Follow, commitVars, clientVars
  <1>10. ASSUME NEW n \in Node, NEW e \in decided, result' = [result EXCEPT ![n] = e] \/ result' = result,
                UNCHANGED <<term, leads, entry, decided, call, answers>>,
                commits' # << >> => commits # << >>
         PROVE  Good'
    <2>1. Telling'
      BY <1>0, <1>10, <1>n
    <2> QED
      BY <1>10, <1>l, <1>d, <2>1
  <1>11. ASSUME NEW n \in Node, NEW later \in BOOLEAN, CommitNotice(n, later)
         PROVE  Good'
    BY <1>10, <1>11 DEF CommitNotice, clientVars
  <1>12. ASSUME NEW k \in DOMAIN commits, Evidence(k)
         PROVE  Good'
    <2> DEFINE n == commits[k].node
    <2>1. /\ n \in Node /\ leads[n] = term /\ term # 0
          /\ decided' = decided \cup {entry[n]}
          /\ UNCHANGED <<term, leads, entry, result, call, answers, commits>>
      BY <1>0, <1>12, <1>k DEF Evidence, commitVars, clientVars
    <2> HIDE DEF n
    <2>2. decided \subseteq {entry[n]}
      BY <1>0, <2>1
    <2>3. decided' = {entry[n]}
      BY <2>1, <2>2
    <2>4. Deciding'
      BY <1>0, <1>n, <2>1, <2>3
    <2>5. Telling'
      BY <1>0, <2>1
    <2> QED
      BY <1>l, <2>1, <2>4, <2>5
  <1>13. ASSUME NEW k \in DOMAIN commits, NEW refused \in BOOLEAN, CommitAcrossDomains(k, refused)
         PROVE  Good'
    <2>1. commits # << >> /\ commits[k].node \in Node
      BY <1>k
    <2>2. commits[k].entry \in decided
      BY <1>13 DEF CommitAcrossDomains
    <2> QED
      BY <1>10, <1>13, <2>1, <2>2 DEF CommitAcrossDomains, clientVars
  <1>14. ASSUME NEW k \in DOMAIN commits, Signal(k) \/ FanoutEnds(k) \/ DeleteCommitting(k)
         PROVE  Good'
    <2>1. UNCHANGED <<clusterVars, clientVars>> /\ commits # << >>
      BY <1>14, <1>k DEF Signal, FanoutEnds, DeleteCommitting
    <2> QED
      BY <2>1, <1>l, <1>d, <1>a DEF clusterVars, clientVars
  <1>15. ASSUME Write \/ Deadline
         PROVE  Good'
    <2>2. call'.global = 0 /\ call'.fast = 0
      <3>1. CASE Write
        <4>1. call' = [phase |-> "racing", registered |-> TRUE, global |-> 0, fast |-> 0,
                       winner |-> "none"]
          BY <3>1 DEF Write, NoCall
        <4> QED
          BY <4>1
      <3>2. CASE Deadline
        BY <3>2 DEF Deadline, NoCall
      <3> QED
        BY <1>15, <3>1, <3>2
    <2>3. UNCHANGED <<clusterVars, commitVars, answers>>
      BY <1>15 DEF Write, Deadline
    <2> HIDE DEF Good
    <2> QED
      BY <1>c, <1>e, <2>2, <2>3
  <1>16. ASSUME WriteReleased
         PROVE  Good'
    <2>1. rpc.node \in Node
      BY <1>16, <1>t DEF WriteReleased, RpcTyped
    <2>2. {call'.global, call'.fast} \subseteq decided \cup {0}
      BY <1>16, <1>e, <1>g, <1>r, <2>1 DEF WriteReleased, Reply
    <2> QED
      BY <1>16, <1>c, <1>e, <2>2 DEF WriteReleased
  <1>17. ASSUME Lost
         PROVE  Good'
    BY <1>17, <1>c, <1>e DEF Lost
  <1>18. ASSUME drainLate
         PROVE  Good'
    <2>1. call'.global = 0 /\ call'.fast = 0 /\ answers' \subseteq decided
      BY <1>18, <1>e DEF drainLate, NoCall
    <2> QED
      BY <1>18, <1>c, <2>1 DEF drainLate
  <1>19. ASSUME NEW e \in decided, FastReturn(e)
         PROVE  Good'
    <2>1. call'.global = call.global /\ call'.fast = e
      BY <1>19, <1>t DEF FastReturn, CallTyped
    <2> QED
      BY <1>19, <1>c, <1>e, <2>1 DEF FastReturn
  <1>20. ASSUME NEW winner, NEW e \in {call.global, call.fast}, RaceResponses(winner, e)
         PROVE  Good'
    <2>1. call'.global = call.global /\ call'.fast = call.fast
      BY <1>20, <1>t DEF RaceResponses, CallTyped
    <2> QED
      BY <1>20, <1>c, <1>e, <2>1 DEF RaceResponses
  <1>21. ASSUME UNCHANGED vars
         PROVE  Good'
    BY <1>21, <1>c, <1>e DEF vars, clientVars
  <1> HIDE DEF Good
  <1> QED
    BY <1>1, <1>2, <1>3, <1>4, <1>6, <1>7, <1>8, <1>9, <1>11, <1>12, <1>13,
       <1>14, <1>15, <1>16, <1>17, <1>18, <1>19, <1>20, <1>21 DEF Next, BackgroundCall

\* A set all of whose members are equal has at most one.
LEMMA AtMostOne ==
    ASSUME NEW S, \A e, f \in S : e = f
    PROVE  Cardinality(S) <= 1
  <1>1. CASE S = {}
    BY <1>1, FS_EmptySet
  <1>2. CASE S # {}
    <2>1. PICK e : S = {e}
      BY <1>2
    <2> QED
      BY <2>1, FS_Singleton
  <1> QED
    BY <1>1, <1>2

-----------------------------------------------------------------------------
(* The theorems.                                                           *)

\* The inductive invariant: the newest leader holds what is decided.
THEOREM ClientInvariant == Spec => [](ClientTypeOK /\ RequestInv)
  <1>1. Init => ClientTypeOK /\ RequestInv
    <2> SUFFICES ASSUME Init PROVE ClientTypeOK /\ RequestInv
      OBVIOUS
    <2>1. ClusterTyped /\ CommitTyped
      BY Constants DEF Init, ClusterTyped, CommitTyped
    <2>2. CallTyped /\ RpcTyped
      BY Constants DEF Init, CallTyped, RpcTyped, NoCall, NoRpc
    <2>3. RequestInv
      BY DEF Init, RequestInv, NoCall
    <2> QED
      BY <2>1, <2>2, <2>3, TypesSplit
  <1>2. ClientTypeOK /\ RequestInv /\ [Next]_vars => (ClientTypeOK /\ RequestInv)'
    BY ClientTypeStep, RequestStep
  <1> QED
    BY <1>1, <1>2, PTL DEF Spec

\* The states of the request and of the client keep their types.
THEOREM ClientTypeCorrect == Spec => []ClientTypeOK
  BY ClientInvariant, PTL

\* A request is decided at most once, across retries, redirects, leaders and crashes.
THEOREM RequestsAreOrderedOnce == Spec => []OrderedOnce
  <1>1. RequestInv => OrderedOnce
    BY AtMostOne DEF RequestInv, OrderedOnce
  <1> QED
    BY <1>1, ClientInvariant, PTL

\* All answers to a request agree, on both paths of the race and over all calls.
THEOREM RacingAnswersAgree == Spec => []AnswersAgree
  <1>1. RequestInv => AnswersAgree
    <2> SUFFICES ASSUME RequestInv PROVE AnswersAgree
      OBVIOUS
    <2>1. answers \subseteq decided /\ \A e, f \in decided : e = f
      BY DEF RequestInv
    <2> QED
      BY <2>1, AtMostOne DEF AnswersAgree
  <1> QED
    BY <1>1, ClientInvariant, PTL
=============================================================================
