------------------------ MODULE ReplicationProofs ------------------------
(***************************************************************************)
(* Proofs about Replication: types, one leader per global term, and that   *)
(* no step takes back what a domain has committed.  For every topology,    *)
(* every set of requests and every bound, with and without the switches.   *)
(* Then, while superseded leaders are cut off: a read of the serving       *)
(* leader sees whatever anybody has acknowledged in its term.              *)
(***************************************************************************)
EXTENDS Replication, LogProofs, FiniteSetTheorems

-----------------------------------------------------------------------------
(* Least and greatest elements.                                            *)

\* A nonempty set of naturals has a least element, and Min is it.
LEMMA MinIsMember ==
    ASSUME NEW S \in SUBSET Nat, S # {}
    PROVE  Min(S) \in S /\ \A y \in S : Min(S) <= y
  <1> DEFINE R == OpToRel(<, Nat)
  <1>1. PICK x \in S : \A y \in S : <<y, x>> \notin R
    <2> HIDE DEF R
    <2> QED
      BY NatLessThanWellFounded, WFMin DEF R
  <1>2. \A y \in S : x <= y
    <2> SUFFICES ASSUME NEW y \in S, ~(x <= y) PROVE FALSE
      OBVIOUS
    <2>1. y \in Nat /\ x \in Nat /\ y < x
      OBVIOUS
    <2>2. <<y, x>> \in R
      BY <2>1 DEF OpToRel
    <2> QED
      BY <1>1, <2>2
  <1> QED
    BY <1>2 DEF Min

\* The marks of finitely many domains have an upper bound.
LEMMA MarksBounded ==
    ASSUME NEW marks \in [Domain -> Nat]
    PROVE  \E b \in Nat : \A d \in Domain : marks[d] <= b
  <1>1. PICK n \in Nat : ExistsBijection(1..n, Domain)
    BY ReplicationAssumption, FS_NatBijection
  <1>2. PICK f : f \in [1..n -> Domain] /\ \A d \in Domain : \E i \in 1..n : f[i] = d
    BY <1>1 DEF ExistsBijection, Bijection, Surjection
  <1> DEFINE Bounded(m) == \E b \in Nat : \A i \in 1..m : marks[f[i]] <= b
             S == {m \in 0..n : ~Bounded(m)}
  <1>3. S = {}
    <2> SUFFICES ASSUME S # {} PROVE FALSE
      OBVIOUS
    <2> DEFINE m == Min(S)
    <2>1. m \in S /\ \A y \in S : m <= y
      <3>1. S \in SUBSET Nat
        OBVIOUS
      <3> HIDE DEF S
      <3> QED
        BY <3>1, MinIsMember
    <2> HIDE DEF m
    <2>2. Bounded(0)
      <3>1. 0 \in Nat /\ \A i \in 1..0 : marks[f[i]] <= 0
        OBVIOUS
      <3> QED
        BY <3>1
    <2>3. m \in 1..n
      <3>1. m # 0
        BY <2>1, <2>2
      <3> QED
        BY <2>1, <3>1
    <2>4. Bounded(m - 1)
      <3>1. m - 1 \in 0..n /\ ~(m <= m - 1)
        BY <2>3
      <3>2. m - 1 \notin S
        BY <2>1, <3>1
      <3> HIDE DEF Bounded
      <3> QED
        BY <3>1, <3>2
    <2>5. PICK b \in Nat : \A i \in 1..m - 1 : marks[f[i]] <= b
      BY <2>4
    <2> DEFINE v(i) == marks[f[i]]
    <2>6. \A i \in 1..n : v(i) \in Nat
      BY <1>2
    <2>7. \A i \in 1..m - 1 : v(i) <= b
      BY <2>5
    <2> HIDE DEF v
    <2>8. \A i \in 1..m : v(i) <= b + v(m)
      <3> SUFFICES ASSUME NEW i \in 1..m PROVE v(i) <= b + v(m)
        OBVIOUS
      <3>1. v(i) \in Nat /\ v(m) \in Nat
        BY <2>3, <2>6
      <3>2. i = m \/ i \in 1..m - 1
        BY <2>3
      <3> QED
        BY <2>7, <3>1, <3>2
    <2>9. b + v(m) \in Nat
      BY <2>3, <2>6
    <2> QED
      BY <2>1, <2>8, <2>9 DEF v
  <1>4. Bounded(n)
    <2>1. n \in 0..n
      OBVIOUS
    <2> HIDE DEF Bounded
    <2> QED
      BY <1>3, <2>1
  <1> QED
    BY <1>2, <1>4

-----------------------------------------------------------------------------
(* The operators on one node.                                              *)

\* From s a node goes on to t in the same term.
Continues(s, t) == Windowed(t) /\ Keeps(s, t) /\ t.GlobalTerm = s.GlobalTerm

\* No operator of Log touches the term.
LEMMA TermKept ==
    ASSUME NEW s \in ReplicaState
    PROVE  /\ \A d, i : RaiseQuorum(s, d, i).GlobalTerm = s.GlobalTerm
           /\ \A log : [s EXCEPT !.Log = log].GlobalTerm = s.GlobalTerm
           /\ \A q : [s EXCEPT !.DomainQuorumIndex = q].GlobalTerm = s.GlobalTerm
           /\ \A e : appendEntryChecked(s, e).GlobalTerm = s.GlobalTerm
           /\ \A c : advanceCommitLocked(s, c).GlobalTerm = s.GlobalTerm
           /\ \A snap : installSnapshotState(s, snap).GlobalTerm = s.GlobalTerm
  <1>1. "GlobalTerm" \in DOMAIN s
    BY DEF ReplicaState
  <1>2. /\ \A d, i : RaiseQuorum(s, d, i).GlobalTerm = s.GlobalTerm
        /\ \A log : [s EXCEPT !.Log = log].GlobalTerm = s.GlobalTerm
        /\ \A q : [s EXCEPT !.DomainQuorumIndex = q].GlobalTerm = s.GlobalTerm
    BY <1>1 DEF RaiseQuorum
  <1>4. \A e : appendEntryChecked(s, e).GlobalTerm = s.GlobalTerm
    BY <1>1 DEF appendEntryChecked, rollbackQuorumAbove
  <1>5. ASSUME NEW t, "GlobalTerm" \in DOMAIN t
        PROVE  maybeCompactLocked(t).GlobalTerm = t.GlobalTerm
    BY <1>5 DEF maybeCompactLocked, compactLog
  <1>6. \A top : /\ "GlobalTerm" \in DOMAIN applyEntries(s, top)
                 /\ applyEntries(s, top).GlobalTerm = s.GlobalTerm
    BY <1>1 DEF applyEntries
  <1>7. \A c : advanceCommitLocked(s, c).GlobalTerm = s.GlobalTerm
    BY <1>5, <1>6 DEF advanceCommitLocked
  <1>8. \A snap : installSnapshotState(s, snap).GlobalTerm = s.GlobalTerm
    BY <1>1 DEF installSnapshotState, rollbackQuorumAbove
  <1> QED
    BY <1>2, <1>4, <1>7, <1>8

\* Continuing is reflexive and transitive.
LEMMA ContinuesSelf ==
    ASSUME NEW s, Windowed(s)
    PROVE  Continues(s, s)
  BY KeepsSelf DEF Continues

\* Going on is transitive.
LEMMA ContinuesOn ==
    ASSUME NEW s, Windowed(s), NEW t, Continues(s, t), NEW u, Continues(t, u)
    PROVE  Continues(s, u)
  <1>1. Windowed(t) /\ Windowed(u) /\ Keeps(s, t) /\ Keeps(t, u) /\ u.GlobalTerm = s.GlobalTerm
    BY DEF Continues
  <1>2. Keeps(s, u)
    BY <1>1, KeepsOn
  <1> QED
    BY <1>1, <1>2 DEF Continues

\* A raised mark, whatever domain it is for.
LEMMA RaiseContinues ==
    ASSUME NEW s, Windowed(s), NEW d \in Domain, NEW i \in Nat
    PROVE  Continues(s, RaiseQuorum(s, d, i))
  <1> DEFINE t == RaiseQuorum(s, d, i)
  <1>1. s \in ReplicaState
    BY WindowedState
  <1>2. t \in ReplicaState /\ SameReplica(s, t)
    BY <1>1, MarksOnly
  <1>4. t.GlobalTerm = s.GlobalTerm
    BY <1>1, TermKept
  <1> HIDE DEF t
  <1>3. Windowed(t) /\ Keeps(s, t)
    BY <1>2, SameReplicaKeeps
  <1> QED
    BY <1>3, <1>4 DEF Continues, t

\* All marks at once.
LEMMA MarksContinue ==
    ASSUME NEW s, Windowed(s), NEW q \in [Domain -> Nat]
    PROVE  /\ Continues(s, [s EXCEPT !.DomainQuorumIndex = q])
           /\ [s EXCEPT !.DomainQuorumIndex = q].Log = s.Log
  <1> DEFINE t == [s EXCEPT !.DomainQuorumIndex = q]
  <1>1. s \in ReplicaState
    BY WindowedState
  <1>2. t.GlobalTerm = s.GlobalTerm
    BY <1>1, TermKept
  <1>3. t \in ReplicaState /\ SameReplica(s, t)
    <2> DEFINE R == Request \cup {None}
               D == Decision \cup {NoDecision}
               Q == Seq(Entry)
               RS == [GlobalTerm : Nat, Log : Q, DomainQuorumIndex : [Domain -> Nat],
                      KnownGlobalCommitIndex : Nat, AppliedIndex : Nat, Results : [Request -> D],
                      StateMachine : [Key -> R], SnapshotLastIndex : Nat, SnapshotLastTerm : Nat,
                      SnapshotLastRequestID : R]
    <2>1. RS = ReplicaState /\ s \in RS
      BY <1>1 DEF ReplicaState
    <2> HIDE DEF R, D, Q
    <2> QED
      BY <2>1 DEF SameReplica
  <1> HIDE DEF t
  <1>4. Windowed(t) /\ Keeps(s, t)
    BY <1>3, SameReplicaKeeps
  <1> QED
    BY <1>2, <1>3, <1>4 DEF Continues, SameReplica, t

\* A commit position.
LEMMA AdvanceContinues ==
    ASSUME NEW s, Windowed(s), NEW c, c.index \in Nat
    PROVE  Continues(s, advanceCommitLocked(s, c))
  <1> DEFINE t == advanceCommitLocked(s, c)
  <1>1. s \in ReplicaState
    BY WindowedState
  <1>2. Windowed(t) /\ Keeps(s, t)
    BY AdvanceKeeps
  <1>3. t.GlobalTerm = s.GlobalTerm
    BY <1>1, TermKept
  <1> QED
    BY <1>2, <1>3 DEF Continues

\* An entry that passes the check of an append.
LEMMA AppendContinues ==
    ASSUME NEW s, Windowed(s), NEW e \in Entry, NEW prev, appendOutcome(s, e, prev) = "accepted"
    PROVE  Continues(s, appendEntryChecked(s, e))
  <1> DEFINE t == appendEntryChecked(s, e)
  <1>1. /\ s \in ReplicaState /\ s.SnapshotLastIndex \in Nat /\ LastLogIndex(s) \in Nat
        /\ \A i \in Int : Found(s.Log, i) <=> i \in s.SnapshotLastIndex + 1 .. LastLogIndex(s)
    BY WindowedState
  <1>2. e.index \in Nat
    BY DEF Entry
  <1>3. CASE e.index <= s.SnapshotLastIndex
    <2>1. t = s
      BY <1>3 DEF appendEntryChecked
    <2> QED
      BY <2>1, ContinuesSelf
  <1>4. CASE ~(e.index <= s.SnapshotLastIndex)
    <2>1. ~Conflicts(s, e) /\ (Found(s.Log, e.index) \/ e.index = LastLogIndex(s) + 1)
      BY <1>4 DEF appendOutcome
    <2>2. e.index <= LastLogIndex(s) + 1
      BY <1>1, <1>2, <2>1
    <2>3. Windowed(t) /\ Keeps(s, t)
      BY <2>1, <2>2, AppendKeeps
    <2>4. t.GlobalTerm = s.GlobalTerm
      BY <1>1, TermKept
    <2> QED
      BY <2>3, <2>4 DEF Continues
  <1> QED
    BY <1>3, <1>4

\* The end of Replicate: the mark, and a commit whose certificate was pending.
LEMMA QuorumContinues ==
    ASSUME NEW s, Windowed(s), NEW d \in Domain, NEW e \in Entry, NEW pending
    PROVE  Continues(s, QuorumReached(s, d, e, pending))
  <1> DEFINE raised == RaiseQuorum(s, d, e.index)
             t == advanceCommitLocked(raised, e)
  <1>1. e.index \in Nat
    BY DEF Entry
  <1>2. Continues(s, raised) /\ Windowed(raised)
    BY <1>1, RaiseContinues DEF Continues
  <1>3. QuorumReached(s, d, e, pending) \in {raised, t}
    BY DEF QuorumReached
  <1> HIDE DEF raised
  <1>4. Continues(raised, t)
    BY <1>1, <1>2, AdvanceContinues
  <1> HIDE DEF t
  <1>5. Continues(s, t)
    BY <1>2, <1>4, ContinuesOn
  <1> QED
    BY <1>2, <1>3, <1>5

\* One entry of catchUp.
LEMMA RelayContinues ==
    ASSUME NEW s, Windowed(s), NEW d \in Domain, NEW e \in Entry, NEW from, NEW pending
    PROVE  Continues(s, Relay(d, from, pending, s, e))
  <1> DEFINE prev == prevLogFor(from, e.index)
             t == appendEntryChecked(s, e)
             u == QuorumReached(t, d, e, pending)
  <1>1. CASE appendOutcome(s, e, prev) # "accepted"
    <2>1. Relay(d, from, pending, s, e) = s
      BY <1>1 DEF Relay
    <2> QED
      BY <2>1, ContinuesSelf
  <1>2. CASE appendOutcome(s, e, prev) = "accepted"
    <2>1. Relay(d, from, pending, s, e) = u
      BY <1>2 DEF Relay
    <2> HIDE DEF prev
    <2>2. Continues(s, t) /\ Windowed(t)
      BY <1>2, AppendContinues DEF Continues
    <2> HIDE DEF t
    <2>3. Continues(t, u)
      BY <2>2, QuorumContinues
    <2> HIDE DEF u
    <2> QED
      BY <2>1, <2>2, <2>3, ContinuesOn
  <1> QED
    BY <1>1, <1>2

\* catchUp as a whole: the recursion of Relayed has a solution.
LEMMA RelayedSteps ==
    ASSUME NEW s, NEW d, NEW from, NEW pending, NEW tail \in Seq(Entry)
    PROVE  \E after : /\ after[0] = s /\ after[Len(tail)] = Relayed(d, from, pending, s, tail)
                      /\ \A k \in 1..Len(tail) :
                           after[k] = Relay(d, from, pending, after[k - 1], tail[k])
  <1> DEFINE n == Len(tail)
             Step(a, k) == IF k = 0 THEN s ELSE Relay(d, from, pending, a[k - 1], tail[k])
             Solves(a, m) == a = [k \in 0..m |-> Step(a, k)]
             Solved(m) == \E a : Solves(a, m)
  <1>1. n \in Nat
    OBVIOUS
  <1> HIDE DEF n
  <1>2. Solved(n)
    <2> DEFINE S == {m \in 0..n : ~Solved(m)}
               m == Min(S)
    <2> SUFFICES ASSUME S # {} PROVE FALSE
      <3>1. n \in 0..n
        BY <1>1
      <3> HIDE DEF Solved
      <3> QED
        BY <3>1
    <2>1. m \in S /\ \A y \in S : m <= y
      <3>1. S \in SUBSET Nat
        OBVIOUS
      <3> HIDE DEF S
      <3> QED
        BY <3>1, MinIsMember
    <2> HIDE DEF m
    <2>2. Solved(0)
      <3> DEFINE a == [k \in 0..0 |-> s]
      <3>1. \A k \in 0..0 : Step(a, k) = s
        OBVIOUS
      <3> HIDE DEF Step
      <3>2. a = [k \in 0..0 |-> Step(a, k)]
        BY <3>1
      <3> QED
        BY <3>2
    <2>3. m \in 1..n
      <3>1. m # 0
        <4> HIDE DEF Solved
        <4> QED
          BY <2>1, <2>2
      <3> QED
        BY <1>1, <2>1, <3>1
    <2>4. Solved(m - 1)
      <3>1. m - 1 \in 0..n /\ ~(m <= m - 1)
        BY <1>1, <2>3
      <3> HIDE DEF Solved
      <3> QED
        BY <2>1, <3>1
    <2>5. PICK a : a = [k \in 0..m - 1 |-> Step(a, k)]
      BY <2>4
    <2> DEFINE b == [k \in 0..m |-> IF k = m THEN Step(a, m) ELSE a[k]]
    <2>6. \A k \in 0..m : b[k] = Step(b, k)
      <3> SUFFICES ASSUME NEW k \in 0..m PROVE b[k] = Step(b, k)
        OBVIOUS
      <3>1. k # 0 => k - 1 \in 0..m - 1 /\ b[k - 1] = a[k - 1]
        BY <2>3
      <3>2. Step(b, k) = Step(a, k)
        <4> HIDE DEF b
        <4> QED
          BY <3>1
      <3>3. CASE k = m
        BY <3>2, <3>3
      <3>4. CASE k # m
        <4>1. k \in 0..m - 1 /\ b[k] = a[k]
          BY <2>3, <3>4
        <4>2. a[k] = Step(a, k)
          <5> HIDE DEF Step
          <5> QED
            BY <2>5, <4>1
        <4> QED
          BY <3>2, <4>1, <4>2
      <3> QED
        BY <3>3, <3>4
    <2>7. Solves(b, m)
      <3>1. b = [k \in 0..m |-> b[k]]
        OBVIOUS
      <3> HIDE DEF b, Step
      <3> QED
        BY <2>6, <3>1
    <2> HIDE DEF b
    <2> QED
      BY <2>1, <2>7
  <1> DEFINE after == CHOOSE a : Solves(a, n)
  <1>3. Solves(after, n)
    <2> HIDE DEF Solves
    <2> QED
      BY <1>2
  <1>4. Relayed(d, from, pending, s, tail) = after[n]
    BY DEF Relayed, n
  <1> HIDE DEF after
  <1>5. \A k \in 0..n : after[k] = Step(after, k)
    <2> HIDE DEF Step
    <2> QED
      BY <1>3
  <1>6. after[0] = s
    <2>1. 0 \in 0..n
      BY <1>1
    <2> QED
      BY <1>5, <2>1
  <1>7. \A k \in 1..n : after[k] = Relay(d, from, pending, after[k - 1], tail[k])
    <2> SUFFICES ASSUME NEW k \in 1..n
                 PROVE  after[k] = Relay(d, from, pending, after[k - 1], tail[k])
      OBVIOUS
    <2>1. k \in 0..n /\ k # 0
      BY <1>1
    <2> QED
      BY <1>5, <2>1
  <1> QED
    BY <1>4, <1>6, <1>7 DEF n

\* Every state of it goes on from the first one.
LEMMA RelayedContinues ==
    ASSUME NEW s, Windowed(s), NEW d \in Domain, NEW from, NEW pending, NEW tail \in Seq(Entry)
    PROVE  Continues(s, Relayed(d, from, pending, s, tail))
  <1> DEFINE n == Len(tail)
  <1>1. n \in Nat
    OBVIOUS
  <1>2. PICK after : /\ after[0] = s /\ after[n] = Relayed(d, from, pending, s, tail)
                     /\ \A k \in 1..n : after[k] = Relay(d, from, pending, after[k - 1], tail[k])
    BY RelayedSteps
  <1> HIDE DEF n
  <1>3. \A k \in 0..n : Continues(s, after[k])
    <2> DEFINE S == {k \in 0..n : ~Continues(s, after[k])}
               m == Min(S)
    <2> SUFFICES ASSUME S # {} PROVE FALSE
      OBVIOUS
    <2>1. m \in S /\ \A y \in S : m <= y
      <3>1. S \in SUBSET Nat
        OBVIOUS
      <3> HIDE DEF S
      <3> QED
        BY <3>1, MinIsMember
    <2> HIDE DEF m
    <2>2. m \in 0..n /\ ~Continues(s, after[m])
      BY <2>1
    <2>3. m # 0
      BY <1>2, <2>2, ContinuesSelf
    <2>4. m \in 1..n /\ m - 1 \in 0..n /\ ~(m <= m - 1)
      BY <1>1, <2>2, <2>3
    <2> DEFINE u == after[m - 1]
               v == after[m]
               e == tail[m]
    <2>5. Continues(s, u)
      BY <2>1, <2>4
    <2>6. v = Relay(d, from, pending, u, e)
      BY <1>2, <2>4
    <2>7. e \in Entry
      BY <2>4 DEF n
    <2> HIDE DEF u, v, e
    <2>8. Windowed(u)
      BY <2>5 DEF Continues
    <2>9. Continues(u, v)
      BY <2>6, <2>7, <2>8, RelayContinues
    <2>10. Continues(s, v)
      BY <2>5, <2>9, ContinuesOn
    <2> QED
      BY <2>2, <2>10 DEF v
  <1>4. n \in 0..n
    BY <1>1
  <1> QED
    BY <1>2, <1>3, <1>4

\* What a leader sends to a domain that is behind has the right type.
LEMMA PositionTyped ==
    ASSUME NEW s, Windowed(s)
    PROVE  LET c == CommitPosition(s)
           IN  c.index \in Nat /\ c.term \in Nat /\ c.request \in Request \cup {None}
  <1> DEFINE i == s.KnownGlobalCommitIndex
             e == EntryAt(s.Log, i)
  <1>1. /\ s \in ReplicaState /\ s.SnapshotLastIndex \in Nat /\ s.AppliedIndex \in Nat
        /\ LastLogIndex(s) \in Nat /\ i = s.AppliedIndex
        /\ \A j \in Int : Found(s.Log, j) <=> j \in s.SnapshotLastIndex + 1 .. LastLogIndex(s)
        /\ \A j \in s.SnapshotLastIndex + 1 .. LastLogIndex(s) : EntryAt(s.Log, j) \in Entry
    BY WindowedState
  <1>2. s.SnapshotLastTerm \in Nat /\ s.SnapshotLastRequestID \in Request \cup {None}
    BY <1>1 DEF ReplicaState
  <1>3. i \in Nat
    BY <1>1
  <1>4. CASE Found(s.Log, i)
    <2>1. CommitPosition(s) = e
      BY <1>4 DEF CommitPosition
    <2>2. e \in Entry
      BY <1>1, <1>3, <1>4
    <2> HIDE DEF e
    <2> QED
      BY <2>1, <2>2 DEF Entry
  <1>5. CASE ~Found(s.Log, i)
    <2>1. CommitPosition(s) = [index |-> i, term |-> s.SnapshotLastTerm, request |-> s.SnapshotLastRequestID]
      BY <1>5 DEF CommitPosition
    <2> QED
      BY <1>2, <1>3, <2>1
  <1> QED
    BY <1>4, <1>5

\* InstallSnapshot, with a snapshot that a whole node has built.
LEMMA InstalledContinues ==
    ASSUME NEW s, Windowed(s), NEW d \in Domain, NEW from, Windowed(from)
    PROVE  Continues(s, Installed(s, d, BuildSnapshot(from)))
  <1> DEFINE c == CommitPosition(from)
             snap == BuildSnapshot(from)
             t == installSnapshotState(s, snap)
             u == RaiseQuorum(t, d, snap.index)
  <1>1. c.index \in Nat /\ c.term \in Nat /\ c.request \in Request \cup {None}
    BY PositionTyped
  <1>2. s \in ReplicaState /\ from \in ReplicaState
    BY WindowedState
  <1>3. /\ from.StateMachine \in [Key -> Request \cup {None}]
        /\ from.Results \in [Request -> Decision \cup {NoDecision}]
    BY <1>2 DEF ReplicaState
  <1> HIDE DEF c
  <1>4. snap = [index |-> c.index, term |-> c.term, request |-> c.request,
                StateMachine |-> from.StateMachine, Results |-> from.Results]
    BY DEF BuildSnapshot, c
  <1> HIDE DEF snap
  <1>5. /\ snap.index \in Nat /\ snap.term \in Nat /\ snap.request \in Request \cup {None}
        /\ snap.StateMachine \in [Key -> Request \cup {None}]
        /\ snap.Results \in [Request -> Decision \cup {NoDecision}]
    BY <1>1, <1>3, <1>4
  <1>6. Windowed(t) /\ Keeps(s, t)
    BY <1>5, InstallKeeps
  <1>7. t.GlobalTerm = s.GlobalTerm
    BY <1>2, TermKept
  <1> HIDE DEF t
  <1>8. Continues(s, t)
    BY <1>6, <1>7 DEF Continues
  <1>9. Continues(t, u)
    BY <1>5, <1>6, RaiseContinues
  <1>10. Installed(s, d, snap) = u
    BY DEF Installed, t
  <1> HIDE DEF u
  <1> QED
    BY <1>8, <1>9, <1>10, ContinuesOn DEF snap

\* collectTailEntries sends entries.
LEMMA TailTyped ==
    ASSUME NEW s, Windowed(s), NEW after \in Nat, NEW barrier \in Nat
    PROVE  collectTailEntries(s, after, barrier) \in Seq(Entry)
  <1> DEFINE n == Lower(barrier, LastLogIndex(s)) - after
             tail == [k \in 1..n |-> EntryAt(s.Log, after + k)]
  <1>1. /\ s.SnapshotLastIndex \in Nat /\ LastLogIndex(s) \in Nat
        /\ \A j \in Int : Found(s.Log, j) <=> j \in s.SnapshotLastIndex + 1 .. LastLogIndex(s)
        /\ \A j \in s.SnapshotLastIndex + 1 .. LastLogIndex(s) : EntryAt(s.Log, j) \in Entry
    BY WindowedState
  <1>2. CASE after >= barrier \/ ~Found(s.Log, after + 1)
    BY <1>2 DEF collectTailEntries
  <1>3. CASE ~(after >= barrier \/ ~Found(s.Log, after + 1))
    <2>1. after + 1 \in s.SnapshotLastIndex + 1 .. LastLogIndex(s) /\ after < barrier
      BY <1>1, <1>3
    <2>2. n \in Nat /\ \A k \in 1..n : after + k \in s.SnapshotLastIndex + 1 .. LastLogIndex(s)
      BY <1>1, <2>1 DEF Lower
    <2>3. collectTailEntries(s, after, barrier) = tail
      BY <1>3 DEF collectTailEntries
    <2> HIDE DEF n
    <2>4. \A k \in 1..n : EntryAt(s.Log, after + k) \in Entry
      BY <1>1, <2>2
    <2> QED
      BY <2>2, <2>3, <2>4
  <1> QED
    BY <1>2, <1>3

-----------------------------------------------------------------------------
(* What a step does to the nodes.                                          *)

\* Every node keeps a whole log in memory and on disk, its term, and what it has committed.
NodesGoOn ==
    /\ state' \in [Domain -> ReplicaState] /\ disk' \in [Domain -> ReplicaState]
    /\ \A d \in Domain : Windowed(state'[d]) /\ Windowed(disk'[d])
    /\ \A d \in MayRestart : disk'[d].GlobalTerm = state'[d].GlobalTerm
    /\ \A d \in Domain : /\ state[d].GlobalTerm <= state'[d].GlobalTerm
                         /\ d \notin replaced' \ replaced => Keeps(state[d], state'[d])

\* The steps of the nodes, one after the other.  Nothing happens:
LEMMA NodesUnchanged ==
    ASSUME ReplicationInv, UNCHANGED nodeVars
    PROVE  NodesGoOn
  <1>1. /\ state \in [Domain -> ReplicaState] /\ disk \in [Domain -> ReplicaState]
        /\ \A d \in Domain : Windowed(state[d]) /\ Windowed(disk[d])
        /\ \A d \in MayRestart : disk[d].GlobalTerm = state[d].GlobalTerm
        /\ state' = state /\ disk' = disk
    BY DEF ReplicationInv, ReplicationTypeOK, nodeVars
  <1>2. \A d \in Domain : state[d].GlobalTerm \in Nat
    BY <1>1 DEF ReplicaState
  <1>3. \A d \in Domain : state[d].GlobalTerm <= state[d].GlobalTerm /\ Keeps(state[d], state[d])
    BY <1>1, <1>2, KeepsSelf
  <1> QED
    BY <1>1, <1>3 DEF NodesGoOn

\* A step that saves state s at domain d.
LEMMA NodesSaved ==
    ASSUME ReplicationInv, NEW d \in Domain, NEW s, Windowed(s), Save(d, s),
           state[d].GlobalTerm <= s.GlobalTerm,
           d \in replaced' \ replaced \/ Keeps(state[d], s)
    PROVE  NodesGoOn
  <1>1. /\ state \in [Domain -> ReplicaState] /\ disk \in [Domain -> ReplicaState]
        /\ \A x \in Domain : Windowed(state[x]) /\ Windowed(disk[x])
        /\ \A x \in MayRestart : disk[x].GlobalTerm = state[x].GlobalTerm
    BY DEF ReplicationInv, ReplicationTypeOK
  <1>2. s \in ReplicaState /\ MayRestart \subseteq Domain
    BY WindowedState, ReplicationAssumption
  <1>3. \A x \in Domain : state[x].GlobalTerm \in Nat
    BY <1>1 DEF ReplicaState
  <1>4. \A x \in Domain : state[x].GlobalTerm <= state[x].GlobalTerm /\ Keeps(state[x], state[x])
    BY <1>1, <1>3, KeepsSelf
  <1>5. /\ state' \in [Domain -> ReplicaState]
        /\ \A x \in Domain : state'[x] = IF x = d THEN s ELSE state[x]
    BY <1>1, <1>2 DEF Save, SetState
  <1>6. /\ disk' \in [Domain -> ReplicaState]
        /\ \A x \in Domain : disk'[x] = IF x = d /\ d \in MayRestart THEN s ELSE disk[x]
    BY <1>1, <1>2 DEF Save
  <1>7. \A x \in Domain : Windowed(state'[x]) /\ Windowed(disk'[x])
    BY <1>1, <1>5, <1>6
  <1>8. \A x \in MayRestart : disk'[x].GlobalTerm = state'[x].GlobalTerm
    BY <1>1, <1>2, <1>5, <1>6
  <1>9. \A x \in Domain : /\ state[x].GlobalTerm <= state'[x].GlobalTerm
                          /\ x \notin replaced' \ replaced => Keeps(state[x], state'[x])
    BY <1>4, <1>5
  <1> QED
    BY <1>5, <1>6, <1>7, <1>8, <1>9 DEF NodesGoOn

\* The same, of a state that goes on in the same term; without saving that is enough too.
LEMMA NodesContinue ==
    ASSUME ReplicationInv, NEW d \in Domain, NEW s, Continues(state[d], s),
           Save(d, s) \/ (SetState(d, s) /\ UNCHANGED disk)
    PROVE  NodesGoOn
  <1>1. /\ state \in [Domain -> ReplicaState] /\ disk \in [Domain -> ReplicaState]
        /\ \A x \in Domain : Windowed(state[x]) /\ Windowed(disk[x])
        /\ \A x \in MayRestart : disk[x].GlobalTerm = state[x].GlobalTerm
    BY DEF ReplicationInv, ReplicationTypeOK
  <1>2. Windowed(s) /\ Keeps(state[d], s) /\ s.GlobalTerm = state[d].GlobalTerm
    BY DEF Continues
  <1>3. s \in ReplicaState /\ MayRestart \subseteq Domain
    BY <1>2, WindowedState, ReplicationAssumption
  <1>4. \A x \in Domain : state[x].GlobalTerm \in Nat
    BY <1>1 DEF ReplicaState
  <1>5. \A x \in Domain : state[x].GlobalTerm <= state[x].GlobalTerm /\ Keeps(state[x], state[x])
    BY <1>1, <1>4, KeepsSelf
  <1>6. CASE Save(d, s)
    BY <1>2, <1>5, <1>6, NodesSaved
  <1>7. CASE SetState(d, s) /\ UNCHANGED disk
    <2>1. /\ state' \in [Domain -> ReplicaState] /\ disk' = disk
          /\ \A x \in Domain : state'[x] = IF x = d THEN s ELSE state[x]
      BY <1>1, <1>3, <1>7 DEF SetState
    <2>2. \A x \in Domain : Windowed(state'[x]) /\ Windowed(disk'[x])
      BY <1>1, <1>2, <2>1
    <2>3. \A x \in MayRestart : disk'[x].GlobalTerm = state'[x].GlobalTerm
      BY <1>1, <1>2, <1>3, <2>1
    <2>4. \A x \in Domain : /\ state[x].GlobalTerm <= state'[x].GlobalTerm
                            /\ x \notin replaced' \ replaced => Keeps(state[x], state'[x])
      BY <1>2, <1>5, <2>1
    <2> QED
      BY <1>1, <2>1, <2>2, <2>3, <2>4 DEF NodesGoOn
  <1> QED
    BY <1>6, <1>7

\* The facts of the invariant that the actions use.
LEMMA NodeFacts ==
    ASSUME ReplicationInv
    PROVE  /\ state \in [Domain -> ReplicaState] /\ disk \in [Domain -> ReplicaState]
           /\ leads \in [Domain -> Nat] /\ commits \subseteq Commits
           /\ \A d \in Domain : /\ Windowed(state[d]) /\ Windowed(disk[d])
                                /\ state[d].GlobalTerm \in Nat /\ disk[d].GlobalTerm \in Nat
           /\ \A d \in MayRestart : disk[d].GlobalTerm = state[d].GlobalTerm
           /\ MayRestart \subseteq Domain
  <1>1. /\ state \in [Domain -> ReplicaState] /\ disk \in [Domain -> ReplicaState]
        /\ leads \in [Domain -> Nat] /\ commits \subseteq Commits
    BY DEF ReplicationInv, ReplicationTypeOK
  <1>2. \A d \in Domain : state[d].GlobalTerm \in Nat /\ disk[d].GlobalTerm \in Nat
    BY <1>1 DEF ReplicaState
  <1> QED
    BY <1>1, <1>2, ReplicationAssumption DEF ReplicationInv

\* A new term, and nothing else.
LEMMA TermRaised ==
    ASSUME NEW s, Windowed(s), NEW t \in Nat
    PROVE  LET u == [s EXCEPT !.GlobalTerm = t]
           IN  Windowed(u) /\ Keeps(s, u) /\ u.GlobalTerm = t
  <1> DEFINE u == [s EXCEPT !.GlobalTerm = t]
  <1>1. s \in ReplicaState
    BY WindowedState
  <1>2. u \in ReplicaState /\ SameReplica(s, u)
    BY <1>1, MarksOnly
  <1>3. u.GlobalTerm = t
    BY <1>1 DEF ReplicaState
  <1> HIDE DEF u
  <1>4. Windowed(u) /\ Keeps(s, u)
    BY <1>2, SameReplicaKeeps
  <1> QED
    BY <1>3, <1>4 DEF u

\* campaignGlobal changes terms only.
LEMMA ElectNodes ==
    ASSUME ReplicationInv, NEW c \in Domain, NEW voters \in SUBSET Domain, Elect(c, voters)
    PROVE  NodesGoOn
  <1> DEFINE t == state[c].GlobalTerm + 1
             up(d) == [state[d] EXCEPT !.GlobalTerm = t]
  <1>1. /\ c \in voters /\ \A v \in voters \ {c} : state[v].GlobalTerm < t
        /\ state' = [d \in Domain |-> IF d \in voters THEN up(d) ELSE state[d]]
        /\ disk' = [d \in Domain |-> IF d \in voters \cap MayRestart THEN state'[d] ELSE disk[d]]
    BY DEF Elect
  <1>2. t \in Nat /\ state[c].GlobalTerm < t
    BY NodeFacts
  <1> HIDE DEF t
  <1>3. \A d \in Domain : Windowed(up(d)) /\ Keeps(state[d], up(d)) /\ up(d).GlobalTerm = t
    BY <1>2, NodeFacts, TermRaised
  <1> HIDE DEF up
  <1>4. \A d \in Domain : up(d) \in ReplicaState
    BY <1>3, WindowedState
  <1>5. /\ state' \in [Domain -> ReplicaState]
        /\ \A d \in Domain : state'[d] = IF d \in voters THEN up(d) ELSE state[d]
    BY <1>1, <1>4, NodeFacts
  <1>6. /\ disk' \in [Domain -> ReplicaState]
        /\ \A d \in Domain : disk'[d] = IF d \in voters \cap MayRestart THEN state'[d] ELSE disk[d]
    BY <1>1, <1>5, NodeFacts
  <1>7. \A d \in Domain : Windowed(state'[d]) /\ Windowed(disk'[d])
    BY <1>3, <1>5, <1>6, NodeFacts
  <1>8. \A d \in MayRestart : disk'[d].GlobalTerm = state'[d].GlobalTerm
    BY <1>5, <1>6, NodeFacts
  <1>9. \A d \in Domain : state[d].GlobalTerm <= state'[d].GlobalTerm
    <2> SUFFICES ASSUME NEW d \in Domain PROVE state[d].GlobalTerm <= state'[d].GlobalTerm
      OBVIOUS
    <2>1. state[d].GlobalTerm \in Nat
      BY NodeFacts
    <2>2. CASE d \in voters
      <3>1. state'[d].GlobalTerm = t /\ state[d].GlobalTerm < t
        BY <1>1, <1>2, <1>3, <1>5, <2>2
      <3> QED
        BY <1>2, <2>1, <3>1
    <2>3. CASE d \notin voters
      BY <1>5, <2>1, <2>3
    <2> QED
      BY <2>2, <2>3
  <1>10. \A d \in Domain : Keeps(state[d], state'[d])
    BY <1>3, <1>5, NodeFacts, KeepsSelf
  <1> QED
    BY <1>5, <1>6, <1>7, <1>8, <1>9, <1>10 DEF NodesGoOn

\* HeartbeatGlobalInternal adopts a term that is not lower, then advances.
LEMMA HeartbeatNodes ==
    ASSUME ReplicationInv, NEW l \in Domain, NEW d \in Domain, HeartbeatGlobal(l, d)
    PROVE  NodesGoOn
  <1> DEFINE u == [state[d] EXCEPT !.GlobalTerm = leads[l]]
             c == CommitPosition(state[l])
             v == advanceCommitLocked(u, c)
  <1>1. leads[l] \in Nat /\ leads[l] >= state[d].GlobalTerm /\ Save(d, v) /\ Windowed(state[d])
    BY NodeFacts DEF HeartbeatGlobal
  <1>2. Windowed(u) /\ Keeps(state[d], u) /\ u.GlobalTerm = leads[l]
    BY <1>1, TermRaised
  <1>3. c.index \in Nat
    BY NodeFacts, PositionTyped
  <1> HIDE DEF u, c
  <1>4. Continues(u, v)
    BY <1>2, <1>3, AdvanceContinues
  <1> HIDE DEF v
  <1>5. Windowed(v) /\ Keeps(u, v) /\ v.GlobalTerm = leads[l]
    BY <1>2, <1>4 DEF Continues
  <1>6. Keeps(state[d], v)
    BY <1>1, <1>2, <1>5, KeepsOn
  <1>7. state[d].GlobalTerm <= v.GlobalTerm
    BY <1>1, <1>5, NodeFacts
  <1> QED
    BY <1>1, <1>5, <1>6, <1>7, NodesSaved

\* observeHigherGlobalTerm changes the term only.
LEMMA StepDownNodes ==
    ASSUME ReplicationInv, NEW l \in Domain, NEW t \in 1..MaxTerm, StepDown(l, t)
    PROVE  NodesGoOn
  <1> DEFINE u == [state[l] EXCEPT !.GlobalTerm = t]
  <1>1. t \in Nat /\ state[l].GlobalTerm \in Nat /\ Windowed(state[l]) /\ Save(l, u)
    BY NodeFacts, ReplicationAssumption DEF StepDown
  <1>2. t = state[l].GlobalTerm \/ t > state[l].GlobalTerm
    BY DEF StepDown
  <1>3. Windowed(u) /\ Keeps(state[l], u) /\ u.GlobalTerm = t
    BY <1>1, TermRaised
  <1>4. state[l].GlobalTerm <= u.GlobalTerm
    BY <1>1, <1>2, <1>3
  <1> HIDE DEF u
  <1> QED
    BY <1>1, <1>3, <1>4, NodesSaved

\* A replaced Domain Leader goes on with any whole state of the saved term:
LEMMA ReplacedNodes ==
    ASSUME ReplicationInv, NEW d \in Domain, NEW s, Windowed(s),
           s.GlobalTerm = disk[d].GlobalTerm, Replaced(d, s)
    PROVE  NodesGoOn
  <1>1. d \in MayRestart /\ d \in replaced' \ replaced /\ Save(d, s)
    BY DEF Replaced
  <1>2. state[d].GlobalTerm <= s.GlobalTerm
    BY <1>1, NodeFacts
  <1> QED
    BY <1>1, <1>2, NodesSaved

\* that of another member, which holds a prefix of the saved log and has applied nothing.
LEMMA TakenOver ==
    ASSUME ReplicationInv, NEW d \in Domain, NEW n \in 0..MaxIndex, TakeOver(d, n)
    PROVE  \E s : /\ Replaced(d, s) /\ Windowed(s) /\ s.GlobalTerm = disk[d].GlobalTerm
                  /\ s.Results = [r \in Request |-> NoDecision] /\ s.SnapshotLastTerm = 0
                  /\ \A j \in DOMAIN s.Log : \E i \in DOMAIN disk[d].Log : s.Log[j] = disk[d].Log[i]
  <1> DEFINE log == SubSeq(disk[d].Log, 1, n)
             term == disk[d].GlobalTerm
             s == [NewState EXCEPT !.GlobalTerm = term, !.Log = log]
  <1>1. /\ disk[d].SnapshotLastIndex = 0 /\ Replaced(d, s)
        /\ n \in disk[d].DomainQuorumIndex[d] .. LastLogIndex(disk[d])
    BY DEF TakeOver
  <1>2. Windowed(disk[d]) /\ term \in Nat
    BY NodeFacts
  <1>3. /\ disk[d].Log \in Seq(Entry) /\ Len(disk[d].Log) \in Nat
        /\ LastLogIndex(disk[d]) = disk[d].SnapshotLastIndex + Len(disk[d].Log)
        /\ \A i \in 1..Len(disk[d].Log) : disk[d].Log[i].index = disk[d].SnapshotLastIndex + i
    BY <1>2, WindowedState
  <1>4. n \in Nat /\ n <= Len(disk[d].Log)
    BY <1>1, <1>3, ReplicationAssumption
  <1>5. log \in Seq(Entry) /\ Len(log) = n /\ \A j \in 1..n : log[j] = disk[d].Log[j]
    BY <1>3, <1>4, CutLog
  <1>6. \A j \in 1..Len(log) : log[j].index = 0 + j
    <2> SUFFICES ASSUME NEW j \in 1..n PROVE log[j].index = 0 + j
      BY <1>5
    <2>1. j \in 1..Len(disk[d].Log)
      BY <1>3, <1>4
    <2>2. log[j].index = disk[d].SnapshotLastIndex + j
      BY <1>3, <1>5, <2>1
    <2> QED
      BY <1>1, <2>2
  <1>a. \A j \in DOMAIN log : \E i \in DOMAIN disk[d].Log : log[j] = disk[d].Log[i]
    <2> SUFFICES ASSUME NEW j \in 1..n PROVE j \in DOMAIN disk[d].Log /\ log[j] = disk[d].Log[j]
      BY <1>5
    <2> QED
      BY <1>3, <1>4, <1>5
  <1> HIDE DEF log, term
  <1>7. /\ s \in ReplicaState /\ s.Log = log /\ s.GlobalTerm = term
        /\ s.SnapshotLastIndex = 0 /\ s.AppliedIndex = 0 /\ s.KnownGlobalCommitIndex = 0
        /\ s.Results = NewState.Results /\ s.SnapshotLastTerm = 0
    <2> DEFINE R == Request \cup {None}
               D == Decision \cup {NoDecision}
               Q == Seq(Entry)
               RS == [GlobalTerm : Nat, Log : Q, DomainQuorumIndex : [Domain -> Nat],
                      KnownGlobalCommitIndex : Nat, AppliedIndex : Nat, Results : [Request -> D],
                      StateMachine : [Key -> R], SnapshotLastIndex : Nat, SnapshotLastTerm : Nat,
                      SnapshotLastRequestID : R]
    <2>1. RS = ReplicaState /\ NewState \in RS
      BY NewStateWindowed, WindowedState DEF ReplicaState
    <2>2. /\ NewState.SnapshotLastIndex = 0 /\ NewState.SnapshotLastTerm = 0
          /\ NewState.AppliedIndex = 0 /\ NewState.KnownGlobalCommitIndex = 0
      BY DEF NewState
    <2>3. log \in Q /\ term \in Nat
      BY <1>2, <1>5
    <2> HIDE DEF R, D, Q
    <2> QED
      BY <2>1, <2>2, <2>3
  <1> HIDE DEF s
  <1>8. s.AppliedIndex <= LastLogIndex(s)
    BY <1>4, <1>5, <1>7 DEF LastLogIndex
  <1>9. Windowed(s)
    BY <1>6, <1>7, <1>8, MakeWindowed
  <1> QED
    BY <1>1, <1>7, <1>9, <1>a, NewStateWindowed DEF term

\* So the term does not go back when another member takes over.
LEMMA TakeOverNodes ==
    ASSUME ReplicationInv, NEW d \in Domain, NEW n \in 0..MaxIndex, TakeOver(d, n)
    PROVE  NodesGoOn
  BY TakenOver, ReplacedNodes

\* A commit's leader, entry and outstanding domains.
LEMMA CommitFacts ==
    ASSUME ReplicationInv, NEW c \in commits
    PROVE  /\ c.leader \in Domain /\ c.entry \in Entry /\ c.entry.index \in Nat
           /\ c.todo \subseteq Domain /\ c.acks \subseteq Domain
  <1>1. c \in Commits
    BY NodeFacts
  <1>2. c.leader \in Domain /\ c.entry \in Entry /\ c.todo \subseteq Domain /\ c.acks \subseteq Domain
    BY <1>1 DEF Commits
  <1>3. c.entry.index \in Nat
    BY <1>2 DEF Entry
  <1> QED
    BY <1>2, <1>3

\* Replicate appends, and may commit.
LEMMA ReplicateNodes ==
    ASSUME ReplicationInv, NEW c \in commits, NEW d \in Domain, NEW quorum \in BOOLEAN,
           Replicate(c, d, quorum)
    PROVE  NodesGoOn
  <1> DEFINE e == c.entry
             appended == appendEntryChecked(state[d], e)
             live == LivePending(d, e)
             reached == QuorumReached(appended, d, e, live)
             prev == prevLogFor(state[c.leader], e.index)
  <1>1. /\ appendOutcome(state[d], e, prev) = "accepted"
        /\ Save(d, reached) \/ Save(d, appended)
    BY DEF Replicate
  <1>2. e \in Entry /\ Windowed(state[d])
    BY CommitFacts, NodeFacts
  <1> HIDE DEF e, prev, live
  <1>3. Continues(state[d], appended) /\ Windowed(appended)
    BY <1>1, <1>2, AppendContinues DEF Continues
  <1> HIDE DEF appended
  <1>4. Continues(appended, reached)
    BY <1>2, <1>3, QuorumContinues
  <1> HIDE DEF reached
  <1>5. Continues(state[d], reached)
    BY <1>2, <1>3, <1>4, ContinuesOn
  <1> QED
    BY <1>1, <1>3, <1>5, NodesContinue

\* AnnounceGlobalDomainQuorum may commit.
LEMMA AnnounceNodes ==
    ASSUME ReplicationInv, NEW a \in announces, AnnounceGlobalDomainQuorum(a)
    PROVE  NodesGoOn
  <1> DEFINE d == a.responder
             t == advanceCommitLocked(state[d], a.entry)
  <1>1. SetState(d, t) \/ SetState(d, state[d])
    BY DEF AnnounceGlobalDomainQuorum
  <1>2. UNCHANGED disk
    BY DEF AnnounceGlobalDomainQuorum
  <1>3. a \in [entry : Entry, leader : Domain, responder : Domain]
    BY DEF ReplicationInv, ReplicationTypeOK
  <1>4. d \in Domain /\ a.entry.index \in Nat
    BY <1>3 DEF Entry
  <1>5. Windowed(state[d])
    BY <1>4, NodeFacts
  <1>6. Continues(state[d], t) /\ Continues(state[d], state[d])
    BY <1>4, <1>5, AdvanceContinues, ContinuesSelf
  <1> HIDE DEF t, d
  <1> QED
    BY <1>1, <1>2, <1>4, <1>6, NodesContinue

\* Commit advances.
LEMMA CommitNodes ==
    ASSUME ReplicationInv, NEW d \in Domain, NEW n \in notices, Commit(d, n)
    PROVE  NodesGoOn
  <1> DEFINE t == advanceCommitLocked(state[d], n.entry)
  <1>1. Save(d, t)
    BY DEF Commit
  <1>2. n \in [term : Nat, sender : Domain, entry : Entry]
    BY DEF ReplicationInv, ReplicationTypeOK
  <1>3. n.entry.index \in Nat
    BY <1>2 DEF Entry
  <1>4. Continues(state[d], t)
    BY <1>3, NodeFacts, AdvanceContinues
  <1> HIDE DEF t
  <1> QED
    BY <1>1, <1>4, NodesContinue

\* failureDetectorLoop saves.
LEMMA TickNodes ==
    ASSUME ReplicationInv, NEW d \in Domain, Save(d, state[d])
    PROVE  NodesGoOn
  BY NodeFacts, ContinuesSelf, NodesContinue

\* reconfirmDomainQuorum raises a mark.
LEMMA ReconfirmNodes ==
    ASSUME ReplicationInv, NEW d \in Domain, reconfirmDomainQuorum(d)
    PROVE  NodesGoOn
  <1> DEFINE i == LastLogIndex(state[d])
             t == RaiseQuorum(state[d], d, i)
  <1>1. Save(d, t)
    BY DEF reconfirmDomainQuorum
  <1>2. Windowed(state[d]) /\ i \in Nat
    BY NodeFacts, WindowedState
  <1> HIDE DEF i
  <1>3. Continues(state[d], t)
    BY <1>2, RaiseContinues
  <1> HIDE DEF t
  <1> QED
    BY <1>1, <1>3, NodesContinue

\* The entry that Write orders or finds.
LEMMA WriteEntry ==
    ASSUME ReplicationInv, NEW l \in Domain, NEW r \in Request, leads[l] # 0
    PROVE  LET s == state[l]
               at == OrderedAt(s, r)
               new == [index |-> LastLogIndex(s) + 1, term |-> leads[l], request |-> r]
           IN  /\ new \in Entry
               /\ at # {} => s.Log[Min(at)] \in Entry /\ s.Log[Min(at)].request = r
  <1> DEFINE s == state[l]
             at == OrderedAt(s, r)
             new == [index |-> LastLogIndex(s) + 1, term |-> leads[l], request |-> r]
  <1>1. Windowed(s) /\ leads[l] \in Nat
    BY NodeFacts
  <1>2. /\ LastLogIndex(s) \in Nat /\ DOMAIN s.Log = 1..Len(s.Log) /\ Len(s.Log) \in Nat
        /\ \A i \in 1..Len(s.Log) : s.Log[i] \in Entry
    BY <1>1, WindowedState
  <1>3. new \in Entry
    <2>1. LastLogIndex(s) + 1 \in Nat \ {0} /\ leads[l] \in Nat \ {0}
      BY <1>1, <1>2
    <2> QED
      BY <2>1 DEF Entry
  <1>4. at \in SUBSET Nat /\ at \subseteq 1..Len(s.Log) /\ \A i \in at : s.Log[i].request = r
    BY <1>2 DEF OrderedAt
  <1> HIDE DEF at, s
  <1>5. at # {} => Min(at) \in at
    BY <1>4, MinIsMember
  <1>6. at # {} => s.Log[Min(at)] \in Entry /\ s.Log[Min(at)].request = r
    BY <1>2, <1>4, <1>5
  <1> QED
    BY <1>3, <1>6 DEF at, s

\* Write appends an entry of the next index.
LEMMA WriteNodes ==
    ASSUME ReplicationInv, NEW l \in Domain, NEW r \in Request, Write(l, r)
    PROVE  NodesGoOn
  <1> DEFINE s == state[l]
             new == [index |-> LastLogIndex(s) + 1, term |-> leads[l], request |-> r]
             log == Append(s.Log, new)
             t == [s EXCEPT !.Log = log]
  <1>1. leads[l] # 0 /\ UNCHANGED disk /\ (SetState(l, t) \/ SetState(l, s))
    BY DEF Write
  <1>2. new \in Entry
    BY <1>1, WriteEntry
  <1>3. Windowed(s)
    BY NodeFacts
  <1>4. /\ s \in ReplicaState /\ s.Log \in Seq(Entry) /\ Len(s.Log) \in Nat
        /\ s.SnapshotLastIndex \in Nat /\ s.AppliedIndex \in Nat
        /\ LastLogIndex(s) = s.SnapshotLastIndex + Len(s.Log)
        /\ s.SnapshotLastIndex <= s.AppliedIndex /\ s.KnownGlobalCommitIndex = s.AppliedIndex
        /\ s.AppliedIndex <= LastLogIndex(s)
        /\ \A i \in 1..Len(s.Log) : s.Log[i].index = s.SnapshotLastIndex + i
    BY <1>3, WindowedState
  <1>5. new.index = s.SnapshotLastIndex + Len(s.Log) + 1
    BY <1>4
  <1> HIDE DEF s, new
  <1>6. /\ log \in Seq(Entry) /\ Len(log) = Len(s.Log) + 1
        /\ \A i \in 1..Len(s.Log) : log[i] = s.Log[i]
        /\ log[Len(s.Log) + 1] = new
    BY <1>2, <1>4, AppendProperties
  <1> HIDE DEF log
  <1>7. /\ t \in ReplicaState /\ t.Log = log /\ t.SnapshotLastIndex = s.SnapshotLastIndex
        /\ t.AppliedIndex = s.AppliedIndex /\ t.KnownGlobalCommitIndex = s.KnownGlobalCommitIndex
        /\ t.Results = s.Results
    BY <1>4, <1>6, LogOnly
  <1>8. t.GlobalTerm = s.GlobalTerm
    BY <1>4, TermKept
  <1> HIDE DEF t
  <1>9. \A i \in 1..Len(log) : log[i].index = s.SnapshotLastIndex + i
    <2> SUFFICES ASSUME NEW i \in 1..Len(s.Log) + 1 PROVE log[i].index = s.SnapshotLastIndex + i
      BY <1>6
    <2>1. i = Len(s.Log) + 1 \/ i \in 1..Len(s.Log)
      BY <1>4
    <2>2. CASE i = Len(s.Log) + 1
      <3>1. s.SnapshotLastIndex + Len(s.Log) + 1 = s.SnapshotLastIndex + (Len(s.Log) + 1)
        BY <1>4
      <3> QED
        BY <1>5, <1>6, <2>2, <3>1
    <2>3. CASE i \in 1..Len(s.Log)
      BY <1>4, <1>6, <2>3
    <2> QED
      BY <2>1, <2>2, <2>3
  <1>10. t.AppliedIndex <= LastLogIndex(t)
    BY <1>4, <1>6, <1>7 DEF LastLogIndex
  <1>11. Windowed(t)
    BY <1>4, <1>7, <1>9, <1>10, MakeWindowed
  <1>12. \A i \in s.SnapshotLastIndex + 1 .. s.AppliedIndex :
           log[i - s.SnapshotLastIndex] = s.Log[i - s.SnapshotLastIndex]
    <2>1. \A i \in s.SnapshotLastIndex + 1 .. s.AppliedIndex : i - s.SnapshotLastIndex \in 1..Len(s.Log)
      BY <1>4
    <2> QED
      BY <1>6, <2>1
  <1>13. s.SnapshotLastIndex <= s.SnapshotLastIndex /\ s.AppliedIndex <= s.AppliedIndex
    BY <1>4
  <1>14. Keeps(s, t)
    BY <1>3, <1>7, <1>11, <1>12, <1>13, MakeKeeps
  <1>15. Continues(s, t) /\ Continues(s, s)
    BY <1>3, <1>8, <1>11, <1>14, ContinuesSelf DEF Continues
  <1> QED
    BY <1>1, <1>15, NodesContinue DEF s

\* replicateAndCommit raises a mark, and may commit.
LEMMA CollectNodes ==
    ASSUME ReplicationInv, NEW c \in commits, NEW d \in Domain, Collect(c, d)
    PROVE  NodesGoOn
  <1> DEFINE l == c.leader
             e == c.entry
             s == RaiseQuorum(state[l], d, e.index)
             t == advanceCommitLocked(s, e)
  <1>1. Save(l, t) \/ (SetState(l, s) /\ UNCHANGED disk)
    BY DEF Collect, commitAcrossDomains
  <1>2. l \in Domain /\ e \in Entry /\ e.index \in Nat
    BY CommitFacts
  <1>3. Windowed(state[l])
    BY <1>2, NodeFacts
  <1> HIDE DEF l, e
  <1>4. Continues(state[l], s) /\ Windowed(s)
    BY <1>2, <1>3, RaiseContinues DEF Continues
  <1> HIDE DEF s
  <1>5. Continues(s, t)
    BY <1>2, <1>4, AdvanceContinues
  <1> HIDE DEF t
  <1>6. Continues(state[l], t)
    BY <1>3, <1>4, <1>5, ContinuesOn
  <1> QED
    BY <1>1, <1>2, <1>4, <1>6, NodesContinue

\* replicateDomainQuorum sends a snapshot and entries.
LEMMA BackfillNodes ==
    ASSUME ReplicationInv, NEW c \in commits, NEW d \in Domain, Backfill(c, d)
    PROVE  NodesGoOn
  <1> DEFINE l == c.leader
             e == c.entry
             behind == LastLogIndex(state[d]) < state[l].SnapshotLastIndex
             snap == BuildSnapshot(state[l])
             installed == Installed(state[d], d, snap)
             s == IF behind THEN installed ELSE state[d]
             tail == collectTailEntries(state[l], LastLogIndex(s), e.index)
             live == IF behind THEN {p \in pendingFast[d] : p.index > snap.index} ELSE pendingFast[d]
             t == Relayed(d, state[l], live, s, tail)
  <1>1. Save(d, t)
    BY DEF Backfill
  <1>2. l \in Domain /\ e.index \in Nat
    BY CommitFacts
  <1>3. Windowed(state[l]) /\ Windowed(state[d])
    BY <1>2, NodeFacts
  <1>4. Continues(state[d], installed) /\ Continues(state[d], state[d])
    BY <1>3, InstalledContinues, ContinuesSelf
  <1> HIDE DEF installed, behind
  <1>5. Continues(state[d], s) /\ Windowed(s)
    BY <1>4 DEF Continues
  <1> HIDE DEF s, live, l
  <1>6. LastLogIndex(s) \in Nat
    BY <1>5, WindowedState
  <1>7. tail \in Seq(Entry)
    BY <1>2, <1>3, <1>6, TailTyped
  <1> HIDE DEF tail
  <1>8. Continues(s, t)
    BY <1>5, <1>7, RelayedContinues
  <1> HIDE DEF t
  <1>9. Continues(state[d], t)
    BY <1>3, <1>5, <1>8, ContinuesOn
  <1> QED
    BY <1>1, <1>9, NodesContinue

\* What recoverCommittedPrefix does once it has the marks and the target.
Recovers(l, marks, target) ==
    LET s == [state[l] EXCEPT !.DomainQuorumIndex = marks]
        e == EntryAt(state[l].Log, target)
    IN  /\ serving = l /\ UNCHANGED <<roleVars, commits, fastVars, answers>>
        /\ \/ /\ Found(state[l].Log, target) /\ Save(l, advanceCommitLocked(s, e))
              /\ notices' = notices \cup {[term |-> s.GlobalTerm, sender |-> l, entry |-> e]}
           \/ Save(l, s) /\ notices' = notices
           \/ UNCHANGED nodeVars /\ notices' = notices

\* The marks that recoverCommittedPrefix gathers, and the entry that it may commit.
LEMMA RecoverFacts ==
    ASSUME ReplicationInv, NEW l \in Domain, NEW reached \in SUBSET (Domain \ {l}),
           recoverCommittedPrefix(l, reached)
    PROVE  \E marks \in [Domain -> Nat], target \in Nat :
             /\ Recovers(l, marks, target)
             /\ \A d \in Domain : state[l].DomainQuorumIndex[d] <= marks[d]
             /\ target <= state[l].DomainQuorumIndex[l]
             /\ Found(state[l].Log, target) => EntryAt(state[l].Log, target) \in Entry
  <1> DEFINE own == state[l].DomainQuorumIndex
             markOf(d) == IF d \in reached THEN Higher(own[d], Mark(d)) ELSE own[d]
             marks == [d \in Domain |-> markOf(d)]
             S == {0} \cup {marks[d] : d \in Domain \ {l}}
             other == Max(S)
             target == Lower(Lower(marks[l], other), LastLogIndex(state[l]))
  <1>0. Recovers(l, marks, target)
    BY DEF recoverCommittedPrefix, commitAcrossDomains, Recovers
  <1>1. \A d \in Domain : state[d].DomainQuorumIndex \in [Domain -> Nat]
    BY NodeFacts DEF ReplicaState
  <1>2. \A d \in Domain : markOf(d) \in Nat /\ own[d] <= markOf(d) /\ own[d] \in Nat
    BY <1>1 DEF Higher, Mark
  <1>a. markOf(l) = own[l]
    OBVIOUS
  <1> HIDE DEF markOf, own
  <1>3. /\ marks \in [Domain -> Nat] /\ marks[l] = own[l]
        /\ \A d \in Domain : own[d] <= marks[d]
    BY <1>2, <1>a
  <1> HIDE DEF marks
  <1>4. PICK b \in Nat : \A d \in Domain : marks[d] <= b
    BY <1>3, MarksBounded
  <1>5. S \in SUBSET (0..b) /\ S # {}
    BY <1>3, <1>4
  <1>6. S \in SUBSET Nat
    BY <1>5
  <1> HIDE DEF S
  <1>7. other \in Nat
    BY <1>5, <1>6, MaxIsMember
  <1> HIDE DEF other
  <1>8. /\ state[l].SnapshotLastIndex \in Nat /\ LastLogIndex(state[l]) \in Nat
        /\ \A i \in Int : Found(state[l].Log, i) <=> i \in state[l].SnapshotLastIndex + 1 .. LastLogIndex(state[l])
        /\ \A i \in state[l].SnapshotLastIndex + 1 .. LastLogIndex(state[l]) : EntryAt(state[l].Log, i) \in Entry
    BY NodeFacts, WindowedState
  <1>9. target \in Nat /\ target <= marks[l]
    BY <1>3, <1>7, <1>8 DEF Lower
  <1> HIDE DEF target
  <1>10. Found(state[l].Log, target) => EntryAt(state[l].Log, target) \in Entry
    BY <1>8, <1>9
  <1>11. /\ marks \in [Domain -> Nat] /\ target \in Nat
         /\ \A d \in Domain : state[l].DomainQuorumIndex[d] <= marks[d]
         /\ target <= state[l].DomainQuorumIndex[l]
    BY <1>3, <1>9 DEF own
  <1> QED
    BY <1>0, <1>10, <1>11

\* recoverCommittedPrefix raises marks, and may commit.
LEMMA RecoverNodes ==
    ASSUME ReplicationInv, NEW l \in Domain, NEW reached \in SUBSET (Domain \ {l}),
           recoverCommittedPrefix(l, reached)
    PROVE  NodesGoOn
  <1>0. PICK marks \in [Domain -> Nat], target \in Nat :
          /\ Recovers(l, marks, target)
          /\ \A d \in Domain : state[l].DomainQuorumIndex[d] <= marks[d]
          /\ target <= state[l].DomainQuorumIndex[l]
          /\ Found(state[l].Log, target) => EntryAt(state[l].Log, target) \in Entry
    BY RecoverFacts
  <1> DEFINE own == state[l].DomainQuorumIndex
             s == [state[l] EXCEPT !.DomainQuorumIndex = marks]
             e == EntryAt(state[l].Log, target)
             t == advanceCommitLocked(s, e)
  <1>1. /\ marks \in [Domain -> Nat]
        /\ \A d \in Domain : own[d] <= marks[d]
        /\ target \in Nat /\ target <= own[l]
        /\ Found(state[l].Log, target) => e \in Entry
    BY <1>0
  <1>2. (Found(state[l].Log, target) /\ Save(l, t)) \/ Save(l, s) \/ UNCHANGED nodeVars
    BY <1>0 DEF Recovers
  <1>3. Windowed(state[l])
    BY NodeFacts
  <1> HIDE DEF e
  <1>4. Continues(state[l], s) /\ Windowed(s)
    BY <1>1, <1>3, MarksContinue DEF Continues
  <1> HIDE DEF s
  <1>5. CASE Found(state[l].Log, target) /\ Save(l, t)
    <2>1. e.index \in Nat
      BY <1>1, <1>5 DEF Entry
    <2>2. Continues(s, t)
      BY <1>4, <2>1, AdvanceContinues
    <2> HIDE DEF t
    <2>3. Continues(state[l], t)
      BY <1>3, <1>4, <2>2, ContinuesOn
    <2> QED
      BY <1>5, <2>3, NodesContinue
  <1>6. CASE Save(l, s)
    BY <1>4, <1>6, NodesContinue
  <1>7. CASE UNCHANGED nodeVars
    BY <1>7, NodesUnchanged
  <1> QED
    BY <1>2, <1>5, <1>6, <1>7

\* The end of a commit saves at most.
LEMMA EndCommitNodes ==
    ASSUME ReplicationInv, NEW c \in commits, EndCommit(c)
    PROVE  NodesGoOn
  <1>1. Save(c.leader, state[c.leader]) \/ UNCHANGED nodeVars
    BY DEF EndCommit
  <1>2. c.leader \in Domain
    BY CommitFacts
  <1> QED
    BY <1>1, <1>2, TickNodes, NodesUnchanged

\* Every step.
LEMMA NodesStep == ReplicationInv /\ [Next]_vars => NodesGoOn
  <1> SUFFICES ASSUME ReplicationInv, [Next]_vars PROVE NodesGoOn
    OBVIOUS
  <1>1. CASE UNCHANGED vars
    BY <1>1, NodesUnchanged DEF vars
  <1>2. ASSUME NEW d \in Domain, NEW voters \in SUBSET Domain, Elect(d, voters) PROVE NodesGoOn
    BY <1>2, ElectNodes
  <1>3. ASSUME NEW l \in Domain, NEW d \in Domain, HeartbeatGlobal(l, d) PROVE NodesGoOn
    BY <1>3, HeartbeatNodes
  <1>4. ASSUME NEW d \in Domain, NEW t \in 1..MaxTerm, StepDown(d, t) PROVE NodesGoOn
    BY <1>4, StepDownNodes
  <1>5. ASSUME NEW d \in Domain, Restart(d) PROVE NodesGoOn
    BY <1>5, NodeFacts, ReplacedNodes DEF Restart
  <1>6. ASSUME NEW d \in Domain, NEW n \in 0..MaxIndex, TakeOver(d, n) PROVE NodesGoOn
    BY <1>6, TakeOverNodes
  <1>7. ASSUME NEW d \in Domain, Tick(d) PROVE NodesGoOn
    BY <1>7, TickNodes DEF Tick
  <1>8. ASSUME NEW d \in Domain, reconfirmDomainQuorum(d) PROVE NodesGoOn
    BY <1>8, ReconfirmNodes
  <1>9. ASSUME NEW d \in Domain, NEW r \in Request, Write(d, r) \/ GlobalResponse(d, r) PROVE NodesGoOn
    BY <1>9, WriteNodes, NodesUnchanged DEF GlobalResponse
  <1>10. ASSUME NEW d \in Domain, NEW reached \in SUBSET (Domain \ {d}), recoverCommittedPrefix(d, reached)
         PROVE  NodesGoOn
    BY <1>10, RecoverNodes
  <1>11. ASSUME NEW d \in Domain, NEW n \in notices, Commit(d, n) PROVE NodesGoOn
    BY <1>11, CommitNodes
  <1>12. ASSUME NEW c \in commits, NEW d \in Domain, Probe(c, d) \/ Backfill(c, d) \/ Collect(c, d)
         PROVE  NodesGoOn
    BY <1>12, BackfillNodes, CollectNodes, NodesUnchanged DEF Probe
  <1>13. ASSUME NEW c \in commits, NEW d \in Domain, NEW quorum \in BOOLEAN, Replicate(c, d, quorum)
         PROVE  NodesGoOn
    BY <1>13, ReplicateNodes
  <1>14. ASSUME NEW c \in commits, EndCommit(c) PROVE NodesGoOn
    BY <1>14, EndCommitNodes
  <1>15. ASSUME NEW a \in announces, AnnounceGlobalDomainQuorum(a) PROVE NodesGoOn
    BY <1>15, AnnounceNodes
  <1> QED
    BY <1>1, <1>2, <1>3, <1>4, <1>5, <1>6, <1>7, <1>8, <1>9, <1>10, <1>11, <1>12, <1>13, <1>14,
       <1>15, Zenon DEF Next

-----------------------------------------------------------------------------
(* What a step does to the roles, the running commits and the messages.    *)

\* The part of the type invariant about running commits.
CommitsOK(cs) ==
    /\ cs \subseteq Commits
    /\ \A b, c \in cs : b.leader = c.leader /\ b.entry.request = c.entry.request => b = c

\* Some of the running commits go on, each with its leader and its entry.
LEMMA CommitsGoOn ==
    ASSUME CommitsOK(commits), NEW f \in [commits -> Commits],
           \A c \in commits : f[c].leader = c.leader /\ f[c].entry = c.entry
    PROVE  \A S \in SUBSET commits : CommitsOK({f[c] : c \in S})
  <1> SUFFICES ASSUME NEW S \in SUBSET commits PROVE CommitsOK({f[c] : c \in S})
    OBVIOUS
  <1> DEFINE T == {f[c] : c \in S}
  <1>1. T \subseteq Commits
    OBVIOUS
  <1>2. ASSUME NEW x \in T, NEW y \in T, x.leader = y.leader, x.entry.request = y.entry.request
        PROVE  x = y
    <2>1. PICK b \in S : x = f[b]
      OBVIOUS
    <2>2. PICK c \in S : y = f[c]
      OBVIOUS
    <2>3. b \in commits /\ c \in commits /\ b.leader = c.leader /\ b.entry.request = c.entry.request
      BY <1>2, <2>1, <2>2
    <2>4. b = c
      BY <2>3 DEF CommitsOK
    <2> QED
      BY <2>1, <2>2, <2>4
  <1> QED
    BY <1>1, <1>2 DEF CommitsOK

\* The running commits stay well formed when a domain answers,
LEMMA AcknowledgedOK ==
    ASSUME CommitsOK(commits), NEW l, NEW e, NEW d \in Domain
    PROVE  CommitsOK(Acknowledged(l, e, d))
  <1> DEFINE g(c) == IF c.leader = l /\ c.entry = e /\ d \in c.todo
                     THEN [c EXCEPT !.todo = @ \ {d}, !.acks = @ \cup {d}] ELSE c
             f == [c \in commits |-> g(c)]
  <1>1. \A c \in commits : c \in Commits
    BY DEF CommitsOK
  <1>2. \A c \in commits : g(c) \in Commits /\ g(c).leader = c.leader /\ g(c).entry = c.entry
    <2> DEFINE E == Entry
    <2> HIDE DEF E
    <2>1. Commits = [leader : Domain, entry : E, todo : SUBSET Domain, acks : SUBSET Domain,
                     quorums : SUBSET Domain, committed : BOOLEAN]
      BY DEF Commits, E
    <2> QED
      BY <1>1, <2>1
  <1>3. Acknowledged(l, e, d) = {g(c) : c \in commits}
    BY DEF Acknowledged
  <1> HIDE DEF g
  <1>4. f \in [commits -> Commits] /\ \A c \in commits : f[c].leader = c.leader /\ f[c].entry = c.entry
    BY <1>2
  <1>5. Acknowledged(l, e, d) = {f[c] : c \in commits}
    BY <1>3
  <1> HIDE DEF f
  <1> QED
    BY <1>4, <1>5, CommitsGoOn

\* when some end,
LEMMA FewerCommits ==
    ASSUME CommitsOK(commits), NEW S \in SUBSET commits
    PROVE  CommitsOK(S)
  BY DEF CommitsOK

\* when an answer is taken,
LEMMA CollectOK ==
    ASSUME CommitsOK(commits), NEW c \in commits, NEW d \in Domain, NEW committed \in BOOLEAN
    PROVE  CommitsOK((commits \ {c}) \cup
             {[c EXCEPT !.acks = @ \ {d}, !.quorums = c.quorums \cup {d}, !.committed = committed]})
  <1> DEFINE b == [c EXCEPT !.acks = @ \ {d}, !.quorums = c.quorums \cup {d}, !.committed = committed]
             f == [x \in commits |-> IF x = c THEN b ELSE x]
  <1>1. \A x \in commits : x \in Commits
    BY DEF CommitsOK
  <1>2. b \in Commits /\ b.leader = c.leader /\ b.entry = c.entry
    <2> DEFINE E == Entry
    <2> HIDE DEF E
    <2>1. Commits = [leader : Domain, entry : E, todo : SUBSET Domain, acks : SUBSET Domain,
                     quorums : SUBSET Domain, committed : BOOLEAN]
      BY DEF Commits, E
    <2> QED
      BY <1>1, <2>1
  <1> HIDE DEF b
  <1>3. f \in [commits -> Commits] /\ \A x \in commits : f[x].leader = x.leader /\ f[x].entry = x.entry
    BY <1>1, <1>2
  <1>4. {f[x] : x \in commits} = (commits \ {c}) \cup {b}
    OBVIOUS
  <1> HIDE DEF f
  <1>5. CommitsOK({f[x] : x \in commits})
    BY <1>3, CommitsGoOn
  <1> QED
    BY <1>4, <1>5 DEF b

\* and when Write starts one for a request that has none.
LEMMA WriteOK ==
    ASSUME CommitsOK(commits), NEW l \in Domain, NEW r \in Request, ~Joins(l, r),
           NEW e \in Entry, e.request = r
    PROVE  CommitsOK(commits \cup {NewCommit(l, e)})
  <1> DEFINE n == NewCommit(l, e)
  <1>1. n \in Commits /\ n.leader = l /\ n.entry = e
    BY DEF NewCommit, Commits
  <1> HIDE DEF n
  <1>2. \A c \in commits : ~(c.leader = n.leader /\ c.entry.request = n.entry.request)
    BY <1>1 DEF Joins
  <1>3. commits \cup {n} \subseteq Commits
    BY <1>1 DEF CommitsOK
  <1> QED
    BY <1>2, <1>3 DEF CommitsOK, n

\* The parts of the type invariant about roles and about messages.
RolesOK ==
    /\ leads \in [Domain -> Nat] /\ follows \in [Domain -> Domain \cup {None}]
    /\ serving \in Domain \cup {None} /\ replaced \subseteq Domain
MessagesOK ==
    /\ pendingFast \in [Domain -> SUBSET Entry]
    /\ announces \subseteq [entry : Entry, leader : Domain, responder : Domain]
    /\ notices \subseteq [term : Nat, sender : Domain, entry : Entry]
    /\ answers \subseteq Entry

\* The type invariant by parts.
LEMMA TypeParts ==
    ReplicationTypeOK <=> /\ state \in [Domain -> ReplicaState] /\ disk \in [Domain -> ReplicaState]
                          /\ RolesOK /\ MessagesOK /\ CommitsOK(commits)
  BY DEF ReplicationTypeOK, RolesOK, MessagesOK, CommitsOK

\* Only an election makes a leader.
LEMMA RolesStep ==
    ASSUME ReplicationInv, [Next]_vars
    PROVE  /\ RolesOK'
           /\ \/ \A d \in Domain : leads'[d] \in {leads[d], 0}
              \/ \E c \in Domain : \E voters \in SUBSET Domain : Elect(c, voters)
  <1> DEFINE Goal == /\ RolesOK'
                     /\ \/ \A d \in Domain : leads'[d] \in {leads[d], 0}
                        \/ \E c \in Domain : \E voters \in SUBSET Domain : Elect(c, voters)
  <1>1. RolesOK
    BY TypeParts DEF ReplicationInv
  <1>2. ASSUME UNCHANGED roleVars PROVE Goal
    BY <1>1, <1>2 DEF roleVars, RolesOK
  <1>3. ASSUME NEW c \in Domain, NEW voters \in SUBSET Domain, Elect(c, voters) PROVE Goal
    <2>1. state[c].GlobalTerm + 1 \in Nat
      BY NodeFacts
    <2>2. /\ leads' = [d \in Domain |-> IF d = c THEN state[c].GlobalTerm + 1
                                        ELSE IF d \in voters THEN 0 ELSE leads[d]]
          /\ follows' = [d \in Domain |-> IF d \in voters THEN c ELSE follows[d]]
          /\ serving' = c /\ replaced' = replaced
      BY <1>3 DEF Elect
    <2>3. RolesOK'
      BY <1>1, <2>1, <2>2 DEF RolesOK
    <2> QED
      BY <1>3, <2>3
  <1>4. ASSUME NEW l \in Domain, NEW d \in Domain, HeartbeatGlobal(l, d) PROVE Goal
    BY <1>1, <1>4 DEF HeartbeatGlobal, RolesOK
  <1>19. ASSUME NEW d \in Domain,
                leads' = [leads EXCEPT ![d] = 0], follows' = [follows EXCEPT ![d] = None],
                serving' = (IF serving = d THEN None ELSE serving),
                replaced' \in {replaced, replaced \cup {d}}
         PROVE  Goal
    <2>1. leads' \in [Domain -> Nat] /\ \A x \in Domain : leads'[x] \in {leads[x], 0}
      BY <1>1, <1>19 DEF RolesOK
    <2>2. follows' \in [Domain -> Domain \cup {None}]
      BY <1>1, <1>19 DEF RolesOK
    <2>3. serving' \in Domain \cup {None} /\ replaced' \subseteq Domain
      BY <1>1, <1>19 DEF RolesOK
    <2> QED
      BY <2>1, <2>2, <2>3 DEF RolesOK
  <1>5. ASSUME NEW d \in Domain, NEW t \in 1..MaxTerm, StepDown(d, t) PROVE Goal
    <2>1. /\ leads' = [leads EXCEPT ![d] = 0] /\ follows' = [follows EXCEPT ![d] = None]
          /\ serving' = (IF serving = d THEN None ELSE serving) /\ replaced' = replaced
      BY <1>5 DEF StepDown
    <2> HIDE DEF Goal
    <2> QED
      BY <1>19, <2>1, Zenon
  <1>6. ASSUME NEW d \in Domain, NEW s, Replaced(d, s) PROVE Goal
    <2>1. /\ leads' = [leads EXCEPT ![d] = 0] /\ follows' = [follows EXCEPT ![d] = None]
          /\ serving' = (IF serving = d THEN None ELSE serving) /\ replaced' = replaced \cup {d}
      BY <1>6 DEF Replaced
    <2> HIDE DEF Goal
    <2> QED
      BY <1>19, <2>1, Zenon
  <1> HIDE DEF Goal
  <1>7. ASSUME NEW d \in Domain, Restart(d) PROVE Goal
    BY <1>6, <1>7 DEF Restart
  <1>8. ASSUME NEW d \in Domain, NEW n \in 0..MaxIndex, TakeOver(d, n) PROVE Goal
    BY <1>6, <1>8 DEF TakeOver
  <1>9. ASSUME NEW d \in Domain, Tick(d) \/ reconfirmDomainQuorum(d) PROVE Goal
    BY <1>2, <1>9 DEF Tick, reconfirmDomainQuorum
  <1>10. ASSUME NEW d \in Domain, NEW r \in Request, Write(d, r) \/ GlobalResponse(d, r) PROVE Goal
    BY <1>2, <1>10 DEF Write, GlobalResponse
  <1>11. ASSUME NEW d \in Domain, NEW reached \in SUBSET (Domain \ {d}), recoverCommittedPrefix(d, reached)
         PROVE  Goal
    BY <1>2, <1>11 DEF recoverCommittedPrefix
  <1>12. ASSUME NEW d \in Domain, NEW n \in notices, Commit(d, n) PROVE Goal
    BY <1>2, <1>12 DEF Commit
  <1>13. ASSUME NEW c \in commits, NEW d \in Domain, Probe(c, d) \/ Backfill(c, d) \/ Collect(c, d)
         PROVE  Goal
    BY <1>2, <1>13 DEF Probe, Backfill, Collect
  <1>14. ASSUME NEW c \in commits, NEW d \in Domain, NEW quorum \in BOOLEAN, Replicate(c, d, quorum)
         PROVE  Goal
    BY <1>2, <1>14 DEF Replicate
  <1>15. ASSUME NEW c \in commits, EndCommit(c) PROVE Goal
    BY <1>2, <1>15 DEF EndCommit
  <1>16. ASSUME NEW a \in announces, AnnounceGlobalDomainQuorum(a) PROVE Goal
    BY <1>2, <1>16 DEF AnnounceGlobalDomainQuorum
  <1>17. ASSUME UNCHANGED vars PROVE Goal
    <2>1. UNCHANGED roleVars
      BY <1>17 DEF vars
    <2> QED
      BY <1>2, <2>1
  <1>20. Next \/ UNCHANGED vars
    OBVIOUS
  <1>18. Goal
    BY <1>20, <1>3, <1>4, <1>5, <1>7, <1>8, <1>9, <1>10, <1>11, <1>12, <1>13, <1>14, <1>15, <1>16, <1>17,
       Zenon DEF Next
  <1> QED
    BY <1>18 DEF Goal

\* An answer of Fast Return is for the entry itself.
LEMMA FastAnswer ==
    ASSUME NEW s, NEW d, NEW e
    PROVE  deliverFastReturn(s, d, e) \subseteq {e}
  BY DEF deliverFastReturn

\* The actions that touch messages or commits, one by one.
LEMMA GlobalResponseOK ==
    ASSUME ReplicationInv, NEW l \in Domain, NEW r \in Request, GlobalResponse(l, r)
    PROVE  answers' \subseteq Entry
  <1> DEFINE decision == state[l].Results[r]
             a == [index |-> decision.index, term |-> decision.term, request |-> r]
  <1>1. answers \subseteq Entry
    BY TypeParts DEF ReplicationInv, MessagesOK
  <1>2. decision # NoDecision /\ answers' = answers \cup {a}
    BY DEF GlobalResponse
  <1>3. state[l].Results \in [Request -> Decision \cup {NoDecision}]
    BY NodeFacts DEF ReplicaState
  <1>4. decision \in Decision
    BY <1>2, <1>3
  <1> HIDE DEF decision
  <1>5. a \in Entry
    BY <1>4 DEF Decision, Entry
  <1> QED
    BY <1>1, <1>2, <1>5

\* What replicateAndCommit announces and notifies is well formed.
LEMMA CollectMessages ==
    ASSUME ReplicationInv, NEW c \in commits, NEW d \in Domain, Collect(c, d)
    PROVE  MessagesOK' /\ CommitsOK(commits')
  <1> DEFINE l == c.leader
             e == c.entry
             s == RaiseQuorum(state[l], d, e.index)
             commit == ~c.committed /\ TwoDomains(l, c.quorums \cup {d})
             announcement(p) == [entry |-> e, leader |-> l, responder |-> p]
             notice == [term |-> s.GlobalTerm, sender |-> l, entry |-> e]
  <1>1. MessagesOK /\ CommitsOK(commits)
    BY TypeParts DEF ReplicationInv
  <1>2. l \in Domain /\ e \in Entry
    BY CommitFacts
  <1>3. /\ commits' = (commits \ {c}) \cup
             {[c EXCEPT !.acks = @ \ {d}, !.quorums = c.quorums \cup {d}, !.committed = @ \/ commit]}
        /\ announces' = announces \/ \E p \in Responders(e.request, l) :
             announces' = announces \cup {announcement(p)}
        /\ notices' = notices \/ notices' = notices \cup {notice}
        /\ pendingFast' = pendingFast /\ answers' = answers
    BY DEF Collect, commitAcrossDomains
  <1>4. (c.committed \/ commit) \in BOOLEAN
    OBVIOUS
  <1>5. CommitsOK(commits')
    <2> DEFINE done == c.committed \/ commit
    <2>1. commits' = (commits \ {c}) \cup
             {[c EXCEPT !.acks = @ \ {d}, !.quorums = c.quorums \cup {d}, !.committed = done]}
      BY <1>3
    <2>2. done \in BOOLEAN
      BY <1>4
    <2> HIDE DEF done
    <2> QED
      BY <1>1, <2>1, <2>2, CollectOK
  <1>6. Responders(e.request, l) \subseteq Domain
    BY DEF Responders
  <1>7. announces' \subseteq [entry : Entry, leader : Domain, responder : Domain]
    <2>1. \A p \in Domain : announcement(p) \in [entry : Entry, leader : Domain, responder : Domain]
      BY <1>2
    <2> HIDE DEF announcement, e
    <2> QED
      BY <1>1, <1>3, <1>6, <2>1 DEF MessagesOK
  <1>8. s.GlobalTerm \in Nat
    BY <1>2, NodeFacts, TermKept
  <1> HIDE DEF s, e, l
  <1>9. notice \in [term : Nat, sender : Domain, entry : Entry]
    BY <1>2, <1>8
  <1> HIDE DEF notice
  <1>10. notices' \subseteq [term : Nat, sender : Domain, entry : Entry]
    BY <1>1, <1>3, <1>9 DEF MessagesOK
  <1> QED
    BY <1>1, <1>3, <1>5, <1>7, <1>10 DEF MessagesOK

\* So are the answers of Replicate,
LEMMA ReplicateMessages ==
    ASSUME ReplicationInv, NEW c \in commits, NEW d \in Domain, NEW quorum \in BOOLEAN,
           Replicate(c, d, quorum)
    PROVE  MessagesOK' /\ CommitsOK(commits')
  <1> DEFINE e == c.entry
             live == LivePending(d, e)
  <1>1. MessagesOK /\ CommitsOK(commits)
    BY TypeParts DEF ReplicationInv
  <1>2. e \in Entry
    BY CommitFacts
  <1>3. /\ pendingFast' = [pendingFast EXCEPT ![d] = live]
        /\ announces' = announces /\ notices' = notices
        /\ commits' = commits \/ commits' = Acknowledged(c.leader, e, d)
    BY DEF Replicate
  <1>4. answers' = answers \/ \E s : answers' = answers \cup deliverFastReturn(s, d, e)
    BY DEF Replicate
  <1>5. answers' \subseteq Entry
    BY <1>1, <1>2, <1>4, FastAnswer DEF MessagesOK
  <1>6. live \subseteq Entry
    BY <1>1 DEF LivePending, MessagesOK
  <1> HIDE DEF live
  <1>7. pendingFast' \in [Domain -> SUBSET Entry]
    BY <1>1, <1>3, <1>6 DEF MessagesOK
  <1>8. CommitsOK(commits')
    BY <1>1, <1>3, AcknowledgedOK
  <1> QED
    BY <1>1, <1>3, <1>5, <1>7, <1>8 DEF MessagesOK

\* those of the entries that were sent later,
LEMMA BackfillMessages ==
    ASSUME ReplicationInv, NEW c \in commits, NEW d \in Domain, Backfill(c, d)
    PROVE  MessagesOK' /\ CommitsOK(commits')
  <1>1. MessagesOK /\ CommitsOK(commits)
    BY TypeParts DEF ReplicationInv
  <1>2. PICK live : live \subseteq pendingFast[d]
                 /\ pendingFast' = [pendingFast EXCEPT ![d] = live]
                 /\ answers' \subseteq answers \cup live
    <2> DEFINE l == c.leader
               behind == LastLogIndex(state[d]) < state[l].SnapshotLastIndex
               snap == BuildSnapshot(state[l])
               s == IF behind THEN Installed(state[d], d, snap) ELSE state[d]
               tail == collectTailEntries(state[l], LastLogIndex(s), c.entry.index)
               live == IF behind THEN {p \in pendingFast[d] : p.index > snap.index} ELSE pendingFast[d]
               t == Relayed(d, state[l], live, s, tail)
    <2>1. /\ pendingFast' = [pendingFast EXCEPT ![d] = live]
          /\ answers' = answers \cup UNION {deliverFastReturn(t, d, x) : x \in Range(tail) \cap live}
      BY DEF Backfill
    <2>2. live \subseteq pendingFast[d]
      OBVIOUS
    <2> HIDE DEF live, tail, t
    <2>3. \A x \in Range(tail) \cap live : deliverFastReturn(t, d, x) \subseteq live
      BY FastAnswer
    <2>4. answers' \subseteq answers \cup live
      BY <2>1, <2>3
    <2> QED
      BY <2>1, <2>2, <2>4
  <1>3. /\ announces' = announces /\ notices' = notices
        /\ commits' = commits \/ commits' = Acknowledged(c.leader, c.entry, d)
    BY DEF Backfill
  <1>4. live \subseteq Entry /\ pendingFast' \in [Domain -> SUBSET Entry]
    BY <1>1, <1>2 DEF MessagesOK
  <1>5. answers' \subseteq Entry
    BY <1>1, <1>2, <1>4 DEF MessagesOK
  <1>6. CommitsOK(commits')
    BY <1>1, <1>3, AcknowledgedOK
  <1> QED
    BY <1>1, <1>3, <1>4, <1>5, <1>6 DEF MessagesOK

\* those of an announcement,
LEMMA AnnounceMessages ==
    ASSUME ReplicationInv, NEW a \in announces, AnnounceGlobalDomainQuorum(a)
    PROVE  MessagesOK' /\ CommitsOK(commits')
  <1> DEFINE d == a.responder
             e == a.entry
             pending == {p \in pendingFast[d] : p.index # e.index} \cup {e}
  <1>1. MessagesOK /\ CommitsOK(commits)
    BY TypeParts DEF ReplicationInv
  <1>2. a \in [entry : Entry, leader : Domain, responder : Domain]
    BY <1>1 DEF MessagesOK
  <1>3. d \in Domain /\ e \in Entry
    BY <1>2
  <1>4. /\ announces' = announces \ {a} /\ commits' = commits /\ notices' = notices
        /\ pendingFast' = [pendingFast EXCEPT ![d] = {p \in @ : p.index # e.index} \cup {e}]
        /\ answers' = answers \/ \E s : answers' = answers \cup deliverFastReturn(s, d, e)
    BY DEF AnnounceGlobalDomainQuorum
  <1>5. pending \subseteq Entry /\ pendingFast' = [pendingFast EXCEPT ![d] = pending]
    BY <1>1, <1>3, <1>4 DEF MessagesOK
  <1> HIDE DEF pending
  <1>6. pendingFast' \in [Domain -> SUBSET Entry]
    BY <1>1, <1>3, <1>5 DEF MessagesOK
  <1>7. answers' \subseteq Entry
    BY <1>1, <1>3, <1>4, FastAnswer DEF MessagesOK
  <1> QED
    BY <1>1, <1>4, <1>6, <1>7 DEF MessagesOK

\* the notice of recoverCommittedPrefix
LEMMA RecoverMessages ==
    ASSUME ReplicationInv, NEW l \in Domain, NEW reached \in SUBSET (Domain \ {l}),
           recoverCommittedPrefix(l, reached)
    PROVE  MessagesOK' /\ CommitsOK(commits')
  <1>0. PICK marks \in [Domain -> Nat], target \in Nat :
          /\ Recovers(l, marks, target)
          /\ \A d \in Domain : state[l].DomainQuorumIndex[d] <= marks[d]
          /\ target <= state[l].DomainQuorumIndex[l]
          /\ Found(state[l].Log, target) => EntryAt(state[l].Log, target) \in Entry
    BY RecoverFacts
  <1> DEFINE s == [state[l] EXCEPT !.DomainQuorumIndex = marks]
             e == EntryAt(state[l].Log, target)
             notice == [term |-> s.GlobalTerm, sender |-> l, entry |-> e]
  <1>1. MessagesOK /\ CommitsOK(commits)
    BY TypeParts DEF ReplicationInv
  <1>2. /\ pendingFast' = pendingFast /\ announces' = announces /\ commits' = commits
        /\ answers' = answers
    BY <1>0 DEF Recovers, fastVars
  <1>3. notices' = notices \/ (Found(state[l].Log, target) /\ notices' = notices \cup {notice})
    BY <1>0 DEF Recovers
  <1>4. Found(state[l].Log, target) => e \in Entry
    BY <1>0
  <1> HIDE DEF e
  <1>5. s.GlobalTerm \in Nat
    BY NodeFacts, TermKept
  <1> HIDE DEF s
  <1>6. notices' \subseteq [term : Nat, sender : Domain, entry : Entry]
    <2>1. e \in Entry => notice \in [term : Nat, sender : Domain, entry : Entry]
      BY <1>5
    <2> HIDE DEF notice
    <2> QED
      BY <1>1, <1>3, <1>4, <2>1 DEF MessagesOK
  <1> QED
    BY <1>1, <1>2, <1>6 DEF MessagesOK

\* and the commit that Write starts.
LEMMA WriteMessages ==
    ASSUME ReplicationInv, NEW l \in Domain, NEW r \in Request, Write(l, r)
    PROVE  MessagesOK' /\ CommitsOK(commits')
  <1> DEFINE s == state[l]
             at == OrderedAt(s, r)
             new == [index |-> LastLogIndex(s) + 1, term |-> leads[l], request |-> r]
             e == IF at = {} THEN new ELSE s.Log[Min(at)]
  <1>1. MessagesOK /\ CommitsOK(commits)
    BY TypeParts DEF ReplicationInv
  <1>2. /\ leads[l] # 0 /\ ~Joins(l, r) /\ commits' = commits \cup {NewCommit(l, e)}
        /\ pendingFast' = pendingFast /\ announces' = announces /\ notices' = notices
        /\ answers' = answers
    BY DEF Write, fastVars
  <1>3. new \in Entry /\ new.request = r /\ (at # {} => s.Log[Min(at)] \in Entry /\ s.Log[Min(at)].request = r)
    BY <1>2, WriteEntry
  <1> HIDE DEF new, at, s
  <1>4. e \in Entry /\ e.request = r
    BY <1>3
  <1> HIDE DEF e
  <1>5. CommitsOK(commits')
    BY <1>1, <1>2, <1>4, WriteOK
  <1> QED
    BY <1>1, <1>2, <1>5 DEF MessagesOK

\* All steps together.
LEMMA MessagesStep ==
    ASSUME ReplicationInv, [Next]_vars
    PROVE  MessagesOK' /\ CommitsOK(commits')
  <1> DEFINE Goal == MessagesOK' /\ CommitsOK(commits')
  <1>1. MessagesOK /\ CommitsOK(commits)
    BY TypeParts DEF ReplicationInv
  <1>2. ASSUME UNCHANGED <<fastVars, notices, answers>>, CommitsOK(commits') PROVE Goal
    BY <1>1, <1>2 DEF MessagesOK, fastVars
  <1> HIDE DEF Goal
  <1>3. ASSUME UNCHANGED <<fastVars, notices, answers>>, UNCHANGED commits PROVE Goal
    BY <1>1, <1>2, <1>3
  <1>4. ASSUME NEW c \in Domain, NEW voters \in SUBSET Domain, Elect(c, voters) PROVE Goal
    <2>1. UNCHANGED <<fastVars, notices, answers>> /\ commits' \in SUBSET commits
      BY <1>4 DEF Elect
    <2>2. CommitsOK(commits')
      BY <1>1, <2>1, FewerCommits
    <2> QED
      BY <1>2, <2>1, <2>2
  <1>5. ASSUME NEW l \in Domain, NEW d \in Domain, HeartbeatGlobal(l, d) PROVE Goal
    BY <1>3, <1>5 DEF HeartbeatGlobal
  <1>6. ASSUME NEW d \in Domain, NEW t \in 1..MaxTerm, StepDown(d, t) PROVE Goal
    BY <1>3, <1>6 DEF StepDown
  <1>7. ASSUME NEW d \in Domain, NEW s, Replaced(d, s) PROVE Goal
    <2>1. /\ pendingFast' = [pendingFast EXCEPT ![d] = {}] /\ commits' \in SUBSET commits
          /\ announces' = announces /\ notices' = notices /\ answers' = answers
      BY <1>7 DEF Replaced
    <2>2. CommitsOK(commits')
      BY <1>1, <2>1, FewerCommits
    <2>3. MessagesOK'
      BY <1>1, <2>1 DEF MessagesOK
    <2> QED
      BY <2>2, <2>3 DEF Goal
  <1>8. ASSUME NEW d \in Domain, Restart(d) PROVE Goal
    BY <1>7, <1>8 DEF Restart
  <1>9. ASSUME NEW d \in Domain, NEW n \in 0..MaxIndex, TakeOver(d, n) PROVE Goal
    BY <1>7, <1>9 DEF TakeOver
  <1>10. ASSUME NEW d \in Domain, Tick(d) \/ reconfirmDomainQuorum(d) PROVE Goal
    BY <1>3, <1>10 DEF Tick, reconfirmDomainQuorum
  <1>11. ASSUME NEW d \in Domain, NEW r \in Request, Write(d, r) PROVE Goal
    BY <1>11, WriteMessages DEF Goal
  <1>12. ASSUME NEW d \in Domain, NEW r \in Request, GlobalResponse(d, r) PROVE Goal
    <2>1. answers' \subseteq Entry
      BY <1>12, GlobalResponseOK
    <2>2. UNCHANGED <<pendingFast, announces, notices, commits>>
      BY <1>12 DEF GlobalResponse, fastVars
    <2> QED
      BY <1>1, <2>1, <2>2 DEF Goal, MessagesOK
  <1>13. ASSUME NEW d \in Domain, NEW reached \in SUBSET (Domain \ {d}), recoverCommittedPrefix(d, reached)
         PROVE  Goal
    BY <1>13, RecoverMessages DEF Goal
  <1>14. ASSUME NEW d \in Domain, NEW n \in notices, Commit(d, n) PROVE Goal
    BY <1>3, <1>14 DEF Commit
  <1>15. ASSUME NEW c \in commits, NEW d \in Domain, Probe(c, d) PROVE Goal
    <2>1. UNCHANGED <<fastVars, notices, answers>> /\ commits' = Acknowledged(c.leader, c.entry, d)
      BY <1>15 DEF Probe
    <2>2. CommitsOK(commits')
      BY <1>1, <2>1, AcknowledgedOK
    <2> QED
      BY <1>2, <2>1, <2>2
  <1>16. ASSUME NEW c \in commits, NEW d \in Domain, Backfill(c, d) \/ Collect(c, d) PROVE Goal
    BY <1>16, BackfillMessages, CollectMessages DEF Goal
  <1>17. ASSUME NEW c \in commits, NEW d \in Domain, NEW quorum \in BOOLEAN, Replicate(c, d, quorum)
         PROVE  Goal
    BY <1>17, ReplicateMessages DEF Goal
  <1>18. ASSUME NEW c \in commits, EndCommit(c) PROVE Goal
    <2>1. UNCHANGED <<fastVars, notices, answers>> /\ commits' \in SUBSET commits
      BY <1>18 DEF EndCommit
    <2>2. CommitsOK(commits')
      BY <1>1, <2>1, FewerCommits
    <2> QED
      BY <1>2, <2>1, <2>2
  <1>19. ASSUME NEW a \in announces, AnnounceGlobalDomainQuorum(a) PROVE Goal
    BY <1>19, AnnounceMessages DEF Goal
  <1>20. ASSUME UNCHANGED vars PROVE Goal
    <2>1. UNCHANGED <<fastVars, notices, answers>> /\ UNCHANGED commits
      BY <1>20 DEF vars
    <2> QED
      BY <1>3, <2>1
  <1>21. Next \/ UNCHANGED vars
    OBVIOUS
  <1>22. Goal
    BY <1>4, <1>5, <1>6, <1>8, <1>9, <1>10, <1>11, <1>12, <1>13, <1>14, <1>15, <1>16, <1>17, <1>18,
       <1>19, <1>20, <1>21, Zenon DEF Next
  <1> QED
    BY <1>22 DEF Goal

-----------------------------------------------------------------------------
(* One leader per term.                                                    *)

\* Two sets of domains that are large enough to elect somebody have one in common.
LEMMA ElectionsMeet ==
    ASSUME NEW S \in SUBSET Domain, NEW T \in SUBSET Domain, NEW x \in Domain,
           Cardinality(S) >= globalElectionThreshold, Cardinality(T) >= globalElectionThreshold
    PROVE  S \cap T # {}
  <1> DEFINE n == Cardinality(Domain)
  <1>1. IsFiniteSet(Domain) /\ n \in Nat
    BY ReplicationAssumption, FS_CardinalityType
  <1>2. n # 0
    BY <1>1, FS_EmptySet
  <1>3. Cardinality(S) \in Nat /\ Cardinality(T) \in Nat
    BY <1>1, FS_Subset, FS_CardinalityType
  <1>4. globalElectionThreshold = IF n <= 2 THEN n ELSE n - 1
    BY DEF globalElectionThreshold
  <1> HIDE DEF n
  <1>5. Cardinality(S) + Cardinality(T) > n
    BY <1>1, <1>2, <1>3, <1>4
  <1> QED
    BY <1>1, <1>5, FS_MajoritiesIntersect DEF n

\* Terms that have been reached stay reached, and the voters of an election reach its term.
LEMMA LeadersStep ==
    ASSUME ReplicationInv, NodesGoOn, RolesOK',
           \/ \A d \in Domain : leads'[d] \in {leads[d], 0}
           \/ \E c \in Domain : \E voters \in SUBSET Domain : Elect(c, voters)
    PROVE  LeadersElected' /\ OneLeaderPerTerm'
  <1> DEFINE Later(t) == {d \in Domain : state'[d].GlobalTerm >= t}
             enough == globalElectionThreshold
  <1>1. /\ leads \in [Domain -> Nat] /\ leads' \in [Domain -> Nat]
        /\ LeadersElected /\ OneLeaderPerTerm
    BY NodeFacts DEF RolesOK, ReplicationInv
  <1>2. \A d \in Domain : /\ state[d].GlobalTerm \in Nat /\ state'[d].GlobalTerm \in Nat
                          /\ state[d].GlobalTerm <= state'[d].GlobalTerm
    <2>1. \A d \in Domain : state'[d] \in ReplicaState /\ state[d].GlobalTerm <= state'[d].GlobalTerm
      BY DEF NodesGoOn
    <2>2. \A d \in Domain : state'[d].GlobalTerm \in Nat
      BY <2>1 DEF ReplicaState
    <2> QED
      BY <2>1, <2>2, NodeFacts
  <1>3. enough \in Int
    BY ReplicationAssumption, FS_CardinalityType DEF globalElectionThreshold
  <1>4. \A S \in SUBSET Domain : Cardinality(S) \in Nat
    BY ReplicationAssumption, FS_Subset, FS_CardinalityType
  <1>5. ASSUME NEW S \in SUBSET Domain, NEW T \in SUBSET Domain, S \subseteq T, Cardinality(S) >= enough
        PROVE  Cardinality(T) >= enough
    <2>1. IsFiniteSet(T)
      BY ReplicationAssumption, FS_Subset
    <2>2. Cardinality(S) <= Cardinality(T)
      BY <1>5, <2>1, FS_Subset
    <2> HIDE DEF enough
    <2> QED
      BY <1>3, <1>4, <1>5, <2>2
  <1> HIDE DEF enough
  <1>6. ASSUME NEW t \in Nat, Cardinality(Reached(t)) >= enough PROVE Cardinality(Later(t)) >= enough
    <2>1. Reached(t) \in SUBSET Domain /\ Later(t) \in SUBSET Domain /\ Reached(t) \subseteq Later(t)
      BY <1>2 DEF Reached
    <2> HIDE DEF Later
    <2> QED
      BY <1>5, <1>6, <2>1
  <1>7. \A d \in Domain : leads[d] # 0 => Cardinality(Reached(leads[d])) >= enough
    BY <1>1 DEF LeadersElected, enough
  <1>8. \A d \in Domain : leads[d] # 0 => Cardinality(Later(leads[d])) >= enough
    <2> HIDE DEF Later
    <2> QED
      BY <1>1, <1>6, <1>7
  <1>9. CASE \A d \in Domain : leads'[d] \in {leads[d], 0}
    <2>1. \A d \in Domain : leads'[d] # 0 => leads'[d] = leads[d]
      BY <1>9
    <2>2. \A d \in Domain : leads'[d] # 0 => Cardinality(Later(leads'[d])) >= enough
      BY <1>8, <2>1
    <2>3. LeadersElected'
      BY <2>2 DEF LeadersElected, Reached, enough
    <2>4. OneLeaderPerTerm'
      BY <1>1, <2>1 DEF OneLeaderPerTerm
    <2> QED
      BY <2>3, <2>4
  <1>10. ASSUME NEW c \in Domain, NEW voters \in SUBSET Domain, Elect(c, voters)
         PROVE  LeadersElected' /\ OneLeaderPerTerm'
    <2> DEFINE t == state[c].GlobalTerm + 1
    <2>1. /\ c \in voters /\ Cardinality(voters) = enough
          /\ \A v \in voters \ {c} : state[v].GlobalTerm < t
          /\ state' = [d \in Domain |-> IF d \in voters THEN [state[d] EXCEPT !.GlobalTerm = t]
                                                        ELSE state[d]]
          /\ leads' = [d \in Domain |-> IF d = c THEN t ELSE IF d \in voters THEN 0 ELSE leads[d]]
      BY <1>10 DEF Elect, enough
    <2>2. t \in Nat /\ t # 0 /\ state[c].GlobalTerm < t
      BY <1>2
    <2> HIDE DEF t
    <2>3. \A v \in voters : state[v].GlobalTerm \in Nat /\ state[v].GlobalTerm < t
      BY <1>2, <2>1, <2>2
    <2>4. \A v \in voters : state'[v].GlobalTerm = t
      <3>1. \A v \in voters : [state[v] EXCEPT !.GlobalTerm = t].GlobalTerm = t
        BY NodeFacts DEF ReplicaState
      <3> QED
        BY <2>1, <3>1
    <2>5. \A d \in Domain : leads'[d] # 0 => (d = c /\ leads'[d] = t) \/ (d # c /\ leads'[d] = leads[d])
      BY <2>1
    <2>6. leads'[c] = t
      BY <2>1
    <2>7. Cardinality(Later(t)) >= enough
      <3>1. voters \in SUBSET Domain /\ Later(t) \in SUBSET Domain /\ voters \subseteq Later(t)
        BY <2>2, <2>4
      <3>2. Cardinality(voters) >= enough
        BY <1>3, <2>1
      <3> HIDE DEF Later
      <3> QED
        BY <1>5, <3>1, <3>2
    <2>8. \A d \in Domain : leads'[d] # 0 => Cardinality(Later(leads'[d])) >= enough
      <3> HIDE DEF Later
      <3> QED
        BY <1>8, <2>5, <2>7
    <2>9. LeadersElected'
      BY <2>8 DEF LeadersElected, Reached, enough
    <2>10. ASSUME NEW d \in Domain, d # c, leads'[d] = t PROVE FALSE
      <3>1. leads[d] = t
        BY <2>2, <2>5, <2>10
      <3>2. Cardinality(Reached(t)) >= enough /\ Reached(t) \in SUBSET Domain
        BY <1>7, <2>2, <3>1 DEF Reached
      <3>3. Cardinality(voters) >= enough
        BY <1>3, <2>1
      <3>4. PICK v : v \in Reached(t) /\ v \in voters
        BY <3>2, <3>3, ElectionsMeet DEF enough
      <3>5. state[v].GlobalTerm >= t
        BY <3>4 DEF Reached
      <3> QED
        BY <2>2, <2>3, <3>4, <3>5
    <2>11. OneLeaderPerTerm'
      <3> SUFFICES ASSUME NEW x \in Domain, NEW y \in Domain, leads'[x] = leads'[y], leads'[x] # 0
                   PROVE  x = y
        BY DEF OneLeaderPerTerm
      <3>1. CASE x = c \/ y = c
        BY <2>6, <2>10, <3>1
      <3>2. CASE x # c /\ y # c
        <4>1. leads[x] = leads[y] /\ leads[x] # 0
          BY <2>5, <3>2
        <4> QED
          BY <1>1, <4>1 DEF OneLeaderPerTerm
      <3> QED
        BY <3>1, <3>2
    <2> QED
      BY <2>9, <2>11
  <1> QED
    BY <1>9, <1>10

-----------------------------------------------------------------------------
(* The theorems.                                                           *)

\* The inductive invariant holds at first,
LEMMA InitReplicationInv == Init => ReplicationInv
  <1> SUFFICES ASSUME Init PROVE ReplicationInv
    OBVIOUS
  <1>1. Windowed(NewState) /\ NewState \in ReplicaState
    BY NewStateWindowed, WindowedState
  <1>2. /\ state = [d \in Domain |-> NewState] /\ disk = state /\ leads = [d \in Domain |-> 0]
        /\ follows = [d \in Domain |-> None] /\ serving = None /\ commits = {}
        /\ pendingFast = [d \in Domain |-> {}] /\ announces = {} /\ notices = {}
        /\ answers = {} /\ replaced = {}
    BY DEF Init
  <1>3. ReplicationTypeOK
    BY <1>1, <1>2 DEF ReplicationTypeOK
  <1>4. LeadersElected /\ OneLeaderPerTerm
    BY <1>2 DEF LeadersElected, OneLeaderPerTerm
  <1>5. \A d \in Domain : Windowed(state[d]) /\ Windowed(disk[d]) /\ disk[d] = state[d]
    BY <1>1, <1>2
  <1> QED
    BY <1>3, <1>4, <1>5, ReplicationAssumption DEF ReplicationInv

\* and every step keeps it.
LEMMA NextReplicationInv == ReplicationInv /\ [Next]_vars => ReplicationInv'
  <1> SUFFICES ASSUME ReplicationInv, [Next]_vars PROVE ReplicationInv'
    OBVIOUS
  <1>1. NodesGoOn
    BY NodesStep
  <1>2. RolesOK' /\ (\/ \A d \in Domain : leads'[d] \in {leads[d], 0}
                     \/ \E c \in Domain : \E voters \in SUBSET Domain : Elect(c, voters))
    BY RolesStep
  <1>3. MessagesOK' /\ CommitsOK(commits')
    BY MessagesStep
  <1>4. LeadersElected' /\ OneLeaderPerTerm'
    BY <1>1, <1>2, LeadersStep
  <1>5. /\ state' \in [Domain -> ReplicaState] /\ disk' \in [Domain -> ReplicaState]
        /\ \A d \in Domain : Windowed(state'[d]) /\ Windowed(disk'[d])
        /\ \A d \in MayRestart : disk'[d].GlobalTerm = state'[d].GlobalTerm
    BY <1>1 DEF NodesGoOn
  <1>6. ReplicationTypeOK'
    BY <1>2, <1>3, <1>5 DEF ReplicationTypeOK, RolesOK, MessagesOK, CommitsOK
  <1> QED
    BY <1>4, <1>5, <1>6 DEF ReplicationInv

\* The inductive invariant of the data path.
THEOREM ReplicationInvariant == Spec => []ReplicationInv
  BY InitReplicationInv, NextReplicationInv, PTL DEF Spec

\* Every variable of the data path keeps its Go type, and a leader never runs two commits of
\* one request (Write joins the one that is running).
THEOREM ReplicationTypeCorrect == Spec => []ReplicationTypeOK
  <1>1. ReplicationInv => ReplicationTypeOK
    BY DEF ReplicationInv
  <1> QED
    BY <1>1, ReplicationInvariant, PTL

\* campaignGlobal: no two domains ever lead the same global term, with any number of domains
\* and any crashes, because two electorates of globalElectionThreshold domains meet and every
\* term that a vote depends on is saved before it counts.
THEOREM GlobalTermsHaveOneLeader == Spec => []OneLeaderPerTerm
  <1>1. ReplicationInv => OneLeaderPerTerm
    BY DEF ReplicationInv
  <1> QED
    BY <1>1, ReplicationInvariant, PTL

\* No message, however late or repeated, makes a domain take back a commit: Replicate,
\* AnnounceGlobalDomainQuorum, Commit, catchUp, InstallSnapshot and recoverCommittedPrefix
\* only ever extend what a Domain Leader has committed, and terms never go back.
THEOREM CommitsAreKept == Spec => CommittedIsKept
  <1>1. ReplicationInv /\ [Next]_vars =>
          [\A d \in Domain : /\ state[d].GlobalTerm <= state'[d].GlobalTerm
                             /\ d \notin replaced' \ replaced => Keeps(state[d], state'[d])]_vars
    BY NodesStep DEF NodesGoOn
  <1> QED
    BY <1>1, ReplicationInvariant, PTL DEF Spec, CommittedIsKept

-----------------------------------------------------------------------------
(* Logs as sets of entries, and results as sets of decided ones.           *)

\* An entry is decided at a node if it is the result of its request.
LEMMA DecidedIs ==
    ASSUME NEW s \in ReplicaState
    PROVE  /\ DecidedBy(s) \subseteq Entry
           /\ \A e \in Entry : e \in DecidedBy(s) <=>
                s.Results[e.request] = [term |-> e.term, index |-> e.index]
  <1> DEFINE E(r) == [request |-> r, term |-> s.Results[r].term, index |-> s.Results[r].index]
             known == {x \in Request : s.Results[x] # NoDecision}
  <1>1. s.Results \in [Request -> Decision \cup {NoDecision}]
    BY DEF ReplicaState
  <1>2. DecidedBy(s) = {E(r) : r \in known}
    BY DEF DecidedBy
  <1>3. \A r \in known : s.Results[r] \in Decision
    BY <1>1
  <1>4. \A r \in known : /\ s.Results[r].term \in Nat \ {0} /\ s.Results[r].index \in Nat \ {0}
                         /\ s.Results[r] = [term |-> s.Results[r].term, index |-> s.Results[r].index]
    BY <1>3 DEF Decision
  <1>5. \A r \in known : E(r) \in Entry
    BY <1>4 DEF Entry
  <1>6. ASSUME NEW e \in Entry, e \in DecidedBy(s)
        PROVE  s.Results[e.request] = [term |-> e.term, index |-> e.index]
    <2>1. PICK r \in known : e = E(r)
      BY <1>2, <1>6
    <2>2. e.request = r /\ e.term = s.Results[r].term /\ e.index = s.Results[r].index
      BY <2>1
    <2> QED
      BY <1>4, <2>2
  <1>7. ASSUME NEW e \in Entry, s.Results[e.request] = [term |-> e.term, index |-> e.index]
        PROVE  e \in DecidedBy(s)
    <2>1. /\ e.request \in Request /\ e.term \in Nat \ {0} /\ e.index \in Nat \ {0}
          /\ e = [index |-> e.index, term |-> e.term, request |-> e.request]
      BY DEF Entry
    <2>2. s.Results[e.request] # NoDecision
      BY <1>7, <2>1 DEF NoDecision
    <2>3. s.Results[e.request].term = e.term /\ s.Results[e.request].index = e.index
      BY <1>7
    <2>4. e = E(e.request)
      BY <2>1, <2>3
    <2> QED
      BY <1>2, <2>1, <2>2, <2>4
  <1> HIDE DEF E, known
  <1>8. DecidedBy(s) \subseteq Entry
    BY <1>2, <1>5
  <1> QED
    BY <1>6, <1>7, <1>8

\* Each entry of a whole log is the one found at its index.
LEMMA LogRange ==
    ASSUME NEW s, Windowed(s)
    PROVE  /\ \A e \in Range(s.Log) :
                /\ e \in Entry /\ e.index \in Nat /\ e.term \in Nat \ {0}
                /\ e.index \in s.SnapshotLastIndex + 1 .. LastLogIndex(s)
                /\ EntryAt(s.Log, e.index) = e
           /\ \A i \in s.SnapshotLastIndex + 1 .. LastLogIndex(s) : EntryAt(s.Log, i) \in Range(s.Log)
           /\ \A e, f \in Range(s.Log) : e.index = f.index => e = f
  <1> DEFINE cut == s.SnapshotLastIndex
             n == Len(s.Log)
  <1>1. /\ DOMAIN s.Log = 1..n /\ n \in Nat /\ cut \in Nat /\ LastLogIndex(s) = cut + n
        /\ \A i \in 1..n : s.Log[i].index = cut + i /\ s.Log[i] \in Entry
        /\ \A i \in cut + 1 .. LastLogIndex(s) : i - cut \in 1..n /\ EntryAt(s.Log, i) = s.Log[i - cut]
    BY WindowedState
  <1>2. Range(s.Log) = {s.Log[i] : i \in 1..n}
    BY <1>1 DEF Range
  <1>3. ASSUME NEW e \in Range(s.Log)
        PROVE  /\ e \in Entry /\ e.index \in Nat /\ e.term \in Nat \ {0}
               /\ e.index \in cut + 1 .. LastLogIndex(s)
               /\ EntryAt(s.Log, e.index) = e
    <2>1. PICK i \in 1..n : e = s.Log[i]
      BY <1>2
    <2>2. e.index = cut + i /\ e \in Entry
      BY <1>1, <2>1
    <2>3. e.index \in cut + 1 .. LastLogIndex(s) /\ e.index - cut = i
      BY <1>1, <2>2
    <2>4. e.index \in Nat /\ e.term \in Nat \ {0}
      BY <2>2 DEF Entry
    <2> QED
      BY <1>1, <2>1, <2>2, <2>3, <2>4
  <1>4. \A i \in cut + 1 .. LastLogIndex(s) : EntryAt(s.Log, i) \in Range(s.Log)
    BY <1>1, <1>2
  <1>5. \A e, f \in Range(s.Log) : e.index = f.index => e = f
    BY <1>3
  <1> QED
    BY <1>3, <1>4, <1>5

\* What appendEntryChecked does to a log that accepts the entry.
LEMMA AppendRange ==
    ASSUME NEW s, Windowed(s), NEW e \in Entry, NEW prev, appendOutcome(s, e, prev) = "accepted"
    PROVE  LET t == appendEntryChecked(s, e)
           IN  \/ t = s
               \/ /\ Range(t.Log) = {f \in Range(s.Log) : f.index < e.index} \cup {e}
                  /\ t.Results = s.Results /\ t.SnapshotLastTerm = s.SnapshotLastTerm
                  /\ t.GlobalTerm = s.GlobalTerm
  <1> DEFINE i == e.index
             cut == s.SnapshotLastIndex
             n == Len(s.Log)
             keep == i - cut - 1
             pre == SubSeq(s.Log, 1, keep)
             log == Append(pre, e)
             s2 == [s EXCEPT !.Log = log]
             s3 == rollbackQuorumAbove(s2, i - 1)
             t == appendEntryChecked(s, e)
  <1>1. CASE i <= cut \/ (Found(s.Log, i) /\ Same(EntryAt(s.Log, i), e))
    BY <1>1 DEF appendEntryChecked
  <1>2. CASE ~(i <= cut \/ (Found(s.Log, i) /\ Same(EntryAt(s.Log, i), e)))
    <2>1. t \in {s2, s3}
      BY <1>2 DEF appendEntryChecked
    <2>2. /\ s \in ReplicaState /\ s.Log \in Seq(Entry) /\ n \in Nat /\ DOMAIN s.Log = 1..n
          /\ cut \in Nat /\ LastLogIndex(s) \in Nat /\ LastLogIndex(s) = cut + n
          /\ \A j \in 1..n : s.Log[j].index = cut + j
          /\ \A j \in Int : Found(s.Log, j) <=> j \in cut + 1 .. LastLogIndex(s)
      BY WindowedState
    <2>3. i \in Nat \ {0}
      BY DEF Entry
    <2>4. ~(i <= cut) /\ (Found(s.Log, i) \/ i = LastLogIndex(s) + 1)
      BY <1>2 DEF appendOutcome
    <2>5. keep \in Nat /\ keep <= n /\ cut + keep + 1 = i
      <3>1. i \in cut + 1 .. LastLogIndex(s) + 1
        BY <2>2, <2>3, <2>4
      <3> HIDE DEF cut, n, i
      <3> QED
        BY <2>2, <3>1
    <2>6. pre \in Seq(Entry) /\ Len(pre) = keep /\ \A j \in 1..keep : pre[j] = s.Log[j]
      BY <2>2, <2>5, CutLog
    <2> HIDE DEF pre, keep
    <2>7. /\ log \in Seq(Entry) /\ Len(log) = keep + 1
          /\ \A j \in 1..keep : log[j] = pre[j]
          /\ log[keep + 1] = e
      BY <2>5, <2>6, AppendProperties
    <2> HIDE DEF log
    <2>8. DOMAIN log = 1..keep + 1
      BY <2>7
    <2>9. Range(log) = {f \in Range(s.Log) : f.index < i} \cup {e}
      <3>1. ASSUME NEW f \in Range(log) PROVE f = e \/ (f \in Range(s.Log) /\ f.index < i)
        <4>1. PICK j \in 1..keep + 1 : f = log[j]
          BY <2>8 DEF Range
        <4>2. j = keep + 1 \/ j \in 1..keep
          BY <2>5
        <4>3. CASE j \in 1..keep
          <5>1. f = s.Log[j] /\ j \in 1..n
            BY <2>2, <2>5, <2>6, <2>7, <4>1, <4>3
          <5>2. f \in Range(s.Log) /\ f.index = cut + j
            BY <2>2, <5>1 DEF Range
          <5> QED
            BY <2>2, <2>3, <2>5, <4>3, <5>2
        <4> QED
          BY <2>7, <4>1, <4>2, <4>3
      <3>2. ASSUME NEW f \in Range(s.Log), f.index < i PROVE f \in Range(log)
        <4>1. PICK j \in 1..n : f = s.Log[j]
          BY <2>2 DEF Range
        <4>2. cut + j < i
          BY <2>2, <3>2, <4>1
        <4>3. j \in 1..keep /\ j \in 1..keep + 1
          BY <2>2, <2>3, <2>5, <4>2
        <4> QED
          BY <2>6, <2>7, <2>8, <4>1, <4>3 DEF Range
      <3>3. e \in Range(log)
        BY <2>5, <2>7, <2>8 DEF Range
      <3> QED
        BY <3>1, <3>2, <3>3
    <2>10. /\ s2 \in ReplicaState /\ s2.Log = log /\ s2.Results = s.Results
           /\ s2.SnapshotLastTerm = s.SnapshotLastTerm
      BY <2>2, <2>7, LogOnly
    <2> HIDE DEF s2
    <2>11. i - 1 \in Nat
      BY <2>3
    <2>12. SameReplica(s2, s3)
      BY <2>10, <2>11, MarksOnly
    <2> HIDE DEF s3
    <2>13. t.GlobalTerm = s.GlobalTerm
      BY <2>2, TermKept
    <2> HIDE DEF t
    <2>14. t.Log = log /\ t.Results = s.Results /\ t.SnapshotLastTerm = s.SnapshotLastTerm
      BY <2>1, <2>10, <2>12 DEF SameReplica
    <2> QED
      BY <2>9, <2>13, <2>14 DEF t
  <1> QED
    BY <1>1, <1>2

\* What compaction leaves: the entries after the new boundary, which was one of them.
Compacts(s, t) ==
    /\ t.Results = s.Results /\ t.DomainQuorumIndex = s.DomainQuorumIndex
    /\ t.GlobalTerm = s.GlobalTerm /\ t.AppliedIndex = s.AppliedIndex
    /\ Range(t.Log) = {f \in Range(s.Log) : f.index > t.SnapshotLastIndex}
    /\ \/ t.SnapshotLastIndex = s.SnapshotLastIndex /\ t.SnapshotLastTerm = s.SnapshotLastTerm
       \/ \E f \in Range(s.Log) : /\ f.index = t.SnapshotLastIndex /\ f.term = t.SnapshotLastTerm
                                  /\ f.index <= s.AppliedIndex

\* Nothing is compacted,
LEMMA CompactsSelf ==
    ASSUME NEW s, Windowed(s)
    PROVE  Compacts(s, s)
  <1>1. Range(s.Log) = {f \in Range(s.Log) : f.index > s.SnapshotLastIndex}
    BY WindowedState, LogRange
  <1> QED
    BY <1>1 DEF Compacts

\* or maybeCompactLocked moves the boundary.
LEMMA CompactRange ==
    ASSUME NEW s, Windowed(s)
    PROVE  Compacts(s, maybeCompactLocked(s))
  <1> DEFINE at == s.AppliedIndex - compactionRetain
             cut == s.SnapshotLastIndex
             n == Len(s.Log)
             e == EntryAt(s.Log, at)
             log == SubSeq(s.Log, at - cut + 1, Len(s.Log))
             s2 == [s EXCEPT !.Log = log, !.SnapshotLastIndex = at,
                             !.SnapshotLastTerm = e.term, !.SnapshotLastRequestID = e.request]
  <1>1. maybeCompactLocked(s) \in {s, compactLog(s, at)}
    BY DEF maybeCompactLocked
  <1>2. at \in Int
    BY LogAssumption, WindowedState
  <1> HIDE DEF at
  <1>3. CASE at <= cut \/ at > s.AppliedIndex \/ ~Found(s.Log, at)
    <2>1. compactLog(s, at) = s
      BY <1>3 DEF compactLog
    <2> QED
      BY <1>1, <2>1, CompactsSelf
  <1>4. CASE ~(at <= cut \/ at > s.AppliedIndex \/ ~Found(s.Log, at))
    <2>1. compactLog(s, at) = s2
      BY <1>4 DEF compactLog
    <2>2. /\ s \in ReplicaState /\ s.Log \in Seq(Entry) /\ n \in Nat /\ DOMAIN s.Log = 1..n
          /\ cut \in Nat /\ s.AppliedIndex \in Nat /\ LastLogIndex(s) \in Nat
          /\ LastLogIndex(s) = cut + n
          /\ \A j \in 1..n : s.Log[j].index = cut + j
          /\ \A j \in Int : Found(s.Log, j) <=> j \in cut + 1 .. LastLogIndex(s)
          /\ \A j \in cut + 1 .. LastLogIndex(s) : EntryAt(s.Log, j).index = j
      BY WindowedState
    <2>3. at \in Nat /\ at > cut /\ at <= s.AppliedIndex /\ at \in cut + 1 .. LastLogIndex(s)
      BY <1>2, <1>4, <2>2
    <2>4. e \in Range(s.Log) /\ e.index = at
      BY <2>2, <2>3, LogRange
    <2> DEFINE k == at - cut
    <2>5. k \in Nat /\ k <= n /\ log = SubSeq(s.Log, k + 1, Len(s.Log)) /\ cut + k = at
      BY <2>2, <2>3
    <2> HIDE DEF k, log, e
    <2>6. /\ log \in Seq(Entry) /\ Len(log) = n - k
          /\ \A j \in 1..n - k : log[j] = s.Log[k + j]
      BY <2>2, <2>5, CutLog
    <2>7. DOMAIN log = 1..n - k
      BY <2>2, <2>5, <2>6
    <2>8. Range(log) = {f \in Range(s.Log) : f.index > at}
      <3>1. ASSUME NEW f \in Range(log) PROVE f \in Range(s.Log) /\ f.index > at
        <4>1. PICK j \in 1..n - k : f = log[j]
          BY <2>7 DEF Range
        <4> DEFINE i == k + j
        <4>2. f = s.Log[i]
          BY <2>6, <4>1
        <4>3. i \in 1..n /\ cut + i > at
          <5>1. n \in Nat /\ cut \in Nat /\ k \in Nat /\ k <= n /\ cut + k = at /\ j \in 1..n - k
            BY <2>2, <2>5
          <5> HIDE DEF n, cut
          <5> QED
            BY <5>1
        <4> HIDE DEF i
        <4>4. f.index = cut + i
          BY <2>2, <4>2, <4>3
        <4> QED
          BY <2>2, <4>2, <4>3, <4>4 DEF Range
      <3>2. ASSUME NEW f \in Range(s.Log), f.index > at PROVE f \in Range(log)
        <4>1. PICK i \in 1..n : f = s.Log[i]
          BY <2>2 DEF Range
        <4>2. cut + i > at
          BY <2>2, <3>2, <4>1
        <4> DEFINE j == i - k
        <4>3. j \in 1..n - k /\ k + j = i
          BY <2>2, <2>3, <2>5, <4>2
        <4> HIDE DEF j
        <4>4. f = log[j]
          BY <2>6, <4>1, <4>3
        <4> QED
          BY <2>7, <4>3, <4>4 DEF Range
      <3> QED
        BY <3>1, <3>2
    <2>9. /\ s2.Log = log /\ s2.Results = s.Results /\ s2.DomainQuorumIndex = s.DomainQuorumIndex
          /\ s2.GlobalTerm = s.GlobalTerm /\ s2.AppliedIndex = s.AppliedIndex
          /\ s2.SnapshotLastIndex = at /\ s2.SnapshotLastTerm = e.term
      <3> DEFINE R == Request \cup {None}
                 D == Decision \cup {NoDecision}
                 Q == Seq(Entry)
                 RS == [GlobalTerm : Nat, Log : Q, DomainQuorumIndex : [Domain -> Nat],
                        KnownGlobalCommitIndex : Nat, AppliedIndex : Nat, Results : [Request -> D],
                        StateMachine : [Key -> R], SnapshotLastIndex : Nat, SnapshotLastTerm : Nat,
                        SnapshotLastRequestID : R]
      <3>1. s \in RS
        BY <2>2 DEF ReplicaState
      <3> HIDE DEF R, D, Q
      <3> QED
        BY <3>1
    <2> HIDE DEF s2
    <2>10. \E f \in Range(s.Log) : /\ f.index = s2.SnapshotLastIndex /\ f.term = s2.SnapshotLastTerm
                                   /\ f.index <= s.AppliedIndex
      BY <2>3, <2>4, <2>9
    <2>11. Compacts(s, s2)
      BY <2>8, <2>9, <2>10 DEF Compacts
    <2> QED
      BY <1>1, <2>1, <2>11, CompactsSelf
  <1> QED
    BY <1>3, <1>4

\* The results after applying the entries up to top: those of the entries, and the old ones.
Applies(s, t, top) ==
    \A r \in Request :
      \/ \E f \in Range(s.Log) : /\ f.request = r /\ f.index > s.AppliedIndex /\ f.index <= top
                                 /\ t.Results[r] = [term |-> f.term, index |-> f.index]
      \/ /\ t.Results[r] = s.Results[r]
         /\ \A f \in Range(s.Log) : ~(f.request = r /\ f.index > s.AppliedIndex /\ f.index <= top)

\* applyEntries changes the results of the requests that it applies, and no others.
LEMMA ApplyRange ==
    ASSUME NEW s, Windowed(s), NEW top \in Nat, s.AppliedIndex < top, top <= LastLogIndex(s)
    PROVE  LET t == applyEntries(s, top)
           IN  /\ Applies(s, t, top) /\ t.Log = s.Log /\ t.DomainQuorumIndex = s.DomainQuorumIndex
               /\ t.GlobalTerm = s.GlobalTerm /\ t.AppliedIndex = top
               /\ t.SnapshotLastIndex = s.SnapshotLastIndex /\ t.SnapshotLastTerm = s.SnapshotLastTerm
  <1> DEFINE a == s.AppliedIndex
             cut == s.SnapshotLastIndex
             new == a + 1 .. top
             decides(r) == {i \in new : EntryAt(s.Log, i).request = r}
             lastOf(r) == EntryAt(s.Log, Max(decides(r)))
             rsOf(r) == IF decides(r) # {} THEN [term |-> lastOf(r).term, index |-> lastOf(r).index]
                        ELSE s.Results[r]
             t == applyEntries(s, top)
  <1>1. /\ s \in ReplicaState /\ cut \in Nat /\ a \in Nat /\ LastLogIndex(s) \in Nat
        /\ cut <= a /\ s.KnownGlobalCommitIndex = a
        /\ \A j \in cut + 1 .. LastLogIndex(s) : EntryAt(s.Log, j).index = j
    BY WindowedState
  <1>2. \A i \in new : i \in 0..top /\ i \in cut + 1 .. LastLogIndex(s)
    BY <1>1
  <1>3. \A r \in Request : t.Results[r] = rsOf(r)
    <2>1. t.Results = [r \in Request |-> rsOf(r)]
      BY <1>1 DEF applyEntries, ReplicaState
    <2> HIDE DEF t, rsOf
    <2> QED
      BY <2>1
  <1>4. /\ t.Log = s.Log /\ t.DomainQuorumIndex = s.DomainQuorumIndex
        /\ t.GlobalTerm = s.GlobalTerm
        /\ t.SnapshotLastIndex = s.SnapshotLastIndex /\ t.SnapshotLastTerm = s.SnapshotLastTerm
    BY <1>1 DEF applyEntries, ReplicaState
  <1>5. t.AppliedIndex = top
    BY ApplyKeeps
  <1> HIDE DEF t
  <1>6. Applies(s, t, top)
    <2> SUFFICES ASSUME NEW r \in Request
                 PROVE  \/ \E f \in Range(s.Log) :
                             /\ f.request = r /\ f.index > a /\ f.index <= top
                             /\ t.Results[r] = [term |-> f.term, index |-> f.index]
                        \/ /\ t.Results[r] = s.Results[r]
                           /\ \A f \in Range(s.Log) : ~(f.request = r /\ f.index > a /\ f.index <= top)
      BY DEF Applies
    <2>1. CASE decides(r) # {}
      <3>1. decides(r) \in SUBSET (0..top)
        BY <1>2
      <3>2. Max(decides(r)) \in decides(r)
        <4> HIDE DEF decides
        <4> QED
          BY <2>1, <3>1, MaxIsMember
      <3> DEFINE i == Max(decides(r))
                 f == EntryAt(s.Log, i)
      <3>3. i \in new /\ f.request = r
        BY <3>2
      <3>4. t.Results[r] = [term |-> f.term, index |-> f.index]
        BY <1>3, <2>1
      <3> HIDE DEF i
      <3>5. f \in Range(s.Log) /\ f.index = i
        BY <1>1, <1>2, <3>3, LogRange
      <3>6. i > a /\ i <= top
        BY <1>1, <3>3
      <3> HIDE DEF f
      <3> QED
        BY <3>3, <3>4, <3>5, <3>6
    <2>2. CASE decides(r) = {}
      <3>1. t.Results[r] = s.Results[r]
        BY <1>3, <2>2
      <3>2. ASSUME NEW f \in Range(s.Log), f.request = r, f.index > a, f.index <= top PROVE FALSE
        <4>1. f.index \in Nat /\ EntryAt(s.Log, f.index) = f
          BY LogRange
        <4>2. f.index \in new
          BY <1>1, <3>2, <4>1
        <4>3. f.index \in decides(r)
          BY <3>2, <4>1, <4>2
        <4> QED
          BY <2>2, <4>3
      <3> QED
        BY <3>1, <3>2
    <2> QED
      BY <2>1, <2>2
  <1> QED
    BY <1>4, <1>5, <1>6 DEF t

\* advanceCommitLocked: nothing, or the log holds the entry and everything up to it is applied.
LEMMA AdvanceRange ==
    ASSUME NEW s, Windowed(s), NEW c, c.index \in Nat
    PROVE  LET t == advanceCommitLocked(s, c)
           IN  \/ t = s
               \/ \E u : /\ Applies(s, u, c.index) /\ u.AppliedIndex = c.index
                         /\ c.index > s.AppliedIndex /\ u.Log = s.Log
                         /\ u.DomainQuorumIndex = s.DomainQuorumIndex /\ u.GlobalTerm = s.GlobalTerm
                         /\ u.SnapshotLastIndex = s.SnapshotLastIndex
                         /\ u.SnapshotLastTerm = s.SnapshotLastTerm
                         /\ Windowed(u) /\ Compacts(u, t)
                         /\ \E g \in Range(s.Log) : g.index = c.index /\ g.term = c.term
  <1> DEFINE t == advanceCommitLocked(s, c)
             u == applyEntries(s, c.index)
             g == EntryAt(s.Log, c.index)
  <1>1. s.AppliedIndex \in Nat /\ s.KnownGlobalCommitIndex = s.AppliedIndex
        /\ s.SnapshotLastIndex \in Nat /\ LastLogIndex(s) \in Nat
        /\ \A i \in Int : Found(s.Log, i) <=> i \in s.SnapshotLastIndex + 1 .. LastLogIndex(s)
    BY WindowedState
  <1>2. CASE ~(MayAdvance(s, c) /\ c.index > s.KnownGlobalCommitIndex)
    BY <1>2 DEF advanceCommitLocked
  <1>3. CASE MayAdvance(s, c) /\ c.index > s.KnownGlobalCommitIndex
    <2>1. t = maybeCompactLocked(u)
      BY <1>3 DEF advanceCommitLocked
    <2>2. Found(s.Log, c.index) /\ g.term = c.term
      <3>1. c.index \in s.KnownGlobalCommitIndex + 1 .. c.index /\ ~(c.index <= s.KnownGlobalCommitIndex)
        BY <1>1, <1>3
      <3> QED
        BY <1>1, <1>3, <3>1 DEF MayAdvance, Same
    <2>3. /\ s.AppliedIndex < c.index /\ c.index <= LastLogIndex(s) /\ c.index > s.AppliedIndex
          /\ c.index \in s.SnapshotLastIndex + 1 .. LastLogIndex(s)
      BY <1>1, <1>3, <2>2
    <2>4. g \in Range(s.Log) /\ g.index = c.index
      BY <2>3, LogRange, WindowedState
    <2> HIDE DEF g
    <2>5. \E h \in Range(s.Log) : h.index = c.index /\ h.term = c.term
      BY <2>2, <2>4
    <2>6. /\ Applies(s, u, c.index) /\ u.Log = s.Log /\ u.DomainQuorumIndex = s.DomainQuorumIndex
          /\ u.GlobalTerm = s.GlobalTerm /\ u.AppliedIndex = c.index
          /\ u.SnapshotLastIndex = s.SnapshotLastIndex /\ u.SnapshotLastTerm = s.SnapshotLastTerm
      BY <2>3, ApplyRange
    <2>7. Windowed(u)
      BY <2>3, ApplyKeeps
    <2> HIDE DEF u, t
    <2>8. Compacts(u, t)
      BY <2>1, <2>7, CompactRange
    <2>9. \E v : /\ Applies(s, v, c.index) /\ v.AppliedIndex = c.index
                 /\ c.index > s.AppliedIndex /\ v.Log = s.Log
                 /\ v.DomainQuorumIndex = s.DomainQuorumIndex /\ v.GlobalTerm = s.GlobalTerm
                 /\ v.SnapshotLastIndex = s.SnapshotLastIndex
                 /\ v.SnapshotLastTerm = s.SnapshotLastTerm
                 /\ Windowed(v) /\ Compacts(v, t)
                 /\ \E h \in Range(s.Log) : h.index = c.index /\ h.term = c.term
      BY <2>3, <2>5, <2>6, <2>7, <2>8
    <2> QED
      BY <2>9 DEF t
  <1> QED
    BY <1>2, <1>3

-----------------------------------------------------------------------------
(* What the operators on one node do to the entries of a term.             *)

\* A whole log that knows terms of X, of term t only entries of H, and applies them up to m.
Fine(s, t, H, m, X) == Windowed(s) /\ Agrees(s, t, H, m) /\ TermsOf(s) \subseteq X

\* From s to u the log loses no entry but to the snapshot, and the mark of d is kept.
Conserves(s, u, d) ==
    /\ \A e \in Range(s.Log) : e \in Range(u.Log) \/ e.index <= u.SnapshotLastIndex
    /\ s.SnapshotLastIndex <= u.SnapshotLastIndex
    /\ s.DomainQuorumIndex[d] <= u.DomainQuorumIndex[d]

\* How to show that a node goes on with fine entries.
LEMMA MakeFine ==
    ASSUME NEW t, NEW H, NEW m, NEW X, NEW u, Windowed(u),
           \A f, g \in Range(u.Log) : f.term = t /\ f.index < g.index => g.term = t,
           \A e \in Range(u.Log) : e.term \in X /\ (e.term = t => e \in H),
           \A e \in DecidedBy(u) : e.term \in X /\ (e.term = t => e \in H /\ e.index <= m),
           u.SnapshotLastTerm \in X, u.GlobalTerm \in X
    PROVE  Fine(u, t, H, m, X)
  <1>1. Held(u, t) \subseteq H
    BY DEF Held
  <1>2. TermsOf(u) \subseteq X
    BY DEF TermsOf
  <1> QED
    BY <1>1, <1>2 DEF Fine, Agrees

\* And what that gives.
LEMMA FineFacts ==
    ASSUME NEW t, NEW H, NEW m, NEW X, NEW s, Fine(s, t, H, m, X)
    PROVE  /\ Windowed(s)
           /\ \A f, g \in Range(s.Log) : f.term = t /\ f.index < g.index => g.term = t
           /\ \A e \in Range(s.Log) : e.term \in X /\ (e.term = t => e \in H)
           /\ \A e \in DecidedBy(s) : e.term \in X /\ (e.term = t => e \in H /\ e.index <= m)
           /\ s.SnapshotLastTerm \in X /\ s.GlobalTerm \in X
  <1>1. \A e \in Range(s.Log) \cup DecidedBy(s) : e.term = t => e \in H
    BY DEF Fine, Agrees, Held
  <1>2. \A e \in Range(s.Log) \cup DecidedBy(s) : e.term \in X
    BY DEF Fine, TermsOf
  <1>3. s.SnapshotLastTerm \in X /\ s.GlobalTerm \in X
    BY DEF Fine, TermsOf
  <1> QED
    BY <1>1, <1>2, <1>3 DEF Fine, Agrees

\* What is decided depends on the results only.
LEMMA DecidedSame ==
    ASSUME NEW s, NEW u, u.Results = s.Results
    PROVE  DecidedBy(u) = DecidedBy(s)
  BY DEF DecidedBy

\* Marks and terms: nothing that matters here changes.
LEMMA FineSame ==
    ASSUME NEW t, NEW H, NEW m, NEW X, NEW s, Fine(s, t, H, m, X), NEW u, Windowed(u),
           SameReplica(s, u), u.GlobalTerm \in X
    PROVE  /\ Fine(u, t, H, m, X) /\ Held(u, t) = Held(s, t)
           /\ \A n : Orders(s, t, n) => Orders(u, t, n)
  <1>1. /\ u.Log = s.Log /\ u.Results = s.Results /\ u.AppliedIndex = s.AppliedIndex
        /\ u.SnapshotLastIndex = s.SnapshotLastIndex /\ u.SnapshotLastTerm = s.SnapshotLastTerm
    BY DEF SameReplica
  <1>2. DecidedBy(u) = DecidedBy(s)
    BY <1>1, DecidedSame
  <1>3. Held(u, t) = Held(s, t)
    BY <1>1, <1>2 DEF Held
  <1>4. \A n : Orders(s, t, n) => Orders(u, t, n)
    BY <1>1, <1>3 DEF Orders
  <1>5. Fine(u, t, H, m, X)
    BY <1>1, <1>2, FineFacts, MakeFine
  <1> QED
    BY <1>3, <1>4, <1>5

\* An entry that the leader of term t sends.
LEMMA FineAppend ==
    ASSUME NEW t, NEW H, NEW m, NEW X, NEW s, Fine(s, t, H, m, X),
           NEW e \in Entry, e.term \in X, e.term = t => e \in H,
           \A f \in H : e.term # t => e.index < f.index,
           NEW prev, appendOutcome(s, e, prev) = "accepted"
    PROVE  Fine(appendEntryChecked(s, e), t, H, m, X)
  <1> DEFINE u == appendEntryChecked(s, e)
  <1>1. Windowed(s)
    BY FineFacts
  <1>2. Windowed(u)
    BY <1>1, AppendContinues DEF Continues
  <1>3. \/ u = s
        \/ /\ Range(u.Log) = {f \in Range(s.Log) : f.index < e.index} \cup {e}
           /\ u.Results = s.Results /\ u.SnapshotLastTerm = s.SnapshotLastTerm
           /\ u.GlobalTerm = s.GlobalTerm
    BY <1>1, AppendRange
  <1> HIDE DEF u
  <1>4. CASE u # s
    <2>1. /\ Range(u.Log) = {f \in Range(s.Log) : f.index < e.index} \cup {e}
          /\ u.Results = s.Results /\ u.SnapshotLastTerm = s.SnapshotLastTerm
          /\ u.GlobalTerm = s.GlobalTerm
      BY <1>3, <1>4
    <2>2. DecidedBy(u) = DecidedBy(s)
      BY <2>1, DecidedSame
    <2>3. \A f \in Range(u.Log) : f.term \in X /\ (f.term = t => f \in H)
      BY <2>1, FineFacts
    <2>4. ASSUME NEW f \in Range(u.Log), NEW g \in Range(u.Log), f.term = t, f.index < g.index
          PROVE  g.term = t
      <3>1. f \in H /\ f.index \in Nat /\ g.index \in Nat /\ e.index \in Nat
        BY <1>2, <2>3, <2>4, LogRange DEF Entry
      <3>2. CASE g = e
        <4>1. e.term # t => e.index < f.index
          BY <3>1
        <4> QED
          BY <2>4, <3>1, <3>2, <4>1
      <3>3. CASE g # e
        <4>1. g \in Range(s.Log) /\ g.index < e.index
          BY <2>1, <3>3
        <4>2. f # e
          BY <2>4, <3>1, <4>1
        <4>3. f \in Range(s.Log)
          BY <2>1, <4>2
        <4> QED
          BY <2>4, <4>1, <4>3, FineFacts
      <3> QED
        BY <3>2, <3>3
    <2>5. \A x \in DecidedBy(u) : x.term \in X /\ (x.term = t => x \in H /\ x.index <= m)
      BY <2>2, FineFacts
    <2>6. u.SnapshotLastTerm \in X /\ u.GlobalTerm \in X
      BY <2>1, FineFacts
    <2>7. \A f, g \in Range(u.Log) : f.term = t /\ f.index < g.index => g.term = t
      BY <2>4
    <2>8. Fine(u, t, H, m, X)
      BY <1>2, <2>3, <2>5, <2>6, <2>7, MakeFine
    <2> QED
      BY <2>8 DEF u
  <1> QED
    BY <1>4 DEF u

\* What a commit may add to the decisions of a node: entries of its log up to the committed one.
LEMMA DecidedGrows ==
    ASSUME NEW s, Windowed(s), NEW u, Windowed(u), NEW w, Windowed(w), NEW top \in Nat,
           Applies(s, u, top), w.Results = u.Results
    PROVE  \A e \in DecidedBy(w) :
             e \in DecidedBy(s) \/ (e \in Range(s.Log) /\ e.index > s.AppliedIndex /\ e.index <= top)
  <1>1. s \in ReplicaState /\ w \in ReplicaState
    BY WindowedState
  <1> SUFFICES ASSUME NEW e \in DecidedBy(w), e \notin DecidedBy(s)
               PROVE  e \in Range(s.Log) /\ e.index > s.AppliedIndex /\ e.index <= top
    OBVIOUS
  <1>2. e \in Entry /\ w.Results[e.request] = [term |-> e.term, index |-> e.index]
    BY <1>1, DecidedIs
  <1>3. e.request \in Request
    BY <1>2 DEF Entry
  <1>4. u.Results[e.request] # s.Results[e.request]
    BY <1>1, <1>2, DecidedIs
  <1>5. PICK f \in Range(s.Log) : /\ f.request = e.request /\ f.index > s.AppliedIndex /\ f.index <= top
                                  /\ u.Results[e.request] = [term |-> f.term, index |-> f.index]
    BY <1>3, <1>4 DEF Applies
  <1>6. f \in Entry
    BY LogRange
  <1>7. f.term = e.term /\ f.index = e.index
    BY <1>2, <1>5
  <1>8. f = e
    BY <1>2, <1>5, <1>6, <1>7 DEF Entry
  <1> QED
    BY <1>5, <1>8

\* A commit position of the leader of term t.
LEMMA FineAdvance ==
    ASSUME NEW t, NEW H, NEW m \in Nat, NEW X, NEW s, Fine(s, t, H, m, X),
           NEW c, c.index \in Nat, t # 0 /\ c.term = t => c.index <= m
    PROVE  Fine(advanceCommitLocked(s, c), t, H, m, X)
  <1> DEFINE w == advanceCommitLocked(s, c)
  <1>1. Windowed(s)
    BY FineFacts
  <1>2. Windowed(w)
    BY <1>1, AdvanceContinues DEF Continues
  <1>3. \/ w = s
        \/ \E u : /\ Applies(s, u, c.index) /\ u.AppliedIndex = c.index
                  /\ c.index > s.AppliedIndex /\ u.Log = s.Log
                  /\ u.DomainQuorumIndex = s.DomainQuorumIndex /\ u.GlobalTerm = s.GlobalTerm
                  /\ u.SnapshotLastIndex = s.SnapshotLastIndex
                  /\ u.SnapshotLastTerm = s.SnapshotLastTerm
                  /\ Windowed(u) /\ Compacts(u, w)
                  /\ \E g \in Range(s.Log) : g.index = c.index /\ g.term = c.term
    BY <1>1, AdvanceRange
  <1> HIDE DEF w
  <1>4. CASE w # s
    <2>1. PICK u : /\ Applies(s, u, c.index) /\ u.AppliedIndex = c.index
                   /\ c.index > s.AppliedIndex /\ u.Log = s.Log
                   /\ u.DomainQuorumIndex = s.DomainQuorumIndex /\ u.GlobalTerm = s.GlobalTerm
                   /\ u.SnapshotLastIndex = s.SnapshotLastIndex
                   /\ u.SnapshotLastTerm = s.SnapshotLastTerm
                   /\ Windowed(u) /\ Compacts(u, w)
                   /\ \E g \in Range(s.Log) : g.index = c.index /\ g.term = c.term
      BY <1>3, <1>4
    <2>2. PICK g \in Range(s.Log) : g.index = c.index /\ g.term = c.term
      BY <2>1
    <2>3. /\ w.Results = u.Results /\ w.GlobalTerm = s.GlobalTerm /\ Range(w.Log) \subseteq Range(s.Log)
          /\ \/ w.SnapshotLastTerm = s.SnapshotLastTerm
             \/ \E f \in Range(s.Log) : f.term = w.SnapshotLastTerm
      BY <2>1 DEF Compacts
    <2>4. w.SnapshotLastTerm \in X
      BY <2>3, FineFacts
    <2>5. ASSUME NEW e \in DecidedBy(w)
          PROVE  e.term \in X /\ (e.term = t => e \in H /\ e.index <= m)
      <3>1. CASE e \in DecidedBy(s)
        BY <3>1, FineFacts
      <3>2. CASE e \in Range(s.Log) /\ e.index <= c.index
        <4>1. e.term \in X /\ (e.term = t => e \in H)
          BY <3>2, FineFacts
        <4>2. e.index \in Nat /\ e.term # 0 /\ g.index \in Nat
          BY <1>1, <3>2, LogRange
        <4>3. ASSUME e.term = t PROVE e.index <= m
          <5>1. g.term = t
            <6>1. CASE e.index = g.index
              BY <1>1, <3>2, <4>3, <6>1, LogRange
            <6>2. CASE e.index # g.index
              <7>1. e.index < g.index
                BY <2>2, <3>2, <4>2, <6>2
              <7> QED
                BY <3>2, <4>3, <7>1, FineFacts
            <6> QED
              BY <6>1, <6>2
          <5>2. c.index <= m
            BY <2>2, <4>2, <4>3, <5>1
          <5> QED
            BY <3>2, <4>2, <5>2
        <4> QED
          BY <4>1, <4>3
      <3> QED
        BY <1>1, <1>2, <2>1, <2>3, <3>1, <3>2, DecidedGrows
    <2>6. \A f, h \in Range(w.Log) : f.term = t /\ f.index < h.index => h.term = t
      BY <2>3, FineFacts
    <2>7. \A e \in Range(w.Log) : e.term \in X /\ (e.term = t => e \in H)
      BY <2>3, FineFacts
    <2>8. w.GlobalTerm \in X
      BY <2>3, FineFacts
    <2>9. \A e \in DecidedBy(w) : e.term \in X /\ (e.term = t => e \in H /\ e.index <= m)
      BY <2>5
    <2>10. Fine(w, t, H, m, X)
      BY <1>2, <2>4, <2>6, <2>7, <2>8, <2>9, MakeFine
    <2> QED
      BY <2>10 DEF w
  <1> QED
    BY <1>4 DEF w

\* Marks are numbers.
LEMMA MarkTyped ==
    ASSUME NEW s, Windowed(s), NEW d \in Domain
    PROVE  s.DomainQuorumIndex \in [Domain -> Nat] /\ s.DomainQuorumIndex[d] \in Nat
  <1>1. s \in ReplicaState
    BY WindowedState
  <1>2. s.DomainQuorumIndex \in [Domain -> Nat]
    BY <1>1 DEF ReplicaState
  <1> QED
    BY <1>2

\* What a node that leads term t, or has running commits, does in one step.
GoesOn(s, u, d, t, H, m, X) ==
    /\ Fine(u, t, H, m, X)
    /\ Conserves(s, u, d)
    /\ t # 0 /\ Orders(s, t, m) => Orders(u, t, m) /\ Held(s, t) \subseteq Held(u, t)

\* Going on is transitive,
LEMMA GoesOnOn ==
    ASSUME NEW t, NEW H, NEW m, NEW X, NEW d \in Domain, NEW s, Windowed(s),
           NEW u, GoesOn(s, u, d, t, H, m, X), NEW v, GoesOn(u, v, d, t, H, m, X)
    PROVE  GoesOn(s, v, d, t, H, m, X)
  <1>1. Windowed(u) /\ Windowed(v)
    BY DEF GoesOn, Fine
  <1>2. /\ s.SnapshotLastIndex \in Nat /\ u.SnapshotLastIndex \in Nat /\ v.SnapshotLastIndex \in Nat
        /\ s.DomainQuorumIndex[d] \in Nat /\ u.DomainQuorumIndex[d] \in Nat
        /\ v.DomainQuorumIndex[d] \in Nat
    BY <1>1, WindowedState, MarkTyped
  <1>3. Conserves(s, u, d) /\ Conserves(u, v, d)
    BY DEF GoesOn
  <1>4. ASSUME NEW e \in Range(s.Log)
        PROVE  e \in Range(v.Log) \/ e.index <= v.SnapshotLastIndex
    <2>1. e.index \in Nat
      BY LogRange
    <2>2. e \in Range(u.Log) \/ e.index <= u.SnapshotLastIndex
      BY <1>3 DEF Conserves
    <2>3. CASE e \in Range(u.Log)
      BY <1>3, <2>3 DEF Conserves
    <2>4. CASE e.index <= u.SnapshotLastIndex
      BY <1>2, <1>3, <2>1, <2>4 DEF Conserves
    <2> QED
      BY <2>2, <2>3, <2>4
  <1>5. Conserves(s, v, d)
    BY <1>2, <1>3, <1>4 DEF Conserves
  <1> QED
    BY <1>5 DEF GoesOn

\* Marks and terms.
LEMMA GoesOnSame ==
    ASSUME NEW t, NEW H, NEW m, NEW X, NEW s, Fine(s, t, H, m, X), NEW u, Windowed(u),
           SameReplica(s, u), u.GlobalTerm \in X,
           NEW d \in Domain, s.DomainQuorumIndex[d] <= u.DomainQuorumIndex[d]
    PROVE  GoesOn(s, u, d, t, H, m, X)
  <1>1. u.Log = s.Log /\ u.SnapshotLastIndex = s.SnapshotLastIndex
    BY DEF SameReplica
  <1>2. s.SnapshotLastIndex \in Nat
    BY FineFacts, WindowedState
  <1>3. Conserves(s, u, d)
    BY <1>1, <1>2 DEF Conserves
  <1>4. /\ Fine(u, t, H, m, X) /\ Held(u, t) = Held(s, t)
        /\ \A n : Orders(s, t, n) => Orders(u, t, n)
    BY FineSame
  <1> QED
    BY <1>3, <1>4 DEF GoesOn

\* and reflexive.
LEMMA GoesOnSelf ==
    ASSUME NEW t, NEW H, NEW m, NEW X, NEW s, Fine(s, t, H, m, X), NEW d \in Domain
    PROVE  GoesOn(s, s, d, t, H, m, X)
  <1>1. Windowed(s) /\ s.GlobalTerm \in X
    BY FineFacts
  <1>2. s.DomainQuorumIndex[d] \in Nat
    BY <1>1, MarkTyped
  <1>3. SameReplica(s, s)
    BY DEF SameReplica
  <1>4. s.DomainQuorumIndex[d] <= s.DomainQuorumIndex[d]
    BY <1>2
  <1> QED
    BY <1>1, <1>3, <1>4, GoesOnSame

\* RaiseQuorum goes on, and the mark covers the index.
LEMMA GoesOnRaise ==
    ASSUME NEW t, NEW H, NEW m, NEW X, NEW s, Fine(s, t, H, m, X),
           NEW d \in Domain, NEW b \in Domain, NEW i \in Nat
    PROVE  /\ GoesOn(s, RaiseQuorum(s, b, i), d, t, H, m, X)
           /\ RaiseQuorum(s, d, i).DomainQuorumIndex[d] >= i
  <1> DEFINE u == RaiseQuorum(s, b, i)
             q == s.DomainQuorumIndex
  <1>1. Windowed(s) /\ s.GlobalTerm \in X
    BY FineFacts
  <1>2. s \in ReplicaState /\ q \in [Domain -> Nat]
    BY <1>1, WindowedState, MarkTyped
  <1>3. u \in ReplicaState /\ SameReplica(s, u)
    BY <1>2, MarksOnly
  <1>4. Windowed(u)
    BY <1>1, <1>3, SameReplicaKeeps
  <1>5. u.GlobalTerm = s.GlobalTerm
    BY <1>2, TermKept
  <1>6. ASSUME NEW x \in Domain
        PROVE  RaiseQuorum(s, x, i).DomainQuorumIndex = [q EXCEPT ![x] = Higher(q[x], i)]
    BY <1>2 DEF RaiseQuorum, ReplicaState
  <1> DEFINE up(x) == [q EXCEPT ![x] = Higher(q[x], i)]
  <1>7. s.DomainQuorumIndex[d] <= u.DomainQuorumIndex[d]
    <2>1. u.DomainQuorumIndex = up(b)
      BY <1>6
    <2>2. q[d] <= up(b)[d]
      <3> HIDE DEF q
      <3> QED
        BY <1>2 DEF Higher
    <2> QED
      BY <2>1, <2>2
  <1>8. RaiseQuorum(s, d, i).DomainQuorumIndex[d] >= i
    <2>1. RaiseQuorum(s, d, i).DomainQuorumIndex = up(d)
      BY <1>6
    <2>2. up(d)[d] >= i
      <3> HIDE DEF q
      <3> QED
        BY <1>2 DEF Higher
    <2> QED
      BY <2>1, <2>2
  <1> HIDE DEF u
  <1>9. GoesOn(s, u, d, t, H, m, X)
    BY <1>1, <1>3, <1>4, <1>5, <1>7, GoesOnSame
  <1> QED
    BY <1>8, <1>9 DEF u

\* A commit of the leader of term t: its log holds one entry of a request of that term, so
\* the decisions on its requests stay.
LEMMA LeadsAdvance ==
    ASSUME NEW t \in Nat \ {0}, NEW m \in Nat, NEW s, Windowed(s), Orders(s, t, m),
           NEW c, c.index \in Nat, c.term = t => c.index <= m
    PROVE  /\ Orders(advanceCommitLocked(s, c), t, m)
           /\ Held(s, t) \subseteq Held(advanceCommitLocked(s, c), t)
  <1> DEFINE w == advanceCommitLocked(s, c)
             top == c.index
  <1>1. Windowed(w)
    BY AdvanceContinues DEF Continues
  <1>2. \/ w = s
        \/ \E u : /\ Applies(s, u, c.index) /\ u.AppliedIndex = c.index
                  /\ c.index > s.AppliedIndex /\ u.Log = s.Log
                  /\ u.DomainQuorumIndex = s.DomainQuorumIndex /\ u.GlobalTerm = s.GlobalTerm
                  /\ u.SnapshotLastIndex = s.SnapshotLastIndex
                  /\ u.SnapshotLastTerm = s.SnapshotLastTerm
                  /\ Windowed(u) /\ Compacts(u, w)
                  /\ \E g \in Range(s.Log) : g.index = c.index /\ g.term = c.term
    BY AdvanceRange
  <1> HIDE DEF w
  <1>3. CASE w = s
    BY <1>3 DEF w
  <1>4. CASE w # s
    <2>1. PICK u : /\ Applies(s, u, c.index) /\ u.AppliedIndex = c.index
                   /\ c.index > s.AppliedIndex /\ u.Log = s.Log
                   /\ u.DomainQuorumIndex = s.DomainQuorumIndex /\ u.GlobalTerm = s.GlobalTerm
                   /\ u.SnapshotLastIndex = s.SnapshotLastIndex
                   /\ u.SnapshotLastTerm = s.SnapshotLastTerm
                   /\ Windowed(u) /\ Compacts(u, w)
                   /\ \E g \in Range(s.Log) : g.index = c.index /\ g.term = c.term
      BY <1>2, <1>4
    <2>2. PICK g \in Range(s.Log) : g.index = c.index /\ g.term = c.term
      BY <2>1
    <2>3. /\ w.Results = u.Results /\ w.AppliedIndex = top
          /\ Range(w.Log) = {f \in Range(s.Log) : f.index > w.SnapshotLastIndex}
          /\ \/ w.SnapshotLastIndex = s.SnapshotLastIndex /\ w.SnapshotLastTerm = s.SnapshotLastTerm
             \/ \E f \in Range(s.Log) : /\ f.index = w.SnapshotLastIndex
                                        /\ f.term = w.SnapshotLastTerm /\ f.index <= top
      BY <2>1 DEF Compacts
    <2>4. /\ s \in ReplicaState /\ w \in ReplicaState /\ s.AppliedIndex \in Nat
          /\ w.SnapshotLastIndex \in Nat /\ w.SnapshotLastIndex <= top
      BY <1>1, <2>3, WindowedState
    <2>5. \A e \in Range(s.Log) : e \in Entry /\ e.index \in Nat /\ e.request \in Request
      BY LogRange DEF Entry
    <2>6. \A e \in Range(s.Log), f \in Held(s, t) : /\ e.term # t => e.index < f.index
                                                    /\ e.request = f.request => e = f
      BY DEF Orders
    <2>7. \A e \in Range(s.Log) : e.term = t => e \in Held(s, t)
      BY DEF Held
    <2>8. ASSUME NEW e \in Range(s.Log), e.term = t
          PROVE  w.Results[e.request] = IF e.index <= top THEN [term |-> e.term, index |-> e.index]
                                        ELSE NoDecision
      <3>1. s.Results[e.request] = IF e.index <= s.AppliedIndex
                                   THEN [term |-> e.term, index |-> e.index] ELSE NoDecision
        BY <2>8 DEF Orders
      <3>2. CASE \E f \in Range(s.Log) : /\ f.request = e.request /\ f.index > s.AppliedIndex
                                         /\ f.index <= top
                                         /\ u.Results[e.request] = [term |-> f.term, index |-> f.index]
        <4>1. PICK f \in Range(s.Log) : /\ f.request = e.request /\ f.index > s.AppliedIndex
                                        /\ f.index <= top
                                        /\ u.Results[e.request] = [term |-> f.term, index |-> f.index]
          BY <3>2
        <4>2. f = e
          BY <2>6, <2>7, <2>8, <4>1
        <4> QED
          BY <2>3, <4>1, <4>2
      <3>3. CASE /\ u.Results[e.request] = s.Results[e.request]
                 /\ \A f \in Range(s.Log) : ~(f.request = e.request /\ f.index > s.AppliedIndex
                                              /\ f.index <= top)
        <4>1. ~(e.index > s.AppliedIndex /\ e.index <= top)
          BY <3>3
        <4>2. e.index <= s.AppliedIndex <=> e.index <= top
          BY <2>1, <2>4, <2>5, <4>1
        <4> QED
          BY <2>3, <3>1, <3>3, <4>2
      <3> QED
        BY <2>1, <2>5, <3>2, <3>3 DEF Applies
    <2>9. ASSUME NEW f \in Held(s, t) PROVE f \in Held(w, t)
      <3>1. f.term = t /\ (f \in Range(s.Log) \/ f \in DecidedBy(s))
        BY DEF Held
      <3>2. CASE f \in Range(s.Log)
        <4>1. CASE f.index > w.SnapshotLastIndex
          BY <2>3, <3>1, <3>2, <4>1 DEF Held
        <4>2. CASE ~(f.index > w.SnapshotLastIndex)
          <5>1. f.index <= top
            BY <2>4, <2>5, <3>2, <4>2
          <5>2. w.Results[f.request] = [term |-> f.term, index |-> f.index]
            BY <2>8, <3>1, <3>2, <5>1
          <5>3. f \in DecidedBy(w)
            BY <2>4, <2>5, <3>2, <5>2, DecidedIs
          <5> QED
            BY <3>1, <5>3 DEF Held
        <4> QED
          BY <4>1, <4>2
      <3>3. CASE f \in DecidedBy(s)
        <4>1. f \in Entry /\ s.Results[f.request] = [term |-> f.term, index |-> f.index]
          BY <2>4, <3>3, DecidedIs
        <4>2. f.request \in Request
          BY <4>1 DEF Entry
        <4>3. \A e \in Range(s.Log) : e.request = f.request => e = f
          BY <2>6
        <4>4. u.Results[f.request] = [term |-> f.term, index |-> f.index]
          <5>1. \/ \E e \in Range(s.Log) : /\ e.request = f.request
                                           /\ u.Results[f.request] = [term |-> e.term, index |-> e.index]
                \/ u.Results[f.request] = s.Results[f.request]
            BY <2>1, <4>2 DEF Applies
          <5> QED
            BY <4>1, <4>3, <5>1
        <4>5. f \in DecidedBy(w)
          BY <2>3, <2>4, <4>1, <4>4, DecidedIs
        <4> QED
          BY <3>1, <4>5 DEF Held
      <3> QED
        BY <3>1, <3>2, <3>3
    <2>10. ASSUME NEW f \in Held(w, t) PROVE f \in Held(s, t)
      <3>1. f.term = t /\ (f \in Range(w.Log) \/ f \in DecidedBy(w))
        BY DEF Held
      <3>2. f \in Range(s.Log) \/ f \in DecidedBy(s)
        BY <1>1, <2>1, <2>3, <3>1, DecidedGrows
      <3> QED
        BY <3>1, <3>2 DEF Held
    <2>11. \A e \in Range(w.Log), f \in Held(w, t) : /\ e.term # t => e.index < f.index
                                                     /\ e.request = f.request => e = f
      BY <2>3, <2>6, <2>10
    <2>12. \A e \in Range(w.Log) : e.term = t =>
             w.Results[e.request] = IF e.index <= w.AppliedIndex
                                    THEN [term |-> e.term, index |-> e.index] ELSE NoDecision
      BY <2>3, <2>8
    <2>13. ASSUME w.SnapshotLastTerm = t PROVE w.SnapshotLastIndex <= m
      <3>1. CASE w.SnapshotLastIndex = s.SnapshotLastIndex /\ w.SnapshotLastTerm = s.SnapshotLastTerm
        BY <2>13, <3>1 DEF Orders
      <3>2. CASE \E f \in Range(s.Log) : /\ f.index = w.SnapshotLastIndex
                                         /\ f.term = w.SnapshotLastTerm /\ f.index <= top
        <4>1. PICK f \in Range(s.Log) : /\ f.index = w.SnapshotLastIndex
                                        /\ f.term = w.SnapshotLastTerm /\ f.index <= top
          BY <3>2
        <4>2. f \in Held(s, t) /\ f.index \in Nat /\ g.index \in Nat
          BY <2>5, <2>7, <2>13, <4>1
        <4>3. g.term = t
          BY <2>2, <2>6, <4>1, <4>2
        <4>4. c.index <= m
          BY <2>2, <4>3
        <4> QED
          BY <4>1, <4>2, <4>4
      <3> QED
        BY <2>3, <3>1, <3>2
    <2>14. Orders(w, t, m)
      BY <2>11, <2>12, <2>13 DEF Orders
    <2> QED
      BY <2>9, <2>14 DEF w
  <1> QED
    BY <1>3, <1>4

\* advanceCommitLocked goes on, to a position that the leader has a mark for.
LEMMA GoesOnAdvance ==
    ASSUME NEW t \in Nat, NEW H, NEW m \in Nat, NEW X, NEW s, Fine(s, t, H, m, X), NEW d \in Domain,
           NEW c, c.index \in Nat, t # 0 /\ c.term = t => c.index <= m
    PROVE  GoesOn(s, advanceCommitLocked(s, c), d, t, H, m, X)
  <1> DEFINE w == advanceCommitLocked(s, c)
  <1>1. Windowed(s)
    BY FineFacts
  <1>2. Fine(w, t, H, m, X)
    BY FineAdvance
  <1>3. t # 0 /\ Orders(s, t, m) => Orders(w, t, m) /\ Held(s, t) \subseteq Held(w, t)
    BY <1>1, LeadsAdvance
  <1>4. s.SnapshotLastIndex <= w.SnapshotLastIndex
    BY <1>1, AdvanceContinues DEF Continues, Keeps
  <1>5. \/ w = s
        \/ \E u : /\ Applies(s, u, c.index) /\ u.AppliedIndex = c.index
                  /\ c.index > s.AppliedIndex /\ u.Log = s.Log
                  /\ u.DomainQuorumIndex = s.DomainQuorumIndex /\ u.GlobalTerm = s.GlobalTerm
                  /\ u.SnapshotLastIndex = s.SnapshotLastIndex
                  /\ u.SnapshotLastTerm = s.SnapshotLastTerm
                  /\ Windowed(u) /\ Compacts(u, w)
                  /\ \E g \in Range(s.Log) : g.index = c.index /\ g.term = c.term
    BY <1>1, AdvanceRange
  <1> HIDE DEF w
  <1>6. CASE w = s
    BY <1>6, GoesOnSelf DEF w
  <1>7. CASE w # s
    <2>1. /\ w.DomainQuorumIndex = s.DomainQuorumIndex
          /\ Range(w.Log) = {f \in Range(s.Log) : f.index > w.SnapshotLastIndex}
      BY <1>5, <1>7 DEF Compacts
    <2>2. w.SnapshotLastIndex \in Nat /\ s.DomainQuorumIndex[d] \in Nat
      BY <1>1, <1>2, FineFacts, WindowedState, MarkTyped
    <2>3. \A e \in Range(s.Log) : e.index \in Nat
      BY <1>1, LogRange
    <2>4. \A e \in Range(s.Log) : e \in Range(w.Log) \/ e.index <= w.SnapshotLastIndex
      BY <2>1, <2>2, <2>3
    <2>5. Conserves(s, w, d)
      BY <1>4, <2>1, <2>2, <2>4 DEF Conserves
    <2>6. GoesOn(s, w, d, t, H, m, X)
      BY <1>2, <1>3, <2>5 DEF GoesOn
    <2> QED
      BY <2>6 DEF w
  <1> QED
    BY <1>6, <1>7

\* The commit position of a node is of a term it knows; the leader of term t has a mark for it.
LEMMA FinePosition ==
    ASSUME NEW t, NEW H, NEW m, NEW X, NEW s, Fine(s, t, H, m, X)
    PROVE  /\ CommitPosition(s).term \in X
           /\ t # 0 /\ Orders(s, t, m) /\ CommitPosition(s).term = t => CommitPosition(s).index <= m
  <1> DEFINE i == s.KnownGlobalCommitIndex
             e == EntryAt(s.Log, i)
  <1>1. Windowed(s)
    BY FineFacts
  <1>2. /\ s \in ReplicaState /\ s.SnapshotLastIndex \in Nat /\ s.AppliedIndex \in Nat
        /\ LastLogIndex(s) \in Nat /\ i = s.AppliedIndex /\ i \in Nat
        /\ s.SnapshotLastIndex <= i /\ i <= LastLogIndex(s)
        /\ \A j \in Int : Found(s.Log, j) <=> j \in s.SnapshotLastIndex + 1 .. LastLogIndex(s)
        /\ \A j \in s.SnapshotLastIndex + 1 .. LastLogIndex(s) : EntryAt(s.Log, j).index = j
    BY <1>1, WindowedState
  <1> HIDE DEF i
  <1>3. CASE Found(s.Log, i)
    <2>1. CommitPosition(s) = e
      BY <1>3 DEF CommitPosition, i
    <2>2. e \in Range(s.Log) /\ e.index = i
      BY <1>1, <1>2, <1>3, LogRange
    <2> HIDE DEF e
    <2>3. e.term \in X
      BY <2>2, FineFacts
    <2>4. ASSUME Orders(s, t, m), e.term = t PROVE e.index <= m
      <3>1. e \in Entry
        BY <1>1, <2>2, LogRange
      <3>2. s.Results[e.request] = IF e.index <= s.AppliedIndex
                                   THEN [term |-> e.term, index |-> e.index] ELSE NoDecision
        BY <2>2, <2>4 DEF Orders
      <3>3. e.index <= s.AppliedIndex
        BY <1>2, <2>2
      <3>4. s.Results[e.request] = [term |-> e.term, index |-> e.index]
        BY <3>2, <3>3
      <3>5. e \in DecidedBy(s)
        BY <1>2, <3>1, <3>4, DecidedIs
      <3> QED
        BY <2>4, <3>5, FineFacts
    <2> QED
      BY <2>1, <2>3, <2>4
  <1>4. CASE ~Found(s.Log, i)
    <2>1. CommitPosition(s) = [index |-> i, term |-> s.SnapshotLastTerm, request |-> s.SnapshotLastRequestID]
      BY <1>4 DEF CommitPosition, i
    <2>2. CommitPosition(s).index = i /\ CommitPosition(s).term = s.SnapshotLastTerm
      BY <2>1
    <2>3. i = s.SnapshotLastIndex
      BY <1>2, <1>4
    <2>4. Orders(s, t, m) /\ s.SnapshotLastTerm = t => s.SnapshotLastIndex <= m
      BY DEF Orders
    <2> QED
      BY <2>2, <2>3, <2>4, FineFacts
  <1> QED
    BY <1>3, <1>4

\* A snapshot of a node that is fine.
LEMMA FineInstalled ==
    ASSUME NEW t, NEW H, NEW m, NEW X, NEW s, Fine(s, t, H, m, X), NEW d \in Domain,
           NEW from, Fine(from, t, H, m, X)
    PROVE  Fine(Installed(s, d, BuildSnapshot(from)), t, H, m, X)
  <1> DEFINE c == CommitPosition(from)
             snap == BuildSnapshot(from)
             u == installSnapshotState(s, snap)
  <1>1. Windowed(s) /\ Windowed(from)
    BY FineFacts
  <1>2. c.index \in Nat /\ c.term \in Nat /\ c.request \in Request \cup {None} /\ c.term \in X
    BY <1>1, PositionTyped, FinePosition
  <1>3. s \in ReplicaState /\ from \in ReplicaState
    BY <1>1, WindowedState
  <1>4. /\ from.StateMachine \in [Key -> Request \cup {None}]
        /\ from.Results \in [Request -> Decision \cup {NoDecision}]
    BY <1>3 DEF ReplicaState
  <1> HIDE DEF c
  <1>5. snap = [index |-> c.index, term |-> c.term, request |-> c.request,
                StateMachine |-> from.StateMachine, Results |-> from.Results]
    BY DEF BuildSnapshot, c
  <1> HIDE DEF snap
  <1>6. /\ snap.index \in Nat /\ snap.term \in Nat /\ snap.request \in Request \cup {None}
        /\ snap.StateMachine \in [Key -> Request \cup {None}]
        /\ snap.Results \in [Request -> Decision \cup {NoDecision}]
        /\ snap.Results = from.Results /\ snap.term = c.term
    BY <1>2, <1>4, <1>5
  <1>7. /\ Windowed(u)
        /\ \A j \in DOMAIN u.Log : \E i \in DOMAIN s.Log : u.Log[j] = s.Log[i]
        /\ \A r \in Request : u.Results[r] \in {s.Results[r], snap.Results[r]}
        /\ u.SnapshotLastTerm \in {s.SnapshotLastTerm, snap.term}
    BY <1>1, <1>6, InstallKeeps
  <1>8. u.GlobalTerm = s.GlobalTerm
    BY <1>3, TermKept
  <1> HIDE DEF u
  <1>9. Range(u.Log) \subseteq Range(s.Log)
    BY <1>7 DEF Range
  <1>10. DecidedBy(u) \subseteq DecidedBy(s) \cup DecidedBy(from)
    <2> SUFFICES ASSUME NEW e \in DecidedBy(u) PROVE e \in DecidedBy(s) \/ e \in DecidedBy(from)
      OBVIOUS
    <2>1. u \in ReplicaState
      BY <1>7, WindowedState
    <2>2. e \in Entry /\ u.Results[e.request] = [term |-> e.term, index |-> e.index]
      BY <2>1, DecidedIs
    <2>3. e.request \in Request
      BY <2>2 DEF Entry
    <2>4. \/ s.Results[e.request] = [term |-> e.term, index |-> e.index]
          \/ from.Results[e.request] = [term |-> e.term, index |-> e.index]
      BY <1>6, <1>7, <2>2, <2>3
    <2> QED
      BY <1>3, <2>2, <2>4, DecidedIs
  <1>11. Fine(u, t, H, m, X)
    <2>1. \A f, g \in Range(u.Log) : f.term = t /\ f.index < g.index => g.term = t
      BY <1>9, FineFacts
    <2>2. \A e \in Range(u.Log) : e.term \in X /\ (e.term = t => e \in H)
      BY <1>9, FineFacts
    <2>3. \A e \in DecidedBy(u) : e.term \in X /\ (e.term = t => e \in H /\ e.index <= m)
      BY <1>10, FineFacts
    <2>4. u.SnapshotLastTerm \in X /\ u.GlobalTerm \in X
      BY <1>2, <1>6, <1>7, <1>8, FineFacts
    <2> QED
      BY <1>7, <2>1, <2>2, <2>3, <2>4, MakeFine
  <1>12. GoesOn(u, RaiseQuorum(u, d, snap.index), d, t, H, m, X)
    BY <1>6, <1>11, GoesOnRaise
  <1>13. Fine(RaiseQuorum(u, d, snap.index), t, H, m, X)
    BY <1>12 DEF GoesOn
  <1> QED
    BY <1>13 DEF Installed, u, snap

\* Replicate after the domain's acknowledgements.
LEMMA GoesOnQuorum ==
    ASSUME NEW t \in Nat, NEW H, NEW m \in Nat, NEW X, NEW s, Fine(s, t, H, m, X), NEW d \in Domain,
           NEW e \in Entry, NEW pending, \A p \in pending : p.term = t => p.index <= m
    PROVE  /\ GoesOn(s, QuorumReached(s, d, e, pending), d, t, H, m, X)
           /\ e.index <= QuorumReached(s, d, e, pending).DomainQuorumIndex[d]
  <1> DEFINE raised == RaiseQuorum(s, d, e.index)
             u == QuorumReached(s, d, e, pending)
             v == advanceCommitLocked(raised, e)
  <1>1. e.index \in Nat
    BY DEF Entry
  <1>2. /\ GoesOn(s, raised, d, t, H, m, X)
        /\ raised.DomainQuorumIndex[d] >= e.index
    BY <1>1, GoesOnRaise
  <1>3. u = IF e \in pending THEN v ELSE raised
    BY DEF QuorumReached
  <1> HIDE DEF raised, u, v
  <1>4. Windowed(s) /\ Windowed(raised) /\ Fine(raised, t, H, m, X)
    BY <1>2, FineFacts DEF GoesOn
  <1>5. raised.DomainQuorumIndex[d] \in Nat
    BY <1>4, MarkTyped
  <1>6. CASE e \in pending
    <2>1. t # 0 /\ e.term = t => e.index <= m
      BY <1>6
    <2>2. GoesOn(raised, u, d, t, H, m, X)
      BY <1>1, <1>3, <1>4, <1>6, <2>1, GoesOnAdvance DEF v
    <2>3. GoesOn(s, u, d, t, H, m, X)
      BY <1>2, <1>4, <2>2, GoesOnOn
    <2>4. u.DomainQuorumIndex[d] \in Nat
      BY <2>2, FineFacts, MarkTyped DEF GoesOn
    <2>5. raised.DomainQuorumIndex[d] <= u.DomainQuorumIndex[d]
      BY <2>2 DEF GoesOn, Conserves
    <2>6. e.index <= u.DomainQuorumIndex[d]
      BY <1>1, <1>2, <1>5, <2>4, <2>5
    <2> QED
      BY <2>3, <2>6 DEF u
  <1>7. CASE e \notin pending
    <2>1. e.index <= raised.DomainQuorumIndex[d]
      BY <1>1, <1>2, <1>5
    <2>2. u = raised
      BY <1>3, <1>7
    <2> QED
      BY <1>2, <2>1, <2>2 DEF u
  <1> QED
    BY <1>6, <1>7

\* catchUp with entries of the leader's log.
LEMMA FineRelay ==
    ASSUME NEW t \in Nat, NEW H, NEW m \in Nat, NEW X, NEW s, Fine(s, t, H, m, X), NEW d \in Domain,
           NEW e \in Entry, e.term \in X, e.term = t => e \in H,
           \A f \in H : e.term # t => e.index < f.index,
           NEW from, NEW pending, \A p \in pending : p.term = t => p.index <= m
    PROVE  Fine(Relay(d, from, pending, s, e), t, H, m, X)
  <1> DEFINE prev == prevLogFor(from, e.index)
             u == appendEntryChecked(s, e)
             v == QuorumReached(u, d, e, pending)
  <1>1. CASE appendOutcome(s, e, prev) = "accepted"
    <2>1. Relay(d, from, pending, s, e) = v
      BY <1>1 DEF Relay
    <2>2. Fine(u, t, H, m, X)
      <3> HIDE DEF prev
      <3> QED
        BY <1>1, FineAppend
    <2> HIDE DEF u
    <2>3. Fine(v, t, H, m, X)
      BY <2>2, GoesOnQuorum DEF GoesOn
    <2> QED
      BY <2>1, <2>3
  <1>2. CASE appendOutcome(s, e, prev) # "accepted"
    <2>1. Relay(d, from, pending, s, e) = s
      BY <1>2 DEF Relay
    <2> QED
      BY <2>1
  <1> QED
    BY <1>1, <1>2

\* catchUp passes on entries that the leader has, one after the other.
LEMMA FineRelayed ==
    ASSUME NEW t \in Nat, NEW H, NEW m \in Nat, NEW X, NEW s, Fine(s, t, H, m, X), NEW d \in Domain,
           NEW tail \in Seq(Entry),
           \A k \in 1..Len(tail) : /\ tail[k].term \in X /\ (tail[k].term = t => tail[k] \in H)
                                   /\ \A f \in H : tail[k].term # t => tail[k].index < f.index,
           NEW from, NEW pending, \A p \in pending : p.term = t => p.index <= m
    PROVE  Fine(Relayed(d, from, pending, s, tail), t, H, m, X)
  <1> DEFINE n == Len(tail)
  <1>1. n \in Nat
    OBVIOUS
  <1>2. PICK after : /\ after[0] = s /\ after[n] = Relayed(d, from, pending, s, tail)
                     /\ \A k \in 1..n : after[k] = Relay(d, from, pending, after[k - 1], tail[k])
    BY RelayedSteps
  <1>3. \A k \in 1..n : tail[k] \in Entry
    OBVIOUS
  <1> HIDE DEF n
  <1>4. \A k \in 0..n : Fine(after[k], t, H, m, X)
    <2> DEFINE S == {k \in 0..n : ~Fine(after[k], t, H, m, X)}
               i == Min(S)
    <2> SUFFICES ASSUME S # {} PROVE FALSE
      OBVIOUS
    <2>1. i \in S /\ \A y \in S : i <= y
      <3>1. S \in SUBSET Nat
        OBVIOUS
      <3> HIDE DEF S
      <3> QED
        BY <3>1, MinIsMember
    <2> HIDE DEF i
    <2>2. i \in 0..n /\ ~Fine(after[i], t, H, m, X)
      BY <2>1
    <2>3. i # 0
      BY <1>2, <2>2
    <2>4. i \in 1..n /\ i - 1 \in 0..n /\ ~(i <= i - 1)
      BY <1>1, <2>2, <2>3
    <2> DEFINE u == after[i - 1]
               v == after[i]
               e == tail[i]
    <2>5. Fine(u, t, H, m, X)
      BY <2>1, <2>4
    <2>6. v = Relay(d, from, pending, u, e)
      BY <1>2, <2>4
    <2>7. /\ e \in Entry /\ e.term \in X /\ (e.term = t => e \in H)
          /\ \A f \in H : e.term # t => e.index < f.index
      BY <1>3, <2>4 DEF n
    <2> HIDE DEF u, v, e
    <2>8. Fine(v, t, H, m, X)
      BY <2>5, <2>6, <2>7, FineRelay
    <2> QED
      BY <2>2, <2>8 DEF v
  <1>5. n \in 0..n
    BY <1>1
  <1> QED
    BY <1>2, <1>4, <1>5

\* What collectTailEntries sends are entries of the log.
LEMMA TailRange ==
    ASSUME NEW s, Windowed(s), NEW after \in Nat, NEW barrier \in Nat
    PROVE  LET tail == collectTailEntries(s, after, barrier)
           IN  \A k \in 1..Len(tail) : tail[k] \in Range(s.Log)
  <1> DEFINE tail == collectTailEntries(s, after, barrier)
             n == Lower(barrier, LastLogIndex(s)) - after
             q == [k \in 1..n |-> EntryAt(s.Log, after + k)]
  <1>1. /\ s.SnapshotLastIndex \in Nat /\ LastLogIndex(s) \in Nat
        /\ \A i \in Int : Found(s.Log, i) <=> i \in s.SnapshotLastIndex + 1 .. LastLogIndex(s)
    BY WindowedState
  <1>2. CASE after >= barrier \/ ~Found(s.Log, after + 1)
    <2>1. tail = << >>
      BY <1>2 DEF collectTailEntries
    <2>2. Len(tail) = 0
      BY <2>1
    <2> HIDE DEF tail
    <2>3. \A k \in 1..Len(tail) : tail[k] \in Range(s.Log)
      BY <2>2
    <2> QED
      BY <2>3 DEF tail
  <1>3. CASE ~(after >= barrier \/ ~Found(s.Log, after + 1))
    <2>1. tail = q
      BY <1>3 DEF collectTailEntries
    <2>2. Lower(barrier, LastLogIndex(s)) \in Nat /\ Lower(barrier, LastLogIndex(s)) <= LastLogIndex(s)
      BY <1>1 DEF Lower
    <2>3. after + 1 <= Lower(barrier, LastLogIndex(s))
      <3>1. after + 1 <= LastLogIndex(s) /\ after + 1 <= barrier
        BY <1>1, <1>3
      <3> QED
        BY <3>1 DEF Lower
    <2>4. n \in Nat /\ after + n <= LastLogIndex(s)
      BY <2>2, <2>3
    <2> HIDE DEF n
    <2>5. \A k \in 1..n : q[k] \in Range(s.Log)
      <3> SUFFICES ASSUME NEW k \in 1..n PROVE EntryAt(s.Log, after + k) \in Range(s.Log)
        OBVIOUS
      <3>1. after + 1 \in s.SnapshotLastIndex + 1 .. LastLogIndex(s)
        BY <1>1, <1>3
      <3>2. after + k \in s.SnapshotLastIndex + 1 .. LastLogIndex(s)
        BY <1>1, <2>4, <3>1
      <3> QED
        BY <3>2, LogRange
    <2>6. Len(q) = n
      BY <2>4
    <2> HIDE DEF q
    <2> QED
      BY <2>1, <2>5, <2>6
  <1> QED
    BY <1>2, <1>3

-----------------------------------------------------------------------------
(* The serving leader and everybody else.                                  *)

\* The terms that have been elected, the term of the serving leader, its entries and mark.
ElectedTerms == {t \in Nat : Elected(t)}
ServedTerm == IF serving = None THEN 0 ELSE leads[serving]
ServedEntries == IF serving = None THEN {} ELSE Held(state[serving], leads[serving])
ServedMark == IF serving = None THEN 0 ELSE Mark(serving)

FineNode(s) == Fine(s, ServedTerm, ServedEntries, ServedMark, ElectedTerms)
FineEntry(e) == /\ e.term \in ElectedTerms
                /\ e.term = ServedTerm => e \in ServedEntries /\ e.index <= ServedMark
OnTime(e) == /\ e.term \in ElectedTerms
             /\ e.term = ServedTerm => e \in ServedEntries
             /\ \A f \in ServedEntries : e.term # ServedTerm => e.index < f.index
GoesOnAt(d, u) == GoesOn(state[d], u, d, ServedTerm, ServedEntries, ServedMark, ElectedTerms)

\* A term once elected stays so: the domains that reach it do not go back.
LEMMA ElectedStays ==
    ASSUME ReplicationInv, NodesGoOn, NEW t \in ElectedTerms
    PROVE  Elected(t)'
  <1> DEFINE Later == {d \in Domain : state'[d].GlobalTerm >= t}
  <1>1. t \in Nat /\ Elected(t)
    BY DEF ElectedTerms
  <1>2. CASE t = 0
    BY <1>2 DEF Elected
  <1>3. CASE t # 0
    <2>1. Cardinality(Reached(t)) >= globalElectionThreshold
      BY <1>1, <1>3 DEF Elected
    <2>2. \A d \in Domain : /\ state[d].GlobalTerm \in Nat /\ state'[d].GlobalTerm \in Nat
                            /\ state[d].GlobalTerm <= state'[d].GlobalTerm
      <3>1. \A d \in Domain : state'[d] \in ReplicaState /\ state[d].GlobalTerm <= state'[d].GlobalTerm
        BY DEF NodesGoOn
      <3>2. \A d \in Domain : state'[d].GlobalTerm \in Nat
        BY <3>1 DEF ReplicaState
      <3> QED
        BY <3>1, <3>2, NodeFacts
    <2>3. Reached(t) \subseteq Later /\ Later \subseteq Domain
      BY <1>1, <2>2 DEF Reached
    <2> HIDE DEF Later
    <2>4. IsFiniteSet(Later) /\ IsFiniteSet(Reached(t))
      BY <2>3, ReplicationAssumption, FS_Subset
    <2>5. Cardinality(Reached(t)) <= Cardinality(Later)
      BY <2>3, <2>4, FS_Subset
    <2>6. /\ Cardinality(Reached(t)) \in Nat /\ Cardinality(Later) \in Nat
          /\ globalElectionThreshold \in Int
      BY <2>4, ReplicationAssumption, FS_CardinalityType DEF globalElectionThreshold
    <2>7. Cardinality(Later) >= globalElectionThreshold
      BY <2>1, <2>5, <2>6
    <2> QED
      BY <2>7 DEF Elected, Reached, Later
  <1> QED
    BY <1>2, <1>3

\* Somebody has reached an elected term.
LEMMA ElectedReached ==
    ASSUME NEW t \in ElectedTerms, t # 0, NEW x \in Domain
    PROVE  \E d \in Domain : state[d].GlobalTerm >= t
  <1>1. Cardinality(Reached(t)) >= globalElectionThreshold
    BY DEF ElectedTerms, Elected
  <1>2. Reached(t) \in SUBSET Domain
    BY DEF Reached
  <1>3. Reached(t) \cap Reached(t) # {}
    BY <1>1, <1>2, ElectionsMeet
  <1> QED
    BY <1>3 DEF Reached

\* Everything a later proof needs to know of ReadInv.
LEMMA ReadFacts ==
    ASSUME ReplicationInv, ReadInv
    PROVE  /\ ServedTerm \in Nat /\ ServedMark \in Nat /\ serving \in Domain \cup {None}
           /\ \A d \in Domain : FineNode(state[d]) /\ FineNode(disk[d])
           /\ \A e \in Announced : FineEntry(e)
           /\ \A d \in Domain : leads[d] # 0 => leads[d] = state[d].GlobalTerm
           /\ \A d \in Domain : state[d].GlobalTerm \in ElectedTerms
  <1>1. /\ serving \in Domain \cup {None} /\ leads \in [Domain -> Nat]
        /\ Announced \subseteq Entry
        /\ \A d \in Domain : Windowed(state[d]) /\ Windowed(disk[d])
        /\ \A d \in Domain : state[d] \in ReplicaState /\ disk[d] \in ReplicaState
    <2>1. Announced \subseteq Entry
      <3>1. /\ answers \subseteq Entry /\ pendingFast \in [Domain -> SUBSET Entry]
            /\ \A n \in notices : n.entry \in Entry
            /\ \A a \in announces : a.entry \in Entry
        BY DEF ReplicationInv, ReplicationTypeOK
      <3>2. \A d \in Domain : pendingFast[d] \subseteq Entry
        BY <3>1
      <3> QED
        BY <3>1, <3>2 DEF Announced
    <2> QED
      BY <2>1 DEF ReplicationInv, ReplicationTypeOK
  <1>2. \A d \in Domain : Mark(d) \in Nat
    BY <1>1, MarkTyped DEF Mark
  <1>3. ServedTerm \in Nat /\ ServedMark \in Nat
    BY <1>1, <1>2 DEF ServedTerm, ServedMark
  <1>4. \A e \in Entry : e.term \in Nat \ {0}
    BY DEF Entry
  <1>5. TermsElected /\ (serving # None => OwnTerm(serving, leads[serving]))
    BY DEF ReadInv
  <1>6. ASSUME NEW s, Windowed(s), NEW t \in TermsOf(s) PROVE t \in Nat
    <2>1. s \in ReplicaState /\ s.GlobalTerm \in Nat /\ s.SnapshotLastTerm \in Nat
      BY <1>6, WindowedState DEF ReplicaState
    <2>2. \A e \in Range(s.Log) \cup DecidedBy(s) : e.term \in Nat
      BY <1>4, <1>6, <2>1, LogRange, DecidedIs
    <2> QED
      BY <2>1, <2>2 DEF TermsOf
  <1>7. \A d \in Domain : TermsOf(state[d]) \subseteq ElectedTerms /\ TermsOf(disk[d]) \subseteq ElectedTerms
    BY <1>1, <1>5, <1>6 DEF TermsElected, ElectedTerms
  <1>8. ASSUME NEW s, Windowed(s), TermsOf(s) \subseteq ElectedTerms,
               serving # None => Agrees(s, leads[serving], Held(state[serving], leads[serving]), Mark(serving))
        PROVE  FineNode(s)
    <2>1. CASE serving # None
      BY <1>8, <2>1 DEF FineNode, Fine, ServedTerm, ServedEntries, ServedMark
    <2>2. CASE serving = None
      <3>1. ServedTerm = 0 /\ ServedEntries = {}
        BY <2>2 DEF ServedTerm, ServedEntries
      <3>2. \A e \in Range(s.Log) \cup DecidedBy(s) : e.term # 0
        BY <1>4, <1>8, LogRange, DecidedIs, WindowedState
      <3>3. Held(s, 0) = {}
        BY <3>2 DEF Held
      <3>4. Agrees(s, 0, {}, ServedMark)
        BY <3>2, <3>3 DEF Agrees
      <3> QED
        BY <1>8, <3>1, <3>4 DEF FineNode, Fine
    <2> QED
      BY <2>1, <2>2
  <1>9. ASSUME NEW d \in Domain PROVE FineNode(state[d]) /\ FineNode(disk[d])
    <2>1. serving # None =>
            /\ Agrees(state[d], leads[serving], Held(state[serving], leads[serving]), Mark(serving))
            /\ Agrees(disk[d], leads[serving], Held(state[serving], leads[serving]), Mark(serving))
      BY <1>5 DEF OwnTerm
    <2> QED
      BY <1>1, <1>7, <1>8, <2>1
  <1>10. ASSUME NEW e \in Announced PROVE FineEntry(e)
    <2>1. e.term \in Nat \ {0}
      BY <1>1, <1>4
    <2>2. e.term \in ElectedTerms
      BY <1>5, <2>1 DEF TermsElected, ElectedTerms
    <2>3. CASE serving = None
      BY <2>1, <2>2, <2>3 DEF FineEntry, ServedTerm
    <2>4. CASE serving # None
      <3>1. e.term = leads[serving] =>
              e \in Held(state[serving], leads[serving]) /\ e.index <= Mark(serving)
        BY <1>5, <2>4 DEF OwnTerm
      <3> QED
        BY <2>2, <2>4, <3>1 DEF FineEntry, ServedTerm, ServedEntries, ServedMark
    <2> QED
      BY <2>3, <2>4
  <1>11. \A d \in Domain : leads[d] # 0 => leads[d] = state[d].GlobalTerm
    BY <1>5 DEF TermsElected
  <1>12. \A d \in Domain : state[d].GlobalTerm \in ElectedTerms
    BY <1>7 DEF TermsOf
  <1> QED
    BY <1>1, <1>3, <1>9, <1>10, <1>11, <1>12

\* What it says of the serving leader.
LEMMA ServingFacts ==
    ASSUME ReplicationInv, ReadInv, serving # None
    PROVE  /\ serving \in Domain /\ ServedTerm = leads[serving] /\ ServedTerm # 0
           /\ ServedTerm = state[serving].GlobalTerm
           /\ ServedEntries = Held(state[serving], ServedTerm) /\ ServedMark = Mark(serving)
           /\ Orders(state[serving], ServedTerm, ServedMark)
           /\ \A t \in ElectedTerms : t <= ServedTerm
  <1>1. serving \in Domain
    BY DEF ReplicationInv, ReplicationTypeOK
  <1>2. /\ ServedTerm = leads[serving] /\ ServedMark = Mark(serving)
        /\ ServedEntries = Held(state[serving], ServedTerm)
    BY DEF ServedTerm, ServedEntries, ServedMark
  <1>3. leads[serving] # 0 /\ OwnTerm(serving, leads[serving]) /\ TermsElected
    BY DEF ReadInv
  <1>4. Orders(state[serving], ServedTerm, ServedMark)
    BY <1>2, <1>3 DEF OwnTerm
  <1>5. ServedTerm = state[serving].GlobalTerm /\ ServedTerm # 0
    BY <1>1, <1>2, <1>3 DEF TermsElected
  <1>6. \A d \in Domain : state[d].GlobalTerm <= ServedTerm /\ state[d].GlobalTerm \in Nat
    BY <1>3, <1>5, NodeFacts DEF OwnTerm
  <1>7. ServedTerm \in Nat
    BY <1>1, <1>5, <1>6
  <1>8. ASSUME NEW t \in ElectedTerms PROVE t <= ServedTerm
    <2>1. t \in Nat
      BY DEF ElectedTerms
    <2>2. CASE t = 0
      BY <1>7, <2>2
    <2>3. CASE t # 0
      <3>1. PICK d \in Domain : state[d].GlobalTerm >= t
        BY <1>1, <2>3, ElectedReached
      <3> QED
        BY <1>6, <1>7, <2>1, <3>1
    <2> QED
      BY <2>2, <2>3
  <1> QED
    BY <1>1, <1>2, <1>4, <1>5, <1>8

\* And of the running commits.
LEMMA CommitsFine ==
    ASSUME ReplicationInv, ReadInv, NEW c \in commits
    PROVE  /\ c.leader \in Domain /\ c.entry \in Entry
           /\ \A b \in commits : b.leader = c.leader
           /\ serving # None => c.leader = serving
           /\ c.entry \in Range(state[c.leader].Log)
                \/ c.entry.index <= state[c.leader].SnapshotLastIndex
           /\ OnTime(c.entry)
           /\ c.leader \in c.acks \cup c.quorums => /\ c.entry.index <= Mark(c.leader)
                                                    /\ FineEntry(c.entry)
  <1>1. c.leader \in Domain /\ c.entry \in Entry /\ c.entry.term \in Nat \ {0}
    <2>1. c.leader \in Domain /\ c.entry \in Entry
      BY CommitFacts
    <2> QED
      BY <2>1 DEF Entry
  <1>2. /\ \A b \in commits : b.leader = c.leader
        /\ serving # None => c.leader = serving
        /\ c.entry \in Range(state[c.leader].Log)
             \/ c.entry.index <= state[c.leader].SnapshotLastIndex
        /\ c.leader \in c.acks \cup c.quorums => c.entry.index <= Mark(c.leader)
    BY DEF ReadInv, CommitsHeld
  <1>3. c.entry.term \in ElectedTerms
    BY <1>1 DEF ReadInv, TermsElected, ElectedTerms
  <1>4. OnTime(c.entry)
    <2>1. CASE serving = None
      BY <1>1, <1>3, <2>1 DEF OnTime, ServedTerm, ServedEntries
    <2>2. CASE serving # None
      <3>1. IF c.entry.term = leads[serving] THEN c.entry \in Held(state[serving], leads[serving])
            ELSE \A f \in Held(state[serving], leads[serving]) : c.entry.index < f.index
        BY <2>2 DEF ReadInv, OwnTerm
      <3> QED
        BY <1>3, <2>2, <3>1 DEF OnTime, ServedTerm, ServedEntries
    <2> QED
      BY <2>1, <2>2
  <1>5. ASSUME c.entry.index <= Mark(c.leader) PROVE FineEntry(c.entry)
    <2>1. CASE serving = None
      BY <1>1, <1>3, <2>1 DEF FineEntry, ServedTerm
    <2>2. CASE serving # None
      <3>1. c.entry.index <= ServedMark
        BY <1>2, <1>5, <2>2 DEF ServedMark
      <3> QED
        BY <1>3, <1>4, <3>1 DEF FineEntry, OnTime
    <2> QED
      BY <2>1, <2>2
  <1> QED
    BY <1>1, <1>2, <1>4, <1>5

\* A node that knows of no other entries than those in H knows of none outside a larger set.
LEMMA FineMore ==
    ASSUME NEW t, NEW H, NEW m \in Nat, NEW X, NEW s, Fine(s, t, H, m, X),
           NEW I, H \subseteq I, NEW n \in Nat, m <= n
    PROVE  Agrees(s, t, I, n)
  <1>1. Windowed(s)
    BY FineFacts
  <1>2. \A e \in DecidedBy(s) : e.index \in Nat
    BY <1>1, WindowedState, DecidedIs DEF Entry
  <1>3. Agrees(s, t, H, m)
    BY DEF Fine
  <1>4. \A e \in DecidedBy(s) : e.term = t => e.index <= n
    BY <1>2, <1>3 DEF Agrees
  <1> QED
    BY <1>3, <1>4 DEF Agrees

\* A step after which the serving leader, if it still serves, has the same entries and at
\* least the same mark, and everybody else knows of no others.
LEMMA ReadStep ==
    ASSUME ReplicationInv, ReadInv, ReplicationInv', NodesGoOn,
           serving' \in {serving, None}, serving' # None => leads'[serving] = leads[serving],
           \A d \in Domain : leads'[d] # 0 =>
             leads'[d] = leads[d] /\ state'[d].GlobalTerm = state[d].GlobalTerm,
           \A d \in Domain : FineNode(state'[d]) /\ FineNode(disk'[d]),
           \A e \in Announced' : FineEntry(e),
           serving' # None => /\ Orders(state'[serving], ServedTerm, ServedMark)
                              /\ ServedEntries \subseteq Held(state'[serving], ServedTerm)
                              /\ ServedMark <= state'[serving].DomainQuorumIndex[serving],
           \A c \in commits' : \E b \in commits :
             /\ b.leader = c.leader /\ b.entry = c.entry
             /\ c.leader \in c.acks \cup c.quorums =>
                  \/ c.leader \in b.acks \cup b.quorums
                  \/ c.entry.index <= state'[c.leader].DomainQuorumIndex[c.leader],
           \A c \in commits' : Conserves(state[c.leader], state'[c.leader], c.leader)
    PROVE  ReadInv'
  <1>1. \A t \in ElectedTerms : Elected(t)'
    BY ElectedStays
  <1>2. /\ ServedTerm \in Nat /\ ServedMark \in Nat /\ serving \in Domain \cup {None}
        /\ \A d \in Domain : leads[d] # 0 => leads[d] = state[d].GlobalTerm
    BY ReadFacts
  <1>3. \A d \in Domain : Windowed(state[d]) /\ Windowed(state'[d])
    BY NodeFacts DEF NodesGoOn
  <1>4. \A d \in Domain : Mark(d) \in Nat /\ state'[d].DomainQuorumIndex[d] \in Nat
    BY <1>3, MarkTyped DEF Mark
  <1>5. ASSUME NEW c \in commits'
        PROVE  /\ OnTime(c.entry) /\ c.leader \in Domain /\ c.entry \in Entry
               /\ \A b \in commits : b.leader = c.leader
               /\ serving # None => c.leader = serving
               /\ c.entry \in Range(state'[c.leader].Log)
                    \/ c.entry.index <= state'[c.leader].SnapshotLastIndex
               /\ c.leader \in c.acks \cup c.quorums =>
                    c.entry.index <= state'[c.leader].DomainQuorumIndex[c.leader]
    <2> DEFINE l == c.leader
    <2>1. PICK b \in commits : /\ b.leader = l /\ b.entry = c.entry
                               /\ l \in c.acks \cup c.quorums =>
                                    \/ l \in b.acks \cup b.quorums
                                    \/ c.entry.index <= state'[l].DomainQuorumIndex[l]
      BY <1>5
    <2>2. /\ l \in Domain /\ c.entry \in Entry
          /\ \A x \in commits : x.leader = l
          /\ serving # None => l = serving
          /\ c.entry \in Range(state[l].Log) \/ c.entry.index <= state[l].SnapshotLastIndex
          /\ OnTime(c.entry)
          /\ l \in b.acks \cup b.quorums => c.entry.index <= Mark(l)
      BY <2>1, CommitsFine
    <2>3. Conserves(state[l], state'[l], l)
      BY <1>5
    <2>4. c.entry.index \in Nat /\ state[l].SnapshotLastIndex \in Nat /\ state'[l].SnapshotLastIndex \in Nat
      BY <1>3, <2>2, WindowedState DEF Entry
    <2>5. c.entry \in Range(state'[l].Log) \/ c.entry.index <= state'[l].SnapshotLastIndex
      BY <2>2, <2>3, <2>4 DEF Conserves
    <2>6. Mark(l) <= state'[l].DomainQuorumIndex[l]
      BY <2>3 DEF Conserves, Mark
    <2>7. l \in c.acks \cup c.quorums => c.entry.index <= state'[l].DomainQuorumIndex[l]
      BY <1>4, <2>1, <2>2, <2>4, <2>6
    <2> QED
      BY <2>2, <2>5, <2>7
  <1>6. TermsElected'
    <2>1. \A e \in Announced' : Elected(e.term)'
      BY <1>1 DEF FineEntry
    <2>2. \A c \in commits' : Elected(c.entry.term)'
      BY <1>1, <1>5 DEF OnTime
    <2>3. ASSUME NEW d \in Domain, NEW t \in TermsOf(state'[d]) \cup TermsOf(disk'[d])
          PROVE  Elected(t)'
      <3>1. t \in ElectedTerms
        BY <2>3 DEF FineNode, Fine
      <3> QED
        BY <1>1, <3>1
    <2>4. \A d \in Domain : leads'[d] # 0 => leads'[d] = state'[d].GlobalTerm
      BY <1>2
    <2> QED
      BY <2>1, <2>2, <2>3, <2>4 DEF TermsElected
  <1>7. CommitsHeld'
    <2>1. \A b, c \in commits' : b.leader = c.leader
      BY <1>5
    <2> QED
      BY <1>5, <2>1 DEF CommitsHeld, Mark
  <1>8. CASE serving' = None
    BY <1>6, <1>7, <1>8 DEF ReadInv
  <1>9. CASE serving' # None
    <2> DEFINE L == serving
               s == state'[L]
               H == Held(s, ServedTerm)
               m == s.DomainQuorumIndex[L]
    <2>1. serving' = L /\ L # None /\ L \in Domain
      BY <1>2, <1>9
    <2>2. /\ ServedTerm = leads[L] /\ ServedTerm # 0 /\ ServedTerm = state[L].GlobalTerm
          /\ \A t \in ElectedTerms : t <= ServedTerm
      BY <2>1, ServingFacts
    <2>3. leads'[L] = ServedTerm /\ s.GlobalTerm = ServedTerm
      BY <1>9, <2>1, <2>2
    <2>4. ServedEntries \subseteq H /\ ServedMark <= m /\ m \in Nat /\ Orders(s, ServedTerm, ServedMark)
      BY <1>4, <1>9, <2>1
    <2>5. s.SnapshotLastIndex \in Nat
      BY <1>3, <2>1, WindowedState
    <2>6. Orders(s, ServedTerm, m)
      BY <1>2, <2>4, <2>5 DEF Orders
    <2>7. ASSUME NEW d \in Domain
          PROVE  /\ state'[d].GlobalTerm <= s.GlobalTerm
                 /\ Agrees(state'[d], ServedTerm, H, m) /\ Agrees(disk'[d], ServedTerm, H, m)
      <3>1. state'[d].GlobalTerm \in ElectedTerms
        BY FineFacts DEF FineNode
      <3>2. FineNode(state'[d]) /\ FineNode(disk'[d])
        OBVIOUS
      <3> HIDE DEF H, m
      <3>3. Agrees(state'[d], ServedTerm, H, m) /\ Agrees(disk'[d], ServedTerm, H, m)
        BY <1>2, <2>4, <3>2, FineMore DEF FineNode
      <3> QED
        BY <2>2, <2>3, <3>1, <3>3
    <2>8. \A e \in Announced' : e.term = ServedTerm => e \in H /\ e.index <= m
      <3> SUFFICES ASSUME NEW e \in Announced', e.term = ServedTerm PROVE e \in H /\ e.index <= m
        OBVIOUS
      <3>1. e \in ServedEntries /\ e.index <= ServedMark
        BY DEF FineEntry
      <3>2. e.index \in Nat
        <4>1. e \in Held(state[L], ServedTerm) /\ Windowed(state[L])
          BY <1>3, <2>1, <3>1, ServingFacts
        <4>2. e \in Entry
          BY <4>1, LogRange, DecidedIs, WindowedState DEF Held
        <4> QED
          BY <4>2 DEF Entry
      <3> HIDE DEF m, H
      <3> QED
        BY <1>2, <2>4, <3>1, <3>2
    <2>9. \A c \in commits' : IF c.entry.term = ServedTerm THEN c.entry \in H
                              ELSE \A f \in H : c.entry.index < f.index
      <3> SUFFICES ASSUME NEW c \in commits'
                   PROVE  IF c.entry.term = ServedTerm THEN c.entry \in H
                          ELSE \A f \in H : c.entry.index < f.index
        OBVIOUS
      <3>1. H \subseteq ServedEntries
        <4>1. FineNode(s)
          BY <2>1
        <4> QED
          BY <4>1 DEF FineNode, Fine, Agrees
      <3> QED
        BY <1>5, <2>4, <3>1 DEF OnTime
    <2>10. OwnTerm(serving, leads[serving])'
      BY <2>1, <2>3, <2>6, <2>7, <2>8, <2>9 DEF OwnTerm, Mark
    <2>11. (leads[serving] # 0)'
      BY <2>1, <2>2, <2>3
    <2> QED
      BY <1>6, <1>7, <2>10, <2>11 DEF ReadInv
  <1> QED
    BY <1>8, <1>9

\* Every running commit was running before, with the same leader and entry; and d's mark
\* covers what d has acknowledged to itself.
CommitsFrom(d, u) ==
    \A c \in commits' : \E b \in commits :
      /\ b.leader = c.leader /\ b.entry = c.entry
      /\ c.leader \in c.acks \cup c.quorums =>
           \/ c.leader \in b.acks \cup b.quorums
           \/ c.leader = d /\ c.entry.index <= u.DomainQuorumIndex[d]

\* The same for a step that gives one node the state u.
LEMMA OneNode ==
    ASSUME ReplicationInv, ReadInv, ReplicationInv', NodesGoOn,
           NEW d \in Domain, NEW u, SetState(d, u), FineNode(u),
           \A x \in Domain : disk'[x] \in {disk[x], u},
           serving' \in {serving, None}, \A x \in Domain : leads'[x] \in {leads[x], 0},
           serving' # None => leads'[serving] = leads[serving],
           leads'[d] = 0 \/ u.GlobalTerm = state[d].GlobalTerm,
           \A e \in Announced' : FineEntry(e),
           (serving' = d \/ \E c \in commits' : c.leader = d) => GoesOnAt(d, u),
           CommitsFrom(d, u)
    PROVE  ReadInv'
  <1>1. /\ state \in [Domain -> ReplicaState]
        /\ \A x \in Domain : FineNode(state[x]) /\ FineNode(disk[x])
        /\ serving \in Domain \cup {None}
    BY NodeFacts, ReadFacts
  <1>2. state' = [state EXCEPT ![d] = u]
    BY DEF SetState
  <1>3. \A x \in Domain : state'[x] = IF x = d THEN u ELSE state[x]
    BY <1>1, <1>2
  <1>4. \A x \in Domain : FineNode(state'[x]) /\ FineNode(disk'[x])
    BY <1>1, <1>3
  <1>5. \A x \in Domain : leads'[x] # 0 =>
          leads'[x] = leads[x] /\ state'[x].GlobalTerm = state[x].GlobalTerm
    BY <1>3
  <1>6. ASSUME NEW x \in Domain, x # d \/ GoesOnAt(d, u)
        PROVE  GoesOnAt(x, state'[x])
    <2>1. CASE x = d
      BY <1>3, <1>6, <2>1
    <2>2. CASE x # d
      <3>1. GoesOnAt(x, state[x])
        BY <1>1, GoesOnSelf DEF GoesOnAt, FineNode
      <3> QED
        BY <1>3, <2>2, <3>1
    <2> QED
      BY <2>1, <2>2
  <1>7. ASSUME serving' # None
        PROVE  /\ Orders(state'[serving], ServedTerm, ServedMark)
               /\ ServedEntries \subseteq Held(state'[serving], ServedTerm)
               /\ ServedMark <= state'[serving].DomainQuorumIndex[serving]
    <2>1. serving # None /\ serving \in Domain /\ serving' = serving
      BY <1>1, <1>7
    <2>2. GoesOnAt(serving, state'[serving])
      BY <1>6, <2>1
    <2>3. /\ ServedTerm # 0 /\ Orders(state[serving], ServedTerm, ServedMark)
          /\ ServedEntries = Held(state[serving], ServedTerm) /\ ServedMark = Mark(serving)
      BY <2>1, ServingFacts
    <2>4. /\ Orders(state'[serving], ServedTerm, ServedMark)
          /\ ServedEntries \subseteq Held(state'[serving], ServedTerm)
      BY <2>2, <2>3 DEF GoesOnAt, GoesOn
    <2>5. ServedMark <= state'[serving].DomainQuorumIndex[serving]
      BY <2>2, <2>3 DEF GoesOnAt, GoesOn, Conserves, Mark
    <2> QED
      BY <2>4, <2>5
  <1>8. \A c \in commits' : c.leader \in Domain
    BY CommitsFine DEF CommitsFrom
  <1>9. \A c \in commits' : Conserves(state[c.leader], state'[c.leader], c.leader)
    <2> SUFFICES ASSUME NEW c \in commits'
                 PROVE  Conserves(state[c.leader], state'[c.leader], c.leader)
      OBVIOUS
    <2>1. GoesOnAt(c.leader, state'[c.leader])
      BY <1>6, <1>8
    <2> QED
      BY <2>1 DEF GoesOnAt, GoesOn
  <1>10. \A c \in commits' : \E b \in commits :
           /\ b.leader = c.leader /\ b.entry = c.entry
           /\ c.leader \in c.acks \cup c.quorums =>
                \/ c.leader \in b.acks \cup b.quorums
                \/ c.entry.index <= state'[c.leader].DomainQuorumIndex[c.leader]
    <2> SUFFICES ASSUME NEW c \in commits'
                 PROVE  \E b \in commits :
                          /\ b.leader = c.leader /\ b.entry = c.entry
                          /\ c.leader \in c.acks \cup c.quorums =>
                               \/ c.leader \in b.acks \cup b.quorums
                               \/ c.entry.index <= state'[c.leader].DomainQuorumIndex[c.leader]
      OBVIOUS
    <2>1. PICK b \in commits :
            /\ b.leader = c.leader /\ b.entry = c.entry
            /\ c.leader \in c.acks \cup c.quorums =>
                 \/ c.leader \in b.acks \cup b.quorums
                 \/ c.leader = d /\ c.entry.index <= u.DomainQuorumIndex[d]
      BY DEF CommitsFrom
    <2> QED
      BY <1>3, <2>1
  <1> QED
    BY <1>4, <1>5, <1>7, <1>9, <1>10, ReadStep

\* Commits may end.
LEMMA FewerFrom ==
    ASSUME commits' \subseteq commits, NEW d, NEW u
    PROVE  CommitsFrom(d, u)
  BY DEF CommitsFrom

\* What is on disk was there before or is what is saved.
LEMMA SavedAt ==
    ASSUME NEW d \in Domain, NEW u, disk \in [Domain -> ReplicaState],
           Save(d, u) \/ (SetState(d, u) /\ UNCHANGED disk)
    PROVE  SetState(d, u) /\ \A x \in Domain : disk'[x] \in {disk[x], u}
  BY DEF Save

\* A node that keeps its state.
LEMMA NothingSet ==
    ASSUME ReplicationInv, UNCHANGED nodeVars, NEW d \in Domain
    PROVE  SetState(d, state[d]) /\ UNCHANGED disk
  <1>1. state' = state /\ disk' = disk /\ state \in [Domain -> ReplicaState]
    BY NodeFacts DEF nodeVars
  <1> QED
    BY <1>1 DEF SetState

\* No new message, no new announced entry.
LEMMA SameAnnounced ==
    ASSUME UNCHANGED <<fastVars, notices, answers>>
    PROVE  Announced' = Announced
  BY DEF Announced, fastVars

\* A step that changes no roles.
LEMMA QuietNode ==
    ASSUME ReplicationInv, ReadInv, ReplicationInv', NodesGoOn,
           NEW d \in Domain, NEW u, Save(d, u) \/ (SetState(d, u) /\ UNCHANGED disk),
           GoesOnAt(d, u) \/ (FineNode(u) /\ serving # d /\ \A c \in commits' : c.leader # d),
           u.GlobalTerm = state[d].GlobalTerm,
           UNCHANGED roleVars, \A e \in Announced' : FineEntry(e), CommitsFrom(d, u)
    PROVE  ReadInv'
  <1>1. serving' = serving /\ leads' = leads
    BY DEF roleVars
  <1>2. SetState(d, u) /\ \A x \in Domain : disk'[x] \in {disk[x], u}
    BY NodeFacts, SavedAt
  <1>3. FineNode(u)
    BY DEF GoesOnAt, GoesOn, FineNode
  <1>4. (serving' = d \/ \E c \in commits' : c.leader = d) => GoesOnAt(d, u)
    BY <1>1
  <1> QED
    BY <1>1, <1>2, <1>3, <1>4, OneNode

-----------------------------------------------------------------------------
(* The steps of a node, one after the other.                               *)

\* HeartbeatGlobalInternal: only the serving leader, if there is one, still reaches anybody,
\* and it has a mark for the position it sends.
LEMMA HeartbeatReads ==
    ASSUME ReplicationInv, ReadInv, ReplicationInv', NodesGoOn, ~DeposedReach,
           NEW l \in Domain, NEW d \in Domain, HeartbeatGlobal(l, d)
    PROVE  ReadInv'
  <1> DEFINE s == [state[d] EXCEPT !.GlobalTerm = leads[l]]
             c == CommitPosition(state[l])
             u == advanceCommitLocked(s, c)
  <1>1. /\ leads[l] # 0 /\ Reaches(l, d) /\ l # d /\ Save(d, u)
        /\ leads' = [leads EXCEPT ![d] = 0] /\ serving' = serving /\ commits' = commits
        /\ UNCHANGED <<fastVars, notices, answers>>
    BY DEF HeartbeatGlobal
  <1>2. \A x \in Domain : state[x].GlobalTerm <= state[l].GlobalTerm
    BY <1>1 DEF Reaches
  <1>3. /\ leads \in [Domain -> Nat] /\ disk \in [Domain -> ReplicaState]
        /\ \A x \in Domain : state[x].GlobalTerm \in Nat /\ Windowed(state[x])
    BY NodeFacts
  <1>4. /\ ServedTerm \in Nat /\ ServedMark \in Nat
        /\ \A x \in Domain : leads[x] # 0 => leads[x] = state[x].GlobalTerm
        /\ \A x \in Domain : state[x].GlobalTerm \in ElectedTerms
        /\ FineNode(state[l]) /\ FineNode(state[d])
    BY ReadFacts
  <1>5. serving # None => serving = l
    <2> SUFFICES ASSUME serving # None PROVE serving = l
      OBVIOUS
    <2>1. /\ serving \in Domain /\ ServedTerm = leads[serving] /\ ServedTerm # 0
          /\ ServedTerm = state[serving].GlobalTerm
          /\ \A t \in ElectedTerms : t <= ServedTerm
      BY ServingFacts
    <2>2. leads[l] = leads[serving]
      BY <1>1, <1>2, <1>3, <1>4, <2>1
    <2> QED
      BY <1>1, <2>1, <2>2 DEF ReplicationInv, OneLeaderPerTerm
  <1>6. c.index \in Nat /\ (ServedTerm # 0 /\ c.term = ServedTerm => c.index <= ServedMark)
    <2>1. c.index \in Nat
      BY <1>3, PositionTyped
    <2>2. ServedTerm # 0 => Orders(state[l], ServedTerm, ServedMark)
      BY <1>5, ServingFacts DEF ServedTerm
    <2> QED
      BY <1>4, <2>1, <2>2, FinePosition DEF FineNode
  <1> HIDE DEF c
  <1>7. GoesOnAt(d, s)
    <2>1. leads[l] \in Nat /\ leads[l] \in ElectedTerms
      BY <1>1, <1>3, <1>4
    <2>2. Windowed(s) /\ s.GlobalTerm = leads[l]
      BY <1>3, <2>1, TermRaised
    <2>3. SameReplica(state[d], s)
      BY <1>3, <2>1, MarksOnly, WindowedState
    <2>4. s.DomainQuorumIndex = state[d].DomainQuorumIndex
      BY <1>3, WindowedState DEF ReplicaState
    <2>5. state[d].DomainQuorumIndex[d] \in Nat
      BY <1>3, MarkTyped
    <2> HIDE DEF s
    <2>6. state[d].DomainQuorumIndex[d] <= s.DomainQuorumIndex[d]
      BY <2>4, <2>5
    <2> QED
      BY <1>4, <2>1, <2>2, <2>3, <2>6, GoesOnSame DEF GoesOnAt, FineNode
  <1> HIDE DEF s
  <1>8. GoesOnAt(d, u)
    <2>1. FineNode(s)
      BY <1>7 DEF GoesOnAt, GoesOn, FineNode
    <2>2. GoesOn(s, u, d, ServedTerm, ServedEntries, ServedMark, ElectedTerms)
      BY <1>4, <1>6, <2>1, GoesOnAdvance DEF FineNode
    <2> QED
      BY <1>3, <1>7, <2>2, GoesOnOn DEF GoesOnAt
  <1>9. FineNode(u)
    BY <1>8 DEF GoesOnAt, GoesOn, FineNode
  <1> HIDE DEF u
  <1>10. SetState(d, u) /\ \A x \in Domain : disk'[x] \in {disk[x], u}
    BY <1>1, <1>3, SavedAt
  <1>11. /\ \A x \in Domain : leads'[x] \in {leads[x], 0}
         /\ leads'[d] = 0 /\ (serving' # None => leads'[serving] = leads[serving])
    BY <1>1, <1>3, <1>5
  <1>12. \A e \in Announced' : FineEntry(e)
    BY <1>1, ReadFacts, SameAnnounced
  <1>13. CommitsFrom(d, u)
    BY <1>1, FewerFrom
  <1> QED
    BY <1>1, <1>8, <1>9, <1>10, <1>11, <1>12, <1>13, OneNode

\* observeHigherGlobalTerm: a leader that steps down serves no longer.
LEMMA StepDownReads ==
    ASSUME ReplicationInv, ReadInv, ReplicationInv', NodesGoOn,
           NEW l \in Domain, NEW t \in 1..MaxTerm, StepDown(l, t)
    PROVE  ReadInv'
  <1> DEFINE u == [state[l] EXCEPT !.GlobalTerm = t]
  <1>1. /\ leads[l] # 0 /\ Save(l, u)
        /\ t = state[l].GlobalTerm \/ \E d \in Domain : t = state[d].GlobalTerm
        /\ leads' = [leads EXCEPT ![l] = 0] /\ commits' = commits
        /\ serving' = IF serving = l THEN None ELSE serving
        /\ UNCHANGED <<fastVars, notices, answers>>
    BY DEF StepDown
  <1>2. /\ leads \in [Domain -> Nat] /\ disk \in [Domain -> ReplicaState] /\ Windowed(state[l])
    BY NodeFacts
  <1>3. FineNode(state[l]) /\ \A x \in Domain : state[x].GlobalTerm \in ElectedTerms
    BY ReadFacts
  <1>4. t \in Nat /\ t \in ElectedTerms
    BY <1>1, <1>3, ReplicationAssumption
  <1>5. GoesOnAt(l, u)
    <2>1. Windowed(u) /\ u.GlobalTerm = t
      BY <1>2, <1>4, TermRaised
    <2>2. SameReplica(state[l], u)
      BY <1>2, <1>4, MarksOnly, WindowedState
    <2>3. u.DomainQuorumIndex = state[l].DomainQuorumIndex
      BY <1>2, WindowedState DEF ReplicaState
    <2>4. state[l].DomainQuorumIndex[l] \in Nat
      BY <1>2, MarkTyped
    <2> HIDE DEF u
    <2>5. state[l].DomainQuorumIndex[l] <= u.DomainQuorumIndex[l]
      BY <2>3, <2>4
    <2> QED
      BY <1>3, <1>4, <2>1, <2>2, <2>5, GoesOnSame DEF GoesOnAt, FineNode
  <1> HIDE DEF u
  <1>6. FineNode(u)
    BY <1>5 DEF GoesOnAt, GoesOn, FineNode
  <1>7. SetState(l, u) /\ \A x \in Domain : disk'[x] \in {disk[x], u}
    BY <1>1, <1>2, SavedAt
  <1>8. /\ \A x \in Domain : leads'[x] \in {leads[x], 0}
        /\ leads'[l] = 0 /\ serving' \in {serving, None}
        /\ serving' # None => leads'[serving] = leads[serving]
    BY <1>1, <1>2
  <1>9. \A e \in Announced' : FineEntry(e)
    BY <1>1, ReadFacts, SameAnnounced
  <1>10. CommitsFrom(l, u)
    BY <1>1, FewerFrom
  <1> QED
    BY <1>5, <1>6, <1>7, <1>8, <1>9, <1>10, OneNode

\* A Domain Leader that is replaced loses its commits and its lease.
LEMMA ReplacedReads ==
    ASSUME ReplicationInv, ReadInv, ReplicationInv', NodesGoOn,
           NEW d \in Domain, NEW u, FineNode(u), Replaced(d, u)
    PROVE  ReadInv'
  <1>1. /\ Save(d, u) /\ leads' = [leads EXCEPT ![d] = 0]
        /\ serving' = IF serving = d THEN None ELSE serving
        /\ commits' = {c \in commits : c.leader # d}
        /\ pendingFast' = [pendingFast EXCEPT ![d] = {}]
        /\ UNCHANGED <<announces, notices, answers>>
    BY DEF Replaced
  <1>2. /\ leads \in [Domain -> Nat] /\ disk \in [Domain -> ReplicaState]
        /\ serving \in Domain \cup {None} /\ pendingFast \in [Domain -> SUBSET Entry]
    BY DEF ReplicationInv, ReplicationTypeOK
  <1>3. SetState(d, u) /\ \A x \in Domain : disk'[x] \in {disk[x], u}
    BY <1>1, <1>2, SavedAt
  <1>4. /\ \A x \in Domain : leads'[x] \in {leads[x], 0}
        /\ leads'[d] = 0 /\ serving' \in {serving, None} /\ serving' # d
        /\ serving' # None => leads'[serving] = leads[serving]
    BY <1>1, <1>2, ReplicationAssumption
  <1>5. \A e \in Announced' : FineEntry(e)
    <2>1. \A x \in Domain : pendingFast'[x] \subseteq pendingFast[x]
      BY <1>1, <1>2
    <2>2. Announced' \subseteq Announced
      BY <1>1, <2>1 DEF Announced
    <2> QED
      BY <2>2, ReadFacts
  <1>6. CommitsFrom(d, u)
    BY <1>1, FewerFrom
  <1>7. ~(serving' = d \/ \E c \in commits' : c.leader = d)
    BY <1>1, <1>4
  <1> QED
    BY <1>3, <1>4, <1>5, <1>6, <1>7, OneNode

\* A Domain Leader comes back with what it has saved.
LEMMA RestartReads ==
    ASSUME ReplicationInv, ReadInv, ReplicationInv', NodesGoOn, NEW d \in Domain, Restart(d)
    PROVE  ReadInv'
  BY ReadFacts, ReplacedReads DEF Restart

\* failureDetectorLoop saves.
LEMMA TickReads ==
    ASSUME ReplicationInv, ReadInv, ReplicationInv', NodesGoOn, NEW d \in Domain, Tick(d)
    PROVE  ReadInv'
  <1>1. Save(d, state[d]) /\ UNCHANGED <<roleVars, commits, fastVars, notices, answers>>
    BY DEF Tick
  <1>2. GoesOnAt(d, state[d])
    BY ReadFacts, GoesOnSelf DEF GoesOnAt, FineNode
  <1>3. \A e \in Announced' : FineEntry(e)
    BY <1>1, ReadFacts, SameAnnounced
  <1>4. CommitsFrom(d, state[d])
    BY <1>1, FewerFrom
  <1> QED
    BY <1>1, <1>2, <1>3, <1>4, QuietNode

\* reconfirmDomainQuorum raises a mark.
LEMMA ReconfirmReads ==
    ASSUME ReplicationInv, ReadInv, ReplicationInv', NodesGoOn,
           NEW d \in Domain, reconfirmDomainQuorum(d)
    PROVE  ReadInv'
  <1> DEFINE u == RaiseQuorum(state[d], d, LastLogIndex(state[d]))
  <1>1. Save(d, u) /\ UNCHANGED <<roleVars, commits, fastVars, notices, answers>>
    BY DEF reconfirmDomainQuorum
  <1>2. Windowed(state[d]) /\ state[d] \in ReplicaState /\ LastLogIndex(state[d]) \in Nat
    BY NodeFacts, WindowedState
  <1>3. GoesOnAt(d, u)
    BY <1>2, ReadFacts, GoesOnRaise DEF GoesOnAt, FineNode
  <1>4. u.GlobalTerm = state[d].GlobalTerm
    BY <1>2, TermKept
  <1> HIDE DEF u
  <1>5. \A e \in Announced' : FineEntry(e)
    BY <1>1, ReadFacts, SameAnnounced
  <1>6. CommitsFrom(d, u)
    BY <1>1, FewerFrom
  <1> QED
    BY <1>1, <1>3, <1>4, <1>5, <1>6, QuietNode

\* Another member has no entries but those that the domain has saved.
LEMMA TakeOverReads ==
    ASSUME ReplicationInv, ReadInv, ReplicationInv', NodesGoOn,
           NEW d \in Domain, NEW n \in 0..MaxIndex, TakeOver(d, n)
    PROVE  ReadInv'
  <1>1. PICK u : /\ Replaced(d, u) /\ Windowed(u) /\ u.GlobalTerm = disk[d].GlobalTerm
                 /\ u.Results = [r \in Request |-> NoDecision] /\ u.SnapshotLastTerm = 0
                 /\ \A j \in DOMAIN u.Log : \E i \in DOMAIN disk[d].Log : u.Log[j] = disk[d].Log[i]
    BY TakenOver
  <1>2. FineNode(disk[d])
    BY ReadFacts
  <1>3. Range(u.Log) \subseteq Range(disk[d].Log)
    BY <1>1 DEF Range
  <1>4. DecidedBy(u) = {}
    BY <1>1 DEF DecidedBy
  <1>5. 0 \in ElectedTerms
    BY DEF ElectedTerms, Elected
  <1>6. u.SnapshotLastTerm \in ElectedTerms /\ u.GlobalTerm \in ElectedTerms
    BY <1>1, <1>2, <1>5, FineFacts DEF FineNode
  <1>7. \A f, g \in Range(u.Log) : f.term = ServedTerm /\ f.index < g.index => g.term = ServedTerm
    BY <1>2, <1>3, FineFacts DEF FineNode
  <1>8. \A e \in Range(u.Log) : e.term \in ElectedTerms /\ (e.term = ServedTerm => e \in ServedEntries)
    BY <1>2, <1>3, FineFacts DEF FineNode
  <1>9. FineNode(u)
    BY <1>1, <1>4, <1>6, <1>7, <1>8, MakeFine DEF FineNode
  <1> QED
    BY <1>1, <1>9, ReplacedReads

\* A commit at a node of an entry that counts as committed.
LEMMA AdvanceAt ==
    ASSUME ReplicationInv, ReadInv, NEW d \in Domain, NEW e \in Entry, FineEntry(e)
    PROVE  /\ GoesOnAt(d, advanceCommitLocked(state[d], e))
           /\ advanceCommitLocked(state[d], e).GlobalTerm = state[d].GlobalTerm
  <1>1. ServedTerm \in Nat /\ ServedMark \in Nat /\ FineNode(state[d]) /\ state[d] \in ReplicaState
    BY ReadFacts, NodeFacts
  <1>2. e.index \in Nat /\ (ServedTerm # 0 /\ e.term = ServedTerm => e.index <= ServedMark)
    BY DEF Entry, FineEntry
  <1>3. GoesOnAt(d, advanceCommitLocked(state[d], e))
    BY <1>1, <1>2, GoesOnAdvance DEF GoesOnAt, FineNode
  <1> QED
    BY <1>1, <1>3, TermKept

\* Commit advances to the entry of a notice, which is announced.
LEMMA CommitReads ==
    ASSUME ReplicationInv, ReadInv, ReplicationInv', NodesGoOn,
           NEW d \in Domain, NEW n \in notices, Commit(d, n)
    PROVE  ReadInv'
  <1> DEFINE u == advanceCommitLocked(state[d], n.entry)
  <1>1. Save(d, u) /\ UNCHANGED <<roleVars, commits, fastVars, notices, answers>>
    BY DEF Commit
  <1>2. n.entry \in Entry /\ n.entry \in Announced
    BY DEF ReplicationInv, ReplicationTypeOK, Announced
  <1>3. GoesOnAt(d, u) /\ u.GlobalTerm = state[d].GlobalTerm
    BY <1>2, ReadFacts, AdvanceAt
  <1> HIDE DEF u
  <1>4. \A e \in Announced' : FineEntry(e)
    BY <1>1, ReadFacts, SameAnnounced
  <1>5. CommitsFrom(d, u)
    BY <1>1, FewerFrom
  <1> QED
    BY <1>1, <1>3, <1>4, <1>5, QuietNode

\* AnnounceGlobalDomainQuorum.
LEMMA AnnounceReads ==
    ASSUME ReplicationInv, ReadInv, ReplicationInv', NodesGoOn,
           NEW a \in announces, AnnounceGlobalDomainQuorum(a)
    PROVE  ReadInv'
  <1> DEFINE d == a.responder
             e == a.entry
             t == advanceCommitLocked(state[d], e)
             holds == domainHoldsEntry(state[d], d, e)
             u == IF holds THEN t ELSE state[d]
             pending == {p \in pendingFast[d] : p.index # e.index} \cup {e}
  <1>1. /\ announces' = announces \ {a} /\ SetState(d, u) /\ UNCHANGED <<disk, roleVars, commits, notices>>
        /\ pendingFast' = [pendingFast EXCEPT ![d] = pending]
        /\ answers' \subseteq answers \cup deliverFastReturn(u, d, e)
    BY DEF AnnounceGlobalDomainQuorum
  <1>2. /\ d \in Domain /\ e \in Entry /\ e \in Announced /\ pendingFast \in [Domain -> SUBSET Entry]
    BY DEF ReplicationInv, ReplicationTypeOK, Announced
  <1>3. FineEntry(e)
    BY <1>2, ReadFacts
  <1> HIDE DEF d, e
  <1>4. GoesOnAt(d, t) /\ t.GlobalTerm = state[d].GlobalTerm
    BY <1>2, <1>3, AdvanceAt
  <1>5. GoesOnAt(d, state[d])
    BY <1>2, ReadFacts, GoesOnSelf DEF GoesOnAt, FineNode
  <1> HIDE DEF t, holds
  <1>6. GoesOnAt(d, u) /\ u.GlobalTerm = state[d].GlobalTerm
    BY <1>4, <1>5
  <1>7. \A x \in Announced' : FineEntry(x)
    <2>1. answers' \subseteq answers \cup {e}
      BY <1>1, FastAnswer
    <2>2. \A x \in Domain : pendingFast'[x] \subseteq pendingFast[x] \cup {e}
      BY <1>1, <1>2
    <2>3. announces' \subseteq announces /\ notices' = notices
      BY <1>1
    <2>4. Announced' \subseteq Announced \cup {e}
      BY <2>1, <2>2, <2>3 DEF Announced
    <2> QED
      BY <1>3, <2>4, ReadFacts
  <1> HIDE DEF u
  <1>8. CommitsFrom(d, u)
    BY <1>1, FewerFrom
  <1> QED
    BY <1>1, <1>2, <1>6, <1>7, <1>8, QuietNode

\* Write answers with a decided entry.
LEMMA GlobalResponseReads ==
    ASSUME ReplicationInv, ReadInv, ReplicationInv', NodesGoOn,
           NEW l \in Domain, NEW r \in Request, GlobalResponse(l, r)
    PROVE  ReadInv'
  <1> DEFINE a == [index |-> state[l].Results[r].index, term |-> state[l].Results[r].term, request |-> r]
  <1>1. /\ state[l].Results[r] # NoDecision /\ answers' = answers \cup {a}
        /\ UNCHANGED <<nodeVars, roleVars, commits, fastVars, notices>>
    BY DEF GlobalResponse
  <1>2. GoesOnAt(l, state[l]) /\ FineNode(state[l])
    BY ReadFacts, GoesOnSelf DEF GoesOnAt, FineNode
  <1>3. a \in DecidedBy(state[l])
    BY <1>1 DEF DecidedBy
  <1>4. FineEntry(a)
    <2> HIDE DEF a
    <2> QED
      BY <1>2, <1>3, FineFacts DEF FineNode, FineEntry
  <1> HIDE DEF a
  <1>5. \A e \in Announced' : FineEntry(e)
    <2>1. Announced' \subseteq Announced \cup {a}
      BY <1>1 DEF Announced, fastVars
    <2> QED
      BY <1>4, <2>1, ReadFacts
  <1>6. SetState(l, state[l]) /\ UNCHANGED disk
    BY <1>1, NothingSet
  <1>7. CommitsFrom(l, state[l])
    BY <1>1, FewerFrom
  <1> QED
    BY <1>1, <1>2, <1>5, <1>6, <1>7, QuietNode

\* recoverCommittedPrefix commits nothing past the leader's own mark.
LEMMA RecoverReads ==
    ASSUME ReplicationInv, ReadInv, ReplicationInv', NodesGoOn,
           NEW l \in Domain, NEW reached \in SUBSET (Domain \ {l}), recoverCommittedPrefix(l, reached)
    PROVE  ReadInv'
  <1>0. PICK marks \in [Domain -> Nat], target \in Nat :
          /\ Recovers(l, marks, target)
          /\ \A d \in Domain : state[l].DomainQuorumIndex[d] <= marks[d]
          /\ target <= state[l].DomainQuorumIndex[l]
          /\ Found(state[l].Log, target) => EntryAt(state[l].Log, target) \in Entry
    BY RecoverFacts
  <1> DEFINE own == state[l].DomainQuorumIndex
             s == [state[l] EXCEPT !.DomainQuorumIndex = marks]
             e == EntryAt(state[l].Log, target)
             t == advanceCommitLocked(s, e)
             notice == [term |-> s.GlobalTerm, sender |-> l, entry |-> e]
  <1>1. /\ marks \in [Domain -> Nat]
        /\ \A d \in Domain : own[d] <= marks[d]
        /\ target \in Nat /\ target <= own[l]
        /\ Found(state[l].Log, target) => e \in Entry
    BY <1>0
  <1>2. /\ serving = l /\ UNCHANGED <<roleVars, commits, fastVars, answers>>
        /\ \/ Found(state[l].Log, target) /\ Save(l, t) /\ notices' = notices \cup {notice}
           \/ Save(l, s) /\ notices' = notices
           \/ UNCHANGED nodeVars /\ notices' = notices
    BY <1>0 DEF Recovers
  <1>3. /\ Windowed(state[l]) /\ state[l] \in ReplicaState /\ FineNode(state[l])
        /\ ServedTerm \in Nat /\ ServedMark \in Nat
    BY NodeFacts, ReadFacts
  <1>4. GoesOnAt(l, state[l])
    BY <1>3, GoesOnSelf DEF GoesOnAt, FineNode
  <1>5. own \in [Domain -> Nat]
    BY <1>3, MarkTyped
  <1> HIDE DEF e
  <1>6. /\ s \in ReplicaState /\ SameReplica(state[l], s) /\ s.DomainQuorumIndex = marks
        /\ s.GlobalTerm = state[l].GlobalTerm
    <2> DEFINE R == Request \cup {None}
               D == Decision \cup {NoDecision}
               Q == Seq(Entry)
               RS == [GlobalTerm : Nat, Log : Q, DomainQuorumIndex : [Domain -> Nat],
                      KnownGlobalCommitIndex : Nat, AppliedIndex : Nat, Results : [Request -> D],
                      StateMachine : [Key -> R], SnapshotLastIndex : Nat, SnapshotLastTerm : Nat,
                      SnapshotLastRequestID : R]
    <2>1. RS = ReplicaState /\ state[l] \in RS
      BY <1>3 DEF ReplicaState
    <2> HIDE DEF R, D, Q
    <2> QED
      BY <1>1, <2>1 DEF SameReplica
  <1>7. GoesOnAt(l, s)
    <2>1. Windowed(s)
      BY <1>3, <1>6, SameReplicaKeeps
    <2>2. s.GlobalTerm \in ElectedTerms
      BY <1>6, ReadFacts
    <2>3. state[l].DomainQuorumIndex[l] <= s.DomainQuorumIndex[l]
      BY <1>1, <1>6
    <2> HIDE DEF s
    <2> QED
      BY <1>3, <1>6, <2>1, <2>2, <2>3, GoesOnSame DEF GoesOnAt, FineNode
  <1>8. ASSUME NEW u, GoesOnAt(l, u), u.GlobalTerm = state[l].GlobalTerm,
               Save(l, u) \/ (SetState(l, u) /\ UNCHANGED disk),
               \A x \in Announced' : FineEntry(x)
        PROVE  ReadInv'
    <2>1. CommitsFrom(l, u)
      BY <1>2, FewerFrom
    <2> QED
      BY <1>2, <1>8, <2>1, QuietNode
  <1> HIDE DEF s, t
  <1>9. CASE Found(state[l].Log, target) /\ Save(l, t) /\ notices' = notices \cup {notice}
    <2>1. e \in Range(state[l].Log) /\ e.index = target /\ e \in Entry
      <3>1. target \in state[l].SnapshotLastIndex + 1 .. LastLogIndex(state[l])
        BY <1>1, <1>3, <1>9, WindowedState
      <3> QED
        BY <1>1, <1>3, <1>9, <3>1, LogRange, WindowedState DEF e
    <2>2. ServedMark = own[l]
      BY <1>2, ReplicationAssumption DEF ServedMark, Mark
    <2>3. FineEntry(e)
      <3>1. e.term \in ElectedTerms /\ (e.term = ServedTerm => e \in ServedEntries)
        BY <1>3, <2>1, FineFacts DEF FineNode
      <3> QED
        BY <1>1, <2>1, <2>2, <3>1 DEF FineEntry
    <2>4. GoesOn(s, t, l, ServedTerm, ServedEntries, ServedMark, ElectedTerms)
      <3>1. FineNode(s)
        BY <1>7 DEF GoesOnAt, GoesOn, FineNode
      <3>2. e.index \in Nat /\ (ServedTerm # 0 /\ e.term = ServedTerm => e.index <= ServedMark)
        BY <1>1, <2>1, <2>3 DEF FineEntry
      <3> QED
        BY <1>3, <3>1, <3>2, GoesOnAdvance DEF FineNode, t
    <2>5. GoesOnAt(l, t)
      BY <1>3, <1>7, <2>4, GoesOnOn DEF GoesOnAt
    <2>6. t.GlobalTerm = state[l].GlobalTerm
      BY <1>6, TermKept DEF t
    <2>7. \A x \in Announced' : FineEntry(x)
      <3>1. notice.entry = e
        OBVIOUS
      <3> HIDE DEF notice
      <3>2. Announced' \subseteq Announced \cup {e}
        BY <1>2, <1>9, <3>1 DEF Announced, fastVars
      <3> QED
        BY <2>3, <3>2, ReadFacts
    <2> QED
      BY <1>8, <1>9, <2>5, <2>6, <2>7
  <1>10. ASSUME notices' = notices PROVE \A x \in Announced' : FineEntry(x)
    BY <1>2, <1>10, ReadFacts, SameAnnounced
  <1>11. CASE Save(l, s) /\ notices' = notices
    BY <1>6, <1>7, <1>8, <1>10, <1>11
  <1>12. CASE UNCHANGED nodeVars /\ notices' = notices
    <2>1. SetState(l, state[l]) /\ UNCHANGED disk
      BY <1>12, NothingSet
    <2> QED
      BY <1>4, <1>8, <1>10, <1>12, <2>1
  <1> QED
    BY <1>2, <1>9, <1>11, <1>12

-----------------------------------------------------------------------------
(* The steps of a running commit.                                          *)

\* A domain answers; if it is the leader's own, its mark covers the entry.
LEMMA AcknowledgedFrom ==
    ASSUME ReplicationInv, NEW l, NEW e, NEW d, NEW u, commits' = Acknowledged(l, e, d),
           d = l => e.index <= u.DomainQuorumIndex[d]
    PROVE  CommitsFrom(d, u)
  <1> DEFINE g(c) == IF c.leader = l /\ c.entry = e /\ d \in c.todo
                     THEN [c EXCEPT !.todo = @ \ {d}, !.acks = @ \cup {d}] ELSE c
  <1>1. \A c \in commits : c \in Commits
    BY DEF ReplicationInv, ReplicationTypeOK
  <1>2. \A c \in commits : /\ g(c).leader = c.leader /\ g(c).entry = c.entry
                           /\ g(c) = c \/ (c.leader = l /\ c.entry = e /\ g(c).quorums = c.quorums
                                           /\ g(c).acks = c.acks \cup {d})
    <2> DEFINE E == Entry
    <2> HIDE DEF E
    <2>1. Commits = [leader : Domain, entry : E, todo : SUBSET Domain, acks : SUBSET Domain,
                     quorums : SUBSET Domain, committed : BOOLEAN]
      BY DEF Commits, E
    <2> QED
      BY <1>1, <2>1
  <1>3. commits' = {g(c) : c \in commits}
    BY DEF Acknowledged
  <1> HIDE DEF g
  <1> SUFFICES ASSUME NEW b \in commits
               PROVE  \E c \in commits :
                        /\ c.leader = g(b).leader /\ c.entry = g(b).entry
                        /\ g(b).leader \in g(b).acks \cup g(b).quorums =>
                             \/ g(b).leader \in c.acks \cup c.quorums
                             \/ g(b).leader = d /\ g(b).entry.index <= u.DomainQuorumIndex[d]
    BY <1>3 DEF CommitsFrom
  <1> QED
    BY <1>2

LEMMA ProbeReads ==
    ASSUME ReplicationInv, ReadInv, ReplicationInv', NodesGoOn,
           NEW c \in commits, NEW d \in Domain, Probe(c, d)
    PROVE  ReadInv'
  <1>1. /\ d # c.leader /\ commits' = Acknowledged(c.leader, c.entry, d)
        /\ UNCHANGED <<nodeVars, roleVars, fastVars, notices, answers>>
    BY DEF Probe
  <1>2. GoesOnAt(d, state[d])
    BY ReadFacts, GoesOnSelf DEF GoesOnAt, FineNode
  <1>3. SetState(d, state[d]) /\ UNCHANGED disk
    BY <1>1, NothingSet
  <1>4. CommitsFrom(d, state[d])
    BY <1>1, AcknowledgedFrom
  <1>5. \A e \in Announced' : FineEntry(e)
    BY <1>1, ReadFacts, SameAnnounced
  <1> QED
    BY <1>1, <1>2, <1>3, <1>4, <1>5, QuietNode

LEMMA EndCommitReads ==
    ASSUME ReplicationInv, ReadInv, ReplicationInv', NodesGoOn, NEW c \in commits, EndCommit(c)
    PROVE  ReadInv'
  <1> DEFINE l == c.leader
  <1>1. /\ UNCHANGED nodeVars \/ Save(l, state[l])
        /\ commits' = commits \ {c} /\ UNCHANGED <<roleVars, fastVars, notices, answers>>
    BY DEF EndCommit
  <1>2. l \in Domain
    BY CommitFacts
  <1>3. GoesOnAt(l, state[l])
    BY <1>2, ReadFacts, GoesOnSelf DEF GoesOnAt, FineNode
  <1>4. Save(l, state[l]) \/ (SetState(l, state[l]) /\ UNCHANGED disk)
    BY <1>1, <1>2, NothingSet
  <1>5. CommitsFrom(l, state[l])
    BY <1>1, FewerFrom
  <1>6. \A e \in Announced' : FineEntry(e)
    BY <1>1, ReadFacts, SameAnnounced
  <1> HIDE DEF l
  <1> QED
    BY <1>1, <1>2, <1>3, <1>4, <1>5, <1>6, QuietNode

\* replicateAndCommit: what is announced or committed is acknowledged by the leader's own
\* domain first.
LEMMA CollectReads ==
    ASSUME ReplicationInv, ReadInv, ReplicationInv', NodesGoOn,
           NEW c \in commits, NEW d \in Domain, Collect(c, d)
    PROVE  ReadInv'
  <1> DEFINE l == c.leader
             e == c.entry
             quorums == c.quorums \cup {d}
             s == RaiseQuorum(state[l], d, e.index)
             t == advanceCommitLocked(s, e)
             commit == ~c.committed /\ TwoDomains(l, quorums)
             done == c.committed \/ commit
             b == [c EXCEPT !.acks = @ \ {d}, !.quorums = quorums, !.committed = done]
             notice == [term |-> s.GlobalTerm, sender |-> l, entry |-> e]
             announcement(p) == [entry |-> e, leader |-> l, responder |-> p]
  <1>1. /\ d \in c.acks /\ commits' = (commits \ {c}) \cup {b}
        /\ UNCHANGED <<roleVars, pendingFast, answers>>
        /\ announces' = announces \/ (d = l /\ \E p : announces' = announces \cup {announcement(p)})
        /\ \/ commit /\ Save(l, t) /\ notices' = notices \cup {notice}
           \/ SetState(l, s) /\ UNCHANGED <<disk, notices>>
    BY DEF Collect, commitAcrossDomains
  <1>2. /\ l \in Domain /\ e \in Entry
        /\ l \in c.acks \cup c.quorums => FineEntry(e)
    BY CommitsFine
  <1>3. e.index \in Nat
    BY <1>2 DEF Entry
  <1>4. /\ Windowed(state[l]) /\ state[l] \in ReplicaState /\ FineNode(state[l])
        /\ ServedTerm \in Nat /\ ServedMark \in Nat
    BY <1>2, NodeFacts, ReadFacts
  <1>5. commit => l \in c.acks \cup c.quorums
    BY <1>1 DEF TwoDomains
  <1>6. /\ b.leader = l /\ b.entry = e
        /\ b.acks \cup b.quorums = c.acks \cup c.quorums
    <2>1. c \in Commits
      BY DEF ReplicationInv, ReplicationTypeOK
    <2> DEFINE E == Entry
    <2> HIDE DEF E, done
    <2>2. Commits = [leader : Domain, entry : E, todo : SUBSET Domain, acks : SUBSET Domain,
                     quorums : SUBSET Domain, committed : BOOLEAN]
      BY DEF Commits, E
    <2>3. b.leader = l /\ b.entry = e /\ b.acks = c.acks \ {d} /\ b.quorums = quorums
      BY <2>1, <2>2
    <2> QED
      BY <1>1, <2>3
  <1> HIDE DEF b, done, commit
  <1>7. ASSUME NEW u PROVE CommitsFrom(l, u)
    BY <1>1, <1>6 DEF CommitsFrom
  <1> HIDE DEF l, e
  <1>8. GoesOnAt(l, s)
    BY <1>2, <1>3, <1>4, GoesOnRaise DEF GoesOnAt, FineNode
  <1>9. s.GlobalTerm = state[l].GlobalTerm
    BY <1>4, TermKept
  <1> HIDE DEF s
  <1>10. ASSUME commit PROVE GoesOnAt(l, t) /\ t.GlobalTerm = state[l].GlobalTerm
    <2>1. FineNode(s) /\ Windowed(s)
      BY <1>8, FineFacts DEF GoesOnAt, GoesOn, FineNode
    <2>2. ServedTerm # 0 /\ e.term = ServedTerm => e.index <= ServedMark
      BY <1>2, <1>5, <1>10 DEF FineEntry
    <2>3. GoesOn(s, t, l, ServedTerm, ServedEntries, ServedMark, ElectedTerms)
      BY <1>2, <1>3, <1>4, <2>1, <2>2, GoesOnAdvance DEF FineNode
    <2>4. GoesOnAt(l, t)
      BY <1>2, <1>4, <1>8, <2>3, GoesOnOn DEF GoesOnAt
    <2>5. t.GlobalTerm = s.GlobalTerm
      BY <2>1, WindowedState, TermKept
    <2> QED
      BY <1>9, <2>4, <2>5
  <1> HIDE DEF t
  <1>11. \A x \in Announced' : FineEntry(x)
    <2>1. notice.entry = e /\ \A p : announcement(p).entry = e
      OBVIOUS
    <2> HIDE DEF notice, announcement
    <2>2. CASE l \in c.acks \cup c.quorums
      <3>1. \A n \in notices' : n \in notices \/ n.entry = e
        BY <1>1, <2>1
      <3>2. \A a \in announces' : a \in announces \/ a.entry = e
        BY <1>1, <2>1
      <3>3. Announced' \subseteq Announced \cup {e}
        BY <1>1, <3>1, <3>2 DEF Announced
      <3> QED
        BY <1>2, <2>2, <3>3, ReadFacts
    <2>3. CASE l \notin c.acks \cup c.quorums
      <3>1. notices' = notices /\ announces' = announces
        BY <1>1, <1>5, <2>3
      <3>2. Announced' = Announced
        BY <1>1, <3>1 DEF Announced
      <3> QED
        BY <3>2, ReadFacts
    <2> QED
      BY <2>2, <2>3
  <1>12. CASE commit /\ Save(l, t)
    BY <1>1, <1>2, <1>7, <1>10, <1>11, <1>12, QuietNode
  <1>13. CASE SetState(l, s) /\ UNCHANGED disk
    BY <1>1, <1>2, <1>7, <1>8, <1>9, <1>11, <1>13, QuietNode
  <1> QED
    BY <1>1, <1>12, <1>13

\* Replicate: the leader's own log has the entry already; another domain is led by nobody
\* who has a commit running.
LEMMA ReplicateReads ==
    ASSUME ReplicationInv, ReadInv, ReplicationInv', NodesGoOn,
           NEW c \in commits, NEW d \in Domain, NEW quorum \in BOOLEAN, Replicate(c, d, quorum)
    PROVE  ReadInv'
  <1> DEFINE l == c.leader
             e == c.entry
             prev == prevLogFor(state[l], e.index)
             appended == appendEntryChecked(state[d], e)
             live == LivePending(d, e)
             reached == QuorumReached(appended, d, e, live)
             u == IF quorum THEN reached ELSE appended
  <1>1. /\ appendOutcome(state[d], e, prev) = "accepted"
        /\ Save(d, u) /\ UNCHANGED <<roleVars, announces, notices>>
        /\ pendingFast' = [pendingFast EXCEPT ![d] = live]
        /\ answers' = IF quorum /\ e \in live THEN answers \cup deliverFastReturn(u, d, e) ELSE answers
        /\ commits' = IF quorum THEN Acknowledged(l, e, d) ELSE commits
    BY DEF Replicate
  <1>2. /\ l \in Domain /\ e \in Entry /\ OnTime(e)
        /\ \A b \in commits : b.leader = l
        /\ serving # None => l = serving
        /\ e \in Range(state[l].Log) \/ e.index <= state[l].SnapshotLastIndex
    BY CommitsFine
  <1>3. /\ Windowed(state[d]) /\ state[d] \in ReplicaState /\ FineNode(state[d])
        /\ ServedTerm \in Nat /\ ServedMark \in Nat
        /\ pendingFast \in [Domain -> SUBSET Entry]
    BY NodeFacts, ReadFacts DEF ReplicationInv, ReplicationTypeOK
  <1>4. live \subseteq pendingFast[d] /\ \A p \in pendingFast[d] : p \in Announced
    BY DEF LivePending, Announced
  <1>5. \A p \in live : FineEntry(p)
    BY <1>4, ReadFacts
  <1>6. \A p \in live : p.term = ServedTerm => p.index <= ServedMark
    BY <1>5 DEF FineEntry
  <1> HIDE DEF l, e, prev, live
  <1>7. \A x \in Announced' : FineEntry(x)
    <2>1. answers' \subseteq answers \cup live
      BY <1>1, FastAnswer
    <2>2. \A x \in Domain : pendingFast'[x] \subseteq pendingFast[x]
      BY <1>1, <1>3, <1>4
    <2>3. Announced' \subseteq Announced \cup live
      BY <1>1, <2>1, <2>2 DEF Announced
    <2> QED
      BY <1>5, <2>3, ReadFacts
  <1>8. FineNode(appended)
    BY <1>1, <1>2, <1>3, FineAppend DEF FineNode, OnTime
  <1>9. d = l => appended = state[d]
    <2> SUFFICES ASSUME d = l PROVE appended = state[d]
      OBVIOUS
    <2>1. CASE e.index <= state[d].SnapshotLastIndex
      BY <2>1 DEF appendEntryChecked
    <2>2. CASE e \in Range(state[d].Log)
      <3>1. EntryAt(state[d].Log, e.index) = e /\ Found(state[d].Log, e.index)
        BY <1>3, <2>2, LogRange, WindowedState
      <3> QED
        BY <3>1 DEF appendEntryChecked, Same
    <2> QED
      BY <1>2, <2>1, <2>2
  <1>10. appended \in ReplicaState /\ appended.GlobalTerm = state[d].GlobalTerm
    BY <1>3, <1>8, FineFacts, WindowedState, TermKept DEF FineNode
  <1> HIDE DEF appended
  <1>11. /\ GoesOn(appended, reached, d, ServedTerm, ServedEntries, ServedMark, ElectedTerms)
         /\ e.index <= reached.DomainQuorumIndex[d]
    BY <1>2, <1>3, <1>6, <1>8, GoesOnQuorum DEF FineNode
  <1>12. reached.GlobalTerm = appended.GlobalTerm
    BY <1>2, <1>8, FineFacts, QuorumContinues DEF FineNode, Continues
  <1> HIDE DEF reached
  <1>13. FineNode(u) /\ u.GlobalTerm = state[d].GlobalTerm
    BY <1>8, <1>10, <1>11, <1>12 DEF GoesOn, FineNode
  <1>14. CommitsFrom(d, u)
    <2>1. CASE quorum
      BY <1>1, <1>11, <2>1, AcknowledgedFrom
    <2>2. CASE ~quorum
      BY <1>1, <2>2, FewerFrom
    <2> QED
      BY <2>1, <2>2
  <1>15. d = l => GoesOnAt(d, u)
    <2> SUFFICES ASSUME d = l PROVE GoesOnAt(d, u)
      OBVIOUS
    <2>1. GoesOnAt(d, appended)
      BY <1>3, <1>9, GoesOnSelf DEF GoesOnAt, FineNode
    <2>2. GoesOnAt(d, reached)
      BY <1>3, <1>11, <2>1, GoesOnOn DEF GoesOnAt
    <2> QED
      BY <2>1, <2>2
  <1>16. d # l => serving # d /\ \A b \in commits' : b.leader # d
    <2>1. d # l => serving # d
      BY <1>2, ReplicationAssumption
    <2>2. \A b \in commits' : b.leader = l
      BY <1>2, <1>14 DEF CommitsFrom
    <2> QED
      BY <2>1, <2>2
  <1> HIDE DEF u
  <1> QED
    BY <1>1, <1>7, <1>13, <1>14, <1>15, <1>16, QuietNode

\* replicateDomainQuorum sends a snapshot and entries of the leader's own log.
LEMMA BackfillReads ==
    ASSUME ReplicationInv, ReadInv, ReplicationInv', NodesGoOn,
           NEW c \in commits, NEW d \in Domain, Backfill(c, d)
    PROVE  ReadInv'
  <1> DEFINE l == c.leader
             e == c.entry
             behind == LastLogIndex(state[d]) < state[l].SnapshotLastIndex
             snap == BuildSnapshot(state[l])
             installed == Installed(state[d], d, snap)
             s == IF behind THEN installed ELSE state[d]
             tail == collectTailEntries(state[l], LastLogIndex(s), e.index)
             live == IF behind THEN {p \in pendingFast[d] : p.index > snap.index} ELSE pendingFast[d]
             u == Relayed(d, state[l], live, s, tail)
  <1>1. /\ d # l /\ Save(d, u) /\ UNCHANGED <<roleVars, announces, notices>>
        /\ pendingFast' = [pendingFast EXCEPT ![d] = live]
        /\ answers' = answers \cup UNION {deliverFastReturn(u, d, x) : x \in Range(tail) \cap live}
        /\ commits' = commits \/ commits' = Acknowledged(l, e, d)
    BY DEF Backfill
  <1>2. /\ l \in Domain /\ e \in Entry
        /\ \A b \in commits : b.leader = l
        /\ serving # None => l = serving
    BY CommitsFine
  <1>3. /\ Windowed(state[d]) /\ FineNode(state[d]) /\ Windowed(state[l]) /\ FineNode(state[l])
        /\ ServedTerm \in Nat /\ ServedMark \in Nat
        /\ pendingFast \in [Domain -> SUBSET Entry]
    BY <1>2, NodeFacts, ReadFacts DEF ReplicationInv, ReplicationTypeOK
  <1>4. live \subseteq pendingFast[d] /\ \A p \in pendingFast[d] : p \in Announced
    BY DEF Announced
  <1>5. \A p \in live : FineEntry(p)
    BY <1>4, ReadFacts
  <1>6. \A p \in live : p.term = ServedTerm => p.index <= ServedMark
    BY <1>5 DEF FineEntry
  <1>7. FineNode(installed) /\ Continues(state[d], installed) /\ Continues(state[d], state[d])
    BY <1>3, FineInstalled, InstalledContinues, ContinuesSelf DEF FineNode
  <1> HIDE DEF installed, behind, live, l, e
  <1>8. FineNode(s) /\ Continues(state[d], s)
    BY <1>3, <1>7
  <1> HIDE DEF s
  <1>9. Windowed(s) /\ LastLogIndex(s) \in Nat /\ e.index \in Nat
    BY <1>2, <1>8, WindowedState DEF Continues, Entry
  <1>10. tail \in Seq(Entry) /\ \A k \in 1..Len(tail) : tail[k] \in Range(state[l].Log)
    BY <1>3, <1>9, TailTyped, TailRange
  <1> HIDE DEF tail
  <1>11. \A f \in Range(state[l].Log) : OnTime(f)
    <2> SUFFICES ASSUME NEW f \in Range(state[l].Log) PROVE OnTime(f)
      OBVIOUS
    <2>1. f.term \in ElectedTerms /\ (f.term = ServedTerm => f \in ServedEntries)
      BY <1>3, FineFacts DEF FineNode
    <2>2. CASE serving = None
      BY <2>1, <2>2 DEF OnTime, ServedEntries
    <2>3. CASE serving # None
      <3>1. Orders(state[l], ServedTerm, ServedMark) /\ ServedEntries = Held(state[l], ServedTerm)
        BY <1>2, <2>3, ServingFacts
      <3> QED
        BY <2>1, <3>1 DEF OnTime, Orders
    <2> QED
      BY <2>2, <2>3
  <1>12. \A k \in 1..Len(tail) :
           /\ tail[k].term \in ElectedTerms /\ (tail[k].term = ServedTerm => tail[k] \in ServedEntries)
           /\ \A f \in ServedEntries : tail[k].term # ServedTerm => tail[k].index < f.index
    BY <1>10, <1>11 DEF OnTime
  <1>13. FineNode(u)
    BY <1>3, <1>6, <1>8, <1>10, <1>12, FineRelayed DEF FineNode
  <1>14. u.GlobalTerm = state[d].GlobalTerm
    BY <1>8, <1>9, <1>10, RelayedContinues DEF Continues
  <1> HIDE DEF u
  <1>15. \A x \in Announced' : FineEntry(x)
    <2>1. \A x \in Range(tail) \cap live : deliverFastReturn(u, d, x) \subseteq live
      BY FastAnswer
    <2>2. answers' \subseteq answers \cup live
      BY <1>1, <2>1
    <2>3. \A x \in Domain : pendingFast'[x] \subseteq pendingFast[x]
      BY <1>1, <1>3, <1>4
    <2>4. Announced' \subseteq Announced \cup live
      BY <1>1, <2>2, <2>3 DEF Announced
    <2> QED
      BY <1>5, <2>4, ReadFacts
  <1>16. CommitsFrom(d, u)
    BY <1>1, AcknowledgedFrom, FewerFrom
  <1>17. serving # d /\ \A b \in commits' : b.leader # d
    <2>1. serving # d
      BY <1>1, <1>2, ReplicationAssumption
    <2>2. \A b \in commits' : b.leader = l
      BY <1>2, <1>16 DEF CommitsFrom
    <2> QED
      BY <1>1, <2>1, <2>2
  <1> QED
    BY <1>1, <1>13, <1>14, <1>15, <1>16, <1>17, QuietNode

-----------------------------------------------------------------------------
(* A new leader, and a new entry.                                          *)

\* campaignGlobal: an elected term is reached by one of the voters, so the new term is
\* later than all of them and nobody has an entry of it yet.
LEMMA ElectReads ==
    ASSUME ReplicationInv, ReadInv, ReplicationInv', NodesGoOn, ~DeposedReach,
           NEW c \in Domain, NEW voters \in SUBSET Domain, Elect(c, voters)
    PROVE  ReadInv'
  <1>1. \A d \in Domain : /\ Windowed(state[d]) /\ Windowed(disk[d])
                          /\ state[d] \in ReplicaState /\ state[d].GlobalTerm \in Nat
    BY NodeFacts
  <1>2. PICK t \in Nat : t = state[c].GlobalTerm + 1
    BY <1>1
  <1>3. t # 0 /\ state[c].GlobalTerm < t
    BY <1>1, <1>2
  <1> DEFINE up(d) == [state[d] EXCEPT !.GlobalTerm = t]
  <1>a. /\ c \in voters /\ Cardinality(voters) = globalElectionThreshold
        /\ \A v \in voters \ {c} : state[v].GlobalTerm < t
        /\ state' = [d \in Domain |-> IF d \in voters THEN up(d) ELSE state[d]]
        /\ disk' = [d \in Domain |-> IF d \in voters \cap MayRestart THEN state'[d] ELSE disk[d]]
        /\ leads' = [d \in Domain |-> IF d = c THEN t ELSE IF d \in voters THEN 0 ELSE leads[d]]
        /\ serving' = c
        /\ commits' = {b \in commits : b.leader = c}
        /\ UNCHANGED <<fastVars, notices, answers>>
    BY <1>2 DEF Elect
  <1>4. \A v \in voters : state[v].GlobalTerm < t
    BY <1>a, <1>3
  <1>5. Cardinality(voters) >= globalElectionThreshold
    <2>1. globalElectionThreshold \in Int
      BY ReplicationAssumption, FS_CardinalityType DEF globalElectionThreshold
    <2> QED
      BY <1>a, <2>1
  <1>6. \A x \in ElectedTerms : x \in Nat /\ x # t /\ x < t
    <2> SUFFICES ASSUME NEW x \in ElectedTerms PROVE x \in Nat /\ x # t /\ x < t
      OBVIOUS
    <2>1. x \in Nat /\ (x = 0 \/ Cardinality(Reached(x)) >= globalElectionThreshold)
      BY DEF ElectedTerms, Elected
    <2>2. CASE x # 0
      <3>1. Reached(x) \in SUBSET Domain
        BY DEF Reached
      <3>2. PICK v : v \in Reached(x) /\ v \in voters
        BY <1>5, <2>1, <2>2, <3>1, ElectionsMeet
      <3>3. state[v].GlobalTerm >= x /\ v \in Domain
        BY <3>2 DEF Reached
      <3> QED
        BY <1>1, <1>3, <1>4, <2>1, <3>2, <3>3
    <2> QED
      BY <1>3, <2>1, <2>2
  <1>7. \A d \in Domain : FineNode(state[d]) /\ FineNode(disk[d])
    BY ReadFacts
  <1>8. ASSUME NEW d \in Domain
        PROVE  /\ SameReplica(state[d], up(d)) /\ up(d).GlobalTerm = t
               /\ up(d).DomainQuorumIndex = state[d].DomainQuorumIndex
    <2>1. SameReplica(state[d], up(d)) /\ up(d).GlobalTerm = t
      BY <1>1, <1>3, MarksOnly, TermRaised
    <2>2. up(d).DomainQuorumIndex = state[d].DomainQuorumIndex
      BY <1>1 DEF ReplicaState
    <2> QED
      BY <2>1, <2>2
  <1> HIDE DEF up
  \* Every node keeps its entries, and knows the new term at most.
  <1> DEFINE Old(s) == /\ Windowed(s) /\ TermsOf(s) \subseteq ElectedTerms \cup {t}
                       /\ \A e \in Range(s.Log) \cup DecidedBy(s) : e.term # t
                       /\ s.SnapshotLastTerm # t
  <1>9. ASSUME NEW s, FineNode(s) PROVE Old(s)
    <2>1. /\ Windowed(s) /\ TermsOf(s) \subseteq ElectedTerms
      BY <1>9, FineFacts DEF FineNode, Fine
    <2>2. \A x \in TermsOf(s) : x # t
      BY <1>6, <2>1
    <2>3. /\ \A e \in Range(s.Log) \cup DecidedBy(s) : e.term # t
          /\ s.SnapshotLastTerm # t
      BY <2>2 DEF TermsOf
    <2> QED
      BY <2>1, <2>3
  <1>10. ASSUME NEW d \in Domain PROVE Old(up(d))
    <2>1. Old(state[d])
      BY <1>7, <1>9
    <2>2. /\ up(d).Log = state[d].Log /\ up(d).Results = state[d].Results
          /\ up(d).SnapshotLastTerm = state[d].SnapshotLastTerm
      BY <1>8 DEF SameReplica
    <2>3. DecidedBy(up(d)) = DecidedBy(state[d])
      BY <2>2, DecidedSame
    <2>4. TermsOf(up(d)) \subseteq TermsOf(state[d]) \cup {t}
      BY <1>8, <2>2, <2>3 DEF TermsOf
    <2>5. Windowed(up(d))
      BY <1>1, <1>3, TermRaised DEF up
    <2> QED
      BY <2>1, <2>2, <2>3, <2>4, <2>5
  <1>11. \A d \in Domain : Old(state'[d]) /\ Old(disk'[d])
    <2> HIDE DEF Old
    <2>1. \A d \in Domain : Old(state'[d])
      BY <1>a, <1>7, <1>9, <1>10
    <2>2. \A d \in Domain : disk'[d] = state'[d] \/ disk'[d] = disk[d]
      BY <1>a
    <2> QED
      BY <1>7, <1>9, <2>1, <2>2
  <1>12. \A x \in ElectedTerms \cup {t} : Elected(x)'
    <2>1. \A x \in ElectedTerms : Elected(x)'
      BY ElectedStays
    <2>2. Elected(t)'
      <3> DEFINE Later == {d \in Domain : state'[d].GlobalTerm >= t}
      <3>1. \A v \in voters : state'[v].GlobalTerm = t
        BY <1>a, <1>8
      <3>2. voters \subseteq Later /\ Later \subseteq Domain
        BY <1>3, <3>1
      <3> HIDE DEF Later
      <3>3. IsFiniteSet(Later) /\ IsFiniteSet(voters)
        BY <3>2, ReplicationAssumption, FS_Subset
      <3>4. Cardinality(voters) <= Cardinality(Later)
        BY <3>2, <3>3, FS_Subset
      <3>5. /\ Cardinality(voters) \in Nat /\ Cardinality(Later) \in Nat
            /\ globalElectionThreshold \in Int
        BY <3>3, ReplicationAssumption, FS_CardinalityType DEF globalElectionThreshold
      <3>6. Cardinality(Later) >= globalElectionThreshold
        BY <1>5, <3>4, <3>5
      <3> QED
        BY <3>6 DEF Elected, Reached, Later
    <2> QED
      BY <2>1, <2>2
  <1>13. Announced' = Announced /\ \A e \in Announced : e.term \in ElectedTerms
    BY <1>a, ReadFacts, SameAnnounced DEF FineEntry
  <1>14. \A b \in commits' : b \in commits /\ b.leader = c /\ b.entry.term \in ElectedTerms
    BY <1>a, CommitsFine DEF OnTime
  <1>15. TermsElected'
    <2>1. \A e \in Announced' : Elected(e.term)'
      BY <1>12, <1>13
    <2>2. \A b \in commits' : Elected(b.entry.term)'
      BY <1>12, <1>14
    <2>3. \A d \in Domain : \A x \in TermsOf(state'[d]) \cup TermsOf(disk'[d]) : Elected(x)'
      BY <1>11, <1>12
    <2>4. \A d \in Domain : leads'[d] # 0 => leads'[d] = state'[d].GlobalTerm
      <3>1. \A d \in Domain : leads[d] # 0 => leads[d] = state[d].GlobalTerm
        BY ReadFacts
      <3> QED
        BY <1>a, <1>8, <3>1
    <2> QED
      BY <2>1, <2>2, <2>3, <2>4 DEF TermsElected
  <1>16. CommitsHeld'
    <2>1. state'[c] = up(c)
      BY <1>a
    <2>2. /\ state'[c].Log = state[c].Log /\ state'[c].SnapshotLastIndex = state[c].SnapshotLastIndex
          /\ state'[c].DomainQuorumIndex = state[c].DomainQuorumIndex
      BY <1>8, <2>1 DEF SameReplica
    <2>3. ASSUME NEW b \in commits'
          PROVE  /\ b.entry \in Range(state'[c].Log) \/ b.entry.index <= state'[c].SnapshotLastIndex
                 /\ c \in b.acks \cup b.quorums => b.entry.index <= state'[c].DomainQuorumIndex[c]
      <3>1. /\ b.leader = c
            /\ b.entry \in Range(state[c].Log) \/ b.entry.index <= state[c].SnapshotLastIndex
            /\ c \in b.acks \cup b.quorums => b.entry.index <= state[c].DomainQuorumIndex[c]
        BY <1>14, CommitsFine DEF Mark
      <3> QED
        BY <2>2, <3>1
    <2> QED
      BY <1>a, <1>14, <2>3 DEF CommitsHeld, Mark
  <1> DEFINE s == state'[c]
             H == Held(s, t)
             m == s.DomainQuorumIndex[c]
  <1>17. /\ serving' = c /\ leads'[c] = t /\ s.GlobalTerm = t
    BY <1>a, <1>8
  <1>18. H = {}
    BY <1>11 DEF Held
  <1>19. Orders(s, t, m)
    BY <1>11, <1>18 DEF Orders
  <1>20. ASSUME NEW d \in Domain
         PROVE  /\ state'[d].GlobalTerm <= s.GlobalTerm
                /\ Agrees(state'[d], t, H, m) /\ Agrees(disk'[d], t, H, m)
    <2>1. state'[d].GlobalTerm \in ElectedTerms \cup {t}
      BY <1>11 DEF TermsOf
    <2>2. state'[d].GlobalTerm <= t
      BY <1>3, <1>6, <2>1
    <2>3. ASSUME NEW x, Old(x) PROVE Agrees(x, t, H, m)
      <3>1. Held(x, t) = {}
        BY <2>3 DEF Held
      <3> QED
        BY <2>3, <3>1 DEF Agrees
    <2> HIDE DEF Old, s, H, m
    <2> QED
      BY <1>11, <1>17, <2>2, <2>3
  <1>21. \A e \in Announced' : e.term # t
    BY <1>6, <1>13
  <1>22. \A b \in commits' : b.entry.term # t
    BY <1>6, <1>14
  <1>23. OwnTerm(serving, leads[serving])'
    BY <1>17, <1>18, <1>19, <1>20, <1>21, <1>22 DEF OwnTerm, Mark
  <1>24. (leads[serving] # 0)'
    BY <1>3, <1>17
  <1> QED
    BY <1>15, <1>16, <1>23, <1>24 DEF ReadInv

\* What appending a new entry to the log does.
LEMMA AppendNew ==
    ASSUME NEW s, Windowed(s), NEW e \in Entry
    PROVE  LET u == [s EXCEPT !.Log = Append(@, e)]
           IN  /\ Range(u.Log) = Range(s.Log) \cup {e} /\ u.Results = s.Results
               /\ u.AppliedIndex = s.AppliedIndex /\ u.SnapshotLastIndex = s.SnapshotLastIndex
               /\ u.SnapshotLastTerm = s.SnapshotLastTerm /\ u.GlobalTerm = s.GlobalTerm
               /\ u.DomainQuorumIndex = s.DomainQuorumIndex
  <1> DEFINE log == Append(s.Log, e)
             u == [s EXCEPT !.Log = log]
             n == Len(s.Log)
  <1>1. s \in ReplicaState /\ s.Log \in Seq(Entry) /\ n \in Nat /\ DOMAIN s.Log = 1..n
    BY WindowedState
  <1>2. /\ log \in Seq(Entry) /\ Len(log) = n + 1
        /\ \A j \in 1..n : log[j] = s.Log[j]
        /\ log[n + 1] = e
    BY <1>1, AppendProperties
  <1> HIDE DEF log, n
  <1>3. DOMAIN log = 1..n + 1
    BY <1>2
  <1>4. Range(log) = Range(s.Log) \cup {e}
    <2>1. \A j \in 1..n + 1 : j = n + 1 \/ j \in 1..n
      BY <1>1
    <2>2. n + 1 \in 1..n + 1 /\ \A j \in 1..n : j \in 1..n + 1
      BY <1>1
    <2> QED
      BY <1>1, <1>2, <1>3, <2>1, <2>2 DEF Range
  <1>5. /\ u.Log = log /\ u.Results = s.Results
        /\ u.AppliedIndex = s.AppliedIndex /\ u.SnapshotLastIndex = s.SnapshotLastIndex
        /\ u.SnapshotLastTerm = s.SnapshotLastTerm
    BY <1>1, <1>2, LogOnly
  <1>6. u.GlobalTerm = s.GlobalTerm /\ u.DomainQuorumIndex = s.DomainQuorumIndex
    BY <1>1 DEF ReplicaState
  <1> QED
    BY <1>4, <1>5, <1>6 DEF log

\* Write: the entry that it orders comes last, and is the only one of its request.
LEMMA WriteReads ==
    ASSUME ReplicationInv, ReadInv, ReplicationInv', NodesGoOn,
           NEW l \in Domain, NEW r \in Request, Write(l, r)
    PROVE  ReadInv'
  <1> DEFINE s == state[l]
             u == state'[l]
             cut == s.SnapshotLastIndex
             last == LastLogIndex(s)
             t == ServedTerm
             at == OrderedAt(s, r)
             new == [index |-> LastLogIndex(s) + 1, term |-> leads[l], request |-> r]
             e == IF at = {} THEN new ELSE s.Log[Min(at)]
             w == [s EXCEPT !.Log = Append(@, e)]
  <1>1. /\ serving = l /\ leads[l] # 0 /\ s.Results[r] = NoDecision
        /\ SetState(l, IF at = {} THEN w ELSE s)
        /\ commits' = commits \cup {NewCommit(l, e)}
        /\ UNCHANGED <<disk, roleVars, fastVars, notices, answers>>
    BY DEF Write
  <1>2. new \in Entry /\ (at # {} => s.Log[Min(at)] \in Entry /\ s.Log[Min(at)].request = r)
    BY <1>1, WriteEntry
  <1>3. /\ state \in [Domain -> ReplicaState]
        /\ \A d \in Domain : Windowed(state[d]) /\ FineNode(state[d]) /\ FineNode(disk[d])
        /\ Windowed(u) /\ ServedTerm \in Nat /\ ServedMark \in Nat
        /\ \A d \in Domain : leads[d] # 0 => leads[d] = state[d].GlobalTerm
        /\ \A x \in Announced : FineEntry(x)
    BY NodeFacts, ReadFacts DEF NodesGoOn
  <1>4. /\ t = leads[l] /\ t # 0 /\ t = s.GlobalTerm /\ t \in ElectedTerms
        /\ ServedEntries = Held(s, t) /\ ServedMark = Mark(l) /\ Orders(s, t, ServedMark)
        /\ \A x \in ElectedTerms : x <= t
    BY <1>1, ServingFacts, ReadFacts, ReplicationAssumption
  <1>5. /\ s \in ReplicaState /\ last \in Nat /\ cut \in Nat /\ cut <= last
        /\ s.AppliedIndex \in Nat /\ s.AppliedIndex <= last
        /\ DOMAIN s.Log = 1..Len(s.Log) /\ Len(s.Log) \in Nat
    <2>1. /\ s \in ReplicaState /\ cut \in Nat /\ s.AppliedIndex \in Nat /\ last \in Nat
          /\ cut <= s.AppliedIndex /\ s.AppliedIndex <= last
          /\ DOMAIN s.Log = 1..Len(s.Log) /\ Len(s.Log) \in Nat
      BY <1>3, WindowedState
    <2> QED
      BY <2>1
  <1>6. /\ new.index = last + 1 /\ new.term = t /\ new.request = r
    BY <1>4
  <1>7. at # {} => s.Log[Min(at)] \in Range(s.Log)
    <2>1. at \in SUBSET Nat /\ at \subseteq 1..Len(s.Log)
      BY <1>5 DEF OrderedAt
    <2> HIDE DEF at
    <2>2. at # {} => Min(at) \in at
      BY <2>1, MinIsMember
    <2> HIDE DEF s
    <2> QED
      BY <1>5, <2>1, <2>2 DEF Range
  <1>8. \A f \in Range(s.Log) : at = {} => f.request # r
    BY DEF Range, OrderedAt
  <1> HIDE DEF new
  \* The entry is in the log, or the next one.
  <1>9. /\ e \in Entry /\ e.request = r
        /\ \/ e \in Range(s.Log)
           \/ /\ e.term = t /\ e.index = last + 1
              /\ \A f \in Range(s.Log) : f.request # r
    <2> HIDE DEF at, s, last, t
    <2>1. CASE at = {}
      BY <1>2, <1>6, <1>8, <2>1
    <2>2. CASE at # {}
      BY <1>2, <1>7, <2>2
    <2> QED
      BY <2>1, <2>2
  <1> HIDE DEF t
  <1>10. u = IF at = {} THEN w ELSE s
    <2> HIDE DEF w, at, s
    <2> QED
      BY <1>1, <1>3 DEF SetState
  <1>11. /\ Range(w.Log) = Range(s.Log) \cup {e} /\ w.Results = s.Results
         /\ w.AppliedIndex = s.AppliedIndex /\ w.SnapshotLastIndex = s.SnapshotLastIndex
         /\ w.SnapshotLastTerm = s.SnapshotLastTerm /\ w.GlobalTerm = s.GlobalTerm
         /\ w.DomainQuorumIndex = s.DomainQuorumIndex
    <2> HIDE DEF e
    <2> QED
      BY <1>3, <1>9, AppendNew
  <1>12. at # {} => Range(s.Log) = Range(s.Log) \cup {e}
    BY <1>7
  <1> HIDE DEF e, w, at, u
  <1>13. /\ Range(u.Log) = Range(s.Log) \cup {e} /\ u.Results = s.Results
         /\ u.AppliedIndex = s.AppliedIndex /\ u.SnapshotLastIndex = cut
         /\ u.SnapshotLastTerm = s.SnapshotLastTerm /\ u.GlobalTerm = s.GlobalTerm
         /\ u.DomainQuorumIndex = s.DomainQuorumIndex
    BY <1>10, <1>11, <1>12
  <1>14. DecidedBy(u) = DecidedBy(s)
    BY <1>13, DecidedSame
  <1>15. e.index \in Nat /\ e.term \in ElectedTerms
    <2>1. e.index \in Nat
      BY <1>9 DEF Entry
    <2>2. \A f \in Range(s.Log) : f.term \in ElectedTerms
      BY <1>3 DEF FineNode, Fine, TermsOf
    <2> QED
      BY <1>4, <1>9, <2>1, <2>2
  <1>16. \A f \in Range(s.Log) : f.index \in Nat /\ f.index <= last
    BY <1>3, <1>5, LogRange
  <1>17. \A f \in DecidedBy(s) : f.request # r
    <2> SUFFICES ASSUME NEW f \in DecidedBy(s), f.request = r PROVE FALSE
      OBVIOUS
    <2>1. f \in Entry /\ s.Results[r] = [term |-> f.term, index |-> f.index]
      BY <1>5, DecidedIs
    <2>2. f.index \in Nat \ {0}
      BY <2>1 DEF Entry
    <2> QED
      BY <1>1, <2>1, <2>2 DEF NoDecision
  <1> DEFINE H == Held(u, t)
             m == ServedMark
  <1>18. H = Held(s, t) \cup {x \in {e} : x.term = t}
    BY <1>13, <1>14 DEF Held
  <1>19. ServedEntries \subseteq H /\ m = u.DomainQuorumIndex[l]
    BY <1>4, <1>13, <1>18 DEF Mark
  <1>20. e \notin Range(s.Log) => \A f \in Held(s, t) : f.request # r
    BY <1>9, <1>17 DEF Held
  <1>21. Orders(u, t, m)
    <2>1. /\ \A x \in Range(s.Log), f \in Held(s, t) : /\ x.term # t => x.index < f.index
                                                       /\ x.request = f.request => x = f
          /\ \A x \in Range(s.Log) : x.term = t =>
               s.Results[x.request] = IF x.index <= s.AppliedIndex
                                      THEN [term |-> x.term, index |-> x.index] ELSE NoDecision
          /\ s.SnapshotLastTerm = t => cut <= m
      BY <1>4 DEF Orders
    <2> HIDE DEF s, cut, last, m
    <2>2. CASE e \in Range(s.Log)
      <3>1. H = Held(s, t) /\ Range(u.Log) = Range(s.Log)
        BY <1>13, <1>18, <2>2 DEF Held
      <3> QED
        BY <1>13, <2>1, <3>1 DEF Orders
    <2>3. CASE e \notin Range(s.Log)
      <3>1. e.term = t /\ e.index = last + 1 /\ \A f \in Range(s.Log) : f.request # r
        BY <1>9, <2>3
      <3>2. H = Held(s, t) \cup {e}
        BY <1>18, <3>1
      <3>3. \A x \in Range(s.Log) : x.index < e.index
        BY <1>5, <1>16, <3>1
      <3> HIDE DEF H
      <3>4. ASSUME NEW x \in Range(u.Log), NEW f \in H
            PROVE  /\ x.term # t => x.index < f.index
                   /\ x.request = f.request => x = f
        <4>1. CASE x \in Range(s.Log) /\ f \in Held(s, t)
          BY <2>1, <4>1
        <4>2. CASE x \in Range(s.Log) /\ f = e
          BY <1>9, <3>1, <3>3, <4>2
        <4>3. CASE x = e
          BY <1>9, <1>20, <2>3, <3>1, <3>2, <4>3
        <4> QED
          BY <1>13, <3>2, <4>1, <4>2, <4>3
      <3>5. ~(e.index <= s.AppliedIndex)
        BY <1>5, <3>1
      <3>6. ASSUME NEW x \in Range(u.Log), x.term = t
            PROVE  u.Results[x.request] = IF x.index <= u.AppliedIndex
                                          THEN [term |-> x.term, index |-> x.index] ELSE NoDecision
        <4>1. CASE x = e
          BY <1>1, <1>9, <1>13, <3>5, <4>1
        <4>2. CASE x \in Range(s.Log)
          BY <1>13, <2>1, <3>6, <4>2
        <4> QED
          BY <1>13, <4>1, <4>2
      <3> QED
        BY <1>13, <2>1, <3>4, <3>6 DEF Orders, H
    <2> QED
      BY <2>2, <2>3
  <1>22. Agrees(u, t, H, m)
    <2>1. /\ \A f, g \in Range(s.Log) : f.term = t /\ f.index < g.index => g.term = t
          /\ \A f \in DecidedBy(s) : f.term = t => f.index <= m
      BY <1>3 DEF FineNode, Fine, Agrees, t
    <2>2. ASSUME NEW f \in Range(u.Log), NEW g \in Range(u.Log), f.term = t, f.index < g.index
          PROVE  g.term = t
      <3>1. CASE f \in Range(s.Log) /\ g \in Range(s.Log)
        BY <2>1, <2>2, <3>1
      <3>2. CASE e \notin Range(s.Log)
        <4>1. e.term = t /\ e.index = last + 1
          BY <1>9, <3>2
        <4>2. g = e \/ (f = e /\ g \in Range(s.Log)) \/ (f \in Range(s.Log) /\ g \in Range(s.Log))
          BY <1>13
        <4>3. f = e => ~(g \in Range(s.Log))
          BY <1>5, <1>16, <2>2, <4>1
        <4> QED
          BY <3>1, <4>1, <4>2, <4>3
      <3> QED
        BY <1>13, <3>1, <3>2
    <2> QED
      BY <1>14, <2>1, <2>2 DEF Agrees
  <1>23. \A d \in Domain : d # l => state'[d] = state[d]
    <2> HIDE DEF s
    <2> QED
      BY <1>1, <1>3 DEF SetState
  <1>24. ASSUME NEW d \in Domain
         PROVE  /\ state'[d].GlobalTerm <= u.GlobalTerm /\ state'[d].GlobalTerm = state[d].GlobalTerm
                /\ Agrees(state'[d], t, H, m) /\ Agrees(disk'[d], t, H, m)
    <2>1. FineNode(state[d]) /\ FineNode(disk[d]) /\ disk' = disk
      BY <1>1, <1>3
    <2>2. state[d].GlobalTerm \in ElectedTerms
      BY <2>1, FineFacts DEF FineNode
    <2>3. m \in Nat /\ m <= m
      BY <1>3
    <2>4. state'[d].GlobalTerm = state[d].GlobalTerm
      BY <1>13, <1>23 DEF u
    <2> HIDE DEF H, m
    <2>5. Agrees(state[d], t, H, m) /\ Agrees(disk[d], t, H, m)
      BY <1>19, <2>1, <2>3, FineMore DEF FineNode, t, m
    <2>6. Agrees(state'[d], t, H, m)
      BY <1>22, <1>23, <2>5 DEF u
    <2> QED
      BY <1>4, <1>13, <2>1, <2>2, <2>4, <2>5, <2>6
  <1>25. Announced' = Announced /\ serving' = l /\ leads' = leads
    BY <1>1, SameAnnounced DEF roleVars
  <1>26. \A x \in Announced' : x.term \in ElectedTerms /\ (x.term = t => x \in H /\ x.index <= m)
    BY <1>3, <1>19, <1>25 DEF FineEntry, t
  <1>27. ASSUME NEW c \in commits'
         PROVE  /\ c.leader = l /\ c.entry.term \in ElectedTerms
                /\ c.entry \in Range(u.Log) \/ c.entry.index <= cut
                /\ l \in c.acks \cup c.quorums => c.entry.index <= m
                /\ IF c.entry.term = t THEN c.entry \in H ELSE \A f \in H : c.entry.index < f.index
    <2>1. CASE c = NewCommit(l, e)
      <3>1. c.leader = l /\ c.entry = e /\ c.acks = {} /\ c.quorums = {}
        BY <2>1 DEF NewCommit
      <3>2. e \in Range(u.Log)
        BY <1>13
      <3>3. e.term = t => e \in H
        BY <3>2 DEF Held
      <3>4. e.term # t => \A f \in H : e.index < f.index
        BY <1>21, <3>2 DEF Orders
      <3> QED
        BY <1>15, <3>1, <3>2, <3>3, <3>4
    <2>2. CASE c \in commits
      <3>1. /\ c.leader = l /\ c.entry \in Entry
            /\ c.entry \in Range(s.Log) \/ c.entry.index <= cut
            /\ OnTime(c.entry)
            /\ l \in c.acks \cup c.quorums => c.entry.index <= m
        BY <1>1, <1>4, <2>2, CommitsFine, ReplicationAssumption
      <3>2. c.entry.index \in Nat
        BY <3>1 DEF Entry
      <3>3. /\ c.entry.term \in ElectedTerms
            /\ c.entry.term = t => c.entry \in ServedEntries
            /\ c.entry.term # t => \A f \in ServedEntries : c.entry.index < f.index
        BY <3>1 DEF OnTime, t
      <3>4. c.entry.term # t => \A f \in H : c.entry.index < f.index
        <4> SUFFICES ASSUME c.entry.term # t, NEW f \in H PROVE c.entry.index < f.index
          OBVIOUS
        <4>1. CASE f \in Held(s, t)
          BY <1>4, <3>3, <4>1
        <4>2. CASE f \notin Held(s, t)
          <5>1. f = e /\ e.term = t /\ e \notin Range(s.Log)
            BY <1>18, <4>2 DEF Held
          <5>2. e.index = last + 1 /\ c.entry.index <= last
            BY <1>5, <1>9, <1>16, <3>1, <3>2, <5>1
          <5> QED
            BY <1>5, <3>2, <5>1, <5>2
        <4> QED
          BY <4>1, <4>2
      <3>5. c.entry \in Range(u.Log) \/ c.entry.index <= cut
        BY <1>13, <3>1
      <3> QED
        BY <1>19, <3>1, <3>3, <3>4, <3>5
    <2> QED
      BY <1>1, <2>1, <2>2
  <1>28. TermsElected'
    <2>1. \A x \in ElectedTerms : Elected(x)'
      BY ElectedStays
    <2>2. \A x \in Announced' : Elected(x.term)'
      BY <1>26, <2>1
    <2>3. \A c \in commits' : Elected(c.entry.term)'
      BY <1>27, <2>1
    <2>4. TermsOf(u) \subseteq TermsOf(s) \cup {e.term}
      BY <1>13, <1>14 DEF TermsOf
    <2>5. \A d \in Domain : TermsOf(state[d]) \subseteq ElectedTerms /\ TermsOf(disk[d]) \subseteq ElectedTerms
      BY <1>3 DEF FineNode, Fine
    <2>6. TermsOf(u) \subseteq ElectedTerms
      BY <1>15, <2>4, <2>5
    <2>7. \A d \in Domain : TermsOf(state'[d]) \subseteq ElectedTerms
      BY <1>23, <2>5, <2>6 DEF u
    <2>8. \A d \in Domain : \A x \in TermsOf(state'[d]) \cup TermsOf(disk'[d]) : Elected(x)'
      BY <1>1, <2>1, <2>5, <2>7
    <2>9. \A d \in Domain : leads'[d] # 0 => leads'[d] = state'[d].GlobalTerm
      BY <1>3, <1>24, <1>25
    <2> QED
      BY <2>2, <2>3, <2>8, <2>9 DEF TermsElected
  <1>29. CommitsHeld'
    <2>1. u = state'[l] /\ u.SnapshotLastIndex = cut /\ m = u.DomainQuorumIndex[l]
      BY <1>13, <1>19 DEF u
    <2> HIDE DEF m, cut, s
    <2> QED
      BY <1>25, <1>27, <2>1 DEF CommitsHeld, Mark
  <1>30. OwnTerm(serving, leads[serving])'
    <2>1. u = state'[l] /\ H = Held(state'[l], t) /\ m = state'[l].DomainQuorumIndex[l] /\ leads'[l] = t
      BY <1>4, <1>19, <1>25 DEF u
    <2> HIDE DEF m, s, H
    <2> QED
      BY <1>21, <1>24, <1>25, <1>26, <1>27, <2>1 DEF OwnTerm, Mark
  <1>31. (leads[serving] # 0)'
    BY <1>1, <1>25
  <1> QED
    BY <1>28, <1>29, <1>30, <1>31 DEF ReadInv

-----------------------------------------------------------------------------
(* Reads see their own term.                                               *)

\* At first there is no term, no entry and no leader,
LEMMA InitReadInv == Init => ReadInv
  <1> SUFFICES ASSUME Init PROVE ReadInv
    OBVIOUS
  <1>1. /\ state = [d \in Domain |-> NewState] /\ disk = state
        /\ leads = [d \in Domain |-> 0] /\ serving = None /\ commits = {}
        /\ pendingFast = [d \in Domain |-> {}] /\ announces = {} /\ notices = {} /\ answers = {}
    BY DEF Init
  <1>2. Announced = {}
    BY <1>1 DEF Announced
  <1>3. TermsOf(NewState) = {0}
    <2>1. /\ NewState.Log = << >> /\ NewState.GlobalTerm = 0 /\ NewState.SnapshotLastTerm = 0
          /\ NewState.Results = [r \in Request |-> NoDecision]
      BY DEF NewState
    <2>2. DecidedBy(NewState) = {}
      BY <2>1 DEF DecidedBy
    <2>3. Range(NewState.Log) = {}
      BY <2>1 DEF Range
    <2> QED
      BY <2>1, <2>2, <2>3 DEF TermsOf
  <1>4. TermsElected
    <2>1. Elected(0)
      BY DEF Elected
    <2> QED
      BY <1>1, <1>2, <1>3, <2>1 DEF TermsElected
  <1> QED
    BY <1>1, <1>4 DEF ReadInv, CommitsHeld

\* and every step keeps the invariant.
LEMMA NextReadInv == ReplicationInv /\ ReadInv /\ ~DeposedReach /\ [Next]_vars => ReadInv'
  <1> SUFFICES ASSUME ReplicationInv, ReadInv, ~DeposedReach, [Next]_vars PROVE ReadInv'
    OBVIOUS
  <1>1. ReplicationInv' /\ NodesGoOn
    BY NextReplicationInv, NodesStep
  <1>2. CASE UNCHANGED vars
    <2>1. /\ state' = state /\ disk' = disk /\ leads' = leads /\ serving' = serving
          /\ commits' = commits /\ UNCHANGED <<fastVars, notices, answers>>
      BY <1>2 DEF vars, nodeVars, roleVars
    <2>2. Announced' = Announced
      BY <2>1, SameAnnounced
    <2>3. \A t : Elected(t)' = Elected(t)
      BY <2>1 DEF Elected, Reached
    <2>4. TermsElected'
      BY <2>1, <2>2, <2>3 DEF ReadInv, TermsElected
    <2>5. CommitsHeld'
      BY <2>1 DEF ReadInv, CommitsHeld, Mark
    <2>6. (serving # None => leads[serving] # 0 /\ OwnTerm(serving, leads[serving]))'
      BY <2>1, <2>2 DEF ReadInv, OwnTerm, Mark
    <2> QED
      BY <2>4, <2>5, <2>6 DEF ReadInv
  <1>3. ASSUME NEW d \in Domain, NEW voters \in SUBSET Domain, Elect(d, voters) PROVE ReadInv'
    BY <1>1, <1>3, ElectReads
  <1>4. ASSUME NEW d \in Domain, NEW l \in Domain, HeartbeatGlobal(l, d) PROVE ReadInv'
    BY <1>1, <1>4, HeartbeatReads
  <1>5. ASSUME NEW d \in Domain, NEW t \in 1..MaxTerm, StepDown(d, t) PROVE ReadInv'
    BY <1>1, <1>5, StepDownReads
  <1>6. ASSUME NEW d \in Domain, Restart(d) PROVE ReadInv'
    BY <1>1, <1>6, RestartReads
  <1>7. ASSUME NEW d \in Domain, NEW n \in 0..MaxIndex, TakeOver(d, n) PROVE ReadInv'
    BY <1>1, <1>7, TakeOverReads
  <1>8. ASSUME NEW d \in Domain, Tick(d) \/ reconfirmDomainQuorum(d) PROVE ReadInv'
    BY <1>1, <1>8, TickReads, ReconfirmReads
  <1>9. ASSUME NEW d \in Domain, NEW r \in Request, Write(d, r) \/ GlobalResponse(d, r) PROVE ReadInv'
    BY <1>1, <1>9, WriteReads, GlobalResponseReads
  <1>10. ASSUME NEW d \in Domain, NEW reached \in SUBSET (Domain \ {d}), recoverCommittedPrefix(d, reached)
         PROVE  ReadInv'
    BY <1>1, <1>10, RecoverReads
  <1>11. ASSUME NEW d \in Domain, NEW n \in notices, Commit(d, n) PROVE ReadInv'
    BY <1>1, <1>11, CommitReads
  <1>12. ASSUME NEW c \in commits, NEW d \in Domain, Probe(c, d) \/ Backfill(c, d) \/ Collect(c, d)
         PROVE  ReadInv'
    BY <1>1, <1>12, ProbeReads, BackfillReads, CollectReads
  <1>13. ASSUME NEW c \in commits, NEW d \in Domain, NEW quorum \in BOOLEAN, Replicate(c, d, quorum)
         PROVE  ReadInv'
    BY <1>1, <1>13, ReplicateReads
  <1>14. ASSUME NEW c \in commits, EndCommit(c) PROVE ReadInv'
    BY <1>1, <1>14, EndCommitReads
  <1>15. ASSUME NEW a \in announces, AnnounceGlobalDomainQuorum(a) PROVE ReadInv'
    BY <1>1, <1>15, AnnounceReads
  <1> QED
    BY <1>2, <1>3, <1>4, <1>5, <1>6, <1>7, <1>8, <1>9, <1>10, <1>11, <1>12, <1>13, <1>14, <1>15, Zenon
       DEF Next

\* Write, Replicate, catchUp, InstallSnapshot and the announcements: the serving leader has
\* the last word on the entries of its own term, as long as superseded leaders are cut off.
THEOREM ReadInvariant == ASSUME ~DeposedReach PROVE Spec => []ReadInv
  <1>1. Init => ReadInv
    BY InitReadInv
  <1>2. ReplicationInv /\ ReadInv /\ [Next]_vars => ReadInv'
    BY NextReadInv
  <1> QED
    BY <1>1, <1>2, ReplicationInvariant, PTL DEF Spec

\* Read and deliverFastReturn: a read that passes the barrier of the serving leader sees every
\* write of its own term that any domain has acknowledged, the fast returns of domains that
\* the leader has not heard of yet included.
THEOREM ReadsSeeTheirTerm == ASSUME ~DeposedReach PROVE Spec => []ReadsSeeOwnTerm
  <1>1. ReplicationInv /\ ReadInv => ReadsSeeOwnTerm
    <2> SUFFICES ASSUME ReplicationInv, ReadInv, NEW l \in Domain, ReadPasses(l),
                        NEW a \in answers, a.term = leads[l]
                 PROVE  a \in DecidedAt(l)
      BY DEF ReadsSeeOwnTerm
    <2> DEFINE s == state[l]
    <2>1. serving = l /\ Mark(l) <= s.AppliedIndex
      BY DEF ReadPasses
    <2>2. /\ ServedTerm = leads[l] /\ ServedEntries = Held(s, ServedTerm) /\ ServedMark = Mark(l)
          /\ Orders(s, ServedTerm, ServedMark)
      BY <2>1, ServingFacts, ReplicationAssumption
    <2>3. a \in Held(s, ServedTerm) /\ a.index <= Mark(l)
      BY <2>2, ReadFacts DEF Announced, FineEntry
    <2>4. CASE a \in DecidedBy(s)
      BY <2>4 DEF DecidedAt
    <2>5. CASE a \in Range(s.Log)
      <3>1. Windowed(s) /\ s \in ReplicaState
        BY NodeFacts
      <3>2. a \in Entry /\ a.index \in Nat /\ Mark(l) \in Nat /\ s.AppliedIndex \in Nat
        BY <2>5, <3>1, LogRange, MarkTyped, WindowedState DEF Mark
      <3>3. a.index <= s.AppliedIndex
        BY <2>1, <2>3, <3>2
      <3>4. s.Results[a.request] = [term |-> a.term, index |-> a.index]
        BY <2>2, <2>5, <3>3 DEF Orders
      <3> QED
        BY <3>1, <3>2, <3>4, DecidedIs DEF DecidedAt
    <2> QED
      BY <2>3, <2>4, <2>5 DEF Held
  <1> QED
    BY <1>1, ReplicationInvariant, ReadInvariant, PTL
=============================================================================
