----------------------------- MODULE LogProofs -----------------------------
(***************************************************************************)
(* Facts about the operators of Log that hold of every node, whatever it   *)
(* takes part in: each of them leaves a log that follows its snapshot      *)
(* without a gap, and everything committed applied.                        *)
(***************************************************************************)
EXTENDS Log, SequenceTheorems, WellFoundedInduction, TLAPS

-----------------------------------------------------------------------------
(* The greatest member of a set of indices.                                *)

\* A nonempty set of naturals up to n has a greatest member, and Max is it.
LEMMA MaxIsMember ==
    ASSUME NEW n \in Nat, NEW S \in SUBSET (0..n), S # {}
    PROVE  Max(S) \in S /\ \A y \in S : Max(S) >= y
  <1> DEFINE T == {n - i : i \in S}
             R == OpToRel(<, Nat)
  <1>1. T \subseteq Nat /\ T # {}
    <2>1. \A i \in S : n - i \in Nat
      OBVIOUS
    <2>2. PICK i \in S : TRUE
      OBVIOUS
    <2>3. n - i \in T
      OBVIOUS
    <2> QED
      BY <2>1, <2>3
  <1>2. PICK x \in T : \A y \in T : <<y, x>> \notin R
    <2> HIDE DEF T, R
    <2> QED
      BY <1>1, NatLessThanWellFounded, WFMin DEF R
  <1>3. PICK m \in S : x = n - m
    BY <1>2
  <1>4. \A y \in S : m >= y
    <2> SUFFICES ASSUME NEW y \in S, ~(m >= y) PROVE FALSE
      OBVIOUS
    <2>1. n - y \in T /\ n - y \in Nat /\ x \in Nat
      BY <1>1
    <2>2. n - y < x
      BY <1>3
    <2>3. <<n - y, x>> \in R
      BY <2>1, <2>2 DEF OpToRel
    <2> QED
      BY <1>2, <2>1, <2>3
  <1> QED
    BY <1>4 DEF Max

\* Any member of a set of integers that none exceeds is its Max.
LEMMA MaxIsUnique ==
    ASSUME NEW S \in SUBSET Int, NEW m \in S, \A y \in S : m >= y
    PROVE  Max(S) = m
  <1>1. m \in S /\ \A y \in S : m >= y
    OBVIOUS
  <1>2. Max(S) \in S /\ \A y \in S : Max(S) >= y
    BY <1>1 DEF Max
  <1>3. Max(S) \in Int /\ m \in Int /\ Max(S) >= m /\ m >= Max(S)
    BY <1>1, <1>2
  <1> QED
    BY <1>3

-----------------------------------------------------------------------------
(* The log of a state, and its small fields.                               *)

\* The indices and entries of a log that follows its snapshot without a gap.
LEMMA Window ==
    ASSUME NEW s \in ReplicaState, \A i \in DOMAIN s.Log : s.Log[i].index = s.SnapshotLastIndex + i
    PROVE  /\ s.Log \in Seq(Entry) /\ Len(s.Log) \in Nat /\ DOMAIN s.Log = 1..Len(s.Log)
           /\ s.SnapshotLastIndex \in Nat /\ s.AppliedIndex \in Nat /\ LastLogIndex(s) \in Nat
           /\ \A i \in Int : Found(s.Log, i) <=> i \in s.SnapshotLastIndex + 1 .. LastLogIndex(s)
           /\ \A i \in s.SnapshotLastIndex + 1 .. LastLogIndex(s) :
                /\ i - s.SnapshotLastIndex \in DOMAIN s.Log
                /\ EntryAt(s.Log, i) = s.Log[i - s.SnapshotLastIndex]
                /\ EntryAt(s.Log, i) \in Entry
  <1> DEFINE log == s.Log
             cut == s.SnapshotLastIndex
  <1>1. /\ log \in Seq(Entry) /\ Len(log) \in Nat /\ DOMAIN log = 1..Len(log)
        /\ cut \in Nat /\ s.AppliedIndex \in Nat
        /\ LastLogIndex(s) = cut + Len(log)
    BY DEF ReplicaState, LastLogIndex
  <1>2. \A i \in 1..Len(log) : log[i].index = cut + i /\ log[i] \in Entry
    BY <1>1
  <1>3. log = << >> <=> Len(log) = 0
    BY <1>1
  <1> SUFFICES /\ \A i \in Int : Found(log, i) <=> i \in cut + 1 .. cut + Len(log)
               /\ \A i \in cut + 1 .. cut + Len(log) :
                    /\ i - cut \in 1..Len(log)
                    /\ EntryAt(log, i) = log[i - cut]
                    /\ EntryAt(log, i) \in Entry
    BY <1>1
  <1> HIDE DEF log, cut
  <1>4. CASE Len(log) = 0
    BY <1>1, <1>3, <1>4 DEF Found
  <1>5. CASE Len(log) # 0
    <2>1. log[1].index = cut + 1
      BY <1>1, <1>2, <1>5
    <2>2. \A i \in cut + 1 .. cut + Len(log) : i - cut \in 1..Len(log)
      BY <1>1
    <2>3. \A i \in cut + 1 .. cut + Len(log) : i - (cut + 1) + 1 = i - cut
      BY <1>1
    <2>4. \A i \in cut + 1 .. cut + Len(log) : EntryAt(log, i) = log[i - cut]
      BY <2>1, <2>3 DEF EntryAt
    <2>5. \A i \in cut + 1 .. cut + Len(log) : log[i - cut].index = i
      BY <1>1, <1>2, <2>2
    <2>6. ASSUME NEW i \in Int
          PROVE  Found(log, i) <=> i \in cut + 1 .. cut + Len(log)
      BY <1>1, <1>3, <1>5, <2>1, <2>3, <2>5 DEF Found
    <2> QED
      BY <1>2, <2>2, <2>4, <2>6
  <1> QED
    BY <1>4, <1>5

\* The two parts of a log cut after its k-th entry.
LEMMA CutLog ==
    ASSUME NEW q \in Seq(Entry), NEW k \in Nat, k <= Len(q)
    PROVE  /\ SubSeq(q, 1, k) \in Seq(Entry) /\ Len(SubSeq(q, 1, k)) = k
           /\ \A j \in 1..k : SubSeq(q, 1, k)[j] = q[j]
           /\ SubSeq(q, k + 1, Len(q)) \in Seq(Entry) /\ Len(SubSeq(q, k + 1, Len(q))) = Len(q) - k
           /\ \A j \in 1..Len(q) - k : SubSeq(q, k + 1, Len(q))[j] = q[k + j]
  <1> DEFINE n == Len(q)
  <1>1. n \in Nat /\ \A i \in 1..n : q[i] \in Entry
    OBVIOUS
  <1> HIDE DEF n
  <1>2. (\A i \in 1..k : q[i] \in Entry) /\ (\A i \in k + 1 .. n : q[i] \in Entry)
    BY <1>1 DEF n
  <1>3. /\ SubSeq(q, 1, k) \in Seq(Entry) /\ Len(SubSeq(q, 1, k)) = IF 1 <= k THEN k - 1 + 1 ELSE 0
        /\ \A j \in 1..k - 1 + 1 : SubSeq(q, 1, k)[j] = q[1 + j - 1]
    BY <1>2, SubSeqProperties
  <1>4. k + 1 \in Int /\ n \in Int
    BY <1>1
  <1>5. /\ SubSeq(q, k + 1, n) \in Seq(Entry)
        /\ Len(SubSeq(q, k + 1, n)) = IF k + 1 <= n THEN n - (k + 1) + 1 ELSE 0
        /\ \A j \in 1..n - (k + 1) + 1 : SubSeq(q, k + 1, n)[j] = q[k + 1 + j - 1]
    BY <1>2, <1>4, SubSeqProperties
  <1>6. \A j \in 1..k : SubSeq(q, 1, k)[j] = q[j]
    <2>1. \A j \in 1..k : j \in 1..k - 1 + 1 /\ 1 + j - 1 = j
      OBVIOUS
    <2> QED
      BY <1>3, <2>1
  <1>7. \A j \in 1..n - k : SubSeq(q, k + 1, n)[j] = q[k + j]
    <2>1. \A j \in 1..n - k : j \in 1..n - (k + 1) + 1 /\ k + 1 + j - 1 = k + j
      BY <1>1
    <2> QED
      BY <1>5, <2>1
  <1>8. Len(SubSeq(q, 1, k)) = k /\ Len(SubSeq(q, k + 1, n)) = n - k
    BY <1>1, <1>3, <1>5 DEF n
  <1> QED
    BY <1>3, <1>5, <1>6, <1>7, <1>8 DEF n

\* A state whose log is replaced changes in nothing else.
LEMMA LogOnly ==
    ASSUME NEW s \in ReplicaState, NEW log \in Seq(Entry)
    PROVE  LET t == [s EXCEPT !.Log = log]
           IN  /\ t \in ReplicaState /\ t.Log = log
               /\ t.KnownGlobalCommitIndex = s.KnownGlobalCommitIndex /\ t.AppliedIndex = s.AppliedIndex
               /\ t.Results = s.Results /\ t.StateMachine = s.StateMachine
               /\ t.SnapshotLastIndex = s.SnapshotLastIndex
               /\ t.SnapshotLastTerm = s.SnapshotLastTerm
               /\ t.SnapshotLastRequestID = s.SnapshotLastRequestID
  <1> DEFINE R == Request \cup {None}
             D == Decision \cup {NoDecision}
             Q == Seq(Entry)
  <1>1. s \in [GlobalTerm : Nat, Log : Q, DomainQuorumIndex : [Domain -> Nat],
               KnownGlobalCommitIndex : Nat, AppliedIndex : Nat, Results : [Request -> D],
               StateMachine : [Key -> R], SnapshotLastIndex : Nat, SnapshotLastTerm : Nat,
               SnapshotLastRequestID : R]
    BY DEF ReplicaState
  <1>2. log \in Q
    OBVIOUS
  <1> HIDE DEF R, D, Q
  <1> QED
    BY <1>1, <1>2 DEF ReplicaState, R, D, Q

\* Two replica states that differ in the term and in the marks of the domains only.
SameReplica(s, t) ==
    /\ t.Log = s.Log
    /\ t.KnownGlobalCommitIndex = s.KnownGlobalCommitIndex /\ t.AppliedIndex = s.AppliedIndex
    /\ t.Results = s.Results /\ t.StateMachine = s.StateMachine
    /\ t.SnapshotLastIndex = s.SnapshotLastIndex
    /\ t.SnapshotLastTerm = s.SnapshotLastTerm
    /\ t.SnapshotLastRequestID = s.SnapshotLastRequestID

\* rollbackQuorumAbove, a raised mark and a new term touch nothing else.
LEMMA MarksOnly ==
    ASSUME NEW s \in ReplicaState, NEW i \in Nat
    PROVE  /\ rollbackQuorumAbove(s, i) \in ReplicaState /\ SameReplica(s, rollbackQuorumAbove(s, i))
           /\ \A d \in Domain : RaiseQuorum(s, d, i) \in ReplicaState /\ SameReplica(s, RaiseQuorum(s, d, i))
           /\ [s EXCEPT !.GlobalTerm = i] \in ReplicaState /\ SameReplica(s, [s EXCEPT !.GlobalTerm = i])
  <1> DEFINE R == Request \cup {None}
             D == Decision \cup {NoDecision}
             Q == Seq(Entry)
  <1>1. s \in [GlobalTerm : Nat, Log : Q, DomainQuorumIndex : [Domain -> Nat],
               KnownGlobalCommitIndex : Nat, AppliedIndex : Nat, Results : [Request -> D],
               StateMachine : [Key -> R], SnapshotLastIndex : Nat, SnapshotLastTerm : Nat,
               SnapshotLastRequestID : R]
    BY DEF ReplicaState
  <1>2. \A q \in [Domain -> Nat] :
          [s EXCEPT !.DomainQuorumIndex = q] \in ReplicaState /\ SameReplica(s, [s EXCEPT !.DomainQuorumIndex = q])
    BY <1>1 DEF ReplicaState, SameReplica
  <1>3. [d \in Domain |-> Lower(s.DomainQuorumIndex[d], i)] \in [Domain -> Nat]
    BY <1>1 DEF Lower
  <1>4. rollbackQuorumAbove(s, i)
          = [s EXCEPT !.DomainQuorumIndex = [d \in Domain |-> Lower(s.DomainQuorumIndex[d], i)]]
    BY <1>1 DEF rollbackQuorumAbove
  <1>5. \A d \in Domain :
          /\ [s.DomainQuorumIndex EXCEPT ![d] = Higher(s.DomainQuorumIndex[d], i)] \in [Domain -> Nat]
          /\ RaiseQuorum(s, d, i) = [s EXCEPT !.DomainQuorumIndex =
               [s.DomainQuorumIndex EXCEPT ![d] = Higher(s.DomainQuorumIndex[d], i)]]
    BY <1>1 DEF Higher, RaiseQuorum
  <1>6. [s EXCEPT !.GlobalTerm = i] \in ReplicaState /\ SameReplica(s, [s EXCEPT !.GlobalTerm = i])
    BY <1>1 DEF ReplicaState, SameReplica
  <1> DEFINE q == [d \in Domain |-> Lower(s.DomainQuorumIndex[d], i)]
             q2(d) == [s.DomainQuorumIndex EXCEPT ![d] = Higher(s.DomainQuorumIndex[d], i)]
  <1>7. rollbackQuorumAbove(s, i) = [s EXCEPT !.DomainQuorumIndex = q] /\ q \in [Domain -> Nat]
    BY <1>3, <1>4
  <1>8. \A d \in Domain : RaiseQuorum(s, d, i) = [s EXCEPT !.DomainQuorumIndex = q2(d)] /\ q2(d) \in [Domain -> Nat]
    BY <1>5
  <1> HIDE DEF q, q2
  <1>9. rollbackQuorumAbove(s, i) \in ReplicaState /\ SameReplica(s, rollbackQuorumAbove(s, i))
    BY <1>2, <1>7
  <1>10. \A d \in Domain : RaiseQuorum(s, d, i) \in ReplicaState /\ SameReplica(s, RaiseQuorum(s, d, i))
    BY <1>2, <1>8
  <1> QED
    BY <1>6, <1>9, <1>10

-----------------------------------------------------------------------------
(* The operators keep a state windowed.                                    *)

\* What a windowed state gives to the provers.
LEMMA WindowedState ==
    ASSUME NEW s, Windowed(s)
    PROVE  /\ s \in ReplicaState /\ s.Log \in Seq(Entry) /\ Len(s.Log) \in Nat
           /\ DOMAIN s.Log = 1..Len(s.Log)
           /\ s.SnapshotLastIndex \in Nat /\ s.AppliedIndex \in Nat /\ LastLogIndex(s) \in Nat
           /\ LastLogIndex(s) = s.SnapshotLastIndex + Len(s.Log)
           /\ s.SnapshotLastIndex <= s.AppliedIndex /\ s.KnownGlobalCommitIndex = s.AppliedIndex
           /\ s.AppliedIndex <= LastLogIndex(s)
           /\ \A i \in 1..Len(s.Log) : s.Log[i].index = s.SnapshotLastIndex + i /\ s.Log[i] \in Entry
           /\ \A i \in Int : Found(s.Log, i) <=> i \in s.SnapshotLastIndex + 1 .. LastLogIndex(s)
           /\ \A i \in s.SnapshotLastIndex + 1 .. LastLogIndex(s) :
                /\ i - s.SnapshotLastIndex \in 1..Len(s.Log)
                /\ EntryAt(s.Log, i) = s.Log[i - s.SnapshotLastIndex]
                /\ EntryAt(s.Log, i) \in Entry /\ EntryAt(s.Log, i).index = i
  <1> DEFINE cut == s.SnapshotLastIndex
             n == Len(s.Log)
  <1>1. /\ s \in ReplicaState /\ \A i \in DOMAIN s.Log : s.Log[i].index = cut + i
        /\ cut <= s.AppliedIndex /\ s.KnownGlobalCommitIndex = s.AppliedIndex
        /\ s.AppliedIndex <= LastLogIndex(s)
    BY DEF Windowed
  <1>2. /\ s.Log \in Seq(Entry) /\ n \in Nat /\ DOMAIN s.Log = 1..n
        /\ cut \in Nat /\ s.AppliedIndex \in Nat /\ LastLogIndex(s) \in Nat
        /\ \A i \in Int : Found(s.Log, i) <=> i \in cut + 1 .. LastLogIndex(s)
        /\ \A i \in cut + 1 .. LastLogIndex(s) :
             /\ i - cut \in DOMAIN s.Log
             /\ EntryAt(s.Log, i) = s.Log[i - cut]
             /\ EntryAt(s.Log, i) \in Entry
    BY <1>1, Window
  <1>3. LastLogIndex(s) = cut + n
    BY DEF LastLogIndex
  <1>4. \A i \in 1..n : s.Log[i].index = cut + i /\ s.Log[i] \in Entry
    BY <1>1, <1>2
  <1>5. \A i \in cut + 1 .. LastLogIndex(s) : EntryAt(s.Log, i).index = i
    <2> SUFFICES ASSUME NEW i \in cut + 1 .. LastLogIndex(s) PROVE EntryAt(s.Log, i).index = i
      OBVIOUS
    <2> DEFINE j == i - cut
    <2>1. j \in 1..n /\ EntryAt(s.Log, i) = s.Log[j] /\ cut + j = i
      BY <1>2, <1>3
    <2> HIDE DEF j
    <2> QED
      BY <1>4, <2>1
  <1> QED
    BY <1>1, <1>2, <1>3, <1>4, <1>5

\* A state of the type with a log in place, what is committed applied and within it.
LEMMA MakeWindowed ==
    ASSUME NEW s \in ReplicaState,
           \A i \in 1..Len(s.Log) : s.Log[i].index = s.SnapshotLastIndex + i,
           s.SnapshotLastIndex <= s.AppliedIndex, s.KnownGlobalCommitIndex = s.AppliedIndex,
           s.AppliedIndex <= LastLogIndex(s)
    PROVE  Windowed(s)
  <1>1. s.Log \in Seq(Entry)
    BY DEF ReplicaState
  <1>2. DOMAIN s.Log = 1..Len(s.Log)
    BY <1>1
  <1> QED
    BY <1>2 DEF Windowed

\* How to show that a node goes on from what it has committed, from the logs of both states.
LEMMA MakeKeeps ==
    ASSUME NEW s, Windowed(s), NEW t, Windowed(t),
           s.SnapshotLastIndex <= t.SnapshotLastIndex, s.AppliedIndex <= t.AppliedIndex,
           \A i \in t.SnapshotLastIndex + 1 .. s.AppliedIndex :
             t.Log[i - t.SnapshotLastIndex] = s.Log[i - s.SnapshotLastIndex],
           \A r \in Request : s.Results[r] # NoDecision => t.Results[r] # NoDecision
    PROVE  Keeps(s, t)
  <1>1. /\ s.SnapshotLastIndex \in Nat /\ s.AppliedIndex \in Nat /\ LastLogIndex(s) \in Nat
        /\ s.AppliedIndex <= LastLogIndex(s)
        /\ \A i \in s.SnapshotLastIndex + 1 .. LastLogIndex(s) :
             EntryAt(s.Log, i) = s.Log[i - s.SnapshotLastIndex]
    BY WindowedState
  <1>2. /\ t.SnapshotLastIndex \in Nat /\ t.AppliedIndex \in Nat /\ LastLogIndex(t) \in Nat
        /\ t.AppliedIndex <= LastLogIndex(t)
        /\ \A i \in t.SnapshotLastIndex + 1 .. LastLogIndex(t) :
             EntryAt(t.Log, i) = t.Log[i - t.SnapshotLastIndex]
    BY WindowedState
  <1>3. ASSUME NEW i \in t.SnapshotLastIndex + 1 .. s.AppliedIndex
        PROVE  EntryAt(t.Log, i) = EntryAt(s.Log, i)
    <2>1. i \in s.SnapshotLastIndex + 1 .. LastLogIndex(s) /\ i \in t.SnapshotLastIndex + 1 .. LastLogIndex(t)
      BY <1>1, <1>2
    <2>2. EntryAt(s.Log, i) = s.Log[i - s.SnapshotLastIndex] /\ EntryAt(t.Log, i) = t.Log[i - t.SnapshotLastIndex]
      BY <1>1, <1>2, <2>1
    <2> QED
      BY <1>3, <2>2
  <1> QED
    BY <1>3 DEF Keeps

\* Going on is reflexive and transitive.
LEMMA KeepsSelf ==
    ASSUME NEW s, Windowed(s)
    PROVE  Keeps(s, s)
  BY WindowedState DEF Keeps

\* Keeping is transitive.
LEMMA KeepsOn ==
    ASSUME NEW s, Windowed(s), NEW t, Windowed(t), NEW u, Windowed(u), Keeps(s, t), Keeps(t, u)
    PROVE  Keeps(s, u)
  <1>1. /\ s.SnapshotLastIndex \in Nat /\ s.AppliedIndex \in Nat
        /\ t.SnapshotLastIndex \in Nat /\ t.AppliedIndex \in Nat
        /\ u.SnapshotLastIndex \in Nat /\ u.AppliedIndex \in Nat
    BY WindowedState
  <1>2. /\ s.SnapshotLastIndex <= t.SnapshotLastIndex /\ s.AppliedIndex <= t.AppliedIndex
        /\ t.SnapshotLastIndex <= u.SnapshotLastIndex /\ t.AppliedIndex <= u.AppliedIndex
    BY DEF Keeps
  <1>3. s.SnapshotLastIndex <= u.SnapshotLastIndex /\ s.AppliedIndex <= u.AppliedIndex
    BY <1>1, <1>2
  <1>4. ASSUME NEW i \in u.SnapshotLastIndex + 1 .. s.AppliedIndex
        PROVE  EntryAt(u.Log, i) = EntryAt(s.Log, i)
    <2>1. i \in t.SnapshotLastIndex + 1 .. s.AppliedIndex /\ i \in u.SnapshotLastIndex + 1 .. t.AppliedIndex
      BY <1>1, <1>2
    <2> QED
      BY <2>1 DEF Keeps
  <1>5. \A r \in Request : s.Results[r] # NoDecision => u.Results[r] # NoDecision
    BY DEF Keeps
  <1> QED
    BY <1>3, <1>4, <1>5 DEF Keeps

\* A state that differs in the term and the marks only.
LEMMA SameReplicaKeeps ==
    ASSUME NEW s, Windowed(s), NEW t \in ReplicaState, SameReplica(s, t)
    PROVE  Windowed(t) /\ LastLogIndex(t) = LastLogIndex(s) /\ Keeps(s, t)
  <1>1. Windowed(t) /\ LastLogIndex(t) = LastLogIndex(s)
    BY DEF Windowed, SameReplica, LastLogIndex
  <1>2. s.SnapshotLastIndex \in Nat /\ s.AppliedIndex \in Nat
    BY WindowedState
  <1> QED
    BY <1>1, <1>2 DEF Keeps, SameReplica

\* The zero state.
LEMMA NewStateWindowed ==
    /\ Windowed(NewState) /\ LastLogIndex(NewState) = 0
    /\ NewState.StateMachine = [k \in Key |-> None]
    /\ NewState.Results = [r \in Request |-> NoDecision]
  <1> DEFINE R == Request \cup {None}
             D == Decision \cup {NoDecision}
             sm == [k \in Key |-> None]
             rs == [r \in Request |-> NoDecision]
             q == [d \in Domain |-> 0]
             Q == Seq(Entry)
             RS == [GlobalTerm : Nat, Log : Q, DomainQuorumIndex : [Domain -> Nat],
                    KnownGlobalCommitIndex : Nat, AppliedIndex : Nat, Results : [Request -> D],
                    StateMachine : [Key -> R], SnapshotLastIndex : Nat, SnapshotLastTerm : Nat,
                    SnapshotLastRequestID : R]
  <1>1. RS = ReplicaState
    BY DEF ReplicaState
  <1>2. sm \in [Key -> R] /\ rs \in [Request -> D] /\ q \in [Domain -> Nat] /\ None \in R /\ << >> \in Q
    OBVIOUS
  <1>3. NewState = [GlobalTerm |-> 0, Log |-> << >>, DomainQuorumIndex |-> q,
                    KnownGlobalCommitIndex |-> 0, AppliedIndex |-> 0, Results |-> rs,
                    StateMachine |-> sm, SnapshotLastIndex |-> 0, SnapshotLastTerm |-> 0,
                    SnapshotLastRequestID |-> None]
    BY DEF NewState
  <1> HIDE DEF R, D, sm, rs, q, Q
  <1>4. /\ NewState \in RS /\ NewState.Log = << >> /\ NewState.SnapshotLastIndex = 0
        /\ NewState.AppliedIndex = 0 /\ NewState.KnownGlobalCommitIndex = 0
        /\ NewState.StateMachine = sm /\ NewState.Results = rs
    BY <1>2, <1>3
  <1>5. Len(NewState.Log) = 0
    BY <1>4
  <1>6. LastLogIndex(NewState) = 0
    BY <1>4, <1>5 DEF LastLogIndex
  <1> HIDE DEF RS
  <1>7. Windowed(NewState)
    <2>1. \A i \in 1..Len(NewState.Log) : NewState.Log[i].index = NewState.SnapshotLastIndex + i
      BY <1>5
    <2> QED
      BY <1>1, <1>4, <1>6, <2>1, MakeWindowed
  <1> QED
    BY <1>4, <1>6, <1>7 DEF sm, rs

\* appendEntryChecked, of an entry that it accepts.
LEMMA AppendKeeps ==
    ASSUME NEW s, Windowed(s), NEW e \in Entry, e.index <= LastLogIndex(s) + 1, ~Conflicts(s, e)
    PROVE  LET t == appendEntryChecked(s, e)
           IN  /\ Windowed(t) /\ t.StateMachine = s.StateMachine /\ t.Results = s.Results
               /\ t.AppliedIndex = s.AppliedIndex
               /\ LastLogIndex(t) = LastLogIndex(s) \/ LastLogIndex(t) = e.index
               /\ Keeps(s, t)
  <1> DEFINE i == e.index
             cut == s.SnapshotLastIndex
             keep == i - cut - 1
             log == Append(SubSeq(s.Log, 1, keep), e)
             s2 == [s EXCEPT !.Log = log]
  <1>0. i \in Nat \ {0}
    BY DEF Entry
  <1>1. CASE i <= cut \/ (Found(s.Log, i) /\ Same(EntryAt(s.Log, i), e))
    BY <1>1, KeepsSelf DEF appendEntryChecked
  <1>2. ASSUME ~(i <= cut \/ (Found(s.Log, i) /\ Same(EntryAt(s.Log, i), e)))
        PROVE  LET t == appendEntryChecked(s, e)
               IN  /\ Windowed(t) /\ t.StateMachine = s.StateMachine /\ t.Results = s.Results
                   /\ t.AppliedIndex = s.AppliedIndex
                   /\ LastLogIndex(t) = i /\ Keeps(s, t)
    <2>1. appendEntryChecked(s, e)
            = IF Found(s.Log, i) THEN rollbackQuorumAbove(s2, i - 1) ELSE s2
      BY <1>2 DEF appendEntryChecked
    <2>2. /\ s \in ReplicaState /\ s.Log \in Seq(Entry) /\ Len(s.Log) \in Nat
          /\ cut \in Nat /\ s.AppliedIndex \in Nat /\ LastLogIndex(s) \in Nat
          /\ LastLogIndex(s) = cut + Len(s.Log)
          /\ cut <= s.AppliedIndex /\ s.KnownGlobalCommitIndex = s.AppliedIndex
          /\ s.AppliedIndex <= LastLogIndex(s)
          /\ \A j \in 1..Len(s.Log) : s.Log[j].index = cut + j
          /\ \A j \in Int : Found(s.Log, j) <=> j \in cut + 1 .. LastLogIndex(s)
      BY WindowedState
    <2>3. i > cut /\ i <= LastLogIndex(s) + 1 /\ s.AppliedIndex < i
      <3>1. i > cut
        BY <1>0, <1>2, <2>2
      <3>2. CASE Found(s.Log, i)
        <4>1. ~(i <= s.KnownGlobalCommitIndex)
          BY <1>2, <3>2 DEF Conflicts
        <4> QED
          BY <1>0, <2>2, <3>1, <4>1
      <3>3. CASE ~Found(s.Log, i)
        <4>1. i = LastLogIndex(s) + 1
          BY <1>0, <2>2, <3>1, <3>3
        <4> QED
          BY <1>0, <2>2, <3>1, <4>1
      <3> QED
        BY <3>2, <3>3
    <2>4. keep \in Nat /\ keep <= Len(s.Log) /\ cut + keep + 1 = i
      BY <1>0, <2>2, <2>3
    <2>5. /\ SubSeq(s.Log, 1, keep) \in Seq(Entry) /\ Len(SubSeq(s.Log, 1, keep)) = keep
          /\ \A j \in 1..keep : SubSeq(s.Log, 1, keep)[j] = s.Log[j]
      BY <2>2, <2>4, CutLog
    <2>6. /\ log \in Seq(Entry) /\ Len(log) = keep + 1
          /\ \A j \in 1..keep : log[j] = s.Log[j]
          /\ log[keep + 1] = e
      <3> DEFINE pre == SubSeq(s.Log, 1, keep)
      <3> HIDE DEF pre
      <3>1. /\ Append(pre, e) \in Seq(Entry) /\ Len(Append(pre, e)) = keep + 1
            /\ \A j \in 1..keep : Append(pre, e)[j] = pre[j]
            /\ Append(pre, e)[keep + 1] = e
        BY <2>5, AppendProperties DEF pre
      <3> QED
        BY <3>1, <2>5 DEF pre
    <2> HIDE DEF log
    <2>7. /\ s2 \in ReplicaState /\ s2.Log = log
          /\ s2.KnownGlobalCommitIndex = s.KnownGlobalCommitIndex /\ s2.AppliedIndex = s.AppliedIndex
          /\ s2.Results = s.Results /\ s2.StateMachine = s.StateMachine
          /\ s2.SnapshotLastIndex = cut
      BY <2>2, <2>6, LogOnly
    <2> HIDE DEF s2
    <2>8. LastLogIndex(s2) = i
      BY <1>0, <2>2, <2>4, <2>6, <2>7 DEF LastLogIndex
    <2>9. \A j \in 1..Len(log) : log[j].index = cut + j
      <3> SUFFICES ASSUME NEW j \in 1..keep + 1 PROVE log[j].index = cut + j
        BY <2>6
      <3>1. CASE j = keep + 1
        <4>1. cut + j = i
          BY <1>0, <2>2, <2>4, <3>1
        <4> QED
          BY <2>6, <3>1, <4>1
      <3>2. CASE j \in 1..keep
        <4>1. j \in 1..Len(s.Log)
          BY <2>2, <2>4, <3>2
        <4> QED
          BY <2>2, <2>6, <3>2, <4>1
      <3> QED
        BY <2>4, <3>1, <3>2
    <2>10. Windowed(s2)
      <3>1. s2.AppliedIndex <= LastLogIndex(s2)
        BY <1>0, <2>2, <2>3, <2>7, <2>8
      <3> HIDE DEF i, cut, keep
      <3> QED
        BY <2>2, <2>7, <2>9, <3>1, MakeWindowed
    <2>11. i - 1 \in Nat
      BY <1>0
    <2>16. Keeps(s, s2)
      <3>1. \A j \in cut + 1 .. s.AppliedIndex : log[j - cut] = s.Log[j - cut]
        <4>1. \A j \in cut + 1 .. s.AppliedIndex : j - cut \in 1..keep
          <5> HIDE DEF i, cut, keep
          <5> QED
            BY <1>0, <2>2, <2>3, <2>4
        <4> QED
          BY <2>6, <4>1
      <3>2. cut <= cut /\ s.AppliedIndex <= s.AppliedIndex
        BY <2>2
      <3> HIDE DEF i, cut, keep
      <3> QED
        BY <2>2, <2>7, <2>10, <3>1, <3>2, MakeKeeps DEF cut
    <2>12. /\ rollbackQuorumAbove(s2, i - 1) \in ReplicaState
           /\ SameReplica(s2, rollbackQuorumAbove(s2, i - 1))
      BY <2>7, <2>11, MarksOnly
    <2> DEFINE s3 == rollbackQuorumAbove(s2, i - 1)
    <2>13. s3 \in ReplicaState /\ SameReplica(s2, s3)
      BY <2>12
    <2>14. appendEntryChecked(s, e) = s2 \/ appendEntryChecked(s, e) = s3
      BY <2>1
    <2> HIDE DEF s3
    <2>15. /\ Windowed(s3) /\ LastLogIndex(s3) = LastLogIndex(s2) /\ Keeps(s2, s3)
           /\ s3.AppliedIndex = s2.AppliedIndex
           /\ s3.StateMachine = s2.StateMachine /\ s3.Results = s2.Results
      BY <2>10, <2>13, SameReplicaKeeps DEF SameReplica
    <2>17. Keeps(s, s3)
      BY <2>10, <2>15, <2>16, KeepsOn
    <2> HIDE DEF i
    <2> QED
      BY <2>7, <2>8, <2>10, <2>14, <2>15, <2>16, <2>17
  <1> QED
    BY <1>1, <1>2

\* compactLog, at any index.
LEMMA CompactKeeps ==
    ASSUME NEW s, Windowed(s), NEW at \in Int
    PROVE  LET t == compactLog(s, at)
           IN  /\ Windowed(t) /\ t.StateMachine = s.StateMachine /\ t.Results = s.Results
               /\ t.AppliedIndex = s.AppliedIndex /\ LastLogIndex(t) = LastLogIndex(s)
               /\ Keeps(s, t)
  <1> DEFINE cut == s.SnapshotLastIndex
             e == EntryAt(s.Log, at)
             log == SubSeq(s.Log, at - cut + 1, Len(s.Log))
             s2 == [s EXCEPT !.Log = log, !.SnapshotLastIndex = at,
                             !.SnapshotLastTerm = e.term, !.SnapshotLastRequestID = e.request]
  <1>1. CASE at <= cut \/ at > s.AppliedIndex \/ ~Found(s.Log, at)
    BY <1>1, KeepsSelf DEF compactLog
  <1>2. CASE ~(at <= cut \/ at > s.AppliedIndex \/ ~Found(s.Log, at))
    <2>1. compactLog(s, at) = s2
      BY <1>2 DEF compactLog
    <2>2. /\ s \in ReplicaState /\ s.Log \in Seq(Entry) /\ Len(s.Log) \in Nat
          /\ cut \in Nat /\ s.AppliedIndex \in Nat /\ LastLogIndex(s) \in Nat
          /\ LastLogIndex(s) = cut + Len(s.Log)
          /\ s.KnownGlobalCommitIndex = s.AppliedIndex
          /\ s.AppliedIndex <= LastLogIndex(s)
          /\ \A j \in 1..Len(s.Log) : s.Log[j].index = cut + j
          /\ \A j \in Int : Found(s.Log, j) <=> j \in cut + 1 .. LastLogIndex(s)
          /\ \A j \in cut + 1 .. LastLogIndex(s) : EntryAt(s.Log, j) \in Entry
      BY WindowedState
    <2>3. at \in Nat /\ at > cut /\ at <= s.AppliedIndex /\ at \in cut + 1 .. LastLogIndex(s)
      BY <1>2, <2>2
    <2>4. e.term \in Nat /\ e.request \in Request \cup {None}
      <3>1. e \in Entry
        BY <2>2, <2>3
      <3> QED
        BY <3>1 DEF Entry
    <2>5. /\ log \in Seq(Entry) /\ Len(log) = Len(s.Log) - (at - cut)
          /\ \A j \in 1..Len(log) : log[j] = s.Log[(at - cut) + j]
      <3> DEFINE k == at - cut
      <3>1. k \in Nat /\ k <= Len(s.Log) /\ s.Log \in Seq(Entry) /\ log = SubSeq(s.Log, k + 1, Len(s.Log))
        BY <2>2, <2>3
      <3> HIDE DEF k, log
      <3>2. /\ log \in Seq(Entry) /\ Len(log) = Len(s.Log) - k
            /\ \A j \in 1..Len(s.Log) - k : log[j] = s.Log[k + j]
        BY <3>1, CutLog
      <3> QED
        BY <3>2 DEF k
    <2> HIDE DEF log, e
    <2>6. /\ s2 \in ReplicaState /\ s2.Log = log
          /\ s2.KnownGlobalCommitIndex = s.KnownGlobalCommitIndex /\ s2.AppliedIndex = s.AppliedIndex
          /\ s2.Results = s.Results /\ s2.StateMachine = s.StateMachine
          /\ s2.SnapshotLastIndex = at
      <3> DEFINE R == Request \cup {None}
                 D == Decision \cup {NoDecision}
                 Q == Seq(Entry)
                 RS == [GlobalTerm : Nat, Log : Q, DomainQuorumIndex : [Domain -> Nat],
                        KnownGlobalCommitIndex : Nat, AppliedIndex : Nat, Results : [Request -> D],
                        StateMachine : [Key -> R], SnapshotLastIndex : Nat, SnapshotLastTerm : Nat,
                        SnapshotLastRequestID : R]
      <3>1. RS = ReplicaState /\ s \in RS
        BY <2>2 DEF ReplicaState
      <3>2. log \in Q /\ at \in Nat /\ e.term \in Nat /\ e.request \in R
        BY <2>3, <2>4, <2>5
      <3> HIDE DEF R, D, Q
      <3> QED
        BY <3>1, <3>2
    <2> HIDE DEF s2
    <2>7. LastLogIndex(s2) = LastLogIndex(s)
      <3>1. LastLogIndex(s2) = at + Len(log)
        BY <2>6 DEF LastLogIndex
      <3>2. at + (Len(s.Log) - (at - cut)) = cut + Len(s.Log)
        BY <2>2, <2>3
      <3> QED
        BY <2>2, <2>5, <3>1, <3>2
    <2>8. \A j \in 1..Len(log) : log[j].index = at + j
      <3> SUFFICES ASSUME NEW j \in 1..Len(log) PROVE log[j].index = at + j
        OBVIOUS
      <3> DEFINE m == (at - cut) + j
      <3>1. m \in 1..Len(s.Log) /\ cut + m = at + j
        BY <2>2, <2>3, <2>5, SMTT(30)
      <3>2. log[j] = s.Log[m]
        BY <2>5
      <3> HIDE DEF m, cut
      <3> QED
        BY <2>2, <3>1, <3>2 DEF cut
    <2>9. Windowed(s2)
      <3> HIDE DEF cut
      <3> QED
        BY <2>2, <2>3, <2>6, <2>7, <2>8, MakeWindowed
    <2>10. Keeps(s, s2)
      <3>1. ASSUME NEW j \in at + 1 .. s.AppliedIndex
            PROVE  log[j - at] = s.Log[j - cut]
        <4>1. j - at \in 1..Len(log) /\ (at - cut) + (j - at) = j - cut
          BY <2>2, <2>3, <2>5, SMTT(30)
        <4> QED
          BY <2>5, <4>1
      <3>2. cut <= at /\ s.AppliedIndex <= s.AppliedIndex
        BY <2>2, <2>3
      <3> QED
        BY <2>6, <2>9, <3>1, <3>2, MakeKeeps
    <2> QED
      BY <2>1, <2>6, <2>7, <2>9, <2>10
  <1> QED
    BY <1>1, <1>2

\* Compaction changes the log only, and keeps what is committed.
LEMMA MaybeCompactKeeps ==
    ASSUME NEW s, Windowed(s)
    PROVE  LET t == maybeCompactLocked(s)
           IN  /\ Windowed(t) /\ t.StateMachine = s.StateMachine /\ t.Results = s.Results
               /\ t.AppliedIndex = s.AppliedIndex /\ LastLogIndex(t) = LastLogIndex(s)
               /\ Keeps(s, t)
  <1> DEFINE at == s.AppliedIndex - compactionRetain
             u == compactLog(s, at)
  <1>1. at \in Int
    BY LogAssumption, WindowedState
  <1>2. maybeCompactLocked(s) = s \/ maybeCompactLocked(s) = u
    BY DEF maybeCompactLocked
  <1> HIDE DEF at
  <1>3. /\ Windowed(u) /\ u.StateMachine = s.StateMachine /\ u.Results = s.Results
        /\ u.AppliedIndex = s.AppliedIndex /\ LastLogIndex(u) = LastLogIndex(s)
        /\ Keeps(s, u) /\ Keeps(s, s)
    BY <1>1, CompactKeeps, KeepsSelf
  <1> HIDE DEF u
  <1> QED
    BY <1>2, <1>3

\* applyEntries, up to an entry that the log holds: what was applied stays applied.
LEMMA ApplyKeeps ==
    ASSUME NEW s, Windowed(s), NEW top \in Nat, s.AppliedIndex < top, top <= LastLogIndex(s)
    PROVE  LET t == applyEntries(s, top)
           IN  /\ Windowed(t) /\ Covers(s, t) /\ Keeps(s, t)
               /\ t.AppliedIndex = top /\ LastLogIndex(t) = LastLogIndex(s)
  <1> DEFINE a == s.AppliedIndex
             cut == s.SnapshotLastIndex
             new == a + 1 .. top
             written(k) == {i \in new : KeyOf[EntryAt(s.Log, i).request] = k}
             writes(k) == \E i \in new : KeyOf[EntryAt(s.Log, i).request] = k
             decides(r) == {i \in new : EntryAt(s.Log, i).request = r}
             lastOf(r) == EntryAt(s.Log, Max(decides(r)))
             smOf(k) == IF writes(k) THEN EntryAt(s.Log, LastWrite(s.Log, new, k)).request
                        ELSE s.StateMachine[k]
             rsOf(r) == IF decides(r) # {} THEN [term |-> lastOf(r).term, index |-> lastOf(r).index]
                        ELSE s.Results[r]
             sm == [k \in Key |-> smOf(k)]
             rs == [r \in Request |-> rsOf(r)]
             s2 == [s EXCEPT !.KnownGlobalCommitIndex = top, !.AppliedIndex = top,
                             !.StateMachine = sm, !.Results = rs]
  <1>1. /\ s \in ReplicaState /\ s.Log \in Seq(Entry) /\ Len(s.Log) \in Nat
        /\ cut \in Nat /\ a \in Nat /\ LastLogIndex(s) \in Nat
        /\ cut <= a /\ s.KnownGlobalCommitIndex = a
        /\ \A j \in 1..Len(s.Log) : s.Log[j].index = cut + j
        /\ \A j \in cut + 1 .. LastLogIndex(s) : EntryAt(s.Log, j) \in Entry
    BY WindowedState
  <1>2. s.StateMachine \in [Key -> Request \cup {None}] /\ s.Results \in [Request -> Decision \cup {NoDecision}]
    BY <1>1 DEF ReplicaState
  <1>3. \A i \in new : i \in 0..top /\ i \in cut + 1 .. LastLogIndex(s)
    BY <1>1
  <1>4. \A i \in new : /\ EntryAt(s.Log, i).request \in Request
                       /\ EntryAt(s.Log, i).term \in Nat \ {0} /\ EntryAt(s.Log, i).index \in Nat \ {0}
    <2>1. \A i \in new : EntryAt(s.Log, i) \in Entry
      BY <1>1, <1>3
    <2> HIDE DEF new
    <2> QED
      BY <2>1 DEF Entry
  <1>5. applyEntries(s, top) = s2
    <2>1. a <= a /\ new # {}
      <3>1. a + 1 \in new
        BY <1>1
      <3> QED
        BY <1>1, <3>1
    <2> QED
      BY <1>1, <2>1 DEF applyEntries
  <1>6. \A k : writes(k) => LastWrite(s.Log, new, k) \in new
    <2> TAKE k
    <2> HAVE writes(k)
    <2>1. written(k) \in SUBSET (0..top) /\ written(k) # {}
      BY <1>3
    <2>2. Max(written(k)) \in written(k)
      <3> HIDE DEF written
      <3> QED
        BY <2>1, MaxIsMember
    <2> QED
      BY <2>2 DEF LastWrite
  <1>7. \A r : decides(r) # {} => Max(decides(r)) \in new
    <2> TAKE r
    <2> HAVE decides(r) # {}
    <2>1. decides(r) \in SUBSET (0..top)
      BY <1>3
    <2>2. Max(decides(r)) \in decides(r)
      <3> HIDE DEF decides
      <3> QED
        BY <2>1, MaxIsMember
    <2> QED
      BY <2>2
  <1>8. \A k \in Key : /\ smOf(k) \in Request \cup {None}
                       /\ s.StateMachine[k] # None => smOf(k) # None
    <2> TAKE k \in Key
    <2>1. CASE writes(k)
      <3>1. smOf(k) \in Request
        <4> HIDE DEF new
        <4> QED
          BY <1>4, <1>6, <2>1
      <3> QED
        BY <3>1, LogAssumption
    <2>2. CASE ~writes(k)
      <3>1. smOf(k) = s.StateMachine[k]
        BY <2>2
      <3> QED
        BY <1>2, <3>1
    <2> QED
      BY <2>1, <2>2
  <1>9. \A r \in Request : /\ rsOf(r) \in Decision \cup {NoDecision}
                           /\ s.Results[r] # NoDecision => rsOf(r) # NoDecision
    <2> TAKE r \in Request
    <2>1. CASE decides(r) # {}
      <3>1. lastOf(r).term \in Nat \ {0} /\ lastOf(r).index \in Nat \ {0}
        BY <1>4, <1>7, <2>1
      <3>2. rsOf(r) = [term |-> lastOf(r).term, index |-> lastOf(r).index]
        BY <2>1
      <3> HIDE DEF lastOf, rsOf
      <3> QED
        BY <3>1, <3>2 DEF Decision, NoDecision
    <2>2. CASE decides(r) = {}
      <3>1. rsOf(r) = s.Results[r]
        BY <2>2
      <3> QED
        BY <1>2, <3>1
    <2> QED
      BY <2>1, <2>2
  <1> HIDE DEF smOf, rsOf
  <1>10. sm \in [Key -> Request \cup {None}] /\ rs \in [Request -> Decision \cup {NoDecision}]
    BY <1>8, <1>9
  <1>11. /\ \A k \in Key : s.StateMachine[k] # None => sm[k] # None
         /\ \A r \in Request : s.Results[r] # NoDecision => rs[r] # NoDecision
    BY <1>8, <1>9
  <1> HIDE DEF sm, rs
  <1>12. /\ s2 \in ReplicaState /\ s2.Log = s.Log
         /\ s2.KnownGlobalCommitIndex = top /\ s2.AppliedIndex = top
         /\ s2.Results = rs /\ s2.StateMachine = sm /\ s2.SnapshotLastIndex = cut
    <2> DEFINE R == Request \cup {None}
               D == Decision \cup {NoDecision}
               Q == Seq(Entry)
               RS == [GlobalTerm : Nat, Log : Q, DomainQuorumIndex : [Domain -> Nat],
                      KnownGlobalCommitIndex : Nat, AppliedIndex : Nat, Results : [Request -> D],
                      StateMachine : [Key -> R], SnapshotLastIndex : Nat, SnapshotLastTerm : Nat,
                      SnapshotLastRequestID : R]
    <2>1. RS = ReplicaState /\ s \in RS
      BY <1>1 DEF ReplicaState
    <2>2. sm \in [Key -> R] /\ rs \in [Request -> D]
      BY <1>10
    <2> HIDE DEF R, D, Q
    <2> QED
      BY <2>1, <2>2
  <1> HIDE DEF s2
  <1>13. LastLogIndex(s2) = LastLogIndex(s) /\ cut <= top
    BY <1>1, <1>12 DEF LastLogIndex
  <1>14. Windowed(s2)
    <2> HIDE DEF cut
    <2> QED
      BY <1>1, <1>12, <1>13, MakeWindowed
  <1>15. Covers(s, s2)
    BY <1>11, <1>12 DEF Covers
  <1>16. Keeps(s, s2)
    <2>1. s.SnapshotLastIndex <= cut /\ a <= top
      BY <1>1
    <2> HIDE DEF a, cut
    <2> QED
      BY <1>11, <1>12, <1>14, <2>1, MakeKeeps DEF a, cut
  <1> QED
    BY <1>5, <1>12, <1>13, <1>14, <1>15, <1>16

\* advanceCommitLocked, with any commit position.
LEMMA AdvanceKeeps ==
    ASSUME NEW s, Windowed(s), NEW c, c.index \in Nat
    PROVE  LET t == advanceCommitLocked(s, c)
           IN  /\ Windowed(t) /\ Covers(s, t) /\ LastLogIndex(t) = LastLogIndex(s)
               /\ t.AppliedIndex >= s.AppliedIndex /\ Keeps(s, t)
  <1> DEFINE t == advanceCommitLocked(s, c)
             u == applyEntries(s, c.index)
  <1>1. s.AppliedIndex \in Nat /\ s.KnownGlobalCommitIndex = s.AppliedIndex
        /\ s.SnapshotLastIndex \in Nat /\ LastLogIndex(s) \in Nat
        /\ \A i \in Int : Found(s.Log, i) <=> i \in s.SnapshotLastIndex + 1 .. LastLogIndex(s)
    BY WindowedState
  <1>2. CASE ~(MayAdvance(s, c) /\ c.index > s.KnownGlobalCommitIndex)
    <2>1. t = s
      BY <1>2 DEF advanceCommitLocked
    <2> QED
      BY <1>1, <2>1, KeepsSelf DEF Covers
  <1>3. CASE MayAdvance(s, c) /\ c.index > s.KnownGlobalCommitIndex
    <2>1. t = maybeCompactLocked(u)
      BY <1>3 DEF advanceCommitLocked
    <2>2. Found(s.Log, c.index)
      <3>1. c.index \in s.KnownGlobalCommitIndex + 1 .. c.index
        BY <1>1, <1>3
      <3> QED
        BY <1>1, <1>3, <3>1 DEF MayAdvance
    <2>3. s.AppliedIndex < c.index /\ c.index <= LastLogIndex(s)
      BY <1>1, <1>3, <2>2
    <2>4. Windowed(u) /\ Covers(s, u) /\ Keeps(s, u) /\ u.AppliedIndex = c.index /\ LastLogIndex(u) = LastLogIndex(s)
      BY <2>3, ApplyKeeps
    <2> HIDE DEF u, t
    <2>5. /\ Windowed(t) /\ t.StateMachine = u.StateMachine /\ t.Results = u.Results
          /\ t.AppliedIndex = u.AppliedIndex /\ LastLogIndex(t) = LastLogIndex(u)
          /\ Keeps(u, t)
      BY <2>1, <2>4, MaybeCompactKeeps
    <2>6. Covers(s, t)
      BY <2>4, <2>5 DEF Covers
    <2>7. Keeps(s, t)
      BY <2>4, <2>5, KeepsOn
    <2> QED
      BY <1>1, <2>3, <2>4, <2>5, <2>6, <2>7 DEF t
  <1> QED
    BY <1>2, <1>3

\* installSnapshotState, of any snapshot of the right type: the results that were known
\* stay known, and the state machine is that of the snapshot.
LEMMA InstallKeeps ==
    ASSUME NEW s, Windowed(s), NEW snap, snap.index \in Nat, snap.term \in Nat,
           snap.request \in Request \cup {None},
           snap.StateMachine \in [Key -> Request \cup {None}],
           snap.Results \in [Request -> Decision \cup {NoDecision}]
    PROVE  LET t == installSnapshotState(s, snap)
           IN  /\ Windowed(t) /\ t.AppliedIndex >= s.AppliedIndex /\ Keeps(s, t)
               /\ t.StateMachine \in {s.StateMachine, snap.StateMachine}
               /\ \A r \in Request : s.Results[r] # NoDecision => t.Results[r] # NoDecision
               /\ LastLogIndex(t) \in {LastLogIndex(s), snap.index}
               /\ \A j \in DOMAIN t.Log : \E i \in DOMAIN s.Log : t.Log[j] = s.Log[i]
               /\ \A r \in Request : t.Results[r] \in {s.Results[r], snap.Results[r]}
               /\ t.SnapshotLastTerm \in {s.SnapshotLastTerm, snap.term}
  <1> DEFINE n == snap.index
             cut == s.SnapshotLastIndex
             matches == Found(s.Log, n) /\ EntryAt(s.Log, n).term = snap.term
             log == IF matches THEN SubSeq(s.Log, n - s.Log[1].index + 2, Len(s.Log)) ELSE << >>
             rsOf(r) == IF snap.Results[r] # NoDecision THEN snap.Results[r] ELSE s.Results[r]
             rs == [r \in Request |-> rsOf(r)]
             known == Higher(s.KnownGlobalCommitIndex, n)
             s2 == [s EXCEPT !.Log = log, !.SnapshotLastIndex = n, !.SnapshotLastTerm = snap.term,
                             !.SnapshotLastRequestID = snap.request,
                             !.StateMachine = snap.StateMachine, !.Results = rs,
                             !.AppliedIndex = n, !.KnownGlobalCommitIndex = known]
  <1>1. /\ s \in ReplicaState /\ s.Log \in Seq(Entry) /\ Len(s.Log) \in Nat
        /\ cut \in Nat /\ s.AppliedIndex \in Nat /\ LastLogIndex(s) \in Nat
        /\ LastLogIndex(s) = cut + Len(s.Log)
        /\ cut <= s.AppliedIndex /\ s.KnownGlobalCommitIndex = s.AppliedIndex
        /\ \A j \in 1..Len(s.Log) : s.Log[j].index = cut + j
        /\ \A j \in Int : Found(s.Log, j) <=> j \in cut + 1 .. LastLogIndex(s)
    BY WindowedState
  <1>2. s.Results \in [Request -> Decision \cup {NoDecision}]
    BY <1>1 DEF ReplicaState
  <1>3. CASE n <= s.AppliedIndex \/ n <= cut
    <2>1. installSnapshotState(s, snap) = s
      BY <1>3 DEF installSnapshotState
    <2>2. s.AppliedIndex >= s.AppliedIndex /\ Keeps(s, s)
      BY <1>1, KeepsSelf
    <2> QED
      BY <2>1, <2>2
  <1>4. CASE ~(n <= s.AppliedIndex \/ n <= cut)
    <2>1. installSnapshotState(s, snap) = IF matches THEN s2 ELSE rollbackQuorumAbove(s2, n)
      BY <1>4 DEF installSnapshotState
    <2>2. n \in Nat /\ n > s.AppliedIndex /\ n > cut /\ known = n
      BY <1>1, <1>4 DEF Higher
    <2>3. /\ log \in Seq(Entry)
          /\ \A j \in 1..Len(log) : log[j].index = n + j
          /\ n + Len(log) = IF matches THEN LastLogIndex(s) ELSE n
          /\ \A j \in DOMAIN log : \E i \in DOMAIN s.Log : log[j] = s.Log[i]
      <3>1. CASE matches
        <4>1. n \in cut + 1 .. LastLogIndex(s)
          BY <1>1, <2>2, <3>1
        <4> DEFINE k == n - cut
        <4>2. k \in 1..Len(s.Log) /\ k \in Nat /\ k <= Len(s.Log)
          BY <1>1, <2>2, <4>1, SMTT(30)
        <4>3. s.Log[1].index = cut + 1
          BY <1>1, <4>2
        <4>4. n - (cut + 1) + 2 = k + 1
          BY <1>1, <2>2, SMTT(30)
        <4>5. log = SubSeq(s.Log, k + 1, Len(s.Log))
          BY <3>1, <4>3, <4>4
        <4>6. n + (Len(s.Log) - k) = LastLogIndex(s)
          BY <1>1, <2>2
        <4>7. n = cut + k
          BY <1>1, <2>2
        <4> HIDE DEF k, log, matches, n
        <4>8. /\ log \in Seq(Entry) /\ Len(log) = Len(s.Log) - k
              /\ \A j \in 1..Len(s.Log) - k : log[j] = s.Log[k + j]
          BY <1>1, <4>2, <4>5, CutLog
        <4>9. \A j \in 1..Len(log) : log[j].index = n + j
          <5> SUFFICES ASSUME NEW j \in 1..Len(log) PROVE log[j].index = n + j
            OBVIOUS
          <5> DEFINE m == k + j
          <5>1. m \in 1..Len(s.Log) /\ cut + m = n + j
            BY <1>1, <4>2, <4>7, <4>8, SMTT(30)
          <5>2. log[j] = s.Log[m]
            BY <4>8
          <5> HIDE DEF m, cut
          <5> QED
            BY <1>1, <5>1, <5>2 DEF cut
        <4>10. \A j \in DOMAIN log : \E i \in DOMAIN s.Log : log[j] = s.Log[i]
          <5> SUFFICES ASSUME NEW j \in DOMAIN log PROVE \E i \in DOMAIN s.Log : log[j] = s.Log[i]
            OBVIOUS
          <5> DEFINE i == k + j
          <5>0. DOMAIN log = 1..Len(log)
            BY <4>8
          <5>1. j \in 1..Len(s.Log) - k
            BY <4>8, <5>0
          <5>2. i \in 1..Len(s.Log)
            BY <1>1, <4>2, <5>1, SMTT(30)
          <5>3. log[j] = s.Log[i]
            BY <4>8, <5>1
          <5> HIDE DEF i
          <5> QED
            BY <1>1, <5>2, <5>3
        <4> QED
          BY <3>1, <4>6, <4>8, <4>9, <4>10
      <3>2. CASE ~matches
        <4>1. log = << >> /\ Len(log) = 0
          BY <3>2
        <4> HIDE DEF log, matches
        <4> QED
          BY <2>2, <3>2, <4>1
      <3> QED
        BY <3>1, <3>2
    <2>4. rs \in [Request -> Decision \cup {NoDecision}]
      <3>1. \A r \in Request : rsOf(r) \in Decision \cup {NoDecision}
        BY <1>2
      <3> HIDE DEF rsOf
      <3> QED
        BY <3>1
    <2>5. \A r \in Request : /\ s.Results[r] # NoDecision => rs[r] # NoDecision
                             /\ rs[r] \in {s.Results[r], snap.Results[r]}
      OBVIOUS
    <2> HIDE DEF rs, log, known, matches, n
    <2>6. /\ s2 \in ReplicaState /\ s2.Log = log
          /\ s2.KnownGlobalCommitIndex = n /\ s2.AppliedIndex = n
          /\ s2.Results = rs /\ s2.StateMachine = snap.StateMachine /\ s2.SnapshotLastIndex = n
          /\ s2.SnapshotLastTerm = snap.term
      <3> DEFINE R == Request \cup {None}
                 D == Decision \cup {NoDecision}
                 Q == Seq(Entry)
                 RS == [GlobalTerm : Nat, Log : Q, DomainQuorumIndex : [Domain -> Nat],
                        KnownGlobalCommitIndex : Nat, AppliedIndex : Nat, Results : [Request -> D],
                        StateMachine : [Key -> R], SnapshotLastIndex : Nat, SnapshotLastTerm : Nat,
                        SnapshotLastRequestID : R]
      <3>1. RS = ReplicaState /\ s \in RS
        BY <1>1 DEF ReplicaState
      <3>2. log \in Q /\ n \in Nat /\ known = n /\ snap.term \in Nat /\ snap.request \in R
            /\ snap.StateMachine \in [Key -> R] /\ rs \in [Request -> D]
        BY <2>2, <2>3, <2>4
      <3> HIDE DEF R, D, Q
      <3> QED
        BY <3>1, <3>2
    <2> HIDE DEF s2
    <2>7. LastLogIndex(s2) = IF matches THEN LastLogIndex(s) ELSE n
      BY <2>3, <2>6 DEF LastLogIndex
    <2>8. s2.AppliedIndex <= LastLogIndex(s2)
      <3>1. Len(log) \in Nat
        BY <2>3
      <3> QED
        BY <2>2, <2>6, <3>1 DEF LastLogIndex
    <2>9. Windowed(s2)
      BY <2>2, <2>3, <2>6, <2>8, MakeWindowed, SMTT(30)
    <2> DEFINE s3 == rollbackQuorumAbove(s2, n)
    <2>10. s3 \in ReplicaState /\ SameReplica(s2, s3)
      BY <2>2, <2>6, MarksOnly
    <2>11. installSnapshotState(s, snap) = s2 \/ installSnapshotState(s, snap) = s3
      BY <2>1
    <2> HIDE DEF s3
    <2>12. /\ Windowed(s3) /\ LastLogIndex(s3) = LastLogIndex(s2) /\ s3.AppliedIndex = s2.AppliedIndex
           /\ s3.StateMachine = s2.StateMachine /\ s3.Results = s2.Results
           /\ s3.SnapshotLastIndex = s2.SnapshotLastIndex
           /\ s3.SnapshotLastTerm = s2.SnapshotLastTerm /\ s3.Log = s2.Log
      BY <2>9, <2>10, SameReplicaKeeps DEF SameReplica
    <2> DEFINE t == installSnapshotState(s, snap)
    <2> HIDE DEF t
    <2>13. /\ Windowed(t) /\ LastLogIndex(t) = LastLogIndex(s2) /\ t.AppliedIndex = n
           /\ t.StateMachine = snap.StateMachine /\ t.Results = rs
           /\ t.SnapshotLastIndex = n /\ t.SnapshotLastTerm = snap.term /\ t.Log = log
      BY <2>6, <2>9, <2>11, <2>12 DEF t
    <2>14. n >= s.AppliedIndex
      BY <1>1, <2>2
    <2>15. Keeps(s, t)
      <3>1. cut <= n /\ s.AppliedIndex <= n /\ n + 1 .. s.AppliedIndex = {}
        BY <1>1, <2>2
      <3> QED
        BY <2>5, <2>13, <3>1, MakeKeeps
    <2> QED
      BY <2>3, <2>5, <2>7, <2>13, <2>14, <2>15 DEF t, n
  <1> QED
    BY <1>3, <1>4
=============================================================================
