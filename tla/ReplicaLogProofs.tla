-------------------------- MODULE ReplicaLogProofs --------------------------
(***************************************************************************)
(* Proofs about ReplicaLog: a replica applies exactly the committed log,   *)
(* and its own log is always a prefix of some leader's.                    *)
(***************************************************************************)
EXTENDS ReplicaLog, LogProofs

-----------------------------------------------------------------------------
(* The greatest of the later indices.                                      *)

\* The greatest of the indices above m, if there are any, is the greatest of all.
LEMMA MaxOfTheTail ==
    ASSUME NEW n \in Nat, NEW S \in SUBSET (1..n), NEW m \in Nat,
           NEW T, T = {i \in S : i > m}, T # {}
    PROVE  Max(T) = Max(S) /\ Max(T) \in T
  <1>1. T \in SUBSET (1..n) /\ S # {}
    OBVIOUS
  <1>2. Max(T) \in T /\ \A y \in T : Max(T) >= y
    BY <1>1, MaxIsMember
  <1>3. \A y \in S : Max(T) >= y
    BY <1>1, <1>2
  <1>4. S \in SUBSET Int /\ Max(T) \in S
    BY <1>1, <1>2
  <1> HIDE DEF Max
  <1> QED
    BY <1>2, <1>3, <1>4, MaxIsUnique

-----------------------------------------------------------------------------
(* The reference.                                                          *)

\* The effects of a prefix depend on that prefix only.
LEMMA SamePrefixSameEffects ==
    ASSUME NEW a, NEW b, NEW n \in Nat, \A i \in 1..n : a[i] = b[i]
    PROVE  StateAfter(a, n) = StateAfter(b, n) /\ ResultsAfter(a, n) = ResultsAfter(b, n)
  <1> DEFINE A(k) == {i \in 1..n : KeyOf[a[i].request] = k}
             B(k) == {i \in 1..n : KeyOf[b[i].request] = k}
             C(r) == {i \in 1..n : a[i].request = r}
             D(r) == {i \in 1..n : b[i].request = r}
  <1>1. \A k : A(k) = B(k)
    OBVIOUS
  <1>2. \A r : C(r) = D(r)
    OBVIOUS
  <1>3. \A k : A(k) # {} => a[Max(A(k))] = b[Max(A(k))]
    <2> TAKE k
    <2> HAVE A(k) # {}
    <2>1. A(k) \in SUBSET (1..n)
      OBVIOUS
    <2>2. Max(A(k)) \in A(k)
      <3> HIDE DEF A
      <3> QED
        BY <2>1, MaxIsMember
    <2> QED
      BY <2>2
  <1>4. \A r : C(r) # {} => a[Max(C(r))] = b[Max(C(r))]
    <2> TAKE r
    <2> HAVE C(r) # {}
    <2>1. C(r) \in SUBSET (1..n)
      OBVIOUS
    <2>2. Max(C(r)) \in C(r)
      <3> HIDE DEF C
      <3> QED
        BY <2>1, MaxIsMember
    <2> QED
      BY <2>2
  <1>5. StateAfter(a, n) = [k \in Key |-> IF A(k) = {} THEN None ELSE a[Max(A(k))].request]
    BY DEF StateAfter
  <1>6. StateAfter(b, n) = [k \in Key |-> IF B(k) = {} THEN None ELSE b[Max(B(k))].request]
    BY DEF StateAfter
  <1>7. ResultsAfter(a, n) = [r \in Request |-> IF C(r) = {} THEN NoDecision
                                ELSE [term |-> a[Max(C(r))].term, index |-> Max(C(r))]]
    BY DEF ResultsAfter
  <1>8. ResultsAfter(b, n) = [r \in Request |-> IF D(r) = {} THEN NoDecision
                                ELSE [term |-> b[Max(D(r))].term, index |-> Max(D(r))]]
    BY DEF ResultsAfter
  <1> HIDE DEF A, B, C, D
  <1>9. StateAfter(a, n) = StateAfter(b, n)
    BY <1>1, <1>3, <1>5, <1>6
  <1>10. ResultsAfter(a, n) = ResultsAfter(b, n)
    BY <1>2, <1>4, <1>7, <1>8
  <1> QED
    BY <1>9, <1>10

-----------------------------------------------------------------------------
(* Logs.                                                                   *)

\* What the proofs assume of the leaders wherever they say LeadersInv.
Leaders ==
    /\ leaderLogs \in Seq(Seq(Entry)) /\ committed \in Seq(Entry)
    /\ LeadersInv

\* The logs of the leaders are sequences of entries.
LEMMA LeaderLogsTyped ==
    ASSUME Leaders
    PROVE  /\ Len(leaderLogs) \in Nat \ {0} /\ Terms = 1..Len(leaderLogs)
           /\ Len(committed) \in Nat
           /\ \A i \in 1..Len(committed) : committed[i] \in Entry
           /\ \A t \in Terms :
                /\ leaderLogs[t] \in Seq(Entry) /\ Len(leaderLogs[t]) \in Nat
                /\ DOMAIN leaderLogs[t] = 1..Len(leaderLogs[t])
                /\ \A i \in 1..Len(leaderLogs[t]) : leaderLogs[t][i] \in Entry
  <1>1. leaderLogs # << >> /\ leaderLogs \in Seq(Seq(Entry)) /\ committed \in Seq(Entry)
    BY DEF Leaders, LeadersInv
  <1>2. Len(leaderLogs) \in Nat \ {0} /\ Terms = 1..Len(leaderLogs)
    BY <1>1, EmptySeq, LenProperties DEF Terms
  <1>3. \A t \in Terms : leaderLogs[t] \in Seq(Entry)
    BY <1>1, <1>2
  <1>4. Len(committed) \in Nat /\ \A i \in 1..Len(committed) : committed[i] \in Entry
    BY <1>1
  <1> QED
    BY <1>2, <1>3, <1>4

\* Two leaders' logs that hold entries of one term at one index agree up to it.
LEMMA LeadersMatch ==
    ASSUME Leaders, NEW t \in Terms, NEW u \in Terms,
           NEW i \in 1..Len(leaderLogs[t]), i <= Len(leaderLogs[u]),
           leaderLogs[t][i].term = leaderLogs[u][i].term
    PROVE  SameUpTo(leaderLogs[t], leaderLogs[u], i)
  <1> DEFINE v == leaderLogs[t][i].term
  <1>1. i \in DOMAIN leaderLogs[t] /\ i \in DOMAIN leaderLogs[u]
    BY LeaderLogsTyped
  <1>2. SameUpTo(leaderLogs[v], leaderLogs[t], i) /\ SameUpTo(leaderLogs[v], leaderLogs[u], i)
    BY <1>1 DEF Leaders, LeadersInv
  <1> HIDE DEF v
  <1> QED
    BY <1>2 DEF SameUpTo

\* A leader's log that holds an entry of the term of the committed one agrees with the
\* committed log up to it.
LEMMA CommittedMatch ==
    ASSUME Leaders, NEW t \in Terms,
           NEW i \in 1..Len(committed), i <= Len(leaderLogs[t]),
           leaderLogs[t][i].term = committed[i].term
    PROVE  SameUpTo(leaderLogs[t], committed, i)
  <1> DEFINE u == Len(leaderLogs)
  <1>1. u \in Terms /\ Len(leaderLogs[u]) \in Nat /\ Len(committed) \in Nat
    BY LeaderLogsTyped
  <1>2. /\ Len(committed) <= Len(leaderLogs[u])
        /\ \A j \in 1..Len(committed) : committed[j] = leaderLogs[u][j]
    BY DEF Leaders, LeadersInv, SameUpTo
  <1> HIDE DEF u
  <1>3. i \in 1..Len(leaderLogs[u]) /\ leaderLogs[u][i].term = leaderLogs[t][i].term
    BY <1>1, <1>2
  <1>4. SameUpTo(leaderLogs[u], leaderLogs[t], i)
    BY <1>1, <1>3, LeadersMatch
  <1> QED
    BY <1>1, <1>2, <1>4 DEF SameUpTo

\* No two entries of the committed log are of one request, and each carries its index.
LEMMA CommittedOnce ==
    ASSUME Leaders
    PROVE  /\ \A i \in 1..Len(committed) : committed[i].index = i
           /\ \A i, j \in 1..Len(committed) : committed[i].request = committed[j].request => i = j
  <1> DEFINE u == Len(leaderLogs)
  <1>1. u \in Terms /\ Len(leaderLogs[u]) \in Nat /\ Len(committed) \in Nat
        /\ DOMAIN leaderLogs[u] = 1..Len(leaderLogs[u])
    BY LeaderLogsTyped
  <1>2. /\ Len(committed) <= Len(leaderLogs[u])
        /\ \A j \in 1..Len(committed) : committed[j] = leaderLogs[u][j]
    BY DEF Leaders, LeadersInv, SameUpTo
  <1>3. /\ \A i \in DOMAIN leaderLogs[u] : leaderLogs[u][i].index = i
        /\ \A i, j \in DOMAIN leaderLogs[u] :
             leaderLogs[u][i].request = leaderLogs[u][j].request => i = j
    BY <1>1 DEF Leaders, LeadersInv
  <1> HIDE DEF u
  <1> QED
    BY <1>1, <1>2, <1>3, SMTT(30)

-----------------------------------------------------------------------------
(* The steps of the leaders.                                               *)

\* A log that only grew agrees with what it was.
LEMMA SameUpToStays ==
    ASSUME NEW S, NEW a \in Seq(S), NEW b \in Seq(S), NEW a2 \in Seq(S), NEW b2 \in Seq(S), NEW n \in Nat,
           SameUpTo(a, b, n), SameUpTo(a, a2, Len(a)), SameUpTo(b, b2, Len(b))
    PROVE  SameUpTo(a2, b2, n)
  <1>1. Len(a) \in Nat /\ Len(b) \in Nat /\ Len(a2) \in Nat /\ Len(b2) \in Nat
    OBVIOUS
  <1>2. n <= Len(a) /\ n <= Len(b) /\ Len(a) <= Len(a2) /\ Len(b) <= Len(b2)
    BY DEF SameUpTo
  <1>3. \A i \in 1..n : i \in 1..Len(a) /\ i \in 1..Len(b)
    BY <1>1, <1>2
  <1>4. \A i \in 1..n : a2[i] = a[i] /\ a[i] = b[i] /\ b[i] = b2[i]
    BY <1>3 DEF SameUpTo
  <1>5. n <= Len(a2) /\ n <= Len(b2)
    BY <1>1, <1>2
  <1> QED
    BY <1>4, <1>5 DEF SameUpTo

\* Log matching among the leaders survives every step of theirs.
LEMMA LeadersStep ==
    ASSUME Leaders,
           \/ NewLeader
           \/ \E t \in Terms : \E r \in Request : LeaderAppends(t, r)
           \/ \E n \in 1..MaxIndex : LeaderCommits(n)
    PROVE  /\ Leaders'
           /\ SameUpTo(committed, committed', Len(committed))
           /\ \A t \in Terms : t \in Terms' /\ SameUpTo(leaderLogs[t], leaderLogs'[t], Len(leaderLogs[t]))
  <1> DEFINE L == Len(leaderLogs)
             m == Len(committed)
  <1>0. /\ leaderLogs \in Seq(Seq(Entry)) /\ committed \in Seq(Entry)
        /\ L \in Nat \ {0} /\ Terms = 1..L /\ m \in Nat
        /\ \A t \in Terms :
             /\ leaderLogs[t] \in Seq(Entry) /\ Len(leaderLogs[t]) \in Nat
             /\ DOMAIN leaderLogs[t] = 1..Len(leaderLogs[t])
             /\ \A i \in 1..Len(leaderLogs[t]) : leaderLogs[t][i] \in Entry
    BY LeaderLogsTyped DEF Leaders
  <1>e. \A t \in Terms : \A i \in 1..Len(leaderLogs[t]) :
          /\ leaderLogs[t][i].index = i /\ leaderLogs[t][i].term \in Terms
          /\ SameUpTo(leaderLogs[leaderLogs[t][i].term], leaderLogs[t], i)
    BY <1>0 DEF Leaders, LeadersInv
  <1>r. \A t \in Terms : \A i, j \in 1..Len(leaderLogs[t]) :
          leaderLogs[t][i].request = leaderLogs[t][j].request => i = j
    BY <1>0 DEF Leaders, LeadersInv
  <1>c. SameUpTo(committed, leaderLogs[L], m)
    BY DEF Leaders, LeadersInv
  <1>s. /\ SameUpTo(committed, committed, m)
        /\ \A t \in Terms : SameUpTo(leaderLogs[t], leaderLogs[t], Len(leaderLogs[t]))
    BY <1>0 DEF SameUpTo
  <1>1. ASSUME NewLeader
        PROVE  /\ Leaders'
               /\ SameUpTo(committed, committed', m)
               /\ \A t \in Terms : t \in Terms' /\ SameUpTo(leaderLogs[t], leaderLogs'[t], Len(leaderLogs[t]))
    <2>0. PICK u \in Terms : \E n \in m..Len(leaderLogs[u]) :
            /\ SubSeq(leaderLogs[u], 1, m) = committed
            /\ leaderLogs' = Append(leaderLogs, SubSeq(leaderLogs[u], 1, n))
            /\ committed' = committed
      BY <1>1 DEF NewLeader
    <2>1. PICK n \in m..Len(leaderLogs[u]) :
            /\ SubSeq(leaderLogs[u], 1, m) = committed
            /\ leaderLogs' = Append(leaderLogs, SubSeq(leaderLogs[u], 1, n))
            /\ committed' = committed
      BY <2>0
    <2> DEFINE new == SubSeq(leaderLogs[u], 1, n)
    <2>2. n \in Nat /\ n <= Len(leaderLogs[u])
      BY <1>0
    <2>3. /\ new \in Seq(Entry) /\ Len(new) = n
          /\ \A i \in 1..n : new[i] = leaderLogs[u][i]
      BY <1>0, <2>2
    <2>4. \A i \in 1..m : committed[i] = leaderLogs[u][i]
      BY <1>0, <2>1
    <2> HIDE DEF new
    <2>5. /\ leaderLogs' \in Seq(Seq(Entry)) /\ Len(leaderLogs') = L + 1 /\ leaderLogs' # << >>
          /\ \A t \in 1..L : leaderLogs'[t] = leaderLogs[t]
          /\ leaderLogs'[L + 1] = new
      <3>1. leaderLogs' = Append(leaderLogs, new)
        BY <2>1 DEF new
      <3>2. leaderLogs \in Seq(Seq(Entry)) /\ new \in Seq(Entry)
        BY <1>0, <2>3
      <3> HIDE DEF new
      <3> QED
        BY <3>1, <3>2, AppendProperties
    <2> HIDE DEF L
    <2>6. Terms' = 1..(L + 1) /\ DOMAIN leaderLogs' = 1..(L + 1)
      BY <2>5, <1>0, LenProperties DEF Terms
    <2>t. (\A x \in 1..L : x \in Terms') /\ (\A x \in Terms' : x \in 1..L \/ x = L + 1)
      <3>1. L \in Nat
        BY <1>0
      <3> QED
        BY <2>6, <3>1
    <2>7. ASSUME NEW t \in Terms', NEW i \in DOMAIN leaderLogs'[t]
          PROVE  /\ leaderLogs'[t][i].index = i /\ leaderLogs'[t][i].term \in Terms'
                 /\ SameUpTo(leaderLogs'[leaderLogs'[t][i].term], leaderLogs'[t], i)
      <3>1. CASE t \in 1..L
        <4>1. leaderLogs'[t] = leaderLogs[t] /\ i \in 1..Len(leaderLogs[t])
          BY <3>1, <2>5, <1>0
        <4>2. leaderLogs[t][i].term \in 1..L
          BY <4>1, <1>e, <1>0, <3>1
        <4> DEFINE v == leaderLogs[t][i].term
        <4>3. leaderLogs[t][i].index = i /\ SameUpTo(leaderLogs[v], leaderLogs[t], i) /\ v \in 1..L
          BY <4>1, <4>2, <1>e, <1>0, <3>1
        <4>4. leaderLogs'[v] = leaderLogs[v] /\ v \in Terms'
          BY <4>3, <2>5, <2>t
        <4>5. leaderLogs'[t][i].term = v
          BY <4>1
        <4> HIDE DEF v
        <4> QED
          BY <4>1, <4>3, <4>4, <4>5
      <3>2. CASE t = L + 1
        <4>1. leaderLogs'[t] = new /\ i \in 1..n /\ i \in 1..Len(leaderLogs[u])
          BY <3>2, <2>5, <2>3, <2>2, <1>0
        <4>2. new[i] = leaderLogs[u][i] /\ leaderLogs[u][i].term \in 1..L
          BY <4>1, <2>3, <1>e, <1>0
        <4> DEFINE v == leaderLogs[u][i].term
        <4>3. SameUpTo(leaderLogs[v], leaderLogs[u], i) /\ v \in 1..L
          BY <4>1, <4>2, <1>e
        <4>4. leaderLogs'[v] = leaderLogs[v] /\ Len(leaderLogs[u]) \in Nat
          BY <4>3, <2>5, <1>0
        <4>5. leaderLogs[u][i].index = i
          BY <4>1, <1>e
        <4> HIDE DEF v
        <4>6. SameUpTo(leaderLogs[v], new, i)
          BY <4>1, <4>3, <2>3, <2>2 DEF SameUpTo
        <4>7. leaderLogs'[t][i].term = v /\ leaderLogs'[t][i].index = i
          BY <4>1, <4>2, <4>5 DEF v
        <4>8. v \in Terms'
          BY <4>3, <2>6, <1>0
        <4> QED
          BY <4>1, <4>4, <4>6, <4>7, <4>8
      <3>3. t \in 1..L \/ t = L + 1
        BY <2>t
      <3> QED
        BY <3>1, <3>2, <3>3
    <2>8. ASSUME NEW t \in Terms', NEW i \in DOMAIN leaderLogs'[t], NEW j \in DOMAIN leaderLogs'[t],
                 leaderLogs'[t][i].request = leaderLogs'[t][j].request
          PROVE  i = j
      <3>1. CASE t \in 1..L
        <4>1. leaderLogs'[t] = leaderLogs[t] /\ t \in Terms
          BY <3>1, <2>5, <1>0
        <4>2. i \in 1..Len(leaderLogs[t]) /\ j \in 1..Len(leaderLogs[t])
          BY <4>1, <1>0
        <4> QED
          BY <4>1, <4>2, <1>r, <2>8
      <3>2. CASE t = L + 1
        <4>1. leaderLogs'[t] = new /\ i \in 1..n /\ j \in 1..n
          BY <3>2, <2>5, <2>3
        <4>2. i \in 1..Len(leaderLogs[u]) /\ j \in 1..Len(leaderLogs[u])
          BY <4>1, <2>2, <1>0
        <4> QED
          BY <4>1, <4>2, <2>3, <2>8, <1>r
      <3>3. t \in 1..L \/ t = L + 1
        BY <2>t
      <3> QED
        BY <3>1, <3>2, <3>3
    <2>9. SameUpTo(committed', leaderLogs'[Len(leaderLogs')], Len(committed'))
      BY <2>1, <2>2, <2>3, <2>4, <2>5, <1>0 DEF SameUpTo
    <2>10. Leaders'
      <3> HIDE DEF m
      <3> QED
        BY <2>1, <2>5, <2>7, <2>8, <2>9, <1>0 DEF Leaders, LeadersInv
    <2> QED
      BY <2>1, <2>5, <2>6, <2>10, <1>s, <1>0
  <1>2. ASSUME NEW u \in Terms, NEW r \in Request, LeaderAppends(u, r)
        PROVE  /\ Leaders'
               /\ SameUpTo(committed, committed', m)
               /\ \A t \in Terms : t \in Terms' /\ SameUpTo(leaderLogs[t], leaderLogs'[t], Len(leaderLogs[t]))
    <2> DEFINE n == Len(leaderLogs[u])
               e == [index |-> n + 1, term |-> u, request |-> r]
               new == Append(leaderLogs[u], e)
    <2>1. /\ committed' = committed
          /\ leaderLogs' = [leaderLogs EXCEPT ![u] = new]
          /\ \A i \in 1..n : leaderLogs[u][i].request # r
      BY <1>0, <1>2 DEF LeaderAppends
    <2>2. n \in Nat /\ e \in Entry /\ e.index = n + 1 /\ e.term = u /\ e.request = r
      BY <1>0 DEF Entry
    <2> HIDE DEF e
    <2>3. /\ new \in Seq(Entry) /\ Len(new) = n + 1
          /\ \A i \in 1..n : new[i] = leaderLogs[u][i]
          /\ new[n + 1] = e
      BY <1>0, <2>2, AppendProperties
    <2> HIDE DEF new
    <2>4. /\ leaderLogs' \in Seq(Seq(Entry)) /\ Len(leaderLogs') = L /\ leaderLogs' # << >>
          /\ \A t \in Terms : leaderLogs'[t] = IF t = u THEN new ELSE leaderLogs[t]
      <3>1. /\ leaderLogs' \in Seq(Seq(Entry)) /\ Len(leaderLogs') = L
            /\ \A t \in 1..L : leaderLogs'[t] = IF t = u THEN new ELSE leaderLogs[t]
        BY <1>0, <2>1, <2>3, ExceptSeq
      <3> QED
        BY <3>1, <1>0, EmptySeq
    <2>5. Terms' = Terms /\ Terms' = 1..L
      BY <2>4, <1>0, LenProperties DEF Terms
    <2>6. \A t \in Terms : /\ leaderLogs'[t] \in Seq(Entry)
                           /\ SameUpTo(leaderLogs[t], leaderLogs'[t], Len(leaderLogs[t]))
      <3>1. SameUpTo(leaderLogs[u], new, n)
        BY <2>2, <2>3 DEF SameUpTo
      <3> QED
        BY <3>1, <2>3, <2>4, <1>s, <1>0
    <2>7. ASSUME NEW t \in Terms', NEW i \in DOMAIN leaderLogs'[t]
          PROVE  /\ leaderLogs'[t][i].index = i /\ leaderLogs'[t][i].term \in Terms'
                 /\ SameUpTo(leaderLogs'[leaderLogs'[t][i].term], leaderLogs'[t], i)
      <3>1. t \in Terms /\ Len(leaderLogs[t]) \in Nat
        BY <2>5, <1>0
      <3>2. CASE i \in 1..Len(leaderLogs[t])
        <4> DEFINE v == leaderLogs[t][i].term
        <4>1. leaderLogs[t][i].index = i /\ v \in Terms /\ SameUpTo(leaderLogs[v], leaderLogs[t], i)
          BY <3>1, <3>2, <1>e
        <4>2. leaderLogs'[t][i] = leaderLogs[t][i]
          BY <3>1, <3>2, <2>6 DEF SameUpTo
        <4>3. leaderLogs'[t][i].term = v
          BY <4>2
        <4> HIDE DEF v
        <4>4. SameUpTo(leaderLogs'[v], leaderLogs'[t], i)
          <5>1. i \in Nat /\ leaderLogs[v] \in Seq(Entry) /\ leaderLogs[t] \in Seq(Entry)
            BY <3>2, <3>1, <4>1, <1>0
          <5>2. leaderLogs'[v] \in Seq(Entry) /\ leaderLogs'[t] \in Seq(Entry)
            BY <3>1, <4>1, <2>6
          <5> QED
            BY <5>1, <5>2, <4>1, <3>1, <2>6, SameUpToStays
        <4> QED
          BY <4>1, <4>2, <4>3, <4>4, <2>5
      <3>3. CASE t = u /\ i = n + 1
        <4>1. leaderLogs'[t] = new /\ new[i] = e
          BY <3>3, <3>1, <2>3, <2>4
        <4>2. SameUpTo(new, new, i)
          BY <2>2, <2>3, <3>3 DEF SameUpTo
        <4> QED
          BY <3>1, <3>3, <4>1, <4>2, <2>2, <2>5
      <3>4. i \in 1..Len(leaderLogs[t]) \/ (t = u /\ i = n + 1)
        <4>1. CASE t = u
          BY <4>1, <3>1, <2>2, <2>3, <2>4, SMTT(30)
        <4>2. CASE t # u
          BY <4>2, <3>1, <2>4, <1>0
        <4> QED
          BY <4>1, <4>2
      <3> QED
        BY <3>2, <3>3, <3>4
    <2>8. ASSUME NEW t \in Terms', NEW i \in DOMAIN leaderLogs'[t], NEW j \in DOMAIN leaderLogs'[t],
                 leaderLogs'[t][i].request = leaderLogs'[t][j].request
          PROVE  i = j
      <3>1. t \in Terms
        BY <2>5
      <3>2. CASE t = u
        <4>1. leaderLogs'[t] = new /\ i \in 1..n + 1 /\ j \in 1..n + 1
          BY <3>2, <3>1, <2>3, <2>4
        <4>2. \A k \in 1..n + 1 : new[k].request = IF k = n + 1 THEN r ELSE leaderLogs[u][k].request
          BY <2>2, <2>3
        <4>3. \A k \in 1..n + 1 : k # n + 1 => k \in 1..n
          BY <2>2
        <4> HIDE DEF n
        <4> QED
          BY <4>1, <4>2, <4>3, <2>1, <2>8, <1>r DEF n
      <3>3. CASE t # u
        <4>1. leaderLogs'[t] = leaderLogs[t]
          BY <3>3, <3>1, <2>4
        <4>2. i \in 1..Len(leaderLogs[t]) /\ j \in 1..Len(leaderLogs[t])
          BY <4>1, <3>1, <1>0
        <4> QED
          BY <4>1, <4>2, <3>1, <1>r, <2>8
      <3> QED
        BY <3>2, <3>3
    <2>9. SameUpTo(committed', leaderLogs'[Len(leaderLogs')], Len(committed'))
      <3>1. L \in Terms /\ m \in Nat
        BY <1>0
      <3>2. leaderLogs[L] \in Seq(Entry) /\ leaderLogs'[L] \in Seq(Entry)
        BY <3>1, <2>6, <1>0
      <3>3. SameUpTo(leaderLogs[L], leaderLogs'[L], Len(leaderLogs[L])) /\ committed \in Seq(Entry)
        BY <3>1, <2>6, <1>0
      <3> HIDE DEF L, m
      <3>4. SameUpTo(committed, committed, Len(committed))
        BY <1>s DEF m
      <3>5. SameUpTo(committed, leaderLogs'[L], m)
        BY <3>1, <3>2, <3>3, <3>4, <1>c, SameUpToStays
      <3> QED
        BY <3>5, <2>1, <2>4 DEF m
    <2>10. Leaders'
      <3> HIDE DEF m, L
      <3> QED
        BY <2>1, <2>4, <2>7, <2>8, <2>9, <1>0 DEF Leaders, LeadersInv
    <2> QED
      BY <2>1, <2>5, <2>6, <2>10, <1>s
  <1>3. ASSUME NEW n \in 1..MaxIndex, LeaderCommits(n)
        PROVE  /\ Leaders'
               /\ SameUpTo(committed, committed', m)
               /\ \A t \in Terms : t \in Terms' /\ SameUpTo(leaderLogs[t], leaderLogs'[t], Len(leaderLogs[t]))
    <2>1. /\ leaderLogs' = leaderLogs
          /\ committed' = SubSeq(leaderLogs[L], 1, n)
          /\ n \in m + 1 .. Len(leaderLogs[L])
      BY <1>3 DEF LeaderCommits
    <2>2. leaderLogs[L] \in Seq(Entry) /\ Len(leaderLogs[L]) \in Nat
      BY <1>0
    <2>3. /\ committed' \in Seq(Entry) /\ Len(committed') = n
          /\ \A i \in 1..n : committed'[i] = leaderLogs[L][i]
      BY <2>1, <2>2, <1>0
    <2>4. SameUpTo(committed', leaderLogs[L], n) /\ n \in Nat /\ m <= n
      BY <2>1, <2>2, <2>3, <1>0 DEF SameUpTo
    <2>5. SameUpTo(committed, committed', m)
      <3>1. \A i \in 1..m : committed[i] = leaderLogs[L][i]
        BY <1>c DEF SameUpTo
      <3>2. \A i \in 1..m : i \in 1..n
        BY <2>4, <1>0
      <3>3. m <= Len(committed) /\ m <= Len(committed')
        BY <2>3, <2>4, <1>0
      <3> HIDE DEF m, L
      <3> QED
        BY <3>1, <3>2, <3>3, <2>3 DEF SameUpTo
    <2>6. Terms' = Terms
      BY <2>1 DEF Terms
    <2>7. LeadersInv'
      <3>1. SameUpTo(committed', leaderLogs'[Len(leaderLogs')], Len(committed'))
        BY <2>1, <2>3, <2>4
      <3> QED
        BY <2>1, <2>6, <3>1 DEF Leaders, LeadersInv
    <2> QED
      BY <2>1, <2>3, <2>5, <2>6, <2>7, <1>0, <1>s DEF Leaders
  <1> QED
    BY <1>1, <1>2, <1>3

-----------------------------------------------------------------------------
(* What the steps of the leaders, and changes of the other fields, leave   *)
(* of the invariant of a replica state.                                    *)

\* The invariant of a replica state outlives what the leaders append and commit.
LEMMA StateStays ==
    ASSUME NEW logs \in Seq(Seq(Entry)), NEW logs2 \in Seq(Seq(Entry)),
           NEW decided \in Seq(Entry), NEW decided2 \in Seq(Entry),
           NEW s, StateInv(s, logs, decided),
           SameUpTo(decided, decided2, Len(decided)),
           \A t \in DOMAIN logs : t \in DOMAIN logs2 /\ SameUpTo(logs[t], logs2[t], Len(logs[t]))
    PROVE  StateInv(s, logs2, decided2)
  <1> DEFINE a == s.AppliedIndex
             cut == s.SnapshotLastIndex
  <1>1. /\ s \in ReplicaState
        /\ \A i \in DOMAIN s.Log : s.Log[i].index = cut + i
        /\ cut <= a /\ s.KnownGlobalCommitIndex = a /\ a <= LastLogIndex(s)
        /\ s.StateMachine = StateAfter(decided, a) /\ s.Results = ResultsAfter(decided, a)
        /\ cut > 0 => /\ s.SnapshotLastTerm = decided[cut].term
                      /\ s.SnapshotLastRequestID = decided[cut].request
    BY DEF StateInv
  <1>2. PICK t \in DOMAIN logs : FollowsLog(s, logs[t], decided)
    BY DEF StateInv
  <1>3. /\ DOMAIN s.Log = 1..Len(s.Log) /\ Len(s.Log) \in Nat /\ a \in Nat /\ cut \in Nat
        /\ LastLogIndex(s) \in Nat
    BY <1>1, Window
  <1>l. LastLogIndex(s) = cut + Len(s.Log)
    BY DEF LastLogIndex
  <1>4. /\ LastLogIndex(s) <= Len(logs[t]) /\ SameUpTo(logs[t], decided, a)
        /\ \A i \in DOMAIN s.Log : s.Log[i] = logs[t][cut + i]
    BY <1>2 DEF FollowsLog
  <1>5. /\ logs[t] \in Seq(Entry) /\ logs2[t] \in Seq(Entry) /\ t \in DOMAIN logs2
        /\ SameUpTo(logs[t], logs2[t], Len(logs[t]))
    OBVIOUS
  <1>6. Len(logs[t]) \in Nat /\ Len(logs2[t]) \in Nat /\ Len(decided) \in Nat /\ Len(decided2) \in Nat
    BY <1>5
  <1> HIDE DEF a, cut
  <1>7. a <= Len(decided) /\ \A i \in 1..a : i \in 1..Len(decided)
    BY <1>3, <1>4, <1>6 DEF SameUpTo
  <1>8. \A i \in 1..a : decided[i] = decided2[i]
    BY <1>7 DEF SameUpTo
  <1>9. StateAfter(decided, a) = StateAfter(decided2, a) /\ ResultsAfter(decided, a) = ResultsAfter(decided2, a)
    BY <1>3, <1>8, SamePrefixSameEffects
  <1>10. SameUpTo(logs2[t], decided2, a)
    BY <1>3, <1>4, <1>5, SameUpToStays
  <1>11. \A i \in DOMAIN s.Log : cut + i \in 1..Len(logs[t])
    <2>1. cut + Len(s.Log) <= Len(logs[t])
      BY <1>4, <1>l
    <2> DEFINE n == Len(s.Log)
               m == Len(logs[t])
    <2>2. n \in Nat /\ m \in Nat /\ cut \in Nat /\ cut + n <= m
      BY <2>1, <1>3, <1>6
    <2> HIDE DEF n, m
    <2>3. \A i \in 1..n : cut + i \in 1..m
      BY <2>2
    <2> QED
      BY <2>3, <1>3 DEF n, m
  <1>12. \A i \in DOMAIN s.Log : s.Log[i] = logs2[t][cut + i]
    BY <1>4, <1>5, <1>11 DEF SameUpTo
  <1>13. LastLogIndex(s) <= Len(logs2[t])
    <2>1. Len(logs[t]) <= Len(logs2[t])
      BY <1>5 DEF SameUpTo
    <2> QED
      BY <2>1, <1>3, <1>4, <1>6
  <1>14. FollowsLog(s, logs2[t], decided2)
    BY <1>10, <1>12, <1>13 DEF FollowsLog, a, cut
  <1>15. cut > 0 => decided[cut] = decided2[cut]
    BY <1>1, <1>3, <1>8
  <1> QED
    BY <1>1, <1>5, <1>9, <1>14, <1>15 DEF StateInv, a, cut

\* The invariant of a replica state against the current logs.
Good(s) == StateInv(s, leaderLogs, committed)

\* A change of marks and terms alone keeps a good node good,
LEMMA SameReplicaGood ==
    ASSUME NEW s, Good(s), NEW t \in ReplicaState, SameReplica(s, t)
    PROVE  Good(t)
  BY DEF Good, StateInv, FollowsLog, LastLogIndex, SameReplica

\* The invariant of a replica state, in the form the operations use: the log is read by
\* index, and is that of the leader of some term.
LEMMA GoodState ==
    ASSUME Leaders, NEW s, Good(s)
    PROVE  /\ s \in ReplicaState
           /\ \A i \in DOMAIN s.Log : s.Log[i].index = s.SnapshotLastIndex + i
           /\ s.SnapshotLastIndex <= s.AppliedIndex
           /\ s.KnownGlobalCommitIndex = s.AppliedIndex
           /\ s.AppliedIndex <= LastLogIndex(s)
           /\ s.AppliedIndex <= Len(committed)
           /\ s.StateMachine = StateAfter(committed, s.AppliedIndex)
           /\ s.Results = ResultsAfter(committed, s.AppliedIndex)
           /\ s.SnapshotLastIndex > 0 =>
                /\ s.SnapshotLastTerm = committed[s.SnapshotLastIndex].term
                /\ s.SnapshotLastRequestID = committed[s.SnapshotLastIndex].request
           /\ \E u \in Terms :
                /\ LastLogIndex(s) <= Len(leaderLogs[u])
                /\ \A i \in 1..s.AppliedIndex : leaderLogs[u][i] = committed[i]
                /\ \A i \in s.SnapshotLastIndex + 1 .. LastLogIndex(s) : EntryAt(s.Log, i) = leaderLogs[u][i]
  <1>1. /\ s \in ReplicaState
        /\ \A i \in DOMAIN s.Log : s.Log[i].index = s.SnapshotLastIndex + i
        /\ s.SnapshotLastIndex <= s.AppliedIndex
        /\ s.KnownGlobalCommitIndex = s.AppliedIndex
        /\ s.AppliedIndex <= LastLogIndex(s)
        /\ s.StateMachine = StateAfter(committed, s.AppliedIndex)
        /\ s.Results = ResultsAfter(committed, s.AppliedIndex)
        /\ s.SnapshotLastIndex > 0 =>
             /\ s.SnapshotLastTerm = committed[s.SnapshotLastIndex].term
             /\ s.SnapshotLastRequestID = committed[s.SnapshotLastIndex].request
    BY DEF Good, StateInv
  <1>2. PICK u \in Terms : FollowsLog(s, leaderLogs[u], committed)
    BY DEF Good, StateInv, Terms
  <1>3. s.AppliedIndex <= Len(committed) /\ LastLogIndex(s) <= Len(leaderLogs[u])
        /\ (\A i \in 1..s.AppliedIndex : leaderLogs[u][i] = committed[i])
        /\ (\A i \in DOMAIN s.Log : s.Log[i] = leaderLogs[u][s.SnapshotLastIndex + i])
    BY <1>2 DEF FollowsLog, SameUpTo
  <1>4. \A i \in s.SnapshotLastIndex + 1 .. LastLogIndex(s) : EntryAt(s.Log, i) = leaderLogs[u][i]
    <2> SUFFICES ASSUME NEW i \in s.SnapshotLastIndex + 1 .. LastLogIndex(s)
                 PROVE  EntryAt(s.Log, i) = leaderLogs[u][i]
      OBVIOUS
    <2>1. i - s.SnapshotLastIndex \in DOMAIN s.Log /\ EntryAt(s.Log, i) = s.Log[i - s.SnapshotLastIndex]
          /\ s.SnapshotLastIndex \in Nat /\ LastLogIndex(s) \in Nat
      BY <1>1, Window
    <2>2. s.SnapshotLastIndex + (i - s.SnapshotLastIndex) = i
      BY <2>1
    <2> QED
      BY <1>3, <2>1, <2>2
  <1> QED
    BY <1>1, <1>3, <1>4

\* The same, to establish it: entries of a leader's log carry their index.
LEMMA MakeGood ==
    ASSUME Leaders, NEW s \in ReplicaState, NEW u \in Terms,
           s.SnapshotLastIndex <= s.AppliedIndex,
           s.KnownGlobalCommitIndex = s.AppliedIndex,
           s.AppliedIndex <= LastLogIndex(s),
           s.AppliedIndex <= Len(committed),
           s.StateMachine = StateAfter(committed, s.AppliedIndex),
           s.Results = ResultsAfter(committed, s.AppliedIndex),
           s.SnapshotLastIndex > 0 =>
             /\ s.SnapshotLastTerm = committed[s.SnapshotLastIndex].term
             /\ s.SnapshotLastRequestID = committed[s.SnapshotLastIndex].request,
           LastLogIndex(s) <= Len(leaderLogs[u]),
           \A i \in 1..s.AppliedIndex : leaderLogs[u][i] = committed[i],
           \A i \in 1..Len(s.Log) : s.Log[i] = leaderLogs[u][s.SnapshotLastIndex + i]
    PROVE  Good(s)
  <1> DEFINE n == Len(s.Log)
             m == Len(leaderLogs[u])
             cut == s.SnapshotLastIndex
             a == s.AppliedIndex
  <1>1. n \in Nat /\ DOMAIN s.Log = 1..n /\ cut \in Nat /\ a \in Nat /\ LastLogIndex(s) = cut + n
    BY DEF ReplicaState, LastLogIndex
  <1>2. m \in Nat /\ DOMAIN leaderLogs[u] = 1..m
    BY LeaderLogsTyped
  <1>3. cut + n <= m /\ a <= cut + n
    BY <1>1
  <1>i. \A j \in 1..m : leaderLogs[u][j].index = j
    BY <1>2 DEF Leaders, LeadersInv
  <1> HIDE DEF n, m, cut, a
  <1>4. \A i \in 1..n : cut + i \in 1..m
    BY <1>1, <1>2, <1>3
  <1>5. \A i \in 1..n : s.Log[i] = leaderLogs[u][cut + i]
    BY DEF n, cut
  <1>6. \A i \in 1..n : s.Log[i].index = cut + i
    BY <1>4, <1>5, <1>i
  <1>7. a <= m
    BY <1>1, <1>2, <1>3
  <1>8. SameUpTo(leaderLogs[u], committed, a)
    BY <1>7 DEF SameUpTo, a, m
  <1>9. FollowsLog(s, leaderLogs[u], committed)
    BY <1>1, <1>5, <1>8 DEF FollowsLog, a, cut
  <1>10. \E t \in DOMAIN leaderLogs : FollowsLog(s, leaderLogs[t], committed)
    BY <1>9 DEF Terms
  <1> QED
    BY <1>1, <1>6, <1>10 DEF Good, StateInv, cut

-----------------------------------------------------------------------------
(* appendEntryChecked.                                                     *)

\* What appendOutcome accepts agrees with the leader of the entry up to it, and an entry
\* that is not compacted or held already lies above everything applied.
LEMMA AcceptedAgrees ==
    ASSUME Leaders, NEW s, Good(s), NEW t \in Terms, NEW i \in 1..Len(leaderLogs[t]),
           appendOutcome(s, leaderLogs[t][i], PrevLog(leaderLogs[t], i)) = "accepted",
           i > s.SnapshotLastIndex,
           ~(Found(s.Log, i) /\ Same(EntryAt(s.Log, i), leaderLogs[t][i]))
    PROVE  /\ s.AppliedIndex < i /\ i <= LastLogIndex(s) + 1
           /\ \A j \in 1..s.AppliedIndex : leaderLogs[t][j] = committed[j]
           /\ \A j \in s.SnapshotLastIndex + 1 .. i - 1 : EntryAt(s.Log, j) = leaderLogs[t][j]
  <1> DEFINE e == leaderLogs[t][i]
             prev == PrevLog(leaderLogs[t], i)
             cut == s.SnapshotLastIndex
             a == s.AppliedIndex
             last == LastLogIndex(s)
  <1>1. /\ s \in ReplicaState
        /\ \A j \in DOMAIN s.Log : s.Log[j].index = cut + j
        /\ cut <= a /\ s.KnownGlobalCommitIndex = a /\ a <= last /\ a <= Len(committed)
        /\ cut > 0 => s.SnapshotLastTerm = committed[cut].term
    BY GoodState
  <1>2. PICK u \in Terms :
          /\ last <= Len(leaderLogs[u])
          /\ \A j \in 1..a : leaderLogs[u][j] = committed[j]
          /\ \A j \in cut + 1 .. last : EntryAt(s.Log, j) = leaderLogs[u][j]
    BY GoodState
  <1>3. /\ cut \in Nat /\ a \in Nat /\ last \in Nat
        /\ \A j \in Int : Found(s.Log, j) <=> j \in cut + 1 .. last
    BY <1>1, Window
  <1>4. Len(leaderLogs[t]) \in Nat /\ Len(leaderLogs[u]) \in Nat /\ Len(committed) \in Nat /\ e.index = i
    BY LeaderLogsTyped DEF Leaders, LeadersInv
  <1>5. /\ PrefixMatches(s, prev) /\ ~Conflicts(s, e)
        /\ Found(s.Log, i) \/ i = last + 1
    BY <1>3, <1>4 DEF appendOutcome
  <1>6. a < i /\ i <= last + 1
    BY <1>1, <1>3, <1>4, <1>5 DEF Conflicts
  <1>7. prev.index = i - 1 /\ (i # 1 => prev.term = leaderLogs[t][i - 1].term)
    BY DEF PrevLog
  <1>8. i - 1 # 0 => SameUpTo(leaderLogs[t], leaderLogs[u], i - 1)
    <2> SUFFICES ASSUME i - 1 # 0
                 PROVE  SameUpTo(leaderLogs[t], leaderLogs[u], i - 1)
      OBVIOUS
    <2> DEFINE p == i - 1
    <2>1. p \in 1..Len(leaderLogs[t]) /\ p <= last /\ p <= Len(leaderLogs[u]) /\ a <= p /\ cut <= p
      BY <1>2, <1>3, <1>4, <1>6, <1>1
    <2>2. leaderLogs[t][p].term = leaderLogs[u][p].term
      <3>1. CASE p = cut /\ prev.term = s.SnapshotLastTerm
        <4>1. p \in 1..a
          BY <3>1, <1>1, <1>3, <2>1
        <4> QED
          BY <3>1, <4>1, <1>1, <1>2, <1>3, <1>7
      <3>2. CASE p # cut /\ Found(s.Log, p) /\ EntryAt(s.Log, p).term = prev.term
        <4>1. p \in cut + 1 .. last
          BY <3>2, <2>1, <1>3
        <4> QED
          BY <3>2, <4>1, <1>2, <1>7
      <3> QED
        BY <3>1, <3>2, <1>5, <1>7 DEF PrefixMatches
    <2> QED
      BY <2>1, <2>2, LeadersMatch
  <1> HIDE DEF e, prev, cut, a, last
  <1>9. \A j \in 1..i - 1 : leaderLogs[t][j] = leaderLogs[u][j]
    BY <1>8 DEF SameUpTo
  <1>10. \A j \in 1..a : leaderLogs[t][j] = committed[j]
    BY <1>2, <1>3, <1>6, <1>9
  <1>11. \A j \in cut + 1 .. i - 1 : EntryAt(s.Log, j) = leaderLogs[t][j]
    <2>1. \A j \in cut + 1 .. i - 1 : j \in 1..i - 1 /\ j \in cut + 1 .. last
      BY <1>3, <1>6
    <2> QED
      BY <1>2, <1>9, <2>1
  <1> QED
    BY <1>6, <1>10, <1>11 DEF e, cut, a, last

\* An accepted entry keeps the invariant, and what is applied.
LEMMA AppendGood ==
    ASSUME Leaders, NEW s, Good(s), NEW t \in Terms, NEW i \in 1..Len(leaderLogs[t]),
           appendOutcome(s, leaderLogs[t][i], PrevLog(leaderLogs[t], i)) = "accepted"
    PROVE  /\ Good(appendEntryChecked(s, leaderLogs[t][i]))
           /\ appendEntryChecked(s, leaderLogs[t][i]).AppliedIndex = s.AppliedIndex
  <1> DEFINE e == leaderLogs[t][i]
             cut == s.SnapshotLastIndex
             keep == i - cut - 1
             log == Append(SubSeq(s.Log, 1, keep), e)
             s2 == [s EXCEPT !.Log = log]
  <1>0. e.index = i /\ e \in Entry /\ Len(leaderLogs[t]) \in Nat
    BY LeaderLogsTyped DEF Leaders, LeadersInv
  <1>1. CASE i <= cut \/ (Found(s.Log, i) /\ Same(EntryAt(s.Log, i), e))
    BY <1>0, <1>1 DEF appendEntryChecked
  <1>2. ASSUME ~(i <= cut \/ (Found(s.Log, i) /\ Same(EntryAt(s.Log, i), e)))
        PROVE  /\ Good(appendEntryChecked(s, e))
               /\ appendEntryChecked(s, e).AppliedIndex = s.AppliedIndex
    <2>1. appendEntryChecked(s, e)
            = IF Found(s.Log, i) THEN rollbackQuorumAbove(s2, i - 1) ELSE s2
      BY <1>0, <1>2 DEF appendEntryChecked
    <2>2. /\ s \in ReplicaState
          /\ \A j \in DOMAIN s.Log : s.Log[j].index = cut + j
          /\ cut <= s.AppliedIndex
      BY GoodState
    <2>3. /\ s.Log \in Seq(Entry) /\ Len(s.Log) \in Nat /\ DOMAIN s.Log = 1..Len(s.Log)
          /\ cut \in Nat /\ s.AppliedIndex \in Nat
          /\ LastLogIndex(s) = cut + Len(s.Log)
          /\ \A j \in cut + 1 .. LastLogIndex(s) : EntryAt(s.Log, j) = s.Log[j - cut]
      BY <2>2, Window DEF LastLogIndex
    <2>4. /\ s.AppliedIndex < i /\ i <= LastLogIndex(s) + 1 /\ i > cut
          /\ \A j \in 1..s.AppliedIndex : leaderLogs[t][j] = committed[j]
          /\ \A j \in cut + 1 .. i - 1 : EntryAt(s.Log, j) = leaderLogs[t][j]
      <3>1. i > cut
        BY <1>2, <2>3
      <3> QED
        BY <1>2, <3>1, AcceptedAgrees
    <2>5. keep \in Nat /\ keep <= Len(s.Log) /\ cut + keep + 1 = i
      BY <2>3, <2>4
    <2>6. /\ SubSeq(s.Log, 1, keep) \in Seq(Entry) /\ Len(SubSeq(s.Log, 1, keep)) = keep
          /\ \A j \in 1..keep : SubSeq(s.Log, 1, keep)[j] = s.Log[j]
      BY <2>3, <2>5, CutLog
    <2>7. /\ log \in Seq(Entry) /\ Len(log) = keep + 1
          /\ \A j \in 1..keep : log[j] = s.Log[j]
          /\ log[keep + 1] = e
      <3> DEFINE pre == SubSeq(s.Log, 1, keep)
      <3> HIDE DEF pre, e
      <3>1. /\ Append(pre, e) \in Seq(Entry) /\ Len(Append(pre, e)) = keep + 1
            /\ \A j \in 1..keep : Append(pre, e)[j] = pre[j]
            /\ Append(pre, e)[keep + 1] = e
        BY <1>0, <2>6, AppendProperties DEF pre
      <3> QED
        BY <3>1, <2>6 DEF pre
    <2> HIDE DEF log
    <2>8. /\ s2 \in ReplicaState /\ s2.Log = log
          /\ s2.KnownGlobalCommitIndex = s.KnownGlobalCommitIndex /\ s2.AppliedIndex = s.AppliedIndex
          /\ s2.Results = s.Results /\ s2.StateMachine = s.StateMachine
          /\ s2.SnapshotLastIndex = cut
          /\ s2.SnapshotLastTerm = s.SnapshotLastTerm
          /\ s2.SnapshotLastRequestID = s.SnapshotLastRequestID
      BY <2>2, <2>7, LogOnly
    <2> HIDE DEF s2
    <2>9. LastLogIndex(s2) = i
      BY <2>3, <2>5, <2>7, <2>8 DEF LastLogIndex
    <2>10. \A j \in 1..Len(log) : log[j] = leaderLogs[t][cut + j]
      <3> SUFFICES ASSUME NEW j \in 1..keep + 1
                   PROVE  log[j] = leaderLogs[t][cut + j]
        BY <2>7
      <3>0. cut \in Nat /\ i \in Nat /\ LastLogIndex(s) \in Nat /\ i <= LastLogIndex(s) + 1
        BY <1>0, <2>3, <2>4
      <3> HIDE DEF keep, cut, e
      <3>1. CASE j = keep + 1
        <4>1. cut + j = i
          BY <3>0, <3>1, <2>5
        <4> QED
          BY <4>1, <3>1, <2>7 DEF e
      <3>2. CASE j \in 1..keep
        <4>1. cut + j \in cut + 1 .. i - 1 /\ cut + j \in cut + 1 .. LastLogIndex(s) /\ cut + j - cut = j
          BY <3>0, <3>2, <2>5, SMTT(30)
        <4>2. EntryAt(s.Log, cut + j) = s.Log[j]
          BY <4>1, <2>3, SMTT(30)
        <4> QED
          BY <3>2, <4>1, <4>2, <2>4, <2>7
      <3> QED
        BY <3>1, <3>2, <2>5
    <2>11. Good(s2)
      <3>1. /\ s.KnownGlobalCommitIndex = s.AppliedIndex /\ s.AppliedIndex <= Len(committed)
            /\ s.StateMachine = StateAfter(committed, s.AppliedIndex)
            /\ s.Results = ResultsAfter(committed, s.AppliedIndex)
            /\ cut > 0 => /\ s.SnapshotLastTerm = committed[cut].term
                          /\ s.SnapshotLastRequestID = committed[cut].request
        BY GoodState
      <3>2. s2.AppliedIndex <= LastLogIndex(s2) /\ LastLogIndex(s2) <= Len(leaderLogs[t])
        BY <1>0, <2>3, <2>4, <2>8, <2>9
      <3> HIDE DEF cut
      <3> QED
        BY <3>1, <3>2, <2>2, <2>4, <2>8, <2>10, MakeGood DEF cut
    <2>12. /\ rollbackQuorumAbove(s2, i - 1) \in ReplicaState
           /\ SameReplica(s2, rollbackQuorumAbove(s2, i - 1))
      <3>1. i - 1 \in Nat
        BY <1>0
      <3> QED
        BY <2>8, <3>1, MarksOnly
    <2>13. Good(rollbackQuorumAbove(s2, i - 1)) /\ rollbackQuorumAbove(s2, i - 1).AppliedIndex = s2.AppliedIndex
      BY <2>11, <2>12, SameReplicaGood DEF SameReplica
    <2> QED
      BY <2>1, <2>8, <2>11, <2>13
  <1> QED
    BY <1>1, <1>2

-----------------------------------------------------------------------------
(* compactLog, which the policy calls on what is applied.                  *)

\* and so does compaction.
LEMMA CompactGood ==
    ASSUME Leaders, NEW s, Good(s), NEW at \in Int
    PROVE  Good(compactLog(s, at)) /\ compactLog(s, at).AppliedIndex = s.AppliedIndex
  <1> DEFINE cut == s.SnapshotLastIndex
             e == EntryAt(s.Log, at)
             log == SubSeq(s.Log, at - cut + 1, Len(s.Log))
             s2 == [s EXCEPT !.Log = log, !.SnapshotLastIndex = at,
                             !.SnapshotLastTerm = e.term, !.SnapshotLastRequestID = e.request]
  <1>1. CASE at <= cut \/ at > s.AppliedIndex \/ ~Found(s.Log, at)
    BY <1>1 DEF compactLog
  <1>2. ASSUME ~(at <= cut \/ at > s.AppliedIndex \/ ~Found(s.Log, at))
        PROVE  Good(compactLog(s, at)) /\ compactLog(s, at).AppliedIndex = s.AppliedIndex
    <2>1. compactLog(s, at) = s2
      BY <1>2 DEF compactLog
    <2>2. /\ s \in ReplicaState
          /\ \A j \in DOMAIN s.Log : s.Log[j].index = cut + j
          /\ s.KnownGlobalCommitIndex = s.AppliedIndex /\ s.AppliedIndex <= Len(committed)
          /\ s.AppliedIndex <= LastLogIndex(s)
          /\ s.StateMachine = StateAfter(committed, s.AppliedIndex)
          /\ s.Results = ResultsAfter(committed, s.AppliedIndex)
      BY GoodState
    <2>3. PICK u \in Terms :
            /\ LastLogIndex(s) <= Len(leaderLogs[u])
            /\ \A j \in 1..s.AppliedIndex : leaderLogs[u][j] = committed[j]
            /\ \A j \in cut + 1 .. LastLogIndex(s) : EntryAt(s.Log, j) = leaderLogs[u][j]
      BY GoodState
    <2>4. /\ s.Log \in Seq(Entry) /\ Len(s.Log) \in Nat /\ DOMAIN s.Log = 1..Len(s.Log)
          /\ cut \in Nat /\ s.AppliedIndex \in Nat
          /\ LastLogIndex(s) = cut + Len(s.Log)
          /\ \A j \in cut + 1 .. LastLogIndex(s) : EntryAt(s.Log, j) = s.Log[j - cut] /\ EntryAt(s.Log, j) \in Entry
          /\ \A j \in Int : Found(s.Log, j) <=> j \in cut + 1 .. LastLogIndex(s)
      BY <2>2, Window DEF LastLogIndex
    <2>5. at \in Nat /\ at > cut /\ at <= s.AppliedIndex /\ at \in cut + 1 .. LastLogIndex(s)
      BY <1>2, <2>4
    <2>6. e \in Entry /\ e = committed[at]
      BY <2>3, <2>4, <2>5
    <2>7. /\ log \in Seq(Entry) /\ Len(log) = Len(s.Log) - (at - cut)
          /\ \A j \in 1..Len(log) : log[j] = s.Log[(at - cut) + j]
      <3>1. at - cut \in Nat /\ at - cut <= Len(s.Log)
        BY <2>4, <2>5
      <3> DEFINE k == at - cut
      <3>2. k \in Nat /\ k <= Len(s.Log) /\ s.Log \in Seq(Entry) /\ log = SubSeq(s.Log, k + 1, Len(s.Log))
        BY <3>1, <2>4
      <3> HIDE DEF k, log
      <3>3. /\ log \in Seq(Entry) /\ Len(log) = Len(s.Log) - k
            /\ \A j \in 1..Len(s.Log) - k : log[j] = s.Log[k + j]
        BY <3>2, CutLog
      <3> QED
        BY <3>3 DEF k
    <2> HIDE DEF log, e
    <2>8. /\ s2 \in ReplicaState /\ s2.Log = log
          /\ s2.KnownGlobalCommitIndex = s.KnownGlobalCommitIndex /\ s2.AppliedIndex = s.AppliedIndex
          /\ s2.Results = s.Results /\ s2.StateMachine = s.StateMachine
          /\ s2.SnapshotLastIndex = at /\ s2.SnapshotLastTerm = e.term /\ s2.SnapshotLastRequestID = e.request
      <3> DEFINE R == Request \cup {None}
                 D == Decision \cup {NoDecision}
                 Q == Seq(Entry)
      <3>1. s \in [GlobalTerm : Nat, Log : Q, DomainQuorumIndex : [Domain -> Nat],
                   KnownGlobalCommitIndex : Nat, AppliedIndex : Nat, Results : [Request -> D],
                   StateMachine : [Key -> R], SnapshotLastIndex : Nat, SnapshotLastTerm : Nat,
                   SnapshotLastRequestID : R]
        BY <2>2 DEF ReplicaState
      <3>2. log \in Q /\ at \in Nat /\ e.term \in Nat /\ e.request \in R
        BY <2>5, <2>6, <2>7 DEF Entry
      <3> HIDE DEF R, D, Q
      <3>3. /\ s2 \in [GlobalTerm : Nat, Log : Q, DomainQuorumIndex : [Domain -> Nat],
                   KnownGlobalCommitIndex : Nat, AppliedIndex : Nat, Results : [Request -> D],
                   StateMachine : [Key -> R], SnapshotLastIndex : Nat, SnapshotLastTerm : Nat,
                   SnapshotLastRequestID : R]
            /\ s2.Log = log
            /\ s2.KnownGlobalCommitIndex = s.KnownGlobalCommitIndex /\ s2.AppliedIndex = s.AppliedIndex
            /\ s2.Results = s.Results /\ s2.StateMachine = s.StateMachine
            /\ s2.SnapshotLastIndex = at /\ s2.SnapshotLastTerm = e.term /\ s2.SnapshotLastRequestID = e.request
        BY <3>1, <3>2
      <3> HIDE DEF s2
      <3> QED
        BY <3>3 DEF ReplicaState, R, D, Q
    <2> HIDE DEF s2
    <2>9. LastLogIndex(s2) = LastLogIndex(s)
      <3>1. LastLogIndex(s2) = at + Len(log)
        BY <2>8 DEF LastLogIndex
      <3>2. at + (Len(s.Log) - (at - cut)) = cut + Len(s.Log)
        BY <2>4, <2>5
      <3> QED
        BY <2>4, <2>7, <3>1, <3>2
    <2>10. \A j \in 1..Len(log) : log[j] = leaderLogs[u][at + j]
      <3> SUFFICES ASSUME NEW j \in 1..Len(log)
                   PROVE  log[j] = leaderLogs[u][at + j]
        OBVIOUS
      <3>1. at + j \in cut + 1 .. LastLogIndex(s) /\ at + j - cut = (at - cut) + j
        BY <2>4, <2>5, <2>7, SMTT(30)
      <3>2. EntryAt(s.Log, at + j) = s.Log[(at - cut) + j]
        BY <3>1, <2>4
      <3> QED
        BY <3>1, <3>2, <2>3, <2>7
    <2>11. Good(s2)
      BY <2>2, <2>3, <2>5, <2>6, <2>8, <2>9, <2>10, MakeGood
    <2> QED
      BY <2>1, <2>8, <2>11
  <1> QED
    BY <1>1, <1>2

\* The policy of the store: whatever it decides, the invariant stays.
LEMMA MaybeCompactGood ==
    ASSUME Leaders, NEW s, Good(s)
    PROVE  Good(maybeCompactLocked(s)) /\ maybeCompactLocked(s).AppliedIndex = s.AppliedIndex
  <1>1. s.AppliedIndex - compactionRetain \in Int
    <2>1. s \in ReplicaState
      BY GoodState
    <2> QED
      BY <2>1, LogAssumption DEF ReplicaState
  <1> QED
    BY <1>1, CompactGood DEF maybeCompactLocked

-----------------------------------------------------------------------------
(* applyEntries.                                                           *)

\* The effects of a longer prefix are those of a shorter one, overwritten by the entries in
\* between, the last of each key and request winning.
MachineThen(machine, log, new) ==
    [k \in Key |-> IF \E i \in new : KeyOf[EntryAt(log, i).request] = k
       THEN EntryAt(log, LastWrite(log, new, k)).request
       ELSE machine[k]]

DecidedIn(log, new, r) == {i \in new : EntryAt(log, i).request = r}

ResultsThen(results, log, new) ==
    [r \in Request |-> IF DecidedIn(log, new, r) # {}
       THEN [term |-> EntryAt(log, Max(DecidedIn(log, new, r))).term,
             index |-> EntryAt(log, Max(DecidedIn(log, new, r))).index]
       ELSE results[r]]

\* The effects up to an index, then those of the entries after it.
LEMMA EffectsGrow ==
    ASSUME NEW decided, NEW log, NEW a \in Nat, NEW top \in Nat, a <= top,
           \A i \in a + 1 .. top : EntryAt(log, i) = decided[i] /\ decided[i].index = i
    PROVE  /\ StateAfter(decided, top) = MachineThen(StateAfter(decided, a), log, a + 1 .. top)
           /\ ResultsAfter(decided, top) = ResultsThen(ResultsAfter(decided, a), log, a + 1 .. top)
  <1> DEFINE W(k) == {i \in 1..top : KeyOf[decided[i].request] = k}
             P(k) == {i \in 1..a : KeyOf[decided[i].request] = k}
             F(k) == {i \in a + 1 .. top : KeyOf[EntryAt(log, i).request] = k}
             V(r) == {i \in 1..top : decided[i].request = r}
             O(r) == {i \in 1..a : decided[i].request = r}
             G(r) == {i \in a + 1 .. top : EntryAt(log, i).request = r}
  <1>0. \A i \in 1..top : i \in 1..a \/ (i \in a + 1 .. top /\ i > a)
    OBVIOUS
  <1>1. \A k : /\ W(k) \in SUBSET (1..top) /\ F(k) = {i \in W(k) : i > a}
               /\ F(k) = {} => W(k) = P(k)
    <2> TAKE k
    <2>1. F(k) = {i \in W(k) : i > a}
      OBVIOUS
    <2>2. F(k) = {} => W(k) = P(k)
      OBVIOUS
    <2> QED
      BY <2>1, <2>2
  <1>2. \A r : /\ V(r) \in SUBSET (1..top) /\ G(r) = {i \in V(r) : i > a}
               /\ G(r) = {} => V(r) = O(r)
    <2> TAKE r
    <2>1. G(r) = {i \in V(r) : i > a}
      OBVIOUS
    <2>2. G(r) = {} => V(r) = O(r)
      OBVIOUS
    <2> QED
      BY <2>1, <2>2
  <1>d. \A k : F(k) \subseteq a + 1 .. top /\ G(k) \subseteq a + 1 .. top
    OBVIOUS
  <1>3. StateAfter(decided, top) = [k \in Key |-> IF W(k) = {} THEN None ELSE decided[Max(W(k))].request]
    BY DEF StateAfter
  <1>4. StateAfter(decided, a) = [k \in Key |-> IF P(k) = {} THEN None ELSE decided[Max(P(k))].request]
    BY DEF StateAfter
  <1>5. ResultsAfter(decided, top) = [r \in Request |-> IF V(r) = {} THEN NoDecision
                                        ELSE [term |-> decided[Max(V(r))].term, index |-> Max(V(r))]]
    BY DEF ResultsAfter
  <1>6. ResultsAfter(decided, a) = [r \in Request |-> IF O(r) = {} THEN NoDecision
                                      ELSE [term |-> decided[Max(O(r))].term, index |-> Max(O(r))]]
    BY DEF ResultsAfter
  <1>7. \A k : LastWrite(log, a + 1 .. top, k) = Max(F(k))
    BY DEF LastWrite
  <1>8. \A k : (\E i \in a + 1 .. top : KeyOf[EntryAt(log, i).request] = k) <=> F(k) # {}
    OBVIOUS
  <1> HIDE DEF W, P, F, V, O
  <1>9. \A k : F(k) # {} => /\ Max(F(k)) = Max(W(k)) /\ Max(F(k)) \in a + 1 .. top
                            /\ W(k) # {}
    <2> TAKE k
    <2> HAVE F(k) # {}
    <2>1. Max(F(k)) = Max(W(k)) /\ Max(F(k)) \in F(k)
      BY <1>1, MaxOfTheTail
    <2> QED
      BY <2>1, <1>1, <1>d
  <1>10. \A r : G(r) # {} => /\ Max(G(r)) = Max(V(r)) /\ Max(G(r)) \in a + 1 .. top
                             /\ V(r) # {}
    <2> TAKE r
    <2> HAVE G(r) # {}
    <2> HIDE DEF G
    <2>1. Max(G(r)) = Max(V(r)) /\ Max(G(r)) \in G(r)
      BY <1>2, MaxOfTheTail
    <2> QED
      BY <2>1, <1>2, <1>d
  <1>11. StateAfter(decided, top)
           = [k \in Key |-> IF F(k) # {} THEN EntryAt(log, Max(F(k))).request
                            ELSE StateAfter(decided, a)[k]]
    <2>1. ASSUME NEW k \in Key
          PROVE  (IF W(k) = {} THEN None ELSE decided[Max(W(k))].request)
                   = IF F(k) # {} THEN EntryAt(log, Max(F(k))).request ELSE StateAfter(decided, a)[k]
      <3>1. CASE F(k) # {}
        BY <3>1, <1>9
      <3>2. CASE F(k) = {}
        BY <3>2, <1>1, <1>4
      <3> QED
        BY <3>1, <3>2
    <2> QED
      BY <2>1, <1>3
  <1>12. ResultsAfter(decided, top)
           = [r \in Request |-> IF G(r) # {}
                THEN [term |-> EntryAt(log, Max(G(r))).term, index |-> EntryAt(log, Max(G(r))).index]
                ELSE ResultsAfter(decided, a)[r]]
    <2> HIDE DEF G
    <2>1. ASSUME NEW r \in Request
          PROVE  (IF V(r) = {} THEN NoDecision ELSE [term |-> decided[Max(V(r))].term, index |-> Max(V(r))])
                   = IF G(r) # {}
                     THEN [term |-> EntryAt(log, Max(G(r))).term, index |-> EntryAt(log, Max(G(r))).index]
                     ELSE ResultsAfter(decided, a)[r]
      <3>1. CASE G(r) # {}
        <4>1. EntryAt(log, Max(G(r))) = decided[Max(V(r))] /\ decided[Max(V(r))].index = Max(V(r)) /\ V(r) # {}
          BY <3>1, <1>10
        <4> QED
          BY <3>1, <4>1
      <3>2. CASE G(r) = {}
        BY <3>2, <1>2, <1>6
      <3> QED
        BY <3>1, <3>2
    <2> QED
      BY <2>1, <1>5
  <1>13. StateAfter(decided, top)
           = [k \in Key |-> IF \E i \in a + 1 .. top : KeyOf[EntryAt(log, i).request] = k
                THEN EntryAt(log, LastWrite(log, a + 1 .. top, k)).request
                ELSE StateAfter(decided, a)[k]]
    BY <1>7, <1>8, <1>11
  <1> QED
    BY <1>12, <1>13 DEF MachineThen, ResultsThen, DecidedIn

\* The effects of a prefix of the committed log have their types.
LEMMA EffectsTyped ==
    ASSUME NEW decided \in Seq(Entry), NEW n \in Nat, n <= Len(decided)
    PROVE  /\ StateAfter(decided, n) \in [Key -> Request \cup {None}]
           /\ ResultsAfter(decided, n) \in [Request -> Decision \cup {NoDecision}]
           /\ \A r \in Request : \A i \in 1..n : decided[i].request = r => ResultsAfter(decided, n)[r] # NoDecision
  <1> DEFINE A(k) == {i \in 1..n : KeyOf[decided[i].request] = k}
             C(r) == {i \in 1..n : decided[i].request = r}
  <1>1. \A i \in 1..n : /\ decided[i] \in Entry
                        /\ decided[i].request \in Request /\ decided[i].term \in Nat \ {0}
    <2>1. \A i \in 1..n : decided[i] \in Entry
      OBVIOUS
    <2> QED
      BY <2>1 DEF Entry
  <1>2. \A k : A(k) # {} => Max(A(k)) \in 1..n
    <2> TAKE k
    <2> HAVE A(k) # {}
    <2>1. A(k) \in SUBSET (1..n) /\ A(k) \in SUBSET (0..n)
      OBVIOUS
    <2> HIDE DEF A
    <2>2. Max(A(k)) \in A(k)
      BY <2>1, MaxIsMember
    <2> QED
      BY <2>1, <2>2
  <1>3. \A r : C(r) # {} => Max(C(r)) \in 1..n
    <2> TAKE r
    <2> HAVE C(r) # {}
    <2>1. C(r) \in SUBSET (1..n) /\ C(r) \in SUBSET (0..n)
      OBVIOUS
    <2> HIDE DEF C
    <2>2. Max(C(r)) \in C(r)
      BY <2>1, MaxIsMember
    <2> QED
      BY <2>1, <2>2
  <1>4. StateAfter(decided, n) = [k \in Key |-> IF A(k) = {} THEN None ELSE decided[Max(A(k))].request]
    BY DEF StateAfter
  <1>5. ResultsAfter(decided, n) = [r \in Request |-> IF C(r) = {} THEN NoDecision
                                      ELSE [term |-> decided[Max(C(r))].term, index |-> Max(C(r))]]
    BY DEF ResultsAfter
  <1>c. \A r : \A i \in 1..n : decided[i].request = r => C(r) # {}
    OBVIOUS
  <1> HIDE DEF A, C
  <1>6. StateAfter(decided, n) \in [Key -> Request \cup {None}]
    BY <1>1, <1>2, <1>4
  <1>7. \A r : C(r) # {} => [term |-> decided[Max(C(r))].term, index |-> Max(C(r))] \in Decision
    BY <1>1, <1>3 DEF Decision
  <1>8. ResultsAfter(decided, n) \in [Request -> Decision \cup {NoDecision}]
    BY <1>5, <1>7
  <1>9. NoDecision \notin Decision
    BY DEF NoDecision, Decision
  <1>10. \A r \in Request : C(r) # {} => ResultsAfter(decided, n)[r] # NoDecision
    BY <1>5, <1>7, <1>9
  <1> QED
    BY <1>6, <1>8, <1>10, <1>c

\* Entries that are the committed ones are applied as such.
LEMMA ApplyGood ==
    ASSUME Leaders, NEW s, Good(s), NEW u \in Terms, NEW top \in Nat,
           s.AppliedIndex < top, top <= LastLogIndex(s), top <= Len(committed),
           LastLogIndex(s) <= Len(leaderLogs[u]),
           \A i \in 1..top : leaderLogs[u][i] = committed[i],
           \A i \in s.SnapshotLastIndex + 1 .. LastLogIndex(s) : EntryAt(s.Log, i) = leaderLogs[u][i]
    PROVE  Good(applyEntries(s, top)) /\ applyEntries(s, top).AppliedIndex = top
  <1> DEFINE a == s.AppliedIndex
             cut == s.SnapshotLastIndex
             machine == StateAfter(committed, top)
             results == ResultsAfter(committed, top)
             s2 == [s EXCEPT !.KnownGlobalCommitIndex = top, !.AppliedIndex = top,
                             !.StateMachine = machine, !.Results = results]
  <1>1. /\ s \in ReplicaState
        /\ \A j \in DOMAIN s.Log : s.Log[j].index = cut + j
        /\ cut <= a /\ s.KnownGlobalCommitIndex = a
        /\ s.StateMachine = StateAfter(committed, a)
        /\ s.Results = ResultsAfter(committed, a)
        /\ cut > 0 => /\ s.SnapshotLastTerm = committed[cut].term
                      /\ s.SnapshotLastRequestID = committed[cut].request
    BY GoodState
  <1>2. /\ s.Log \in Seq(Entry) /\ Len(s.Log) \in Nat
        /\ cut \in Nat /\ a \in Nat /\ LastLogIndex(s) \in Nat
        /\ LastLogIndex(s) = cut + Len(s.Log)
        /\ \A j \in cut + 1 .. LastLogIndex(s) : j - cut \in 1..Len(s.Log) /\ EntryAt(s.Log, j) = s.Log[j - cut]
    BY <1>1, Window DEF LastLogIndex
  <1>3. \A i \in a + 1 .. top : EntryAt(s.Log, i) = committed[i] /\ committed[i].index = i
    <2>1. \A i \in a + 1 .. top : i \in cut + 1 .. LastLogIndex(s) /\ i \in 1..top /\ i \in 1..Len(committed)
      BY <1>1, <1>2, LeaderLogsTyped, SMTT(30)
    <2> QED
      BY <2>1, CommittedOnce
  <1>4. machine \in [Key -> Request \cup {None}] /\ results \in [Request -> Decision \cup {NoDecision}]
    <2>1. committed \in Seq(Entry)
      BY DEF Leaders
    <2> QED
      BY <2>1, EffectsTyped
  <1>5. applyEntries(s, top) = s2
    <2> DEFINE new == a + 1 .. top
               writes(k) == \E i \in new : KeyOf[EntryAt(s.Log, i).request] = k
               decides(r) == {i \in new : EntryAt(s.Log, i).request = r}
               lastOf(r) == EntryAt(s.Log, Max(decides(r)))
               sm == [k \in Key |-> IF writes(k)
                        THEN EntryAt(s.Log, LastWrite(s.Log, new, k)).request
                        ELSE s.StateMachine[k]]
               rs == [r \in Request |-> IF decides(r) # {}
                        THEN [term |-> lastOf(r).term, index |-> lastOf(r).index]
                        ELSE s.Results[r]]
    <2>1. a <= a /\ new # {} /\ a <= top
      <3>1. a + 1 \in new
        BY <1>2
      <3> QED
        BY <3>1, <1>2
    <2>2. /\ machine = MachineThen(s.StateMachine, s.Log, new)
          /\ results = ResultsThen(s.Results, s.Log, new)
      <3>1. a \in Nat /\ a <= top
        BY <1>2, <2>1
      <3>2. s.StateMachine = StateAfter(committed, a) /\ s.Results = ResultsAfter(committed, a)
        BY <1>1
      <3> HIDE DEF a
      <3>3. /\ StateAfter(committed, top) = MachineThen(StateAfter(committed, a), s.Log, a + 1 .. top)
            /\ ResultsAfter(committed, top) = ResultsThen(ResultsAfter(committed, a), s.Log, a + 1 .. top)
        BY <1>3, <3>1, EffectsGrow
      <3> QED
        BY <3>2, <3>3
    <2>3. sm = machine /\ rs = results
      <3> HIDE DEF machine, results
      <3>1. sm = MachineThen(s.StateMachine, s.Log, new)
        BY DEF MachineThen
      <3>2. rs = ResultsThen(s.Results, s.Log, new)
        BY DEF ResultsThen, DecidedIn
      <3> HIDE DEF sm, rs
      <3> QED
        BY <2>2, <3>1, <3>2
    <2>4. applyEntries(s, top) = [s EXCEPT !.KnownGlobalCommitIndex = top, !.AppliedIndex = top,
                                           !.StateMachine = sm, !.Results = rs]
      BY <1>1, <2>1 DEF applyEntries
    <2> HIDE DEF sm, rs, machine, results
    <2> QED
      BY <2>3, <2>4
  <1> HIDE DEF machine, results
  <1>6. /\ s2 \in ReplicaState /\ s2.Log = s.Log
        /\ s2.KnownGlobalCommitIndex = top /\ s2.AppliedIndex = top
        /\ s2.Results = results /\ s2.StateMachine = machine
        /\ s2.SnapshotLastIndex = cut /\ s2.SnapshotLastTerm = s.SnapshotLastTerm
        /\ s2.SnapshotLastRequestID = s.SnapshotLastRequestID
    <2> DEFINE R == Request \cup {None}
               D == Decision \cup {NoDecision}
               Q == Seq(Entry)
               RS == [GlobalTerm : Nat, Log : Q, DomainQuorumIndex : [Domain -> Nat],
                      KnownGlobalCommitIndex : Nat, AppliedIndex : Nat, Results : [Request -> D],
                      StateMachine : [Key -> R], SnapshotLastIndex : Nat, SnapshotLastTerm : Nat,
                      SnapshotLastRequestID : R]
    <2>1. s \in RS
      BY <1>1 DEF ReplicaState
    <2>2. machine \in [Key -> R] /\ results \in [Request -> D]
      BY <1>4
    <2> HIDE DEF R, D, Q
    <2>3. /\ s2 \in RS /\ s2.Log = s.Log
          /\ s2.KnownGlobalCommitIndex = top /\ s2.AppliedIndex = top
          /\ s2.Results = results /\ s2.StateMachine = machine
          /\ s2.SnapshotLastIndex = cut /\ s2.SnapshotLastTerm = s.SnapshotLastTerm
          /\ s2.SnapshotLastRequestID = s.SnapshotLastRequestID
      BY <2>1, <2>2
    <2> HIDE DEF s2
    <2> QED
      BY <2>3 DEF ReplicaState, R, D, Q
  <1> HIDE DEF s2
  <1>7. \A i \in 1..Len(s.Log) : s.Log[i] = leaderLogs[u][cut + i]
    <2> SUFFICES ASSUME NEW i \in 1..Len(s.Log)
                 PROVE  s.Log[i] = leaderLogs[u][cut + i]
      OBVIOUS
    <2>1. cut + i \in cut + 1 .. LastLogIndex(s) /\ (cut + i) - cut = i
      BY <1>2, SMTT(30)
    <2>2. EntryAt(s.Log, cut + i) = s.Log[i]
      <3> DEFINE j == cut + i
      <3>1. j \in cut + 1 .. LastLogIndex(s) /\ j - cut = i
        BY <2>1, Zenon
      <3> HIDE DEF cut, j
      <3>2. EntryAt(s.Log, j) = s.Log[j - cut]
        BY <3>1, <1>2
      <3>3. EntryAt(s.Log, j) = s.Log[i]
        BY <3>1, <3>2
      <3> QED
        BY <3>3 DEF j
    <2> QED
      BY <2>1, <2>2
  <1>8. LastLogIndex(s2) = LastLogIndex(s) /\ cut <= top
    BY <1>1, <1>2, <1>6 DEF LastLogIndex
  <1>9. Good(s2)
    <2> HIDE DEF cut
    <2> QED
      BY <1>1, <1>6, <1>7, <1>8, MakeGood DEF machine, results, cut
  <1> QED
    BY <1>5, <1>6, <1>9

\* advanceCommitLocked: a commit position that is that of a committed entry leaves the
\* invariant, and the applied prefix where it was or further.
LEMMA AdvanceGood ==
    ASSUME Leaders, NEW s, Good(s), NEW c,
           c = NoCommit \/ \E i \in 1..Len(committed) : c = committed[i]
    PROVE  /\ Good(advanceCommitLocked(s, c))
           /\ advanceCommitLocked(s, c).AppliedIndex >= s.AppliedIndex
  <1>0. s \in ReplicaState /\ s.AppliedIndex \in Nat /\ s.KnownGlobalCommitIndex = s.AppliedIndex
    BY GoodState DEF ReplicaState
  <1>1. CASE ~(MayAdvance(s, c) /\ c.index > s.KnownGlobalCommitIndex)
    BY <1>0, <1>1 DEF advanceCommitLocked
  <1>2. ASSUME MayAdvance(s, c), c.index > s.KnownGlobalCommitIndex
        PROVE  /\ Good(advanceCommitLocked(s, c))
               /\ advanceCommitLocked(s, c).AppliedIndex >= s.AppliedIndex
    <2>1. c # NoCommit
      BY <1>0, <1>2 DEF NoCommit
    <2>2. PICK top \in 1..Len(committed) : c = committed[top]
      BY <2>1
    <2>3. c.index = top /\ top \in Nat /\ Len(committed) \in Nat
      BY <2>2, CommittedOnce, LeaderLogsTyped
    <2>4. /\ top > s.AppliedIndex
          /\ \A i \in s.AppliedIndex + 1 .. top : Found(s.Log, i)
          /\ EntryAt(s.Log, top).term = committed[top].term
      BY <1>0, <1>2, <2>2, <2>3 DEF MayAdvance, Same
    <2>5. \A j \in DOMAIN s.Log : s.Log[j].index = s.SnapshotLastIndex + j
      BY GoodState
    <2>6. PICK u \in Terms :
            /\ LastLogIndex(s) <= Len(leaderLogs[u])
            /\ \A i \in 1..s.AppliedIndex : leaderLogs[u][i] = committed[i]
            /\ \A i \in s.SnapshotLastIndex + 1 .. LastLogIndex(s) : EntryAt(s.Log, i) = leaderLogs[u][i]
      BY GoodState
    <2>7. Found(s.Log, top)
      BY <1>0, <2>3, <2>4
    <2>8. top \in s.SnapshotLastIndex + 1 .. LastLogIndex(s) /\ LastLogIndex(s) \in Nat /\ s.SnapshotLastIndex \in Nat
      BY <1>0, <2>3, <2>5, <2>7, Window
    <2>9. leaderLogs[u][top].term = committed[top].term /\ top <= Len(leaderLogs[u])
      BY <2>3, <2>4, <2>6, <2>8, LeaderLogsTyped
    <2>10. \A i \in 1..top : leaderLogs[u][i] = committed[i]
      BY <2>9, CommittedMatch DEF SameUpTo
    <2>11. Good(applyEntries(s, top)) /\ applyEntries(s, top).AppliedIndex = top
      BY <1>0, <2>3, <2>4, <2>6, <2>8, <2>10, ApplyGood
    <2>12. Good(maybeCompactLocked(applyEntries(s, top)))
           /\ maybeCompactLocked(applyEntries(s, top)).AppliedIndex = top
      BY <2>11, MaybeCompactGood
    <2>13. advanceCommitLocked(s, c) = maybeCompactLocked(applyEntries(s, top))
      BY <1>2, <2>3 DEF advanceCommitLocked
    <2> QED
      BY <1>0, <2>3, <2>4, <2>12, <2>13
  <1> QED
    BY <1>1, <1>2

-----------------------------------------------------------------------------
(* installSnapshotState.                                                   *)

\* A snapshot decides every request that a shorter prefix of the committed log decides,
\* and the same way, so merging its results replaces them.
LEMMA ResultsMerge ==
    ASSUME Leaders, NEW a \in Nat, NEW n \in Nat, a <= n, n <= Len(committed)
    PROVE  /\ \A r \in Request : ResultsAfter(committed, a)[r] # NoDecision =>
                                   ResultsAfter(committed, n)[r] = ResultsAfter(committed, a)[r]
           /\ [r \in Request |-> IF ResultsAfter(committed, n)[r] # NoDecision
                 THEN ResultsAfter(committed, n)[r] ELSE ResultsAfter(committed, a)[r]]
                = ResultsAfter(committed, n)
  <1> DEFINE V(r) == {i \in 1..n : committed[i].request = r}
             O(r) == {i \in 1..a : committed[i].request = r}
  <1>0. committed \in Seq(Entry) /\ Len(committed) \in Nat
    BY LeaderLogsTyped DEF Leaders
  <1>1. \A r : O(r) # {} => V(r) = O(r)
    <2>1. \A i \in 1..n : i \in 1..Len(committed)
      BY <1>0
    <2>2. \A i \in 1..a : i \in 1..n
      OBVIOUS
    <2>3. \A i, j \in 1..n : committed[i].request = committed[j].request => i = j
      BY <2>1, CommittedOnce
    <2> QED
      BY <2>2, <2>3
  <1>2. ResultsAfter(committed, n) = [r \in Request |-> IF V(r) = {} THEN NoDecision
                                        ELSE [term |-> committed[Max(V(r))].term, index |-> Max(V(r))]]
    BY DEF ResultsAfter
  <1>3. ResultsAfter(committed, a) = [r \in Request |-> IF O(r) = {} THEN NoDecision
                                        ELSE [term |-> committed[Max(O(r))].term, index |-> Max(O(r))]]
    BY DEF ResultsAfter
  <1> HIDE DEF V, O
  <1>4. \A r \in Request : ResultsAfter(committed, a)[r] # NoDecision =>
                             ResultsAfter(committed, n)[r] = ResultsAfter(committed, a)[r]
    BY <1>1, <1>2, <1>3
  <1>5. \A r \in Request :
          (IF ResultsAfter(committed, n)[r] # NoDecision
           THEN ResultsAfter(committed, n)[r] ELSE ResultsAfter(committed, a)[r])
            = ResultsAfter(committed, n)[r]
    BY <1>4
  <1>6. ResultsAfter(committed, n) = [r \in Request |-> ResultsAfter(committed, n)[r]]
    BY <1>2
  <1> QED
    BY <1>4, <1>5, <1>6

\* A snapshot of the committed log leaves the invariant, and the applied prefix where it was
\* or further: the tail it keeps follows the leader it followed, and without one the log is
\* empty and follows the sender.
LEMMA InstallGood ==
    ASSUME Leaders, NEW s, Good(s), NEW t \in Terms, NEW n \in 1..Len(committed),
           n <= Len(leaderLogs[t]), leaderLogs[t][n] = committed[n]
    PROVE  /\ Good(installSnapshotState(s, SnapshotAt(committed[n])))
           /\ installSnapshotState(s, SnapshotAt(committed[n])).AppliedIndex >= s.AppliedIndex
  <1> DEFINE snap == SnapshotAt(committed[n])
             a == s.AppliedIndex
             cut == s.SnapshotLastIndex
             last == LastLogIndex(s)
             machine == StateAfter(committed, n)
             results == ResultsAfter(committed, n)
             matches == Found(s.Log, n) /\ EntryAt(s.Log, n).term = committed[n].term
             log == IF matches THEN SubSeq(s.Log, n - s.Log[1].index + 2, Len(s.Log)) ELSE << >>
             s2 == [s EXCEPT !.Log = log, !.SnapshotLastIndex = n,
                             !.SnapshotLastTerm = committed[n].term,
                             !.SnapshotLastRequestID = committed[n].request,
                             !.StateMachine = machine, !.Results = results,
                             !.AppliedIndex = n, !.KnownGlobalCommitIndex = n]
  <1>0. /\ n \in Nat /\ Len(committed) \in Nat /\ committed \in Seq(Entry)
        /\ committed[n] \in Entry /\ committed[n].index = n
    BY CommittedOnce, LeaderLogsTyped DEF Leaders
  <1>1. /\ s \in ReplicaState
        /\ \A j \in DOMAIN s.Log : s.Log[j].index = cut + j
        /\ cut <= a /\ s.KnownGlobalCommitIndex = a /\ a <= last
        /\ s.Results = ResultsAfter(committed, a)
    BY GoodState
  <1>2. /\ s.Log \in Seq(Entry) /\ Len(s.Log) \in Nat /\ DOMAIN s.Log = 1..Len(s.Log)
        /\ cut \in Nat /\ a \in Nat /\ last \in Nat
        /\ last = cut + Len(s.Log)
        /\ \A j \in Int : Found(s.Log, j) <=> j \in cut + 1 .. last
        /\ \A j \in cut + 1 .. last : j - cut \in 1..Len(s.Log) /\ EntryAt(s.Log, j) = s.Log[j - cut]
    BY <1>1, Window DEF LastLogIndex
  <1>3. /\ snap.index = n /\ snap.term = committed[n].term /\ snap.request = committed[n].request
        /\ snap.StateMachine = machine /\ snap.Results = results
    BY <1>0 DEF SnapshotAt
  <1>4. CASE n <= a \/ n <= cut
    BY <1>2, <1>3, <1>4 DEF installSnapshotState
  <1>5. ASSUME ~(n <= a \/ n <= cut)
        PROVE  /\ Good(installSnapshotState(s, snap))
               /\ installSnapshotState(s, snap).AppliedIndex >= a
    <2>1. a < n /\ cut < n
      BY <1>0, <1>2, <1>5
    <2>2. PICK u \in Terms :
            /\ last <= Len(leaderLogs[u])
            /\ \A i \in cut + 1 .. last : EntryAt(s.Log, i) = leaderLogs[u][i]
      BY GoodState
    <2>3. [r \in Request |-> IF results[r] # NoDecision THEN results[r] ELSE s.Results[r]] = results
      <3>1. a <= n /\ n <= Len(committed)
        BY <1>0, <1>2, <2>1
      <3> HIDE DEF a
      <3> QED
        BY <1>0, <1>1, <1>2, <3>1, ResultsMerge
    <2>4. Higher(s.KnownGlobalCommitIndex, n) = n
      BY <1>0, <1>1, <1>2, <2>1 DEF Higher
    <2>5. installSnapshotState(s, snap) = IF matches THEN s2 ELSE rollbackQuorumAbove(s2, n)
      <3> DEFINE merged == [r \in Request |-> IF results[r] # NoDecision THEN results[r] ELSE s.Results[r]]
                 known == Higher(s.KnownGlobalCommitIndex, n)
                 s3 == [s EXCEPT !.Log = log, !.SnapshotLastIndex = n,
                             !.SnapshotLastTerm = committed[n].term,
                             !.SnapshotLastRequestID = committed[n].request,
                             !.StateMachine = machine, !.Results = merged,
                             !.AppliedIndex = n, !.KnownGlobalCommitIndex = known]
      <3> HIDE DEF snap
      <3>1. installSnapshotState(s, snap) = IF matches THEN s3 ELSE rollbackQuorumAbove(s3, n)
        BY <1>3, <1>5 DEF installSnapshotState
      <3>2. merged = results /\ known = n
        BY <2>3, <2>4
      <3> HIDE DEF merged, known, results, machine, log, matches
      <3>3. s3 = s2
        BY <3>2
      <3> HIDE DEF s2, s3
      <3> QED
        BY <3>1, <3>3
    <2>6. PICK v \in Terms :
            /\ log \in Seq(Entry) /\ n + Len(log) <= Len(leaderLogs[v])
            /\ \A i \in 1..n : leaderLogs[v][i] = committed[i]
            /\ \A i \in 1..Len(log) : log[i] = leaderLogs[v][n + i]
      <3>1. CASE matches
        <4>1. n \in cut + 1 .. last /\ n <= Len(leaderLogs[u]) /\ Len(leaderLogs[u]) \in Nat
          BY <3>1, <1>0, <1>2, <2>2, LeaderLogsTyped
        <4>2. leaderLogs[u][n].term = committed[n].term
          BY <3>1, <4>1, <2>2
        <4>3. \A i \in 1..n : leaderLogs[u][i] = committed[i]
          BY <4>1, <4>2, CommittedMatch DEF SameUpTo
        <4> DEFINE k == n - cut
        <4>4. k \in Nat /\ k <= Len(s.Log) /\ s.Log[1].index = cut + 1
          <5>1. k \in Nat /\ k <= Len(s.Log) /\ Len(s.Log) >= 1
            BY <4>1, <1>0, <1>2, SMTT(30)
          <5>2. 1 \in DOMAIN s.Log
            BY <5>1, <1>2
          <5> QED
            BY <5>1, <5>2, <1>1
        <4>5. n - s.Log[1].index + 2 = k + 1
          BY <4>4, <1>0, <1>2
        <4>6. log = SubSeq(s.Log, k + 1, Len(s.Log))
          BY <3>1, <4>5
        <4> HIDE DEF k, log
        <4>7. /\ log \in Seq(Entry) /\ Len(log) = Len(s.Log) - k
              /\ \A j \in 1..Len(s.Log) - k : log[j] = s.Log[k + j]
          BY <4>4, <4>6, <1>2, CutLog
        <4>k. k = n - cut
          BY DEF k
        <4>8. n + Len(log) = last
          BY <4>k, <4>7, <1>0, <1>2, SMTT(30)
        <4>9. ASSUME NEW i \in 1..Len(log)
              PROVE  log[i] = leaderLogs[u][n + i]
          <5>1. n + i \in cut + 1 .. last /\ (n + i) - cut = k + i
            <6>1. i \in Nat /\ i >= 1 /\ i <= Len(log) /\ Len(log) \in Nat
              BY <4>7
            <6> HIDE DEF cut, last
            <6> QED
              BY <6>1, <4>k, <4>1, <4>8, <1>0, <1>2
          <5>2. EntryAt(s.Log, n + i) = s.Log[k + i]
            <6> DEFINE j == n + i
            <6>1. j \in cut + 1 .. last /\ j - cut = k + i
              BY <5>1, Zenon
            <6> HIDE DEF cut, last, j
            <6>2. EntryAt(s.Log, j) = s.Log[j - cut]
              BY <6>1, <1>2
            <6>3. EntryAt(s.Log, j) = s.Log[k + i]
              BY <6>1, <6>2
            <6> QED
              BY <6>3 DEF j
          <5>3. log[i] = s.Log[k + i]
            BY <4>7
          <5> QED
            BY <5>1, <5>2, <5>3, <2>2
        <4> QED
          BY <4>3, <4>7, <4>8, <4>9, <2>2
      <3>2. CASE ~matches
        <4>1. log = << >> /\ << >> \in Seq(Entry) /\ Len(<< >>) = 0
          BY <3>2
        <4> HIDE DEF log
        <4>2. \A i \in 1..n : leaderLogs[t][i] = committed[i]
          BY <1>0, CommittedMatch DEF SameUpTo
        <4>3. n + Len(log) <= Len(leaderLogs[t]) /\ \A i \in 1..Len(log) : log[i] = leaderLogs[t][n + i]
          BY <4>1, <1>0
        <4> QED
          BY <4>1, <4>2, <4>3
      <3> HIDE DEF log, matches
      <3> QED
        BY <3>1, <3>2
    <2> HIDE DEF log, matches
    <2>7. /\ s2 \in ReplicaState /\ s2.Log = log
          /\ s2.KnownGlobalCommitIndex = n /\ s2.AppliedIndex = n
          /\ s2.Results = results /\ s2.StateMachine = machine
          /\ s2.SnapshotLastIndex = n /\ s2.SnapshotLastTerm = committed[n].term
          /\ s2.SnapshotLastRequestID = committed[n].request
      <3> DEFINE R == Request \cup {None}
                 D == Decision \cup {NoDecision}
                 Q == Seq(Entry)
                 RS == [GlobalTerm : Nat, Log : Q, DomainQuorumIndex : [Domain -> Nat],
                        KnownGlobalCommitIndex : Nat, AppliedIndex : Nat, Results : [Request -> D],
                        StateMachine : [Key -> R], SnapshotLastIndex : Nat, SnapshotLastTerm : Nat,
                        SnapshotLastRequestID : R]
                 ct == committed[n].term
                 cr == committed[n].request
      <3>1. s \in RS
        BY <1>1 DEF ReplicaState
      <3>2. machine \in [Key -> R] /\ results \in [Request -> D]
        BY <1>0, EffectsTyped
      <3>3. log \in Q /\ n \in Nat /\ ct \in Nat /\ cr \in R
        BY <1>0, <2>6 DEF Entry
      <3> HIDE DEF R, D, Q, machine, results, ct, cr
      <3>4. /\ [s EXCEPT !.Log = log, !.SnapshotLastIndex = n, !.SnapshotLastTerm = ct,
                         !.SnapshotLastRequestID = cr, !.StateMachine = machine, !.Results = results,
                         !.AppliedIndex = n, !.KnownGlobalCommitIndex = n] = s2
        BY DEF ct, cr
      <3>5. /\ s2 \in RS /\ s2.Log = log
            /\ s2.KnownGlobalCommitIndex = n /\ s2.AppliedIndex = n
            /\ s2.Results = results /\ s2.StateMachine = machine
            /\ s2.SnapshotLastIndex = n /\ s2.SnapshotLastTerm = ct
            /\ s2.SnapshotLastRequestID = cr
        BY <3>1, <3>2, <3>3, <3>4, ZenonT(60)
      <3> HIDE DEF s2
      <3> QED
        BY <3>5 DEF ReplicaState, R, D, Q, ct, cr
    <2> HIDE DEF s2
    <2>8. LastLogIndex(s2) = n + Len(log) /\ Len(log) \in Nat
      BY <2>6, <2>7 DEF LastLogIndex
    <2>9. Good(s2)
      <3>1. n <= LastLogIndex(s2) /\ LastLogIndex(s2) <= Len(leaderLogs[v]) /\ n <= Len(committed) /\ n <= n
        BY <1>0, <2>6, <2>8
      <3> QED
        BY <2>6, <2>7, <3>1, MakeGood
    <2>10. Good(rollbackQuorumAbove(s2, n)) /\ rollbackQuorumAbove(s2, n).AppliedIndex = n
      <3>1. rollbackQuorumAbove(s2, n) \in ReplicaState /\ SameReplica(s2, rollbackQuorumAbove(s2, n))
        BY <1>0, <2>7, MarksOnly
      <3> QED
        BY <2>7, <2>9, <3>1, SameReplicaGood DEF SameReplica
    <2> HIDE DEF snap
    <2> QED
      BY <1>0, <1>2, <2>1, <2>5, <2>7, <2>9, <2>10
  <1> QED
    BY <1>4, <1>5

-----------------------------------------------------------------------------
(* The steps of the node, and the theorems.                                *)

\* persistLocked: memory takes the new state, the disk that or nothing.
LEMMA PersistGood ==
    ASSUME ReplicaInv, NEW s, Good(s), s.AppliedIndex >= state.AppliedIndex,
           NEW save, persistLocked(s, save)
    PROVE  /\ StateInv(state', leaderLogs, committed) /\ StateInv(disk', leaderLogs, committed)
           /\ state'.AppliedIndex >= state.AppliedIndex /\ disk'.AppliedIndex >= disk.AppliedIndex
           /\ disk'.AppliedIndex <= state'.AppliedIndex
  <1>1. state' = s /\ (disk' = s \/ disk' = disk)
    BY DEF persistLocked
  <1>2. Leaders /\ Good(state) /\ Good(disk) /\ disk.AppliedIndex <= state.AppliedIndex
    BY DEF ReplicaInv, Leaders, Good
  <1>3. state \in ReplicaState /\ disk \in ReplicaState /\ s \in ReplicaState
    BY <1>2, GoodState
  <1>4. state.AppliedIndex \in Nat /\ disk.AppliedIndex \in Nat /\ s.AppliedIndex \in Nat
    BY <1>3 DEF ReplicaState
  <1>5. StateInv(s, leaderLogs, committed) /\ StateInv(disk, leaderLogs, committed)
    BY <1>2 DEF Good
  <1> QED
    BY <1>1, <1>2, <1>4, <1>5

\* A commit position that a leader may tell of is an entry of the committed log and of its
\* own.
LEMMA CommitsAreCommitted ==
    ASSUME Leaders, NEW t \in Terms, NEW c \in CommitsOf(t)
    PROVE  \E n \in 1..Len(committed) :
              /\ c = committed[n] /\ n <= Len(leaderLogs[t]) /\ leaderLogs[t][n] = committed[n]
              /\ c \in Entry
  <1>1. PICK n \in 1..Len(committed) : c = committed[n] /\ c \in Entry
    BY LeaderLogsTyped DEF CommitsOf, Leaders
  <1>2. c.index = n
    BY <1>1, CommittedOnce
  <1> QED
    BY <1>1, <1>2 DEF CommitsOf

\* Every step of the node leaves the invariant, and only a restart sets the applied prefix
\* back, to the saved one.
LEMMA NodeStep ==
    ASSUME ReplicaInv, Next,
           ~(\/ NewLeader
             \/ \E t \in Terms : \E r \in Request : LeaderAppends(t, r)
             \/ \E n \in 1..MaxIndex : LeaderCommits(n))
    PROVE  /\ leaderLogs' = leaderLogs /\ committed' = committed
           /\ fanouts' \subseteq Entry
           /\ StateInv(state', leaderLogs, committed) /\ StateInv(disk', leaderLogs, committed)
           /\ disk'.AppliedIndex <= state'.AppliedIndex
           /\ disk'.AppliedIndex >= disk.AppliedIndex
           /\ state'.AppliedIndex >= state.AppliedIndex \/ Restart
  <1> DEFINE Goal == /\ leaderLogs' = leaderLogs /\ committed' = committed
                     /\ fanouts' \subseteq Entry
                     /\ StateInv(state', leaderLogs, committed) /\ StateInv(disk', leaderLogs, committed)
                     /\ disk'.AppliedIndex <= state'.AppliedIndex
                     /\ disk'.AppliedIndex >= disk.AppliedIndex
                     /\ state'.AppliedIndex >= state.AppliedIndex \/ Restart
  <1>1. /\ Leaders /\ Good(state) /\ Good(disk) /\ disk.AppliedIndex <= state.AppliedIndex
        /\ fanouts \subseteq Entry
    BY DEF ReplicaInv, Leaders, Good
  <1>2. state \in ReplicaState /\ disk \in ReplicaState
    BY <1>1, GoodState
  <1>3. state.AppliedIndex \in Nat /\ disk.AppliedIndex \in Nat
    BY <1>2 DEF ReplicaState
  <1>4. ASSUME NEW s, Good(s), s.AppliedIndex >= state.AppliedIndex, NEW save, persistLocked(s, save),
               leaderLogs' = leaderLogs, committed' = committed, fanouts' \subseteq Entry
        PROVE  Goal
    BY <1>4, PersistGood
  <1>5. state.AppliedIndex >= state.AppliedIndex
    BY <1>3
  <1>6. \A t \in Terms : \A i \in DOMAIN leaderLogs[t] :
          /\ i \in 1..Len(leaderLogs[t]) /\ leaderLogs[t][i] \in Entry
    BY <1>1, LeaderLogsTyped
  <1> HIDE DEF Goal
  <1>7. ASSUME NEW t \in Terms, NEW i \in DOMAIN leaderLogs[t], NEW save, Replicate(t, i, save)
        PROVE  Goal
    <2> DEFINE e == leaderLogs[t][i]
               outcome == appendOutcome(state, e, PrevLog(leaderLogs[t], i))
               s == IF outcome = "accepted" THEN appendEntryChecked(state, e) ELSE state
    <2>1. persistLocked(s, save) /\ leaderLogs' = leaderLogs /\ committed' = committed /\ fanouts' = fanouts
      BY <1>7 DEF Replicate
    <2>2. CASE outcome = "accepted"
      <3>1. Good(appendEntryChecked(state, e)) /\ appendEntryChecked(state, e).AppliedIndex = state.AppliedIndex
        BY <1>1, <1>6, <2>2, AppendGood
      <3>2. persistLocked(appendEntryChecked(state, e), save)
        BY <2>1, <2>2
      <3> HIDE DEF e
      <3> QED
        BY <1>1, <1>4, <1>5, <2>1, <3>1, <3>2
    <2>3. CASE outcome # "accepted"
      <3>1. persistLocked(state, save)
        BY <2>1, <2>3
      <3> QED
        BY <1>1, <1>4, <1>5, <2>1, <3>1
    <2> QED
      BY <2>2, <2>3
  <1>8. ASSUME NEW t \in Terms, NEW i \in DOMAIN leaderLogs[t], ReplicateFanout(t, i)
        PROVE  Goal
    <2> DEFINE e == leaderLogs[t][i]
               s == appendEntryChecked(state, e)
    <2>1. /\ state' = s /\ disk' = disk /\ leaderLogs' = leaderLogs /\ committed' = committed
          /\ fanouts' = fanouts \cup {e} /\ e \in Entry
      BY <1>6, <1>8 DEF ReplicateFanout
    <2>2. Good(s) /\ s.AppliedIndex = state.AppliedIndex
      BY <1>1, <1>6, <1>8, AppendGood DEF ReplicateFanout
    <2> HIDE DEF s, e
    <2>3. StateInv(s, leaderLogs, committed) /\ StateInv(disk, leaderLogs, committed)
      BY <1>1, <2>2 DEF Good
    <2>4. fanouts' \subseteq Entry
      BY <1>1, <2>1
    <2>5. /\ disk'.AppliedIndex <= state'.AppliedIndex /\ disk'.AppliedIndex >= disk.AppliedIndex
          /\ state'.AppliedIndex >= state.AppliedIndex
      BY <1>1, <1>3, <2>1, <2>2
    <2> QED
      BY <2>1, <2>3, <2>4, <2>5 DEF Goal
  <1>9. ASSUME NEW e \in fanouts, NEW quorum \in BOOLEAN, NEW save, FinishFanout(e, quorum, save)
        PROVE  Goal
    <2> DEFINE raised == RaiseQuorum(state, home, e.index)
    <2>1. /\ leaderLogs' = leaderLogs /\ committed' = committed /\ fanouts' = fanouts \ {e}
          /\ persistLocked(raised, save) \/ persistLocked(state, save)
      BY <1>9 DEF FinishFanout
    <2>2. e.index \in Nat
      BY <1>1 DEF Entry
    <2>3. raised \in ReplicaState /\ SameReplica(state, raised)
      BY <1>2, <2>2, MarksOnly, ReplicaAssumption
    <2> HIDE DEF raised
    <2>4. Good(raised) /\ raised.AppliedIndex >= state.AppliedIndex
      BY <1>1, <1>5, <2>3, SameReplicaGood DEF SameReplica
    <2>5. fanouts' \subseteq Entry
      BY <1>1, <2>1
    <2> QED
      BY <1>1, <1>4, <1>5, <2>1, <2>4, <2>5
  <1>10. ASSUME NEW i \in 1..MaxIndex, NEW save, reconfirmDomainQuorum(i, save)
         PROVE  Goal
    <2> DEFINE raised == RaiseQuorum(state, home, i)
    <2>1. /\ leaderLogs' = leaderLogs /\ committed' = committed /\ fanouts' = fanouts
          /\ persistLocked(raised, save)
      BY <1>10 DEF reconfirmDomainQuorum
    <2>2. i \in Nat
      BY ReplicaAssumption
    <2>3. raised \in ReplicaState /\ SameReplica(state, raised)
      BY <1>2, <2>2, MarksOnly, ReplicaAssumption
    <2> HIDE DEF raised
    <2>4. Good(raised) /\ raised.AppliedIndex >= state.AppliedIndex
      BY <1>1, <1>5, <2>3, SameReplicaGood DEF SameReplica
    <2> QED
      BY <1>1, <1>4, <2>1, <2>4
  <1>11. ASSUME NEW t \in Terms, NEW c \in CommitsOf(t), NEW save, Commit(t, c, save)
         PROVE  Goal
    <2>1. /\ leaderLogs' = leaderLogs /\ committed' = committed /\ fanouts' = fanouts
          /\ persistLocked(advanceCommitLocked(state, c), save)
      BY <1>11 DEF Commit
    <2>2. \E n \in 1..Len(committed) : c = committed[n]
      BY <1>1, CommitsAreCommitted
    <2>3. /\ Good(advanceCommitLocked(state, c))
          /\ advanceCommitLocked(state, c).AppliedIndex >= state.AppliedIndex
      BY <1>1, <2>2, AdvanceGood
    <2> QED
      BY <1>1, <1>4, <2>1, <2>3
  <1>12. ASSUME NEW t \in Terms, NEW c \in CommitsOf(t) \cup {NoCommit}, NEW save,
                HeartbeatGlobal(t, c, save)
         PROVE  Goal
    <2> DEFINE s == [state EXCEPT !.GlobalTerm = t]
    <2>1. /\ leaderLogs' = leaderLogs /\ committed' = committed /\ fanouts' = fanouts
          /\ persistLocked(advanceCommitLocked(s, c), save)
      BY <1>12 DEF HeartbeatGlobal
    <2>2. c = NoCommit \/ \E n \in 1..Len(committed) : c = committed[n]
      BY <1>1, CommitsAreCommitted
    <2>3. t \in Nat
      BY <1>1, LeaderLogsTyped
    <2>4. s \in ReplicaState /\ SameReplica(state, s)
      BY <1>2, <2>3, MarksOnly
    <2> HIDE DEF s
    <2>5. Good(s) /\ s.AppliedIndex = state.AppliedIndex
      BY <1>1, <2>4, SameReplicaGood DEF SameReplica
    <2>6. /\ Good(advanceCommitLocked(s, c))
          /\ advanceCommitLocked(s, c).AppliedIndex >= state.AppliedIndex
      BY <1>1, <2>2, <2>5, AdvanceGood
    <2> QED
      BY <1>1, <1>4, <2>1, <2>6
  <1>13. ASSUME NEW t \in Terms, NEW c \in CommitsOf(t), NEW save, InstallSnapshot(t, c, save)
         PROVE  Goal
    <2>1. /\ leaderLogs' = leaderLogs /\ committed' = committed
          /\ fanouts' \subseteq fanouts \cup {c}
          /\ persistLocked(installSnapshotState(state, SnapshotAt(c)), save)
      <3>1. fanouts' = fanouts \/ fanouts' = fanouts \cup {c}
        BY <1>13 DEF InstallSnapshot
      <3> QED
        BY <1>13, <3>1 DEF InstallSnapshot
    <2>2. PICK n \in 1..Len(committed) :
            /\ c = committed[n] /\ n <= Len(leaderLogs[t]) /\ leaderLogs[t][n] = committed[n]
            /\ c \in Entry
      BY <1>1, CommitsAreCommitted
    <2>3. /\ Good(installSnapshotState(state, SnapshotAt(c)))
          /\ installSnapshotState(state, SnapshotAt(c)).AppliedIndex >= state.AppliedIndex
      BY <1>1, <2>2, InstallGood
    <2>4. fanouts' \subseteq Entry
      BY <1>1, <2>1, <2>2
    <2> QED
      BY <1>4, <2>1, <2>3, <2>4
  <1>14. ASSUME Tick
         PROVE  Goal
    BY <1>1, <1>4, <1>5, <1>14 DEF Tick
  <1>15. ASSUME Restart
         PROVE  Goal
    <2>1. /\ state' = disk /\ disk' = disk /\ fanouts' = {} /\ leaderLogs' = leaderLogs
          /\ committed' = committed
      BY <1>15 DEF Restart
    <2>2. StateInv(disk, leaderLogs, committed)
      BY <1>1 DEF Good
    <2> QED
      BY <1>3, <1>15, <2>1, <2>2 DEF Goal
  <1>16. Goal
    BY <1>7, <1>8, <1>9, <1>10, <1>11, <1>12, <1>13, <1>14, <1>15 DEF Next
  <1> QED
    BY <1>16 DEF Goal

\* The invariant holds of a node that has just been created.
LEMMA ReplicaInitially ==
    ASSUME Init
    PROVE  ReplicaInv
  <1>1. /\ leaderLogs = << << >> >> /\ committed = << >> /\ state = NewState /\ disk = NewState
        /\ fanouts = {}
    BY DEF Init
  <1>2. /\ leaderLogs \in Seq(Seq(Entry)) /\ committed \in Seq(Entry) /\ Len(leaderLogs) = 1
        /\ Terms = {1} /\ leaderLogs[1] = << >> /\ Len(committed) = 0 /\ leaderLogs # << >>
        /\ DOMAIN leaderLogs[1] = {} /\ Len(leaderLogs[1]) = 0
    BY <1>1 DEF Terms
  <1>3. LeadersInv
    BY <1>2 DEF LeadersInv, SameUpTo
  <1>4. /\ NewState.Log = << >> /\ NewState.SnapshotLastIndex = 0 /\ NewState.AppliedIndex = 0
        /\ NewState.KnownGlobalCommitIndex = 0
        /\ NewState.StateMachine = [k \in Key |-> None]
        /\ NewState.Results = [r \in Request |-> NoDecision]
    BY DEF NewState
  <1>5. NewState \in ReplicaState
    BY DEF NewState, ReplicaState
  <1>6. StateAfter(committed, 0) = [k \in Key |-> None]
    <2>1. \A k : {i \in 1..0 : KeyOf[committed[i].request] = k} = {}
      OBVIOUS
    <2> QED
      BY <2>1 DEF StateAfter
  <1>7. ResultsAfter(committed, 0) = [r \in Request |-> NoDecision]
    <2>1. \A r : {i \in 1..0 : committed[i].request = r} = {}
      OBVIOUS
    <2> QED
      BY <2>1 DEF ResultsAfter
  <1>8. Leaders
    BY <1>2, <1>3 DEF Leaders
  <1>9. LastLogIndex(NewState) = 0 /\ Len(NewState.Log) = 0
    BY <1>4 DEF LastLogIndex
  <1> HIDE DEF NewState
  <1>10. Good(NewState)
    <2>1. 1 \in Terms /\ LastLogIndex(NewState) <= Len(leaderLogs[1]) /\ 0 <= Len(committed)
      BY <1>2, <1>9
    <2>2. /\ \A i \in 1..NewState.AppliedIndex : leaderLogs[1][i] = committed[i]
          /\ \A i \in 1..Len(NewState.Log) : NewState.Log[i] = leaderLogs[1][NewState.SnapshotLastIndex + i]
      BY <1>4, <1>9
    <2> QED
      BY <1>4, <1>5, <1>6, <1>7, <1>8, <1>9, <2>1, <2>2, MakeGood
  <1> QED
    BY <1>1, <1>2, <1>3, <1>4, <1>10 DEF ReplicaInv, Good

\* Every step leaves the invariant; the leaders' change nothing at the node.
LEMMA ReplicaStep ==
    ASSUME ReplicaInv, [Next]_vars
    PROVE  ReplicaInv'
  <1>1. CASE UNCHANGED vars
    BY <1>1 DEF ReplicaInv, LeadersInv, Terms, vars
  <1> DEFINE Leading == \/ NewLeader
                        \/ \E t \in Terms : \E r \in Request : LeaderAppends(t, r)
                        \/ \E n \in 1..MaxIndex : LeaderCommits(n)
  <1>2. ASSUME Leading
        PROVE  ReplicaInv'
    <2>1. Leaders
      BY DEF ReplicaInv, Leaders
    <2>2. /\ Leaders'
          /\ SameUpTo(committed, committed', Len(committed))
          /\ \A t \in Terms : t \in Terms' /\ SameUpTo(leaderLogs[t], leaderLogs'[t], Len(leaderLogs[t]))
      BY <1>2, <2>1, LeadersStep
    <2>3. UNCHANGED <<state, disk, fanouts>>
      BY <1>2 DEF NewLeader, LeaderAppends, LeaderCommits
    <2> HIDE DEF Leading
    <2>4. /\ leaderLogs \in Seq(Seq(Entry)) /\ leaderLogs' \in Seq(Seq(Entry))
          /\ committed \in Seq(Entry) /\ committed' \in Seq(Entry)
          /\ StateInv(state, leaderLogs, committed) /\ StateInv(disk, leaderLogs, committed)
      BY <2>2 DEF ReplicaInv, Leaders
    <2>5. \A t \in DOMAIN leaderLogs : /\ t \in DOMAIN leaderLogs'
                                       /\ SameUpTo(leaderLogs[t], leaderLogs'[t], Len(leaderLogs[t]))
      BY <2>2 DEF Terms
    <2>6. StateInv(state, leaderLogs', committed') /\ StateInv(disk, leaderLogs', committed')
      BY <2>2, <2>4, <2>5, StateStays
    <2>7. StateInv(state', leaderLogs', committed') /\ StateInv(disk', leaderLogs', committed')
      BY <2>3, <2>6
    <2>8. LeadersInv'
      BY <2>2 DEF Leaders
    <2> QED
      BY <2>3, <2>4, <2>7, <2>8 DEF ReplicaInv
  <1>3. ASSUME Next, ~Leading
        PROVE  ReplicaInv'
    <2>1. /\ leaderLogs' = leaderLogs /\ committed' = committed
          /\ fanouts' \subseteq Entry
          /\ StateInv(state', leaderLogs, committed) /\ StateInv(disk', leaderLogs, committed)
          /\ disk'.AppliedIndex <= state'.AppliedIndex
      BY <1>3, NodeStep
    <2>2. StateInv(state', leaderLogs', committed') /\ StateInv(disk', leaderLogs', committed')
      BY <2>1
    <2>3. LeadersInv'
      BY <2>1 DEF ReplicaInv, LeadersInv, Terms
    <2>4. leaderLogs' \in Seq(Seq(Entry)) /\ committed' \in Seq(Entry)
      BY <2>1 DEF ReplicaInv
    <2> QED
      BY <2>1, <2>2, <2>3, <2>4 DEF ReplicaInv
  <1> HIDE DEF Leading
  <1> QED
    BY <1>1, <1>2, <1>3

\* The leaders' logs match each other, and the node, in memory and on disk, follows one of
\* them and has applied a prefix of what is committed, whatever arrives in whatever order.
THEOREM ReplicaInvariant == Spec => []ReplicaInv
  <1>1. Init => ReplicaInv
    BY ReplicaInitially
  <1>2. ReplicaInv /\ [Next]_vars => ReplicaInv'
    BY ReplicaStep
  <1> QED
    BY <1>1, <1>2, PTL DEF Spec

\* Type correctness: the fields have their Go types and the log has no gap.
THEOREM ReplicaTypeCorrect == Spec => []ReplicaTypeOK
  <1>1. ReplicaInv => ReplicaTypeOK
    BY DEF ReplicaInv, ReplicaTypeOK, StateInv
  <1> QED
    BY <1>1, ReplicaInvariant, PTL

\* State machine safety: what a node has applied, in memory or on disk, is the effect of a
\* prefix of the committed log.
THEOREM OnlyCommittedIsApplied == Spec => []AppliedIsCommitted
  <1>1. ReplicaInv => AppliedIsCommitted
    <2> SUFFICES ASSUME ReplicaInv, NEW s \in {state, disk}
                 PROVE  /\ s.SnapshotLastIndex <= s.AppliedIndex
                        /\ s.KnownGlobalCommitIndex = s.AppliedIndex
                        /\ s.AppliedIndex <= Len(committed)
                        /\ s.StateMachine = StateAfter(committed, s.AppliedIndex)
                        /\ s.Results = ResultsAfter(committed, s.AppliedIndex)
                        /\ s.SnapshotLastIndex > 0 =>
                             /\ s.SnapshotLastTerm = committed[s.SnapshotLastIndex].term
                             /\ s.SnapshotLastRequestID = committed[s.SnapshotLastIndex].request
      BY DEF AppliedIsCommitted
    <2>1. Leaders /\ Good(s)
      BY DEF ReplicaInv, Leaders, Good
    <2> QED
      BY <2>1, GoodState
  <1> QED
    BY <1>1, ReplicaInvariant, PTL

\* Log matching across compaction: the log of a node, with its compacted prefix, is a prefix
\* of some leader's.
THEOREM LogsMatch == Spec => []LogMatchesALeader
  <1>1. ReplicaInv => LogMatchesALeader
    <2> SUFFICES ASSUME ReplicaInv, NEW s \in {state, disk}
                 PROVE  /\ LastLogIndex(s) >= s.AppliedIndex
                        /\ \E t \in Terms :
                             /\ LastLogIndex(s) <= Len(leaderLogs[t])
                             /\ SubSeq(leaderLogs[t], 1, s.AppliedIndex) = SubSeq(committed, 1, s.AppliedIndex)
                             /\ s.Log = SubSeq(leaderLogs[t], s.SnapshotLastIndex + 1, LastLogIndex(s))
      BY DEF LogMatchesALeader
    <2> DEFINE a == s.AppliedIndex
               cut == s.SnapshotLastIndex
               last == LastLogIndex(s)
    <2>1. Leaders /\ Good(s) /\ committed \in Seq(Entry)
      BY DEF ReplicaInv, Leaders, Good
    <2>2. /\ s \in ReplicaState
          /\ \A i \in DOMAIN s.Log : s.Log[i].index = cut + i
          /\ cut <= a /\ a <= last /\ a <= Len(committed)
      BY <2>1, GoodState
    <2>3. PICK t \in Terms :
            /\ last <= Len(leaderLogs[t])
            /\ \A i \in 1..a : leaderLogs[t][i] = committed[i]
            /\ \A i \in cut + 1 .. last : EntryAt(s.Log, i) = leaderLogs[t][i]
      BY <2>1, GoodState
    <2>4. /\ s.Log \in Seq(Entry) /\ Len(s.Log) \in Nat /\ cut \in Nat /\ a \in Nat /\ last \in Nat
          /\ last = cut + Len(s.Log)
          /\ \A i \in cut + 1 .. last : EntryAt(s.Log, i) = s.Log[i - cut]
      BY <2>2, Window DEF LastLogIndex
    <2>5. leaderLogs[t] \in Seq(Entry) /\ Len(leaderLogs[t]) \in Nat /\ Len(committed) \in Nat
      BY <2>1, LeaderLogsTyped
    <2>6. SubSeq(leaderLogs[t], 1, a) = SubSeq(committed, 1, a)
      <3> DEFINE p == SubSeq(leaderLogs[t], 1, a)
                 q == SubSeq(committed, 1, a)
      <3>1. a <= Len(leaderLogs[t]) /\ a <= Len(committed)
        BY <2>2, <2>3, <2>4, <2>5
      <3> HIDE DEF a
      <3>2. p \in Seq(Entry) /\ Len(p) = a /\ \A i \in 1..a : p[i] = leaderLogs[t][i]
        BY <2>4, <2>5, <3>1, CutLog
      <3>3. q \in Seq(Entry) /\ Len(q) = a /\ \A i \in 1..a : q[i] = committed[i]
        BY <2>1, <2>4, <3>1, CutLog
      <3> HIDE DEF p, q
      <3>4. p = q
        BY <2>3, <3>2, <3>3, SeqEqual
      <3> QED
        BY <3>4 DEF p, q
    <2>7. s.Log = SubSeq(leaderLogs[t], cut + 1, last)
      <3> DEFINE p == SubSeq(leaderLogs[t], cut + 1, last)
                 n == Len(s.Log)
      <3> HIDE DEF cut, last, n
      <3>0. n \in Nat /\ last = cut + n
        BY <2>4 DEF n
      <3>1. \A i \in cut + 1 .. last : leaderLogs[t][i] \in Entry
        BY <2>3, <2>4, <2>5
      <3>2. cut + 1 \in Int /\ last \in Int
        BY <2>4
      <3>3. /\ p \in Seq(Entry) /\ Len(p) = IF cut + 1 <= last THEN last - (cut + 1) + 1 ELSE 0
            /\ \A i \in 1..last - (cut + 1) + 1 : p[i] = leaderLogs[t][cut + 1 + i - 1]
        BY <3>1, <3>2, SubSeqProperties
      <3> HIDE DEF p
      <3>4. Len(p) = n
        BY <3>0, <3>3, <2>4
      <3>5. ASSUME NEW i \in 1..n
            PROVE  p[i] = s.Log[i]
        <4>1. /\ i \in 1..last - (cut + 1) + 1 /\ cut + 1 + i - 1 = cut + i
              /\ cut + i \in cut + 1 .. last /\ cut + i - cut = i
          BY <3>0, <2>4
        <4>2. p[i] = leaderLogs[t][cut + i]
          BY <4>1, <3>3
        <4>3. EntryAt(s.Log, cut + i) = s.Log[i]
          <5>1. EntryAt(s.Log, cut + i) = s.Log[cut + i - cut]
            BY <4>1, <2>4
          <5> QED
            BY <4>1, <5>1
        <4> QED
          BY <4>1, <4>2, <4>3, <2>3
      <3>6. s.Log = p
        BY <2>4, <3>3, <3>4, <3>5, SeqEqual DEF n
      <3> QED
        BY <3>6 DEF p
    <2> QED
      BY <2>2, <2>3, <2>4, <2>6, <2>7
  <1> QED
    BY <1>1, ReplicaInvariant, PTL

\* The applied prefix goes back in a restart only, the saved one and the saved decisions
\* never do.
THEOREM AppliedPrefixGrows == Spec => AppliedNeverGoesBack
  <1> DEFINE Grows == /\ state'.AppliedIndex >= state.AppliedIndex \/ Restart
                      /\ disk'.AppliedIndex >= disk.AppliedIndex
                      /\ \A r \in Request : disk.Results[r] # NoDecision => disk'.Results[r] = disk.Results[r]
             Leading == \/ NewLeader
                        \/ \E t \in Terms : \E r \in Request : LeaderAppends(t, r)
                        \/ \E n \in 1..MaxIndex : LeaderCommits(n)
  <1>1. ASSUME ReplicaInv, [Next]_vars
        PROVE  [Grows]_vars
    <2>1. Leaders /\ Good(state) /\ Good(disk)
      BY <1>1 DEF ReplicaInv, Leaders, Good
    <2>2. state \in ReplicaState /\ disk \in ReplicaState /\ disk.AppliedIndex <= Len(committed)
          /\ disk.Results = ResultsAfter(committed, disk.AppliedIndex)
      BY <2>1, GoodState
    <2>3. state.AppliedIndex \in Nat /\ disk.AppliedIndex \in Nat
      BY <2>2 DEF ReplicaState
    <2>4. ASSUME Leading
          PROVE  Grows
      <3>1. UNCHANGED <<state, disk>>
        BY <2>4 DEF NewLeader, LeaderAppends, LeaderCommits
      <3> QED
        BY <2>3, <3>1
    <2>5. ASSUME Next, ~Leading
          PROVE  Grows
      <3>1. /\ committed' = committed /\ StateInv(disk', leaderLogs, committed)
            /\ disk'.AppliedIndex >= disk.AppliedIndex
            /\ state'.AppliedIndex >= state.AppliedIndex \/ Restart
        BY <1>1, <2>5, NodeStep
      <3>2. Good(disk')
        BY <3>1 DEF Good
      <3>3. /\ disk' \in ReplicaState /\ disk'.AppliedIndex <= Len(committed)
            /\ disk'.Results = ResultsAfter(committed, disk'.AppliedIndex)
        BY <2>1, <3>2, GoodState
      <3>4. disk'.AppliedIndex \in Nat
        BY <3>3 DEF ReplicaState
      <3> DEFINE a == disk.AppliedIndex
                 n == disk'.AppliedIndex
      <3>5. a \in Nat /\ n \in Nat /\ a <= n /\ n <= Len(committed)
        BY <2>3, <3>1, <3>3, <3>4
      <3> HIDE DEF a, n
      <3>6. \A r \in Request : ResultsAfter(committed, a)[r] # NoDecision =>
                                 ResultsAfter(committed, n)[r] = ResultsAfter(committed, a)[r]
        BY <2>1, <3>5, ResultsMerge
      <3>7. \A r \in Request : disk.Results[r] # NoDecision => disk'.Results[r] = disk.Results[r]
        BY <2>2, <3>3, <3>6 DEF a, n
      <3> QED
        BY <3>1, <3>7
    <2> HIDE DEF Grows, Leading
    <2> QED
      BY <1>1, <2>4, <2>5
  <1>2. [][Grows]_vars => AppliedNeverGoesBack
    BY PTL DEF AppliedNeverGoesBack
  <1>3. Spec => [][Grows]_vars
    <2> HIDE DEF Grows
    <2> QED
      BY <1>1, ReplicaInvariant, PTL DEF Spec
  <1> QED
    BY <1>2, <1>3, PTL
=============================================================================
