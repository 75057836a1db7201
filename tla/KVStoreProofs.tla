--------------------------- MODULE KVStoreProofs ---------------------------
(***************************************************************************)
(* Proofs about KVStore: the keys of the engine are always the layout of   *)
(* one whole state, the bookkeeping of Save is what is really on disk, and *)
(* the store that writes differences implements the atomic one.            *)
(***************************************************************************)
EXTENDS KVStore, LogProofs, FiniteSetTheorems

-----------------------------------------------------------------------------
(* The keys.                                                               *)

\* Quotients: by a power of the base and the next, and of two numbers in order.
LEMMA Quotients ==
    ASSUME NEW x \in Nat, NEW w \in Nat \ {0}, NEW b \in Nat \ {0}
    PROVE  /\ x \div w \in Nat /\ x % w \in Nat
           /\ x \div 1 = x
           /\ x < w => x \div w = 0
           /\ x \div (b * w) = (x \div w) \div b
           /\ \A y \in Nat : x <= y => x \div w <= y \div w
           /\ \A y \in Nat : x < y /\ x \div w = y \div w => x % w < y % w
  <1>1. x \div w \in Nat /\ x % w \in Nat
    OBVIOUS
  <1>2. x \div 1 = x
    OBVIOUS
  <1>3. x < w => x \div w = 0
    OBVIOUS
  <1>4. x \div (b * w) = (x \div w) \div b
    OBVIOUS
  <1>5. ASSUME NEW y \in Nat, x <= y PROVE x \div w <= y \div w
    BY <1>5
  <1>6. ASSUME NEW y \in Nat, x < y, x \div w = y \div w PROVE x % w < y % w
    BY <1>6
  <1> QED
    BY <1>1, <1>2, <1>3, <1>4, <1>5, <1>6

\* The constants of the layout.
LEMMA Constants ==
    /\ Base \in Nat \ {0, 1} /\ Width \in Nat /\ MaxIndex \in Nat /\ MaxIndex < Base ^ Width
    /\ Base ^ 0 = 1
    /\ \A p \in 0..Width : Base ^ p \in Nat \ {0} /\ Base ^ (p + 1) = Base * Base ^ p
  BY StoreAssumption, PowerAssumption

\* Big-endian digits: the keys of two indices are in the order of the indices.
LEMMA KeysInOrder ==
    ASSUME NEW i \in 0..MaxIndex, NEW j \in 0..MaxIndex, i < j
    PROVE  Before(logKey(i), logKey(j))
  <1> DEFINE D(x, p) == x \div Base ^ p
             S == {p \in 0..Width : D(i, p) # D(j, p)}
             m == Max(S)
  <1>1. i \in Nat /\ j \in Nat /\ Width \in Nat /\ Base \in Nat \ {0}
    BY Constants
  <1>2. \A x \in Nat : \A p \in 0..Width : D(x, p) \in Nat
    BY Constants, Quotients
  <1>3. 0 \in S
    <2>1. D(i, 0) = i /\ D(j, 0) = j
      BY <1>1, Constants, Quotients
    <2> QED
      BY <1>1, <2>1
  <1>4. Width \notin S
    <2>1. Base ^ Width \in Nat \ {0} /\ i < Base ^ Width /\ j < Base ^ Width
      BY <1>1, Constants
    <2>2. D(i, Width) = 0 /\ D(j, Width) = 0
      <3> DEFINE w == Base ^ Width
      <3>1. w \in Nat \ {0} /\ i < w /\ j < w
        BY <2>1
      <3> HIDE DEF w
      <3>2. i \div w = 0 /\ j \div w = 0
        BY <1>1, <3>1
      <3> QED
        BY <3>2 DEF w
    <2> QED
      BY <2>2
  <1>5. m \in S /\ \A y \in S : m >= y
    <2>1. S \in SUBSET (0..Width) /\ S # {}
      BY <1>3
    <2> HIDE DEF S
    <2> QED
      BY <1>1, <2>1, MaxIsMember
  <1>6. m \in 0..Width /\ m # Width /\ D(i, m) # D(j, m)
    BY <1>4, <1>5
  <1> HIDE DEF m
  <1>7. m \in 0..Width - 1 /\ m + 1 \in 0..Width
    BY <1>1, <1>6
  <1>8. \A p \in m + 1 .. Width : D(i, p) = D(j, p)
    <2> SUFFICES ASSUME NEW p \in m + 1 .. Width, D(i, p) # D(j, p) PROVE FALSE
      OBVIOUS
    <2>1. p \in 0..Width /\ ~(m >= p)
      BY <1>1, <1>7
    <2> QED
      BY <1>5, <2>1
  <1> HIDE DEF S
  <1>9. D(i, m) < D(j, m)
    <2>1. Base ^ m \in Nat \ {0}
      BY <1>6, Constants
    <2>2. D(i, m) <= D(j, m)
      BY <1>1, <2>1, Quotients
    <2>3. D(i, m) \in Nat /\ D(j, m) \in Nat
      BY <1>1, <1>2, <1>6
    <2> HIDE DEF D
    <2> QED
      BY <1>6, <2>2, <2>3
  <1>10. D(i, m) \div Base = D(j, m) \div Base
    <2>1. Base ^ m \in Nat \ {0} /\ Base ^ (m + 1) = Base * Base ^ m
      BY <1>6, Constants
    <2>2. D(i, m + 1) = D(j, m + 1)
      BY <1>1, <1>7, <1>8
    <2>3. i \div (Base * Base ^ m) = (i \div Base ^ m) \div Base
      BY <1>1, <2>1, Quotients
    <2>4. j \div (Base * Base ^ m) = (j \div Base ^ m) \div Base
      BY <1>1, <2>1, Quotients
    <2> QED
      BY <2>1, <2>2, <2>3, <2>4
  <1>11. D(i, m) % Base < D(j, m) % Base
    <2>1. D(i, m) \in Nat /\ D(j, m) \in Nat
      BY <1>1, <1>2, <1>6
    <2> HIDE DEF D
    <2> QED
      BY <1>1, <1>9, <1>10, <2>1, Quotients
  <1> DEFINE p == Width - m
  <1>12. p \in 1..Width /\ Width - p = m
    BY <1>1, <1>7
  <1>13. \A q \in 1..p - 1 : q \in 1..Width /\ Width - q \in m + 1 .. Width
    BY <1>1, <1>7
  <1> HIDE DEF p
  <1>14. \A x \in {i, j} : \A q \in 1..Width : logKey(x)[2][q] = D(x, Width - q) % Base
    BY DEF logKey
  <1> HIDE DEF D
  <1>15. logKey(i)[2][p] < logKey(j)[2][p]
    BY <1>11, <1>12, <1>14
  <1>16. \A q \in 1..p - 1 : logKey(i)[2][q] = logKey(j)[2][q]
    BY <1>8, <1>13, <1>14
  <1> QED
    BY <1>12, <1>15, <1>16 DEF Before

\* The order of the keys of the log is that of the indices, and no two indices share a key.
LEMMA LogKeysApart ==
    ASSUME NEW i \in 0..MaxIndex, NEW j \in 0..MaxIndex
    PROVE  /\ Before(logKey(i), logKey(j)) <=> i < j
           /\ logKey(i) = logKey(j) => i = j
  <1>1. i \in Nat /\ j \in Nat /\ Width \in Nat /\ Base \in Nat \ {0}
    BY Constants
  <1>2. ASSUME NEW x \in Nat, NEW p \in 1..Width PROVE logKey(x)[2][p] \in Nat
    <2>1. Width - p \in 0..Width
      BY <1>1
    <2>2. Base ^ (Width - p) \in Nat \ {0}
      BY <2>1, Constants
    <2>3. x \div Base ^ (Width - p) \in Nat
      BY <2>2, Quotients
    <2>4. (x \div Base ^ (Width - p)) % Base \in Nat
      BY <1>1, <2>3, Quotients
    <2> QED
      BY <2>4 DEF logKey
  <1> DEFINE a == logKey(i)[2]
             b == logKey(j)[2]
  <1>3. \A p \in 1..Width : a[p] \in Nat /\ b[p] \in Nat
    BY <1>1, <1>2
  <1>4. ASSUME Before(logKey(i), logKey(j)), ~(i < j) PROVE FALSE
    <2>1. PICK p \in 1..Width : a[p] < b[p] /\ \A q \in 1..(p - 1) : a[q] = b[q]
      BY <1>4 DEF Before
    <2>2. CASE i = j
      BY <1>3, <2>1, <2>2
    <2>3. CASE i # j
      <3>1. j < i
        BY <1>1, <1>4, <2>3
      <3>2. PICK r \in 1..Width : b[r] < a[r] /\ \A q \in 1..(r - 1) : b[q] = a[q]
        BY <3>1, KeysInOrder DEF Before
      <3> HIDE DEF a, b
      <3>3. p < r \/ p = r \/ r < p
        BY <1>1
      <3>4. CASE p < r
        BY <1>1, <1>3, <2>1, <3>2, <3>4
      <3>5. CASE r < p
        BY <1>1, <1>3, <2>1, <3>2, <3>5
      <3>6. CASE p = r
        BY <1>1, <1>3, <2>1, <3>2, <3>6
      <3> QED
        BY <3>3, <3>4, <3>5, <3>6
    <2> QED
      BY <2>2, <2>3
  <1>5. ASSUME logKey(i) = logKey(j), i # j PROVE FALSE
    <2>1. i < j \/ j < i
      BY <1>1, <1>5
    <2>2. \E p \in 1..Width : a[p] < b[p] \/ b[p] < a[p]
      BY <2>1, KeysInOrder DEF Before
    <2>3. a = b
      BY <1>5
    <2> HIDE DEF a, b
    <2> QED
      BY <1>3, <2>2, <2>3
  <1> QED
    BY <1>4, <1>5, KeysInOrder

\* The prefix of a key tells what it holds, and the rest of it whose value it is.
LEMMA Prefixes ==
    /\ metaKey[1] = "meta"
    /\ \A i : logKey(i)[1] = "log"
    /\ \A k : smKey(k)[1] = "sm" /\ smKey(k)[2] = k
    /\ \A r : resKey(r)[1] = "res" /\ resKey(r)[2] = r
  BY DEF metaKey, logKey, smKey, resKey

-----------------------------------------------------------------------------
(* The log of a state.                                                     *)

\* A log that fits the keys: its entries lie at the indices after the snapshot, one each.
LEMMA StoredLog ==
    ASSUME NEW s, Storable(s)
    PROVE  LET cut == s.SnapshotLastIndex
               n == Len(s.Log)
           IN  /\ s \in ReplicaState /\ s.Log \in Seq(Entry)
               /\ cut \in Nat /\ n \in Nat /\ cut + n <= MaxIndex /\ LastLogIndex(s) = cut + n
               /\ DOMAIN s.Log = 1..n
               /\ \A i \in 1..n : s.Log[i] \in Entry /\ s.Log[i].index = cut + i
               /\ \A i \in 1..n : cut + i \in 1..MaxIndex /\ cut + i \in 0..MaxIndex
               /\ Range(s.Log) = {s.Log[i] : i \in 1..n}
               /\ \A e \in Range(s.Log) : e \in Entry /\ e.index \in 1..MaxIndex /\ e.index \in 0..MaxIndex
               /\ \A e \in Range(s.Log) : \A f \in Range(s.Log) : e.index = f.index => e = f
  <1> DEFINE cut == s.SnapshotLastIndex
             n == Len(s.Log)
  <1>1. s \in ReplicaState /\ LastLogIndex(s) <= MaxIndex
        /\ \A i \in DOMAIN s.Log : s.Log[i].index = cut + i
    BY DEF Storable, Windowed
  <1>2. s.Log \in Seq(Entry) /\ n \in Nat /\ DOMAIN s.Log = 1..n /\ cut \in Nat
    BY <1>1, Window
  <1>3. LastLogIndex(s) = cut + n
    BY DEF LastLogIndex
  <1>4. \A i \in 1..n : s.Log[i] \in Entry /\ s.Log[i].index = cut + i
    BY <1>1, <1>2
  <1>5. \A i \in 1..n : cut + i \in 1..MaxIndex /\ cut + i \in 0..MaxIndex
    BY <1>1, <1>2, <1>3, Constants
  <1>6. Range(s.Log) = {s.Log[i] : i \in 1..n}
    BY <1>2 DEF Range
  <1>7. \A e \in Range(s.Log) : \A f \in Range(s.Log) : e.index = f.index => e = f
    <2> SUFFICES ASSUME NEW i \in 1..n, NEW j \in 1..n, s.Log[i].index = s.Log[j].index
                 PROVE  i = j
      BY <1>6
    <2>1. cut + i = cut + j
      BY <1>4
    <2> QED
      BY <1>2, <2>1
  <1>8. \A e \in Range(s.Log) : e \in Entry /\ e.index \in 1..MaxIndex /\ e.index \in 0..MaxIndex
    BY <1>4, <1>5, <1>6
  <1> QED
    BY <1>1, <1>2, <1>3, <1>4, <1>5, <1>6, <1>7, <1>8

\* The value that a state gives to each of its keys.
LEMMA Values ==
    ASSUME NEW s, Storable(s)
    PROVE  /\ ValueOf(s, metaKey) = MetaOf(s)
           /\ \A e \in Range(s.Log) : ValueOf(s, logKey(e.index)) = e
           /\ \A k : ValueOf(s, smKey(k)) = s.StateMachine[k]
           /\ \A r : ValueOf(s, resKey(r)) = s.Results[r]
  <1>1. ValueOf(s, metaKey) = MetaOf(s)
    BY Prefixes DEF ValueOf
  <1>2. ASSUME NEW e \in Range(s.Log) PROVE ValueOf(s, logKey(e.index)) = e
    <2>1. \A f \in Range(s.Log) : f.index \in 0..MaxIndex
      BY StoredLog
    <2>2. \A f \in Range(s.Log) : logKey(f.index) = logKey(e.index) => f = e
      BY <2>1, LogKeysApart, StoredLog
    <2>3. (CHOOSE f \in Range(s.Log) : logKey(f.index) = logKey(e.index)) = e
      BY <2>2
    <2> QED
      BY <2>3, Prefixes DEF ValueOf
  <1>3. ASSUME NEW k PROVE ValueOf(s, smKey(k)) = s.StateMachine[k]
    BY Prefixes DEF ValueOf
  <1>4. ASSUME NEW r PROVE ValueOf(s, resKey(r)) = s.Results[r]
    BY Prefixes DEF ValueOf
  <1> QED
    BY <1>1, <1>2, <1>3, <1>4

\* The keys of a layout.
LayoutKeys(s) ==
    {metaKey} \cup {logKey(e.index) : e \in Range(s.Log)}
    \cup {smKey(k) : k \in {l \in Key : s.StateMachine[l] # None}}
    \cup {resKey(r) : r \in {q \in Request : s.Results[q] # NoDecision}}

\* The layout of a state, key by key.
LEMMA LayoutIs ==
    ASSUME NEW s
    PROVE  Layout(s) = [key \in LayoutKeys(s) |-> ValueOf(s, key)]
  BY DEF Layout, LayoutKeys

\* What a layout holds under each prefix.
LEMMA LayoutHolds ==
    ASSUME NEW s, Storable(s), NEW kv, kv = Layout(s)
    PROVE  /\ metaKey \in DOMAIN kv /\ kv[metaKey] = MetaOf(s)
           /\ LogKeys(kv) = {logKey(e.index) : e \in Range(s.Log)}
           /\ \A e \in Range(s.Log) : kv[logKey(e.index)] = e
           /\ \A k \in Key : /\ smKey(k) \in DOMAIN kv <=> s.StateMachine[k] # None
                             /\ smKey(k) \in DOMAIN kv => kv[smKey(k)] = s.StateMachine[k]
           /\ \A r \in Request : /\ resKey(r) \in DOMAIN kv <=> s.Results[r] # NoDecision
                                 /\ resKey(r) \in DOMAIN kv => kv[resKey(r)] = s.Results[r]
  <1>1. kv = [key \in LayoutKeys(s) |-> ValueOf(s, key)]
    BY LayoutIs
  <1>2. DOMAIN kv = LayoutKeys(s) /\ \A key \in LayoutKeys(s) : kv[key] = ValueOf(s, key)
    BY <1>1
  <1>3. \A key \in LayoutKeys(s) :
          /\ key[1] = "log" <=> key \in {logKey(e.index) : e \in Range(s.Log)}
          /\ \A k : key = smKey(k) => k \in {l \in Key : s.StateMachine[l] # None}
          /\ \A r : key = resKey(r) => r \in {q \in Request : s.Results[q] # NoDecision}
    BY Prefixes DEF LayoutKeys
  <1>4. metaKey \in LayoutKeys(s)
    BY DEF LayoutKeys
  <1>5. \A e \in Range(s.Log) : logKey(e.index) \in LayoutKeys(s)
    BY DEF LayoutKeys
  <1>6. LogKeys(kv) = {logKey(e.index) : e \in Range(s.Log)}
    BY <1>2, <1>3, <1>5 DEF LogKeys
  <1>7. \A k \in Key : s.StateMachine[k] # None => smKey(k) \in LayoutKeys(s)
    BY DEF LayoutKeys
  <1>8. \A r \in Request : s.Results[r] # NoDecision => resKey(r) \in LayoutKeys(s)
    BY DEF LayoutKeys
  <1> QED
    BY <1>2, <1>3, <1>4, <1>5, <1>6, <1>7, <1>8, Values

\* As many keys as indices.
LEMMA CountKeys ==
    ASSUME NEW a \in 1..MaxIndex + 1, NEW b \in 0..MaxIndex, a <= b + 1
    PROVE  Cardinality({logKey(i) : i \in a..b}) = (b - a) + 1
  <1> DEFINE S == a..b
             T == {logKey(i) : i \in a..b}
             f == [i \in a..b |-> logKey(i)]
  <1>1. a \in Int /\ b \in Int /\ \A i \in a..b : i \in 0..MaxIndex
    BY Constants
  <1>2. IsFiniteSet(S) /\ Cardinality(S) = (b - a) + 1
    <2>1. IsFiniteSet(S) /\ Cardinality(S) = IF a > b THEN 0 ELSE b-a+1
      BY <1>1, FS_Interval
    <2> HIDE DEF S
    <2> QED
      BY <1>1, <2>1
  <1>3. f \in [S -> T] /\ \A t \in T : \E i \in S : f[i] = t
    OBVIOUS
  <1>4. \A i, j \in S : f[i] = f[j] => i = j
    BY <1>1, LogKeysApart
  <1>5. f \in Bijection(S, T)
    <2> HIDE DEF f, S, T
    <2>1. DOMAIN f = S
      BY <1>3
    <2> QED
      BY <1>3, <1>4, <2>1 DEF Bijection, Injection, Surjection, IsInjective
  <1> HIDE DEF f, S, T
  <1>6. ExistsBijection(S, T)
    BY <1>5 DEF ExistsBijection
  <1>7. Cardinality(T) = Cardinality(S)
    BY <1>2, <1>6, FS_Bijection
  <1> QED
    BY <1>2, <1>7 DEF T

\* The value that a Scan of the log meets at place j.
Scanned(kv, j) == kv[CHOOSE key \in LogKeys(kv) : Position(kv, key) = j]

\* In a Scan the keys of a layout come in the order of the log.
LEMMA ScanInOrder ==
    ASSUME NEW s, Storable(s), NEW kv, kv = Layout(s)
    PROVE  /\ Cardinality(LogKeys(kv)) = Len(s.Log)
           /\ \A j \in 1..Len(s.Log) : Scanned(kv, j) = s.Log[j]
  <1> DEFINE cut == s.SnapshotLastIndex
             n == Len(s.Log)
  <1>1. /\ cut \in Nat /\ n \in Nat /\ cut + n <= MaxIndex
        /\ \A i \in 1..n : s.Log[i].index = cut + i
        /\ \A i \in 1..n : cut + i \in 1..MaxIndex /\ cut + i \in 0..MaxIndex
        /\ Range(s.Log) = {s.Log[i] : i \in 1..n}
    BY StoredLog
  <1>2. /\ LogKeys(kv) = {logKey(e.index) : e \in Range(s.Log)}
        /\ \A e \in Range(s.Log) : kv[logKey(e.index)] = e
    BY LayoutHolds
  <1>3. \A i \in 1..n : s.Log[i] \in Range(s.Log) /\ kv[logKey(cut + i)] = s.Log[i]
    BY <1>1, <1>2
  <1>4. LogKeys(kv) = {logKey(cut + i) : i \in 1..n}
    <2>1. \A i \in 1..n : s.Log[i] \in Range(s.Log) /\ logKey(s.Log[i].index) = logKey(cut + i)
      BY <1>1
    <2>2. \A e \in Range(s.Log) : \E i \in 1..n : logKey(e.index) = logKey(cut + i)
      BY <1>1
    <2> HIDE DEF cut, n
    <2> QED
      BY <1>2, <2>1, <2>2
  <1> HIDE DEF cut, n
  <1>5. ASSUME NEW m \in 0..n
        PROVE  /\ {logKey(cut + i) : i \in 1..m} = {logKey(i) : i \in cut + 1 .. cut + m}
               /\ Cardinality({logKey(cut + i) : i \in 1..m}) = m
    <2>1. cut + 1 \in 1..MaxIndex + 1 /\ cut + m \in 0..MaxIndex /\ cut + 1 <= (cut + m) + 1
          /\ ((cut + m) - (cut + 1)) + 1 = m
      BY <1>1, Constants
    <2>2. Cardinality({logKey(i) : i \in cut + 1 .. cut + m}) = m
      BY <2>1, CountKeys
    <2>3. \A i \in 1..m : cut + i \in cut + 1 .. cut + m
      BY <1>1
    <2>4. \A i \in cut + 1 .. cut + m : i - cut \in 1..m /\ cut + (i - cut) = i
      BY <1>1
    <2>5. {logKey(cut + i) : i \in 1..m} = {logKey(i) : i \in cut + 1 .. cut + m}
      BY <2>3, <2>4
    <2> QED
      BY <2>2, <2>5
  <1>6. Cardinality(LogKeys(kv)) = n
    BY <1>1, <1>4, <1>5
  <1>7. ASSUME NEW j \in 1..n PROVE Position(kv, logKey(cut + j)) = j
    <2>1. j - 1 \in 0..n /\ (j - 1) + 1 = j /\ \A i \in 1..n : cut + i < cut + j <=> i \in 1..j - 1
      BY <1>1
    <2>2. \A i \in 1..n : Before(logKey(cut + i), logKey(cut + j)) <=> i \in 1..j - 1
      BY <1>1, <2>1, LogKeysApart
    <2>3. \A i \in 1..j - 1 : i \in 1..n
      BY <1>1
    <2>4. {other \in LogKeys(kv) : Before(other, logKey(cut + j))} = {logKey(cut + i) : i \in 1..j - 1}
      BY <1>4, <2>2, <2>3
    <2>5. Cardinality({logKey(cut + i) : i \in 1..j - 1}) = j - 1
      BY <1>5, <2>1
    <2> QED
      BY <2>1, <2>4, <2>5 DEF Position
  <1>8. ASSUME NEW j \in 1..n
        PROVE  (CHOOSE key \in LogKeys(kv) : Position(kv, key) = j) = logKey(cut + j)
    <2>1. \A key \in LogKeys(kv) : Position(kv, key) = j => key = logKey(cut + j)
      BY <1>4, <1>7
    <2>2. logKey(cut + j) \in LogKeys(kv) /\ Position(kv, logKey(cut + j)) = j
      BY <1>4, <1>7
    <2> QED
      BY <2>1, <2>2
  <1>9. \A j \in 1..n : Scanned(kv, j) = s.Log[j]
    BY <1>3, <1>8 DEF Scanned
  <1> QED
    BY <1>6, <1>9 DEF n

\* A state in a layout loads back as it is.
LEMMA LoadsBack ==
    ASSUME NEW s, Storable(s), NEW kv, kv = Layout(s)
    PROVE  LoadFrom(kv) = s
  <1> DEFINE log == [j \in 1..Cardinality(LogKeys(kv)) |-> Scanned(kv, j)]
             sm == [k \in Key |-> IF smKey(k) \in DOMAIN kv THEN kv[smKey(k)] ELSE None]
             res == [r \in Request |-> IF resKey(r) \in DOMAIN kv THEN kv[resKey(r)] ELSE NoDecision]
  <1>1. s \in ReplicaState /\ DOMAIN s.Log = 1..Len(s.Log) /\ s.Log \in Seq(Entry)
    BY StoredLog
  <1>2. s.StateMachine \in [Key -> Request \cup {None}] /\ s.Results \in [Request -> Decision \cup {NoDecision}]
    BY <1>1 DEF ReplicaState
  <1>3. log = s.Log
    <2> DEFINE n == Len(s.Log)
    <2>1. s.Log = [j \in 1..n |-> s.Log[j]]
      BY <1>1
    <2>2. /\ Cardinality(LogKeys(kv)) = n
          /\ \A j \in 1..n : Scanned(kv, j) = s.Log[j]
      BY ScanInOrder
    <2> HIDE DEF n
    <2>3. log = [j \in 1..n |-> Scanned(kv, j)]
      BY <2>2
    <2>4. [j \in 1..n |-> Scanned(kv, j)] = [j \in 1..n |-> s.Log[j]]
      BY <2>2, Zenon
    <2> QED
      BY <2>1, <2>3, <2>4
  <1>4. sm = s.StateMachine
    <2>1. \A k \in Key : sm[k] = s.StateMachine[k]
      BY LayoutHolds
    <2> HIDE DEF sm
    <2>2. sm = [k \in Key |-> sm[k]]
      BY DEF sm
    <2> QED
      BY <1>2, <2>1, <2>2
  <1>5. res = s.Results
    <2>1. \A r \in Request : res[r] = s.Results[r]
      BY LayoutHolds
    <2> HIDE DEF res
    <2>2. res = [r \in Request |-> res[r]]
      BY DEF res
    <2> QED
      BY <1>2, <2>1, <2>2
  <1>6. LoadFrom(kv) = [MetaOf(s) EXCEPT !.Log = log, !.StateMachine = sm, !.Results = res]
    BY LayoutHolds DEF LoadFrom, Scanned
  <1> HIDE DEF log, sm, res
  <1>7. LoadFrom(kv) = [MetaOf(s) EXCEPT !.Log = s.Log, !.StateMachine = s.StateMachine, !.Results = s.Results]
    BY <1>3, <1>4, <1>5, <1>6
  <1>8. [MetaOf(s) EXCEPT !.Log = s.Log, !.StateMachine = s.StateMachine, !.Results = s.Results] = s
    BY <1>1 DEF MetaOf, ReplicaState
  <1> QED
    BY <1>7, <1>8

-----------------------------------------------------------------------------
(* What Save takes to be on disk.                                          *)

\* The fingerprints of a log that fits the keys: one per entry, under its index.
LEMMA Fingerprinted ==
    ASSUME NEW s, Storable(s)
    PROVE  /\ DOMAIN Fingerprints(s.Log) = {e.index : e \in Range(s.Log)}
           /\ \A e \in Range(s.Log) : Fingerprints(s.Log)[e.index] = fingerprintOf(e)
           /\ Fingerprints(s.Log) = [i \in {s.Log[j].index : j \in DOMAIN s.Log} |->
                                       fingerprintOf(CHOOSE e \in Range(s.Log) : e.index = i)]
  <1> DEFINE cut == s.SnapshotLastIndex
             n == Len(s.Log)
             I == {s.Log[j].index : j \in DOMAIN s.Log}
             the(i) == CHOOSE e \in Range(s.Log) : e.index = i
  <1>1. /\ s \in ReplicaState /\ s.Log \in Seq(Entry) /\ cut \in Nat /\ n \in Nat /\ DOMAIN s.Log = 1..n
        /\ LastLogIndex(s) = cut + n
        /\ \A i \in 1..n : s.Log[i].index = cut + i
        /\ Range(s.Log) = {s.Log[i] : i \in 1..n}
        /\ \A e \in Range(s.Log) : \A f \in Range(s.Log) : e.index = f.index => e = f
    BY StoredLog
  <1>2. \A i \in cut + 1 .. cut + n : EntryAt(s.Log, i) = s.Log[i - cut]
    BY <1>1, Window
  <1>3. \A j \in 1..n : EntryAt(s.Log, s.Log[j].index) = s.Log[j]
    <2> SUFFICES ASSUME NEW j \in 1..n PROVE EntryAt(s.Log, cut + j) = s.Log[j]
      BY <1>1
    <2> DEFINE i == cut + j
    <2>1. i \in cut + 1 .. cut + n /\ i - cut = j
      BY <1>1
    <2> HIDE DEF i
    <2>2. EntryAt(s.Log, i) = s.Log[i - cut]
      BY <1>2, <2>1
    <2> QED
      BY <2>1, <2>2 DEF i
  <1>4. \A e \in Range(s.Log) : EntryAt(s.Log, e.index) = e
    BY <1>1, <1>3
  <1>5. I = {e.index : e \in Range(s.Log)}
    BY <1>1
  <1>6. Fingerprints(s.Log) = [i \in I |-> fingerprintOf(EntryAt(s.Log, i))]
    BY DEF Fingerprints
  <1>7. \A e \in Range(s.Log) : the(e.index) = e
    BY <1>1
  <1> HIDE DEF I, the
  <1>8. \A i \in I : EntryAt(s.Log, i) = the(i)
    BY <1>4, <1>5, <1>7
  <1>9. [i \in I |-> fingerprintOf(EntryAt(s.Log, i))] = [i \in I |-> fingerprintOf(the(i))]
    BY <1>8, Zenon
  <1>10. DOMAIN Fingerprints(s.Log) = I
    BY <1>6
  <1>11. \A e \in Range(s.Log) : Fingerprints(s.Log)[e.index] = fingerprintOf(e)
    BY <1>4, <1>5, <1>6
  <1> QED
    BY <1>5, <1>6, <1>9, <1>10, <1>11 DEF I, the

\* An engine without a key loads as the zero state.
LEMMA LoadsNothing ==
    ASSUME NEW kv, DOMAIN kv = {}
    PROVE  /\ LoadFrom(kv) = NewState
           /\ LastFrom(kv).meta = {}
  <1>1. LogKeys(kv) = {} /\ Cardinality(LogKeys(kv)) = 0
    BY FS_EmptySet DEF LogKeys
  <1> DEFINE log == [j \in 1..Cardinality(LogKeys(kv)) |-> Scanned(kv, j)]
             sm == [k \in Key |-> IF smKey(k) \in DOMAIN kv THEN kv[smKey(k)] ELSE None]
             res == [r \in Request |-> IF resKey(r) \in DOMAIN kv THEN kv[resKey(r)] ELSE NoDecision]
  <1>2. log = << >>
    BY <1>1
  <1>3. sm = [k \in Key |-> None]
    OBVIOUS
  <1>4. res = [r \in Request |-> NoDecision]
    OBVIOUS
  <1>5. LoadFrom(kv) = [NewState EXCEPT !.Log = log, !.StateMachine = sm, !.Results = res]
    BY DEF LoadFrom, Scanned
  <1> HIDE DEF log, sm, res
  <1>6. LoadFrom(kv) = NewState
    BY <1>2, <1>3, <1>4, <1>5 DEF NewState
  <1>7. LastFrom(kv).meta = {}
    BY DEF LastFrom, NoMeta
  <1> QED
    BY <1>6, <1>7

\* An engine that is empty or the layout of what it loads as.
Sound(kv) == Storable(LoadFrom(kv)) /\ (DOMAIN kv = {} \/ kv = Layout(LoadFrom(kv)))

\* Each part of the loaded state lies under its key, there is no other key, and the
\* bookkeeping of the Load tells it all.
LEMMA EngineHolds ==
    ASSUME NEW kv, Sound(kv)
    PROVE  LET s == LoadFrom(kv)
           IN  /\ DOMAIN kv \subseteq LayoutKeys(s)
               /\ \A e \in Range(s.Log) : logKey(e.index) \in DOMAIN kv /\ kv[logKey(e.index)] = e
               /\ \A k \in Key : s.StateMachine[k] # None =>
                    smKey(k) \in DOMAIN kv /\ kv[smKey(k)] = s.StateMachine[k]
               /\ \A r \in Request : s.Results[r] # NoDecision =>
                    resKey(r) \in DOMAIN kv /\ kv[resKey(r)] = s.Results[r]
               /\ LastFrom(kv) = [meta |-> IF metaKey \in DOMAIN kv THEN {kv[metaKey]} ELSE {},
                                  log |-> Fingerprints(s.Log),
                                  sm |-> s.StateMachine, res |-> s.Results]
  <1> DEFINE s == LoadFrom(kv)
  <1>1. Storable(s)
    BY DEF Sound
  <1>2. LastFrom(kv) = [meta |-> IF metaKey \in DOMAIN kv THEN {kv[metaKey]} ELSE {},
                        log |-> Fingerprints(s.Log), sm |-> s.StateMachine, res |-> s.Results]
    BY <1>1, Fingerprinted DEF LastFrom, NoMeta
  <1>3. CASE DOMAIN kv = {}
    <2>1. s = NewState
      BY <1>3, LoadsNothing
    <2>2. s.Log = << >> /\ s.StateMachine = [k \in Key |-> None] /\ s.Results = [r \in Request |-> NoDecision]
      BY <2>1 DEF NewState
    <2>3. Range(s.Log) = {}
      BY <2>2 DEF Range
    <2>4. (\A k \in Key : s.StateMachine[k] = None) /\ (\A r \in Request : s.Results[r] = NoDecision)
      BY <2>2
    <2> HIDE DEF s
    <2> QED
      BY <1>2, <1>3, <2>3, <2>4 DEF s
  <1>4. CASE kv = Layout(s)
    <2> HIDE DEF s
    <2>1. DOMAIN kv = LayoutKeys(s)
      BY <1>4, LayoutIs
    <2>2. /\ LogKeys(kv) = {logKey(e.index) : e \in Range(s.Log)}
          /\ \A e \in Range(s.Log) : kv[logKey(e.index)] = e
          /\ \A k \in Key : /\ smKey(k) \in DOMAIN kv <=> s.StateMachine[k] # None
                            /\ smKey(k) \in DOMAIN kv => kv[smKey(k)] = s.StateMachine[k]
          /\ \A r \in Request : /\ resKey(r) \in DOMAIN kv <=> s.Results[r] # NoDecision
                                /\ resKey(r) \in DOMAIN kv => kv[resKey(r)] = s.Results[r]
      BY <1>1, <1>4, LayoutHolds
    <2>3. \A e \in Range(s.Log) : logKey(e.index) \in DOMAIN kv
      BY <2>2 DEF LogKeys
    <2> QED
      BY <1>2, <2>1, <2>2, <2>3 DEF s
  <1> QED
    BY <1>3, <1>4 DEF Sound

-----------------------------------------------------------------------------
(* Save.                                                                   *)

\* The keys that Save puts.
PutKeys(s) ==
    {metaKey : document \in {MetaOf(s)} \ last.meta}
    \cup {logKey(e.index) : e \in {f \in Range(s.Log) : ~Unchanged(f)}}
    \cup {smKey(k) : k \in {l \in Key : s.StateMachine[l] \notin {None, last.sm[l]}}}
    \cup {resKey(r) : r \in {q \in Request : s.Results[q] \notin {NoDecision, last.res[q]}}}

\* What Save puts is a part of the layout.
LEMMA PutsAre ==
    ASSUME NEW s
    PROVE  /\ DOMAIN Puts(s) = PutKeys(s)
           /\ \A key \in PutKeys(s) : Puts(s)[key] = ValueOf(s, key)
           /\ PutKeys(s) \subseteq LayoutKeys(s)
  <1>1. Puts(s) = [key \in PutKeys(s) |-> ValueOf(s, key)]
    BY DEF Puts, PutKeys
  <1>2. PutKeys(s) \subseteq LayoutKeys(s)
    BY DEF PutKeys, LayoutKeys
  <1> QED
    BY <1>1, <1>2

\* What a written batch makes of the engine.
Written(s) ==
    [key \in (DOMAIN engine \ Deletes(s)) \cup DOMAIN Puts(s) |->
       IF key \in DOMAIN Puts(s) THEN Puts(s)[key] ELSE engine[key]]

\* An entry is found where an entry of the log has its index, and nowhere else.
LEMMA FoundInRange ==
    ASSUME NEW s, Storable(s), NEW i \in 0..MaxIndex
    PROVE  Found(s.Log, i) <=> \E e \in Range(s.Log) : e.index = i
  <1> DEFINE cut == s.SnapshotLastIndex
             n == Len(s.Log)
  <1>1. /\ s \in ReplicaState /\ cut \in Nat /\ n \in Nat /\ DOMAIN s.Log = 1..n
        /\ LastLogIndex(s) = cut + n
        /\ \A j \in 1..n : s.Log[j].index = cut + j
        /\ Range(s.Log) = {s.Log[j] : j \in 1..n}
    BY StoredLog
  <1>2. i \in Int
    BY Constants
  <1>3. Found(s.Log, i) <=> i \in cut + 1 .. cut + n
    BY <1>1, <1>2, Window
  <1>4. ASSUME i \in cut + 1 .. cut + n PROVE \E e \in Range(s.Log) : e.index = i
    <2> DEFINE j == i - cut
    <2>1. j \in 1..n /\ cut + j = i
      BY <1>1, <1>4
    <2> HIDE DEF j
    <2> QED
      BY <1>1, <2>1
  <1>5. ASSUME NEW j \in 1..n, s.Log[j].index = i PROVE i \in cut + 1 .. cut + n
    BY <1>1, <1>5
  <1> QED
    BY <1>1, <1>3, <1>4, <1>5

\* Two entries with one fingerprint are one entry.
LEMMA FingerprintTells ==
    ASSUME NEW e \in Entry, NEW f \in Entry, fingerprintOf(e) = fingerprintOf(f)
    PROVE  e = f
  <1>1. e.index = f.index /\ e.term = f.term /\ e.request = f.request
    BY DEF fingerprintOf
  <1>2. e = [index |-> e.index, term |-> e.term, request |-> e.request]
    BY DEF Entry
  <1>3. f = [index |-> f.index, term |-> f.term, request |-> f.request]
    BY DEF Entry
  <1> QED
    BY <1>1, <1>2, <1>3

\* The difference that Save writes, over what it remembers to be there, is the whole state.
LEMMA SaveWritesAll ==
    ASSUME Sound(engine), Storable(state), last = LastFrom(engine), Covers(LoadFrom(engine), state)
    PROVE  Written(state) = Layout(state)
  <1> DEFINE s == state
             o == LoadFrom(engine)
  <1>0. Storable(s) /\ Storable(o) /\ Covers(o, s)
    BY DEF Sound
  <1>1. /\ DOMAIN engine \subseteq LayoutKeys(o)
        /\ \A e \in Range(o.Log) : logKey(e.index) \in DOMAIN engine /\ engine[logKey(e.index)] = e
        /\ \A k \in Key : o.StateMachine[k] # None =>
             smKey(k) \in DOMAIN engine /\ engine[smKey(k)] = o.StateMachine[k]
        /\ \A r \in Request : o.Results[r] # NoDecision =>
             resKey(r) \in DOMAIN engine /\ engine[resKey(r)] = o.Results[r]
        /\ last = [meta |-> IF metaKey \in DOMAIN engine THEN {engine[metaKey]} ELSE {},
                   log |-> Fingerprints(o.Log), sm |-> o.StateMachine, res |-> o.Results]
    BY EngineHolds
  <1>2. /\ last.meta = IF metaKey \in DOMAIN engine THEN {engine[metaKey]} ELSE {}
        /\ last.log = Fingerprints(o.Log) /\ last.sm = o.StateMachine /\ last.res = o.Results
    BY <1>1
  <1> HIDE DEF s, o
  <1>3. /\ DOMAIN last.log = {e.index : e \in Range(o.Log)}
        /\ \A e \in Range(o.Log) : last.log[e.index] = fingerprintOf(e)
    <2>1. /\ DOMAIN Fingerprints(o.Log) = {e.index : e \in Range(o.Log)}
          /\ \A e \in Range(o.Log) : Fingerprints(o.Log)[e.index] = fingerprintOf(e)
      BY <1>0, Fingerprinted
    <2> QED
      BY <1>2, <2>1
  <1>4. /\ \A e \in Range(o.Log) : e \in Entry /\ e.index \in 0..MaxIndex
        /\ \A e \in Range(s.Log) : e \in Entry /\ e.index \in 0..MaxIndex
    BY <1>0, StoredLog
  <1>5. /\ DOMAIN Puts(s) = PutKeys(s)
        /\ \A key \in PutKeys(s) : Puts(s)[key] = ValueOf(s, key)
        /\ PutKeys(s) \subseteq LayoutKeys(s)
    BY PutsAre
  <1>6. \A key \in Deletes(s) : key[1] = "log"
    BY Prefixes DEF Deletes
  <1>7. ASSUME NEW e \in Range(s.Log) PROVE logKey(e.index) \notin Deletes(s)
    <2> SUFFICES ASSUME NEW j \in DOMAIN last.log, ~Found(s.Log, j), logKey(e.index) = logKey(j)
                 PROVE  FALSE
      BY DEF Deletes
    <2>1. j \in 0..MaxIndex
      BY <1>3, <1>4
    <2>2. j = e.index
      BY <1>4, <2>1, LogKeysApart
    <2> QED
      BY <1>0, <2>1, <2>2, FoundInRange
  <1>8. ASSUME NEW key \in LayoutKeys(s), key \notin PutKeys(s)
        PROVE  key \in DOMAIN engine /\ key \notin Deletes(s) /\ engine[key] = ValueOf(s, key)
    <2>1. CASE key = metaKey
      <3>1. MetaOf(s) \in last.meta
        BY <1>8, <2>1 DEF PutKeys
      <3>2. metaKey \in DOMAIN engine /\ engine[metaKey] = MetaOf(s)
        BY <1>2, <3>1
      <3> QED
        BY <1>0, <1>6, <2>1, <3>2, Prefixes, Values
    <2>2. CASE \E e \in Range(s.Log) : key = logKey(e.index)
      <3>1. PICK e \in Range(s.Log) : key = logKey(e.index)
        BY <2>2
      <3>2. Unchanged(e)
        BY <1>8, <3>1 DEF PutKeys
      <3>3. e.index \in DOMAIN last.log /\ last.log[e.index] = fingerprintOf(e)
        BY <3>2 DEF Unchanged, Remembered
      <3>4. PICK f \in Range(o.Log) : f.index = e.index
        BY <1>3, <3>3
      <3>5. f = e
        BY <1>3, <1>4, <3>3, <3>4, FingerprintTells
      <3> QED
        BY <1>0, <1>1, <1>7, <3>1, <3>5, Values DEF o
    <2>3. CASE \E k \in Key : s.StateMachine[k] # None /\ key = smKey(k)
      <3>1. PICK k \in Key : s.StateMachine[k] # None /\ key = smKey(k)
        BY <2>3
      <3>2. s.StateMachine[k] = last.sm[k]
        BY <1>8, <3>1 DEF PutKeys
      <3>3. o.StateMachine[k] = s.StateMachine[k]
        BY <1>2, <3>2
      <3> QED
        BY <1>0, <1>1, <1>6, <3>1, <3>3, Prefixes, Values DEF o
    <2>4. CASE \E r \in Request : s.Results[r] # NoDecision /\ key = resKey(r)
      <3>1. PICK r \in Request : s.Results[r] # NoDecision /\ key = resKey(r)
        BY <2>4
      <3>2. s.Results[r] = last.res[r]
        BY <1>8, <3>1 DEF PutKeys
      <3>3. o.Results[r] = s.Results[r]
        BY <1>2, <3>2
      <3> QED
        BY <1>0, <1>1, <1>6, <3>1, <3>3, Prefixes, Values DEF o
    <2> QED
      BY <2>1, <2>2, <2>3, <2>4 DEF LayoutKeys
  <1>9. ASSUME NEW key \in DOMAIN engine, key \notin Deletes(s) PROVE key \in LayoutKeys(s)
    <2>1. key \in LayoutKeys(o)
      BY <1>1 DEF o
    <2>2. CASE key = metaKey
      BY <2>2 DEF LayoutKeys
    <2>3. CASE \E f \in Range(o.Log) : key = logKey(f.index)
      <3>1. PICK f \in Range(o.Log) : key = logKey(f.index)
        BY <2>3
      <3>2. f.index \in DOMAIN last.log /\ f.index \in 0..MaxIndex
        BY <1>3, <1>4
      <3>3. Found(s.Log, f.index)
        BY <1>9, <3>1, <3>2 DEF Deletes
      <3>4. PICK e \in Range(s.Log) : e.index = f.index
        BY <1>0, <3>2, <3>3, FoundInRange
      <3> QED
        BY <3>1, <3>4 DEF LayoutKeys
    <2>4. CASE \E k \in Key : o.StateMachine[k] # None /\ key = smKey(k)
      BY <1>0, <2>4 DEF Covers, LayoutKeys
    <2>5. CASE \E r \in Request : o.Results[r] # NoDecision /\ key = resKey(r)
      BY <1>0, <2>5 DEF Covers, LayoutKeys
    <2> QED
      BY <2>1, <2>2, <2>3, <2>4, <2>5 DEF LayoutKeys
  <1>10. (DOMAIN engine \ Deletes(s)) \cup DOMAIN Puts(s) = LayoutKeys(s)
    BY <1>5, <1>8, <1>9
  <1>11. \A key \in LayoutKeys(s) :
           (IF key \in DOMAIN Puts(s) THEN Puts(s)[key] ELSE engine[key]) = ValueOf(s, key)
    BY <1>5, <1>8
  <1>12. Written(s) = [key \in LayoutKeys(s) |->
                         IF key \in DOMAIN Puts(s) THEN Puts(s)[key] ELSE engine[key]]
    BY <1>10 DEF Written
  <1>13. Written(s) = [key \in LayoutKeys(s) |-> ValueOf(s, key)]
    BY <1>11, <1>12
  <1> QED
    BY <1>13, LayoutIs DEF s

\* After a Save the engine is the layout of the saved state, and the bookkeeping that of a
\* Load of it.
LEMMA SaveStep ==
    ASSUME Sound(engine), Storable(state), last = LastFrom(engine), Covers(LoadFrom(engine), state),
           NEW kv, kv = Written(state)
    PROVE  /\ kv = Layout(state) /\ LoadFrom(kv) = state /\ Sound(kv)
           /\ Remember(state, "ok") = LastFrom(kv)
  <1> DEFINE s == state
             o == LoadFrom(engine)
             sm == [k \in Key |-> IF s.StateMachine[k] # None THEN s.StateMachine[k] ELSE last.sm[k]]
             rs == [r \in Request |-> IF s.Results[r] # NoDecision THEN s.Results[r] ELSE last.res[r]]
  <1>1. kv = Layout(state)
    BY SaveWritesAll
  <1>2. LoadFrom(kv) = state
    BY <1>1, LoadsBack
  <1>3. Sound(kv)
    BY <1>1, <1>2 DEF Sound
  <1>4. metaKey \in DOMAIN kv /\ kv[metaKey] = MetaOf(s)
    BY <1>1, LayoutHolds
  <1>5. LastFrom(kv) = [meta |-> {MetaOf(s)}, log |-> Fingerprints(s.Log),
                        sm |-> s.StateMachine, res |-> s.Results]
    BY <1>2, <1>3, <1>4, EngineHolds
  <1>6. last.sm = o.StateMachine /\ last.res = o.Results
    BY EngineHolds
  <1>7. s.StateMachine \in [Key -> Request \cup {None}] /\ s.Results \in [Request -> Decision \cup {NoDecision}]
    BY StoredLog DEF ReplicaState
  <1>8. \A k \in Key : s.StateMachine[k] = None => last.sm[k] = None
    BY <1>6 DEF Covers
  <1>9. \A r \in Request : s.Results[r] = NoDecision => last.res[r] = NoDecision
    BY <1>6 DEF Covers
  <1> HIDE DEF s, o
  <1>10. sm = s.StateMachine
    <2>1. \A k \in Key : sm[k] = s.StateMachine[k]
      BY <1>8
    <2>2. sm = [k \in Key |-> sm[k]]
      OBVIOUS
    <2> HIDE DEF sm
    <2> QED
      BY <1>7, <2>1, <2>2
  <1>11. rs = s.Results
    <2>1. \A r \in Request : rs[r] = s.Results[r]
      BY <1>9
    <2>2. rs = [r \in Request |-> rs[r]]
      OBVIOUS
    <2> HIDE DEF rs
    <2> QED
      BY <1>7, <2>1, <2>2
  <1>12. Remember(s, "ok") = [meta |-> {MetaOf(s)}, log |-> Fingerprints(s.Log), sm |-> sm, res |-> rs]
    BY DEF Remember
  <1> HIDE DEF sm, rs
  <1>13. Remember(s, "ok") = LastFrom(kv)
    BY <1>5, <1>10, <1>11, <1>12
  <1> QED
    BY <1>1, <1>2, <1>3, <1>13 DEF s

-----------------------------------------------------------------------------
(* The process.                                                            *)

\* A snapshot of a leader that has applied what this node has and one entry more.
LEMMA LeaderSnapshot ==
    ASSUME NEW s, Storable(s), NEW e \in Entry, e.index = s.AppliedIndex + 1
    PROVE  LET held == {i \in DOMAIN s.Log : s.Log[i].index <= s.AppliedIndex}
               u == [s EXCEPT !.Log = Append(SubSeq(s.Log, 1, Cardinality(held)), e)]
           IN  Windowed(applyEntries(u, e.index)) /\ Covers(s, applyEntries(u, e.index))
  <1> DEFINE held == {i \in DOMAIN s.Log : s.Log[i].index <= s.AppliedIndex}
             u == [s EXCEPT !.Log = Append(SubSeq(s.Log, 1, Cardinality(held)), e)]
             cut == s.SnapshotLastIndex
             a == s.AppliedIndex
             k == a - cut
             log == Append(SubSeq(s.Log, 1, k), e)
  <1>1. /\ s \in ReplicaState /\ s.Log \in Seq(Entry) /\ Len(s.Log) \in Nat
        /\ DOMAIN s.Log = 1..Len(s.Log)
        /\ cut \in Nat /\ a \in Nat /\ cut <= a /\ s.KnownGlobalCommitIndex = a
        /\ LastLogIndex(s) = cut + Len(s.Log) /\ a <= LastLogIndex(s)
        /\ \A i \in 1..Len(s.Log) : s.Log[i].index = cut + i
    BY WindowedState DEF Storable
  <1>2. k \in Nat /\ k <= Len(s.Log) /\ cut + k = a /\ cut + (k + 1) = a + 1
    BY <1>1
  <1>3. \A i \in 1..Len(s.Log) : cut + i <= a <=> i \in 1..k
    BY <1>1
  <1>4. 1..k \subseteq 1..Len(s.Log)
    BY <1>1
  <1> HIDE DEF k
  <1>5. held = 1..k
    <2> HIDE DEF cut, a
    <2>1. \A i \in 1..Len(s.Log) : s.Log[i].index <= a <=> i \in 1..k
      BY <1>1, <1>3
    <2> QED
      BY <1>1, <1>4, <2>1 DEF a
  <1> HIDE DEF held
  <1>6. Cardinality(held) = k
    <2>1. Cardinality(1..k) = IF 1 > k THEN 0 ELSE k-1+1
      BY <1>2, FS_Interval
    <2> QED
      BY <1>2, <1>5, <2>1
  <1>7. /\ SubSeq(s.Log, 1, k) \in Seq(Entry) /\ Len(SubSeq(s.Log, 1, k)) = k
        /\ \A j \in 1..k : SubSeq(s.Log, 1, k)[j] = s.Log[j]
    BY <1>1, <1>2, CutLog
  <1>8. /\ log \in Seq(Entry) /\ Len(log) = k + 1
        /\ \A j \in 1..k : log[j] = s.Log[j]
        /\ log[k + 1] = e
    <2> DEFINE pre == SubSeq(s.Log, 1, k)
    <2> HIDE DEF pre
    <2>1. /\ Append(pre, e) \in Seq(Entry) /\ Len(Append(pre, e)) = k + 1
          /\ \A j \in 1..k : Append(pre, e)[j] = pre[j]
          /\ Append(pre, e)[k + 1] = e
      BY <1>7, AppendProperties DEF pre
    <2> QED
      BY <1>7, <2>1 DEF pre
  <1>9. u = [s EXCEPT !.Log = log]
    BY <1>6
  <1> HIDE DEF log
  <1>10. /\ u \in ReplicaState /\ u.Log = log
         /\ u.KnownGlobalCommitIndex = a /\ u.AppliedIndex = a
         /\ u.Results = s.Results /\ u.StateMachine = s.StateMachine /\ u.SnapshotLastIndex = cut
    <2> HIDE DEF u
    <2> QED
      BY <1>1, <1>8, <1>9, LogOnly
  <1> HIDE DEF u
  <1>11. LastLogIndex(u) = a + 1
    BY <1>2, <1>8, <1>10 DEF LastLogIndex
  <1>12. \A j \in 1..Len(log) : log[j].index = cut + j
    <2> SUFFICES ASSUME NEW j \in 1..k + 1 PROVE log[j].index = cut + j
      BY <1>8
    <2>1. CASE j = k + 1
      <3>1. cut + j = a + 1
        BY <1>2, <2>1
      <3> QED
        BY <1>8, <2>1, <3>1
    <2>2. CASE j \in 1..k
      BY <1>1, <1>4, <1>8, <2>2
    <2> QED
      BY <1>2, <2>1, <2>2
  <1>13. Windowed(u)
    <2>1. u.AppliedIndex <= LastLogIndex(u)
      BY <1>1, <1>10, <1>11
    <2> HIDE DEF cut, a
    <2> QED
      BY <1>1, <1>10, <1>12, <2>1, MakeWindowed
  <1>14. /\ Windowed(applyEntries(u, e.index)) /\ Covers(u, applyEntries(u, e.index))
    <2>1. e.index \in Nat /\ u.AppliedIndex < e.index /\ e.index <= LastLogIndex(u)
      BY <1>1, <1>10, <1>11
    <2> QED
      BY <1>13, <2>1, ApplyKeeps
  <1>15. Covers(s, applyEntries(u, e.index))
    BY <1>10, <1>14 DEF Covers
  <1> QED
    BY <1>14, <1>15 DEF u, held

\* Whatever a handler does, the state in memory stays storable and loses nothing applied.
LEMMA ProcessStep ==
    ASSUME Storable(state),
           \/ \E e \in Entries : AppendEntry(e) \/ InstallSnapshot(e)
           \/ \E e \in Range(state.Log) : AdvanceCommit(e)
           \/ \E t \in 1..MaxTerm : FollowTerm(t)
    PROVE  up /\ up' = up /\ engine' = engine /\ last' = last /\ Storable(state') /\ Covers(state, state')
  <1>0. Windowed(state) /\ LastLogIndex(state) <= MaxIndex /\ LastLogIndex(state) \in Nat /\ state \in ReplicaState
    BY WindowedState DEF Storable
  <1>1. \A e \in Entries : e \in Entry /\ e.index \in 1..MaxIndex /\ e.index <= MaxIndex
    BY StoreAssumption DEF Entries, Entry
  <1>2. ASSUME NEW t, Becomes(t), Storable(t), Covers(state, t)
        PROVE  up /\ up' = up /\ engine' = engine /\ last' = last /\ Storable(state') /\ Covers(state, state')
    BY <1>2 DEF Becomes
  <1>3. ASSUME NEW e \in Entries, AppendEntry(e) PROVE \E t : Becomes(t) /\ Storable(t) /\ Covers(state, t)
    <2> DEFINE t == appendEntryChecked(state, e)
    <2>1. e.index \in state.KnownGlobalCommitIndex + 1 .. LastLogIndex(state) + 1 /\ Becomes(t)
      BY <1>3 DEF AppendEntry
    <2>2. e.index <= LastLogIndex(state) + 1 /\ ~(e.index <= state.KnownGlobalCommitIndex)
      <3>1. state.KnownGlobalCommitIndex \in Nat
        BY <1>0 DEF ReplicaState
      <3> QED
        BY <1>0, <2>1, <3>1
    <2>3. ~Conflicts(state, e)
      BY <2>2 DEF Conflicts
    <2>4. /\ Windowed(t) /\ t.StateMachine = state.StateMachine /\ t.Results = state.Results
          /\ LastLogIndex(t) = LastLogIndex(state) \/ LastLogIndex(t) = e.index
      BY <1>0, <1>1, <2>2, <2>3, AppendKeeps
    <2> HIDE DEF t
    <2>5. Storable(t) /\ Covers(state, t)
      BY <1>0, <1>1, <2>4 DEF Storable, Covers
    <2> QED
      BY <2>1, <2>5
  <1>4. ASSUME NEW e \in Range(state.Log), AdvanceCommit(e) PROVE \E t : Becomes(t) /\ Storable(t) /\ Covers(state, t)
    <2> DEFINE t == advanceCommitLocked(state, e)
    <2>1. Becomes(t)
      BY <1>4 DEF AdvanceCommit
    <2>2. e.index \in Nat
      <3>1. e.index \in 1..MaxIndex
        BY StoredLog
      <3> QED
        BY <3>1
    <2>3. Windowed(t) /\ Covers(state, t) /\ LastLogIndex(t) = LastLogIndex(state)
      BY <1>0, <2>2, AdvanceKeeps
    <2> HIDE DEF t
    <2>4. Storable(t)
      BY <1>0, <2>3 DEF Storable
    <2> QED
      BY <2>1, <2>3, <2>4
  <1>5. ASSUME NEW e \in Entries, InstallSnapshot(e) PROVE \E t : Becomes(t) /\ Storable(t) /\ Covers(state, t)
    <2> DEFINE held == {i \in DOMAIN state.Log : state.Log[i].index <= state.AppliedIndex}
               u == [state EXCEPT !.Log = Append(SubSeq(state.Log, 1, Cardinality(held)), e)]
               leader == applyEntries(u, e.index)
               snap == [index |-> e.index, term |-> e.term, request |-> e.request,
                        StateMachine |-> leader.StateMachine, Results |-> leader.Results]
               t == installSnapshotState(state, snap)
    <2>1. e.index = state.AppliedIndex + 1 /\ Becomes(t)
      BY <1>5 DEF InstallSnapshot
    <2>2. Windowed(leader) /\ Covers(state, leader)
      <3> HIDE DEF held, u
      <3> QED
        BY <1>1, <2>1, LeaderSnapshot DEF held, u
    <2> HIDE DEF leader
    <2>3. /\ leader.StateMachine \in [Key -> Request \cup {None}]
          /\ leader.Results \in [Request -> Decision \cup {NoDecision}]
      <3>1. leader \in ReplicaState
        BY <2>2 DEF Windowed
      <3> QED
        BY <3>1 DEF ReplicaState
    <2>4. /\ snap.index \in Nat /\ snap.term \in Nat /\ snap.request \in Request \cup {None}
          /\ snap.StateMachine = leader.StateMachine /\ snap.Results = leader.Results /\ snap.index = e.index
      <3>1. e.index \in Nat /\ e.term \in Nat /\ e.request \in Request
        BY <1>1 DEF Entry
      <3> QED
        BY <3>1
    <2> HIDE DEF snap
    <2>5. /\ Windowed(t)
          /\ t.StateMachine \in {state.StateMachine, snap.StateMachine}
          /\ \A r \in Request : state.Results[r] # NoDecision => t.Results[r] # NoDecision
          /\ LastLogIndex(t) \in {LastLogIndex(state), snap.index}
      BY <1>0, <2>3, <2>4, InstallKeeps
    <2> HIDE DEF t
    <2>6. Covers(state, t)
      BY <2>2, <2>4, <2>5 DEF Covers
    <2>7. Storable(t)
      BY <1>0, <1>1, <2>4, <2>5 DEF Storable
    <2> QED
      BY <2>1, <2>6, <2>7
  <1>6. ASSUME NEW n \in 1..MaxTerm, FollowTerm(n) PROVE \E t : Becomes(t) /\ Storable(t) /\ Covers(state, t)
    <2> DEFINE t == [state EXCEPT !.GlobalTerm = n]
    <2>1. Becomes(t)
      BY <1>6 DEF FollowTerm
    <2>2. n \in Nat
      OBVIOUS
    <2>3. t \in ReplicaState /\ SameReplica(state, t)
      BY <1>0, <2>2, MarksOnly
    <2> HIDE DEF t
    <2>4. Windowed(t) /\ LastLogIndex(t) = LastLogIndex(state)
      BY <1>0, <2>3, SameReplicaKeeps
    <2>5. Storable(t) /\ Covers(state, t)
      BY <1>0, <2>3, <2>4 DEF Storable, Covers, SameReplica
    <2> QED
      BY <2>1, <2>5
  <1> QED
    BY <1>2, <1>3, <1>4, <1>5, <1>6

-----------------------------------------------------------------------------
(* The theorems.                                                           *)

\* A state with another one in between covers.
LEMMA CoversTrans ==
    ASSUME NEW s, NEW t, NEW u, Covers(s, t), Covers(t, u)
    PROVE  Covers(s, u)
  BY DEF Covers

\* What each kind of step does to memory and to the engine.
LEMMA StoreSteps ==
    ASSUME StoreInv, [Next]_vars
    PROVE  /\ StoreInv'
           /\ \/ up /\ LoadedState' = state /\ UNCHANGED <<state, up>>
              \/ up /\ UNCHANGED <<up, engine>>
              \/ up /\ up' = FALSE /\ state' = NewState /\ UNCHANGED engine
              \/ ~up /\ up' = TRUE /\ state' = LoadedState /\ UNCHANGED engine
              \/ UNCHANGED <<state, up, engine>>
  <1>1. /\ up \in BOOLEAN /\ Storable(state) /\ Sound(engine)
        /\ up => last = LastFrom(engine) /\ Covers(LoadFrom(engine), state)
    BY DEF StoreInv, LoadedState, LoadedLast, Sound
  <1>2. ASSUME up' \in BOOLEAN, Storable(state'), Sound(engine'),
               up' => last' = LastFrom(engine') /\ Covers(LoadFrom(engine'), state')
        PROVE  StoreInv'
    BY <1>2 DEF StoreInv, LoadedState, LoadedLast, Sound
  <1>3. CASE Save("ok")
    <2>1. up /\ engine' = Written(state) /\ last' = Remember(state, "ok") /\ state' = state /\ up' = up
      BY <1>3 DEF Save, Written
    <2>2. LoadFrom(engine') = state /\ Sound(engine') /\ Remember(state, "ok") = LastFrom(engine')
      BY <1>1, <2>1, SaveStep
    <2>3. Covers(state, state)
      BY DEF Covers
    <2>4. StoreInv'
      BY <1>1, <1>2, <2>1, <2>2, <2>3
    <2> QED
      BY <2>1, <2>2, <2>4 DEF LoadedState
  <1>4. CASE Save("error")
    <2>1. engine' = engine /\ last' = last /\ state' = state /\ up' = up
      BY <1>4 DEF Save, Remember
    <2> QED
      BY <1>1, <1>2, <2>1
  <1>5. CASE Load
    <2>1. ~up /\ up' = TRUE /\ state' = LoadFrom(engine) /\ last' = LastFrom(engine) /\ engine' = engine
      BY <1>5 DEF Load, LoadedState, LoadedLast
    <2>2. Covers(state', state') /\ Storable(state')
      BY <1>1, <2>1 DEF Covers, Sound
    <2>3. StoreInv'
      BY <1>1, <1>2, <2>1, <2>2
    <2> QED
      BY <2>1, <2>3 DEF LoadedState
  <1>6. CASE Crash
    <2>1. up /\ up' = FALSE /\ state' = NewState /\ engine' = engine
      BY <1>6 DEF Crash
    <2>2. Storable(NewState)
      BY NewStateWindowed, StoreAssumption DEF Storable
    <2>3. StoreInv'
      BY <1>1, <1>2, <2>1, <2>2
    <2> QED
      BY <2>1, <2>3
  <1>7. CASE \/ \E e \in Entries : AppendEntry(e) \/ InstallSnapshot(e)
             \/ \E e \in Range(state.Log) : AdvanceCommit(e)
             \/ \E t \in 1..MaxTerm : FollowTerm(t)
    <2>1. up /\ up' = up /\ engine' = engine /\ last' = last /\ Storable(state') /\ Covers(state, state')
      BY <1>1, <1>7, ProcessStep
    <2>2. Covers(LoadFrom(engine), state')
      BY <1>1, <2>1, CoversTrans
    <2>3. StoreInv'
      BY <1>1, <1>2, <2>1, <2>2
    <2> QED
      BY <2>1, <2>3
  <1>8. CASE UNCHANGED vars
    <2>1. engine' = engine /\ last' = last /\ state' = state /\ up' = up
      BY <1>8 DEF vars
    <2> QED
      BY <1>1, <1>2, <2>1
  <1> QED
    BY <1>3, <1>4, <1>5, <1>6, <1>7, <1>8 DEF Next

\* The inductive invariant of the store: however many saves have failed and wherever the
\* process has crashed, the engine is empty or exactly the layout of one state (kvstore.go).
THEOREM StoreInvariant == Spec => []StoreInv
  <1>1. Init => StoreInv
    <2> SUFFICES ASSUME Init PROVE StoreInv
      OBVIOUS
    <2>1. state = NewState /\ up = FALSE /\ DOMAIN engine = {}
      BY DEF Init
    <2>2. LoadFrom(engine) = NewState
      BY <2>1, LoadsNothing
    <2>3. Storable(NewState)
      BY NewStateWindowed, StoreAssumption DEF Storable
    <2> QED
      BY <2>1, <2>2, <2>3 DEF StoreInv, LoadedState
  <1>2. StoreInv /\ [Next]_vars => StoreInv'
    BY StoreSteps
  <1> QED
    BY <1>1, <1>2, PTL DEF Spec

\* The engine holds keys of the four prefixes only, and memory and what Load returns are
\* states of a node with a gapless log: the big-endian keys give the log back in order.
THEOREM KVTypeCorrect == Spec => []KVTypeOK
  <1>1. StoreInv => KVTypeOK
    <2> SUFFICES ASSUME StoreInv PROVE KVTypeOK
      OBVIOUS
    <2>1. up \in BOOLEAN /\ Storable(state) /\ Storable(LoadedState) /\ Sound(engine)
      BY DEF StoreInv, LoadedState, Sound
    <2>2. \A s \in {state, LoadedState} :
            /\ s \in ReplicaState
            /\ \A i \in DOMAIN s.Log : s.Log[i].index = s.SnapshotLastIndex + i
      BY <2>1 DEF Storable, Windowed
    <2>3. DOMAIN engine \subseteq LayoutKeys(LoadedState)
      BY <2>1, EngineHolds DEF LoadedState
    <2>4. \A e \in Range(LoadedState.Log) : e.index \in 1..MaxIndex
      BY <2>1, StoredLog
    <2>5. LayoutKeys(LoadedState) \subseteq {metaKey} \cup {logKey(i) : i \in 1..MaxIndex}
                               \cup {smKey(k) : k \in Key} \cup {resKey(r) : r \in Request}
      BY <2>4 DEF LayoutKeys
    <2> QED
      BY <2>1, <2>2, <2>3, <2>5 DEF KVTypeOK
  <1> QED
    BY <1>1, StoreInvariant, PTL

\* lastMeta, lastLog, lastSM and lastRes are what is on disk, after every Save that was
\* written or failed and every Load.
THEOREM BookkeepingMirrorsDisk == Spec => []MirrorsDisk
  <1>1. StoreInv => MirrorsDisk
    BY DEF StoreInv, MirrorsDisk
  <1> QED
    BY <1>1, StoreInvariant, PTL

\* KVStore, which writes differences key by key, implements the store that replaces one
\* state as a whole: what Load returns is the last state that a Save has written.
THEOREM StoreIsAtomic == Spec => ImplementsStore
  <1>1. Init => Contract!Init
    <2> SUFFICES ASSUME Init PROVE Contract!Init
      OBVIOUS
    <2>1. state = NewState /\ up = FALSE /\ DOMAIN engine = {}
      BY DEF Init
    <2>2. LoadedState = NewState
      BY <2>1, LoadsNothing DEF LoadedState
    <2> QED
      BY <2>1, <2>2 DEF Contract!Init
  <1>2. StoreInv /\ [Next]_vars => [Contract!Next]_(Contract!vars)
    <2> SUFFICES ASSUME StoreInv, [Next]_vars PROVE [Contract!Next]_(Contract!vars)
      OBVIOUS
    <2>1. engine' = engine => LoadedState' = LoadedState
      BY DEF LoadedState
    <2>2. CASE up /\ LoadedState' = state /\ UNCHANGED <<state, up>>
      BY <2>2 DEF Contract!Next, Contract!Save
    <2>3. CASE up /\ UNCHANGED <<up, engine>>
      BY <2>1, <2>3 DEF Contract!Next, Contract!Change
    <2>4. CASE up /\ up' = FALSE /\ state' = NewState /\ UNCHANGED engine
      BY <2>1, <2>4 DEF Contract!Next, Contract!Crash
    <2>5. CASE ~up /\ up' = TRUE /\ state' = LoadedState /\ UNCHANGED engine
      BY <2>1, <2>5 DEF Contract!Next, Contract!Load
    <2>6. CASE UNCHANGED <<state, up, engine>>
      BY <2>1, <2>6 DEF Contract!vars
    <2> QED
      BY <2>2, <2>3, <2>4, <2>5, <2>6, StoreSteps
  <1> QED
    BY <1>1, <1>2, StoreInvariant, PTL DEF Spec, ImplementsStore, Contract!Spec
=============================================================================
