------------------------------ MODULE KVStore ------------------------------
(***************************************************************************)
(* KVStore of internal/cdraft/kvstore.go: a PersistentState spread over    *)
(* the keys of an ordered engine, of which Save writes only what differs   *)
(* from what it remembers to have written.  The engine is LevelDB behind   *)
(* leveldb_store.go: a batch is written as a whole or, on an error, not at *)
(* all.                                                                    *)
(*                                                                         *)
(* The process changes its state with the operators of Log, and saves now  *)
(* and then: a handler that does not save, or whose save fails, leaves     *)
(* several changes to the next one.                                        *)
(***************************************************************************)
EXTENDS Log, Functions

CONSTANTS
    Base, Width,   \* the digits of a log key: 256 and 8 in the code
    MaxTerm,       \* bound: global terms
    MaxIndex       \* bound: log indices

ASSUME StoreAssumption ==
    /\ Base \in Nat \ {0, 1} /\ Width \in Nat
    /\ MaxTerm \in Nat /\ MaxIndex \in Nat /\ MaxIndex < Base ^ Width

\* The powers of the base up to the width, which is all that the digits use of them.
ASSUME PowerAssumption ==
    /\ Base ^ 0 = 1
    /\ \A p \in 0..Width : Base ^ p \in Nat \ {0} /\ Base ^ (p + 1) = Base * Base ^ p

VARIABLES
    state,   \* the PersistentState in memory
    up,      \* whether the process runs
    engine,  \* the keys of the engine and their values
    last     \* lastMeta, lastLog, lastSM and lastRes: what Save takes to be on disk

vars == <<state, up, engine, last>>

\* lastMeta is a set: nothing, or the one document written.
NoMeta == {}
EmptyLast ==
    [meta |-> NoMeta, log |-> << >>, sm |-> NewState.StateMachine, res |-> NewState.Results]

-----------------------------------------------------------------------------
(* The layout.                                                             *)

metaKey == <<"meta">>
smKey(k) == <<"sm", k>>
resKey(r) == <<"res", r>>

\* Mutant: the low digit comes first.
logKey_littleEndian(i) == <<"log", [p \in 1..Width |-> (i \div Base ^ (p - 1)) % Base]>>

\* The index in big-endian digits, so that the order of the keys is that of the indices.
logKey(i) == <<"log", [p \in 1..Width |-> (i \div Base ^ (Width - p)) % Base]>>

\* The lexicographic order in which Scan visits the keys of one prefix.
Before(a, b) ==
    \E p \in 1..Width : a[2][p] < b[2][p] /\ \A q \in 1..(p - 1) : a[2][q] = b[2][q]

\* The keys of the log in an engine, and the place of one in a Scan.
LogKeys(kv) == {key \in DOMAIN kv : key[1] = "log"}
Position(kv, key) == Cardinality({other \in LogKeys(kv) : Before(other, key)}) + 1

\* meta is encoded without the log, the state machine and the results.
MetaOf(s) ==
    [s EXCEPT !.Log = << >>, !.StateMachine = NewState.StateMachine, !.Results = NewState.Results]

fingerprintOf(e) == <<e.index, e.term, e.request>>
Fingerprints(log) ==
    [i \in {log[j].index : j \in DOMAIN log} |-> fingerprintOf(EntryAt(log, i))]

\* What Load reads: meta, the log in the order of its keys, and the two maps.
LoadFrom(kv) ==
    LET meta == IF metaKey \in DOMAIN kv THEN kv[metaKey] ELSE NewState
    IN  [meta EXCEPT
           !.Log = [j \in 1..Cardinality(LogKeys(kv)) |->
               kv[CHOOSE key \in LogKeys(kv) : Position(kv, key) = j]],
           !.StateMachine = [k \in Key |->
               IF smKey(k) \in DOMAIN kv THEN kv[smKey(k)] ELSE None],
           !.Results = [r \in Request |->
               IF resKey(r) \in DOMAIN kv THEN kv[resKey(r)] ELSE NoDecision]]

\* What Load remembers of it.  The index of a fingerprint is the entry's own.
LastFrom(kv) ==
    LET s == LoadFrom(kv)
    IN  [meta |-> IF metaKey \in DOMAIN kv THEN {kv[metaKey]} ELSE NoMeta,
         log |-> [i \in {s.Log[j].index : j \in DOMAIN s.Log} |->
                    fingerprintOf(CHOOSE e \in Range(s.Log) : e.index = i)],
         sm |-> s.StateMachine, res |-> s.Results]

LoadedState == LoadFrom(engine)
LoadedLast == LastFrom(engine)

-----------------------------------------------------------------------------
(* Save.                                                                   *)

Remembered(i) == i \in DOMAIN last.log

\* Mutant: a slot that was written once is taken to be written.
Unchanged_slot(e) == Remembered(e.index)

\* A slot that is durable already.
Unchanged(e) == Remembered(e.index) /\ last.log[e.index] = fingerprintOf(e)

\* Mutant: only the tail that was cut off is deleted, not the compacted prefix.
Deletes_tail(s) == {logKey(i) : i \in {j \in DOMAIN last.log : j > LastLogIndex(s)}}

\* Every durable index that the log no longer holds, cut off or compacted.
Deletes(s) == {logKey(i) : i \in {j \in DOMAIN last.log : ~Found(s.Log, j)}}

\* The value that a state gives to a key.
ValueOf(s, key) ==
    CASE key[1] = "meta" -> MetaOf(s)
      [] key[1] = "log" -> CHOOSE e \in Range(s.Log) : logKey(e.index) = key
      [] key[1] = "sm" -> s.StateMachine[key[2]]
      [] key[1] = "res" -> s.Results[key[2]]

Puts(s) ==
    LET keys == {metaKey : document \in {MetaOf(s)} \ last.meta}
                \cup {logKey(e.index) : e \in {f \in Range(s.Log) : ~Unchanged(f)}}
                \cup {smKey(k) : k \in {l \in Key : s.StateMachine[l] \notin {None, last.sm[l]}}}
                \cup {resKey(r) : r \in {q \in Request : s.Results[q] \notin {NoDecision, last.res[q]}}}
    IN  [key \in keys |-> ValueOf(s, key)]

\* Mutant: the bookkeeping is updated before the batch is written.
Remember_before(s, result) ==
    [meta |-> {MetaOf(s)}, log |-> Fingerprints(s.Log), sm |-> s.StateMachine, res |-> s.Results]

\* What Save remembers: nothing new if the batch was not written.
Remember(s, result) ==
    IF result = "error" THEN last
    ELSE [meta |-> {MetaOf(s)}, log |-> Fingerprints(s.Log),
          sm |-> [k \in Key |-> IF s.StateMachine[k] # None THEN s.StateMachine[k] ELSE last.sm[k]],
          res |-> [r \in Request |-> IF s.Results[r] # NoDecision THEN s.Results[r] ELSE last.res[r]]]

\* Save; a batch with nothing in it is not written and cannot fail.
Save(result) ==
    LET puts == Puts(state)
        deletes == Deletes(state)
    IN  /\ up
        /\ result = "error" => DOMAIN puts \cup deletes # {}
        /\ engine' = IF result = "error" THEN engine
                     ELSE [key \in (DOMAIN engine \ deletes) \cup DOMAIN puts |->
                             IF key \in DOMAIN puts THEN puts[key] ELSE engine[key]]
        /\ last' = Remember(state, result)
        /\ UNCHANGED <<state, up>>

-----------------------------------------------------------------------------
(* The process.                                                            *)

Init == state = NewState /\ up = FALSE /\ engine = << >> /\ last = EmptyLast

\* NewRPCNode calls Load.
Load ==
    /\ ~up /\ up' = TRUE
    /\ state' = LoadedState /\ last' = LoadedLast
    /\ UNCHANGED engine

Crash ==
    /\ up /\ up' = FALSE
    /\ state' = NewState /\ last' = EmptyLast
    /\ UNCHANGED engine

Becomes(s) == up /\ state' = s /\ UNCHANGED <<up, engine, last>>

\* Requests that the state has not ordered below an index.
Open(i) ==
    {r \in Request : /\ state.Results[r] = NoDecision
                     /\ \A e \in Range(state.Log) : e.index < i => e.request # r}

\* A handler appends an entry, at the end or over an uncommitted one of an older term.
AppendEntry(e) ==
    /\ e.index \in state.KnownGlobalCommitIndex + 1 .. LastLogIndex(state) + 1
    /\ e.request \in Open(e.index)
    /\ \A f \in Range(state.Log) : f.term <= e.term /\ (f.index = e.index => f.term < e.term)
    /\ Becomes(appendEntryChecked(state, e))

\* It commits and applies up to an entry, and compacts.
AdvanceCommit(e) ==
    /\ e.index > state.KnownGlobalCommitIndex
    /\ Becomes(advanceCommitLocked(state, e))

\* It installs the snapshot of a leader that has applied one entry more.
InstallSnapshot(e) ==
    LET held == {i \in DOMAIN state.Log : state.Log[i].index <= state.AppliedIndex}
        leader == applyEntries([state EXCEPT !.Log = Append(SubSeq(@, 1, Cardinality(held)), e)],
                               e.index)
    IN  /\ e.index = state.AppliedIndex + 1 /\ e.request \in Open(e.index)
        /\ Becomes(installSnapshotState(state,
             [index |-> e.index, term |-> e.term, request |-> e.request,
              StateMachine |-> leader.StateMachine, Results |-> leader.Results]))

\* It changes the small fields only.
FollowTerm(t) == t > state.GlobalTerm /\ Becomes([state EXCEPT !.GlobalTerm = t])

Entries == [index : 1..MaxIndex, term : 1..MaxTerm, request : Request]

Next ==
    \/ \E result \in {"ok", "error"} : Save(result)
    \/ Load
    \/ Crash
    \/ \E e \in Entries : AppendEntry(e) \/ InstallSnapshot(e)
    \/ \E e \in Range(state.Log) : AdvanceCommit(e)
    \/ \E t \in 1..MaxTerm : FollowTerm(t)

Spec == Init /\ [][Next]_vars

-----------------------------------------------------------------------------

\* The store holds keys of its four prefixes; memory and what can be loaded are states of a
\* node, their log following the snapshot without a gap.
KVTypeOK ==
    /\ \A s \in {state, LoadedState} :
         /\ s \in ReplicaState
         /\ \A i \in DOMAIN s.Log : s.Log[i].index = s.SnapshotLastIndex + i
    /\ DOMAIN engine \subseteq {metaKey} \cup {logKey(i) : i \in 1..MaxIndex}
                               \cup {smKey(k) : k \in Key} \cup {resKey(r) : r \in Request}
    /\ up \in BOOLEAN

\* "lastLog / lastSM / lastRes mirror what is already durable": whatever saves have failed,
\* the next one writes its difference against what is really on disk.
MirrorsDisk == up => last = LoadedLast

Contract == INSTANCE AtomicStore WITH memory <- state, saved <- LoadedState

\* The keys together are one state that Save replaces as a whole and Load returns,
\* although each Save writes a part of it only.
ImplementsStore == Contract!Spec

-----------------------------------------------------------------------------
(* The inductive invariant behind these properties.                        *)

\* The keys of a state, each with the value that the state gives to it.
Layout(s) ==
    [key \in {metaKey} \cup {logKey(e.index) : e \in Range(s.Log)}
             \cup {smKey(k) : k \in {l \in Key : s.StateMachine[l] # None}}
             \cup {resKey(r) : r \in {q \in Request : s.Results[q] # NoDecision}}
       |-> ValueOf(s, key)]

\* A state whose log fits the keys.
Storable(s) == Windowed(s) /\ LastLogIndex(s) <= MaxIndex

\* The engine is empty or the layout of the state that Load would return, which memory has
\* gone on from, and the bookkeeping is that of this Load.
StoreInv ==
    /\ up \in BOOLEAN
    /\ Storable(state) /\ Storable(LoadedState)
    /\ DOMAIN engine = {} \/ engine = Layout(LoadedState)
    /\ up => last = LoadedLast /\ Covers(LoadedState, state)
=============================================================================
