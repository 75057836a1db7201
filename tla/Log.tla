-------------------------------- MODULE Log --------------------------------
(***************************************************************************)
(* internal/cdraft/log.go on PersistentState as a value: the consistency   *)
(* check of an append, the commit and its application, compaction into a   *)
(* snapshot and the installation of one.  ReplicaLog studies one node that *)
(* calls these, Replication the nodes of several domains.                  *)
(***************************************************************************)
EXTENDS Integers, Sequences, FiniteSets, FiniteSetsExt

CONSTANTS
    Request,              \* client request ids; a request determines its command
    Key,                  \* the keys of the state machine
    KeyOf,                \* KeyOf[r]: the key that request r writes
    None,                 \* no request
    Domain,               \* the domains of the topology
    compactionThreshold,  \* applied entries kept before compacting; 0 turns it off
    compactionRetain      \* entries kept below the applied one when compacting

ASSUME LogAssumption ==
    /\ KeyOf \in [Request -> Key]
    /\ None \notin Request
    /\ compactionThreshold \in Nat /\ compactionRetain \in Nat

Entry == [index : Nat \ {0}, term : Nat \ {0}, request : Request]
Decision == [term : Nat \ {0}, index : Nat \ {0}]
NoDecision == [term |-> 0, index |-> 0]

ReplicaState ==
    [GlobalTerm : Nat, Log : Seq(Entry), DomainQuorumIndex : [Domain -> Nat],
     KnownGlobalCommitIndex : Nat, AppliedIndex : Nat,
     Results : [Request -> Decision \cup {NoDecision}],
     StateMachine : [Key -> Request \cup {None}],
     SnapshotLastIndex : Nat, SnapshotLastTerm : Nat,
     SnapshotLastRequestID : Request \cup {None}]

NewState ==
    [GlobalTerm |-> 0, Log |-> << >>, DomainQuorumIndex |-> [d \in Domain |-> 0],
     KnownGlobalCommitIndex |-> 0, AppliedIndex |-> 0,
     Results |-> [r \in Request |-> NoDecision],
     StateMachine |-> [k \in Key |-> None],
     SnapshotLastIndex |-> 0, SnapshotLastTerm |-> 0,
     SnapshotLastRequestID |-> None]

-----------------------------------------------------------------------------

\* findEntryByIndex: whether the log holds an entry at an index, and which.
Found(log, i) ==
    /\ log # << >>
    /\ i >= log[1].index /\ i < log[1].index + Len(log)
    /\ log[i - log[1].index + 1].index = i
EntryAt(log, i) == log[i - log[1].index + 1]

LastLogIndex(s) == s.SnapshotLastIndex + Len(s.Log)

Same(e, f) == e.term = f.term /\ e.request = f.request

Lower(x, y) == IF x < y THEN x ELSE y
Higher(x, y) == IF x > y THEN x ELSE y

rollbackQuorumAbove(s, ceiling) ==
    [s EXCEPT !.DomainQuorumIndex = [d \in Domain |-> Lower(@[d], ceiling)]]

\* Mutant: the term of the previous entry is not compared.
PrefixMatches_anyTerm(s, prev) ==
    \/ prev.index \in {0, s.SnapshotLastIndex}
    \/ Found(s.Log, prev.index)

\* The check of prevLogIndex and prevLogTerm, across the cut of the snapshot too.
PrefixMatches(s, prev) ==
    \/ prev.index = 0
    \/ prev.index = s.SnapshotLastIndex /\ prev.term = s.SnapshotLastTerm
    \/ /\ prev.index # s.SnapshotLastIndex
       /\ Found(s.Log, prev.index) /\ EntryAt(s.Log, prev.index).term = prev.term

\* The outcome of appendEntryChecked.  A compacted index is accepted without looking at
\* the entry; a different entry at a committed index is a conflict.
Conflicts(s, e) ==
    /\ Found(s.Log, e.index) /\ ~Same(EntryAt(s.Log, e.index), e)
    /\ e.index <= s.KnownGlobalCommitIndex

appendOutcome(s, e, prev) ==
    IF e.index <= s.SnapshotLastIndex THEN "accepted"
    ELSE IF ~PrefixMatches(s, prev) THEN "prefixMismatch"
    ELSE IF Conflicts(s, e) THEN "committedConflict"
    ELSE IF Found(s.Log, e.index) \/ e.index = LastLogIndex(s) + 1 THEN "accepted"
    ELSE "prefixMismatch"

\* Mutant: the tail is cut as if nothing had been compacted.
appendEntryChecked_noOffset(s, e) ==
    IF e.index <= s.SnapshotLastIndex \/ (Found(s.Log, e.index) /\ Same(EntryAt(s.Log, e.index), e))
    THEN s
    ELSE rollbackQuorumAbove(
           [s EXCEPT !.Log = Append(SubSeq(@, 1, Lower(Len(@), e.index - 1)), e)], e.index - 1)

\* appendEntryChecked when it accepts: an entry already held (or compacted) changes
\* nothing, another one replaces the tail from its index on.
appendEntryChecked(s, e) ==
    IF e.index <= s.SnapshotLastIndex \/ (Found(s.Log, e.index) /\ Same(EntryAt(s.Log, e.index), e))
    THEN s
    ELSE LET keep == e.index - s.SnapshotLastIndex - 1
             t == [s EXCEPT !.Log = Append(SubSeq(@, 1, keep), e)]
         IN  IF Found(s.Log, e.index) THEN rollbackQuorumAbove(t, e.index - 1) ELSE t

\* The last of the entries of log at the indices is that writes key k.
LastWrite(log, is, k) == Max({i \in is : KeyOf[EntryAt(log, i).request] = k})

\* applyEntry of the entries from KnownGlobalCommitIndex + 1 to top, one after the other.
\* An entry reaches the state machine only if it follows the applied one.
applyEntries(s, top) ==
    LET new == s.KnownGlobalCommitIndex + 1 .. top
        fresh == IF s.KnownGlobalCommitIndex <= s.AppliedIndex
                 THEN s.AppliedIndex + 1 .. top ELSE {}
        writes(k) == \E i \in fresh : KeyOf[EntryAt(s.Log, i).request] = k
        decides(r) == {i \in new : EntryAt(s.Log, i).request = r}
        last(r) == EntryAt(s.Log, Max(decides(r)))
    IN  [s EXCEPT
           !.KnownGlobalCommitIndex = top,
           !.AppliedIndex = IF fresh = {} THEN @ ELSE top,
           !.StateMachine = [k \in Key |-> IF writes(k)
                               THEN EntryAt(s.Log, LastWrite(s.Log, fresh, k)).request
                               ELSE @[k]],
           !.Results = [r \in Request |-> IF decides(r) # {}
                          THEN [term |-> last(r).term, index |-> last(r).index]
                          ELSE @[r]]]

compactLog(s, at) ==
    IF at <= s.SnapshotLastIndex \/ at > s.AppliedIndex \/ ~Found(s.Log, at) THEN s
    ELSE [s EXCEPT !.Log = SubSeq(@, at - s.SnapshotLastIndex + 1, Len(@)),
                   !.SnapshotLastIndex = at,
                   !.SnapshotLastTerm = EntryAt(s.Log, at).term,
                   !.SnapshotLastRequestID = EntryAt(s.Log, at).request]

\* The policy runs on every node but a migrating Global Leader.
maybeCompactLocked(s) ==
    IF /\ compactionThreshold # 0
       /\ s.AppliedIndex - s.SnapshotLastIndex > compactionThreshold
       /\ s.AppliedIndex > compactionRetain
    THEN compactLog(s, s.AppliedIndex - compactionRetain)
    ELSE s

\* Mutant: the identity of the committed entry is not compared.
MayAdvance_anyEntry(s, c) ==
    \A i \in s.KnownGlobalCommitIndex + 1 .. c.index : Found(s.Log, i)

\* Whether advanceCommitLocked accepts a commit position: it is known, or the log reaches
\* it without a gap and holds the committed entry there.
MayAdvance(s, c) ==
    \/ c.index <= s.KnownGlobalCommitIndex
    \/ /\ c.index > s.KnownGlobalCommitIndex
       /\ \A i \in s.KnownGlobalCommitIndex + 1 .. c.index : Found(s.Log, i)
       /\ Same(EntryAt(s.Log, c.index), c)

advanceCommitLocked(s, c) ==
    IF MayAdvance(s, c) /\ c.index > s.KnownGlobalCommitIndex
    THEN maybeCompactLocked(applyEntries(s, c.index))
    ELSE s

\* Mutant: a snapshot that does not reach past the applied prefix is installed too.
installSnapshotState_stale(s, snap) ==
    [s EXCEPT !.Log = << >>,
              !.SnapshotLastIndex = snap.index,
              !.SnapshotLastTerm = snap.term,
              !.SnapshotLastRequestID = snap.request,
              !.StateMachine = snap.StateMachine,
              !.AppliedIndex = snap.index,
              !.KnownGlobalCommitIndex = snap.index]

\* installSnapshotState: the tail after a matching boundary entry is kept, any other log
\* is dropped; the state machine is replaced, the results are merged.
installSnapshotState(s, snap) ==
    IF snap.index <= s.AppliedIndex \/ snap.index <= s.SnapshotLastIndex THEN s
    ELSE LET matches == Found(s.Log, snap.index) /\ EntryAt(s.Log, snap.index).term = snap.term
             t == [s EXCEPT
                     !.Log = IF matches
                             THEN SubSeq(@, snap.index - s.Log[1].index + 2, Len(@))
                             ELSE << >>,
                     !.SnapshotLastIndex = snap.index,
                     !.SnapshotLastTerm = snap.term,
                     !.SnapshotLastRequestID = snap.request,
                     !.StateMachine = snap.StateMachine,
                     !.Results = [r \in Request |-> IF snap.Results[r] # NoDecision
                                    THEN snap.Results[r] ELSE @[r]],
                     !.AppliedIndex = snap.index,
                     !.KnownGlobalCommitIndex = Higher(@, snap.index)]
         IN  IF matches THEN t ELSE rollbackQuorumAbove(t, snap.index)

RaiseQuorum(s, d, i) == [s EXCEPT !.DomainQuorumIndex[d] = Higher(@, i)]

\* What every operation on a state keeps: its log follows its snapshot without a gap, and
\* what is committed is applied.
Windowed(s) ==
    /\ s \in ReplicaState
    /\ \A i \in DOMAIN s.Log : s.Log[i].index = s.SnapshotLastIndex + i
    /\ s.SnapshotLastIndex <= s.AppliedIndex
    /\ s.KnownGlobalCommitIndex = s.AppliedIndex
    /\ s.AppliedIndex <= LastLogIndex(s)

\* Nothing that s has applied is missing in t.
Covers(s, t) ==
    /\ \A k \in Key : s.StateMachine[k] # None => t.StateMachine[k] # None
    /\ \A r \in Request : s.Results[r] # NoDecision => t.Results[r] # NoDecision

\* From s to t a node goes on with what it has committed: no index is taken back, no
\* committed entry that t still holds is rewritten, and no decided request is forgotten.
Keeps(s, t) ==
    /\ s.SnapshotLastIndex <= t.SnapshotLastIndex /\ s.AppliedIndex <= t.AppliedIndex
    /\ \A i \in t.SnapshotLastIndex + 1 .. s.AppliedIndex : EntryAt(t.Log, i) = EntryAt(s.Log, i)
    /\ \A r \in Request : s.Results[r] # NoDecision => t.Results[r] # NoDecision
=============================================================================
