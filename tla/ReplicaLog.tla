----------------------------- MODULE ReplicaLog -----------------------------
(***************************************************************************)
(* The replicated log of one node of CD-Raft (internal/cdraft/log.go and   *)
(* the handlers of rpc_node.go and telemetry.go that call it): entries are *)
(* appended after a consistency check, committed by identity, applied in   *)
(* order, compacted into a snapshot, and replaced by a leader's snapshot.  *)
(* The operations on a log themselves are those of Log.                    *)
(*                                                                         *)
(* The node follows Global Leaders it shares nothing with but messages.    *)
(* Of them the module assumes what the elections are for: one leader per   *)
(* term, which only appends to its log, starting from a log that holds     *)
(* everything committed.  Whatever a leader has sent may arrive at any     *)
(* later time, more than once, from it or through the node's Domain        *)
(* Leader: so every entry of every leader's log is always deliverable.     *)
(* Fast Return is off: no certificate is ever pending at the node.         *)
(***************************************************************************)
EXTENDS Log

CONSTANTS
    home,                 \* the node's domain
    Asked,                \* Asked[t]: bound, the requests sent to the leader of term t
    MaxIndex,             \* bound: the length of a leader's log
    MaxFanouts,           \* bound: concurrent Replicate calls waiting for the domain
    DiskMayFail           \* whether store.Save may return an error

ASSUME ReplicaAssumption ==
    /\ home \in Domain
    /\ Asked \in Seq(SUBSET Request)
    /\ MaxIndex \in Nat /\ MaxFanouts \in Nat
    /\ DiskMayFail \in BOOLEAN

VARIABLES
    leaderLogs,  \* leaderLogs[t]: the log of the Global Leader of term t
    committed,   \* the globally committed log
    state,       \* the replication part of the node's PersistentState, in memory
    disk,        \* the same, as last saved
    fanouts      \* entries whose Replicate calls wait for acknowledgements

vars == <<leaderLogs, committed, state, disk, fanouts>>

\* The node's state has its Go types, and Log holds the entries that follow the
\* snapshot without a gap (the comment on SnapshotLastIndex in store.go).
ReplicaTypeOK ==
    /\ leaderLogs \in Seq(Seq(Entry))
    /\ committed \in Seq(Entry)
    /\ \A s \in {state, disk} :
         /\ s \in ReplicaState
         /\ \A i \in DOMAIN s.Log : s.Log[i].index = s.SnapshotLastIndex + i
    /\ fanouts \subseteq Entry

-----------------------------------------------------------------------------
(* The reference: what a committed log means.                              *)

StateAfter(log, n) ==
    [k \in Key |->
       LET writers == {i \in 1..n : KeyOf[log[i].request] = k}
       IN  IF writers = {} THEN None
           ELSE log[Max(writers)].request]

ResultsAfter(log, n) ==
    [r \in Request |->
       LET at == {i \in 1..n : log[i].request = r}
       IN  IF at = {} THEN NoDecision
           ELSE [term |-> log[Max(at)].term, index |-> Max(at)]]

-----------------------------------------------------------------------------
(* The leaders.                                                            *)

Terms == DOMAIN leaderLogs

\* A Global Leader is elected: its log is one that an earlier leader wrote, up to some
\* entry, and holds everything committed.
NewLeader ==
    /\ Len(leaderLogs) < Len(Asked)
    /\ \E t \in Terms : \E n \in Len(committed)..Len(leaderLogs[t]) :
         /\ SubSeq(leaderLogs[t], 1, Len(committed)) = committed
         /\ leaderLogs' = Append(leaderLogs, SubSeq(leaderLogs[t], 1, n))
    /\ UNCHANGED <<committed, state, disk, fanouts>>

\* Write at the leader of term t (it may have been deposed) orders a request it has not
\* ordered yet.
LeaderAppends(t, r) ==
    /\ Len(leaderLogs[t]) < MaxIndex
    /\ r \in Asked[t]
    /\ \A i \in DOMAIN leaderLogs[t] : leaderLogs[t][i].request # r
    /\ leaderLogs' = [leaderLogs EXCEPT ![t] =
         Append(@, [index |-> Len(@) + 1, term |-> t, request |-> r])]
    /\ UNCHANGED <<committed, state, disk, fanouts>>

\* The last leader finds the two-domain evidence for its log up to index n.
LeaderCommits(n) ==
    /\ n \in Len(committed) + 1 .. Len(leaderLogs[Len(leaderLogs)])
    /\ committed' = SubSeq(leaderLogs[Len(leaderLogs)], 1, n)
    /\ UNCHANGED <<leaderLogs, state, disk, fanouts>>

\* The commit positions that the leader of term t may tell others of.
CommitsOf(t) ==
    {e \in {committed[i] : i \in DOMAIN committed} :
        e.index <= Len(leaderLogs[t]) /\ leaderLogs[t][e.index] = e}

\* prevLogFor: what precedes entry i in the leader's log.
PrevLog(log, i) == [index |-> i - 1, term |-> IF i = 1 THEN 0 ELSE log[i - 1].term]

\* buildSnapshotRequestLocked: the leader's applied prefix, up to entry e.
SnapshotAt(e) ==
    [index |-> e.index, term |-> e.term, request |-> e.request,
     StateMachine |-> StateAfter(committed, e.index),
     Results |-> ResultsAfter(committed, e.index)]

-----------------------------------------------------------------------------
(* The node.                                                               *)

persistLocked(s, save) ==
    /\ state' = s
    /\ disk' = IF save = "ok" THEN s ELSE disk

Init ==
    /\ leaderLogs = << << >> >>
    /\ committed = << >>
    /\ state = NewState
    /\ disk = state
    /\ fanouts = {}

\* Replicate, of entry i of the leader of term t.  An entry of an older term is refused
\* unless it comes through the current Domain Leader: the fan-out of this or an earlier
\* handler, or catchUp, which names the node itself as the sender.  Refusals and
\* conflicts change nothing; a follower saves before it answers.
Replicate(t, i, save) ==
    LET e == leaderLogs[t][i]
        outcome == appendOutcome(state, e, PrevLog(leaderLogs[t], i))
    IN  /\ outcome # "committedConflict"
        /\ persistLocked(IF outcome = "accepted" THEN appendEntryChecked(state, e) ELSE state, save)
        /\ UNCHANGED <<leaderLogs, committed, fanouts>>

\* Replicate at a Domain Leader: an accepted entry is not saved before the domain's
\* acknowledgements are in, which are collected outside the lock.
ReplicateFanout(t, i) ==
    LET e == leaderLogs[t][i]
    IN  /\ Cardinality(fanouts) < MaxFanouts
        /\ appendOutcome(state, e, PrevLog(leaderLogs[t], i)) = "accepted"
        /\ state' = appendEntryChecked(state, e)
        /\ fanouts' = fanouts \cup {e}
        /\ UNCHANGED <<leaderLogs, committed, disk>>

\* The end of Replicate at a Domain Leader: with a quorum the domain's mark is raised to
\* the entry's index, whatever the log holds there by now; without one the state is saved
\* as it is (after a snapshot it is not, which differs from this by a Tick).
FinishFanout(e, quorum, save) ==
    /\ e \in fanouts
    /\ persistLocked(IF quorum THEN RaiseQuorum(state, home, e.index) ELSE state, save)
    /\ fanouts' = fanouts \ {e}
    /\ UNCHANGED <<leaderLogs, committed>>

\* reconfirmDomainQuorum: it checks again, under the lock, that the entry its members
\* acknowledged is still in the log, so it takes effect as one step.
reconfirmDomainQuorum(i, save) ==
    /\ Found(state.Log, i)
    /\ i > state.DomainQuorumIndex[home]
    /\ persistLocked(RaiseQuorum(state, home, i), save)
    /\ UNCHANGED <<leaderLogs, committed, fanouts>>

\* Commit: a notice of the leader of term t.  One that is refused changes nothing.
Commit(t, c, save) ==
    /\ t >= state.GlobalTerm
    /\ MayAdvance(state, c)
    /\ persistLocked(advanceCommitLocked(state, c), save)
    /\ UNCHANGED <<leaderLogs, committed, fanouts>>

\* HeartbeatGlobalInternal: the node follows the leader of term t and advances to the
\* commit position that the heartbeat carries, if it can.
HeartbeatGlobal(t, c, save) ==
    /\ t >= state.GlobalTerm
    /\ persistLocked(advanceCommitLocked([state EXCEPT !.GlobalTerm = t], c), save)
    /\ UNCHANGED <<leaderLogs, committed, fanouts>>

\* InstallSnapshot from the leader of term t, whose applied prefix ends with entry e.  With
\* the domain's acknowledgements its mark is raised, in a later critical section.
InstallSnapshot(t, e, save) ==
    /\ t >= state.GlobalTerm
    /\ persistLocked(installSnapshotState(state, SnapshotAt(e)), save)
    /\ fanouts' \in {fanouts} \cup
         (IF save = "ok" /\ Cardinality(fanouts) < MaxFanouts THEN {fanouts \cup {e}} ELSE {})
    /\ UNCHANGED <<leaderLogs, committed>>

\* Any handler of the election layers, and each tick of failureDetectorLoop, saves.
Tick ==
    /\ persistLocked(state, "ok")
    /\ UNCHANGED <<leaderLogs, committed, fanouts>>

\* The process ends and NewRPCNode loads the saved state.
Restart ==
    /\ state' = disk
    /\ fanouts' = {}
    /\ UNCHANGED <<leaderLogs, committed, disk>>

SaveResult == IF DiskMayFail THEN {"ok", "error"} ELSE {"ok"}
NoCommit == [index |-> 0, term |-> 0, request |-> None]

Next ==
    \/ NewLeader
    \/ \E t \in Terms : \E r \in Request : LeaderAppends(t, r)
    \/ \E n \in 1..MaxIndex : LeaderCommits(n)
    \/ \E save \in SaveResult : \E t \in Terms :
         \/ \E i \in DOMAIN leaderLogs[t] : Replicate(t, i, save)
         \/ \E c \in CommitsOf(t) : Commit(t, c, save) \/ InstallSnapshot(t, c, save)
         \/ \E c \in CommitsOf(t) \cup {NoCommit} : HeartbeatGlobal(t, c, save)
    \/ \E t \in Terms : \E i \in DOMAIN leaderLogs[t] : ReplicateFanout(t, i)
    \/ \E save \in SaveResult :
         \/ \E e \in fanouts, quorum \in BOOLEAN : FinishFanout(e, quorum, save)
         \/ \E i \in 1..MaxIndex : reconfirmDomainQuorum(i, save)
    \/ Tick
    \/ Restart

Spec == Init /\ [][Next]_vars

-----------------------------------------------------------------------------
(* What a replica promises.                                                *)

\* State machine safety, in memory and on disk, so also after a crash at any moment: what a
\* node has applied is exactly the effect of a prefix of the committed log, whatever mix of
\* entries, commit notices, heartbeats and snapshots brought it there, and the snapshot
\* metadata identify the committed entry at the cut.
AppliedIsCommitted ==
    \A s \in {state, disk} :
        /\ s.SnapshotLastIndex <= s.AppliedIndex
        /\ s.KnownGlobalCommitIndex = s.AppliedIndex
        /\ s.AppliedIndex <= Len(committed)
        /\ s.StateMachine = StateAfter(committed, s.AppliedIndex)
        /\ s.Results = ResultsAfter(committed, s.AppliedIndex)
        /\ s.SnapshotLastIndex > 0 =>
             LET e == committed[s.SnapshotLastIndex]
             IN  s.SnapshotLastTerm = e.term /\ s.SnapshotLastRequestID = e.request

\* Log matching across compaction: the log of a node, with its compacted prefix, is at any
\* time a prefix of some leader's log (appendEntryChecked, installSnapshotState), and holds
\* every entry that is applied and not compacted.
LogMatchesALeader ==
    \A s \in {state, disk} :
        /\ LastLogIndex(s) >= s.AppliedIndex
        /\ \E t \in Terms :
             /\ LastLogIndex(s) <= Len(leaderLogs[t])
             /\ SubSeq(leaderLogs[t], 1, s.AppliedIndex) = SubSeq(committed, 1, s.AppliedIndex)
             /\ s.Log = SubSeq(leaderLogs[t], s.SnapshotLastIndex + 1, LastLogIndex(s))

\* The applied prefix only goes back in a restart, the saved one and the decisions saved
\* for client retries never do, in whatever order old snapshots and notices arrive.
AppliedNeverGoesBack ==
    [][/\ state'.AppliedIndex >= state.AppliedIndex \/ Restart
       /\ disk'.AppliedIndex >= disk.AppliedIndex
       /\ \A r \in Request : disk.Results[r] # NoDecision => disk'.Results[r] = disk.Results[r]]_vars

-----------------------------------------------------------------------------
(* Why they hold: the inductive invariants.                                *)

\* Two logs are the same up to index n.
SameUpTo(a, b, n) ==
    /\ n <= Len(a) /\ n <= Len(b)
    /\ \A i \in 1..n : a[i] = b[i]

\* Log matching among the leaders: an entry carries its position and the term of the leader
\* that created it, and a log that holds it agrees with that leader's log up to it.  No log
\* holds a request twice (Write looks the request up first), and the last leader's log
\* begins with everything committed.
LeadersInv ==
    /\ leaderLogs # << >>
    /\ \A t \in Terms : \A i \in DOMAIN leaderLogs[t] :
         LET e == leaderLogs[t][i]
         IN  /\ e.index = i /\ e.term \in Terms
             /\ SameUpTo(leaderLogs[e.term], leaderLogs[t], i)
    /\ \A t \in Terms : \A i, j \in DOMAIN leaderLogs[t] :
         leaderLogs[t][i].request = leaderLogs[t][j].request => i = j
    /\ SameUpTo(committed, leaderLogs[Len(leaderLogs)], Len(committed))

\* Replica state s, with its compacted prefix, follows the log of a leader: as far as it
\* goes it is that log, and what it has applied of it is committed.
FollowsLog(s, log, decided) ==
    /\ LastLogIndex(s) <= Len(log)
    /\ SameUpTo(log, decided, s.AppliedIndex)
    /\ \A i \in DOMAIN s.Log : s.Log[i] = log[s.SnapshotLastIndex + i]

\* What a replica state, in memory or on disk, keeps: its type, an applied prefix of the
\* committed log and its effects, and a log that follows some leader's.
StateInv(s, logs, decided) ==
    /\ s \in ReplicaState
    /\ \A i \in DOMAIN s.Log : s.Log[i].index = s.SnapshotLastIndex + i
    /\ s.SnapshotLastIndex <= s.AppliedIndex
    /\ s.KnownGlobalCommitIndex = s.AppliedIndex
    /\ s.AppliedIndex <= LastLogIndex(s)
    /\ s.StateMachine = StateAfter(decided, s.AppliedIndex)
    /\ s.Results = ResultsAfter(decided, s.AppliedIndex)
    /\ s.SnapshotLastIndex > 0 =>
         LET e == decided[s.SnapshotLastIndex]
         IN  s.SnapshotLastTerm = e.term /\ s.SnapshotLastRequestID = e.request
    /\ \E t \in DOMAIN logs : FollowsLog(s, logs[t], decided)

\* The inductive invariant of the specification.  The disk never holds more than memory.
ReplicaInv ==
    /\ leaderLogs \in Seq(Seq(Entry)) /\ committed \in Seq(Entry) /\ fanouts \subseteq Entry
    /\ LeadersInv
    /\ StateInv(state, leaderLogs, committed) /\ StateInv(disk, leaderLogs, committed)
    /\ disk.AppliedIndex <= state.AppliedIndex
=============================================================================
