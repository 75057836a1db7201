---------------------------- MODULE Replication ----------------------------
(***************************************************************************)
(* Writes and reads of CD-Raft across domains (internal/cdraft/rpc_node.go *)
(* from Write to deliverFastReturn, and catchUp of telemetry.go).          *)
(*                                                                         *)
(* A domain stands for its Domain Leader.  The Global Leader orders a      *)
(* request in its log, replicates the entry to every domain, and commits   *)
(* it once its own domain and another one hold it.  With Fast Return the   *)
(* domain the request came from may answer the client as soon as it knows  *)
(* of both.  A background call does all this and outlives the client, the  *)
(* lease and the term of the leader that started it.                       *)
(*                                                                         *)
(* Elections are one step: a candidate with the votes that the code asks   *)
(* for leads the next term, and by then no other lease is valid            *)
(* (GlobalElection and Leases look into that).                             *)
(***************************************************************************)
EXTENDS Log, Functions

CONSTANTS
    OriginOf,      \* OriginOf[r]: the domain request r comes from; floating if not in Domain
    FastReturn,    \* the feature switch
    MayRestart,    \* domains whose Domain Leader may crash
    Takeover,      \* whether another member may lead a domain after a crash
    DeposedReach,  \* whether calls of a superseded Global Leader still reach other domains
    Patience,      \* bound: a fan-out of the serving leader is not given up before it commits
    Candidate,     \* bound: the domains that campaign
    MaxTerm,       \* bound: global terms
    MaxIndex       \* bound: entries in a log

ASSUME ReplicationAssumption ==
    /\ DOMAIN OriginOf = Request
    /\ FastReturn \in BOOLEAN /\ Takeover \in BOOLEAN /\ DeposedReach \in BOOLEAN
    /\ Patience \in BOOLEAN
    /\ MayRestart \subseteq Domain /\ Candidate \subseteq Domain
    /\ MaxTerm \in Nat /\ MaxIndex \in Nat
    /\ None \notin Domain
    /\ IsFiniteSet(Domain)

VARIABLES
    state,        \* state[d]: PersistentState of the Domain Leader of d, in memory
    disk,         \* disk[d]: the same, as last saved
    leads,        \* leads[d]: the term d is Global Leader of, as it believes; 0 if it is not
    follows,      \* follows[d]: the domain of the Global Leader that d knows, or None
    serving,      \* the domain whose read lease is valid, or None
    commits,      \* running calls of replicateAndCommit
    pendingFast,  \* pendingFast[d]: entries that the global domain is known to hold
    announces,    \* GlobalDomainQuorumAcks on the wire
    notices,      \* CommitNotices on the wire
    answers,      \* what clients have been told
    replaced      \* bound: the domains whose Domain Leader has stopped once

nodeVars == <<state, disk>>
roleVars == <<leads, follows, serving, replaced>>
fastVars == <<pendingFast, announces>>
vars == <<nodeVars, roleVars, commits, fastVars, notices, answers>>

Commits == [leader : Domain, entry : Entry, todo : SUBSET Domain, acks : SUBSET Domain,
            quorums : SUBSET Domain, committed : BOOLEAN]

\* Every variable has its Go type, and a request has one running commit per leader.
ReplicationTypeOK ==
    /\ state \in [Domain -> ReplicaState] /\ disk \in [Domain -> ReplicaState]
    /\ leads \in [Domain -> Nat] /\ follows \in [Domain -> Domain \cup {None}]
    /\ serving \in Domain \cup {None}
    /\ commits \subseteq Commits
    /\ pendingFast \in [Domain -> SUBSET Entry]
    /\ announces \subseteq [entry : Entry, leader : Domain, responder : Domain]
    /\ notices \subseteq [term : Nat, sender : Domain, entry : Entry]
    /\ answers \subseteq Entry /\ replaced \subseteq Domain
    /\ \A b, c \in commits : b.leader = c.leader /\ b.entry.request = c.entry.request => b = c

Init ==
    /\ state = [d \in Domain |-> NewState] /\ disk = state
    /\ leads = [d \in Domain |-> 0] /\ follows = [d \in Domain |-> None] /\ serving = None
    /\ commits = {}
    /\ pendingFast = [d \in Domain |-> {}] /\ announces = {}
    /\ notices = {} /\ answers = {} /\ replaced = {}

-----------------------------------------------------------------------------
(* Helpers on one node.                                                    *)

Mark(d) == state[d].DomainQuorumIndex[d]
Known(d) == state[d].KnownGlobalCommitIndex

LastTerm(s) == IF s.Log = << >> THEN s.SnapshotLastTerm ELSE s.Log[Len(s.Log)].term

\* LogSummary.AtLeast.
AsNew(s, t) ==
    \/ LastTerm(s) > LastTerm(t)
    \/ LastTerm(s) = LastTerm(t) /\ LastLogIndex(s) >= LastLogIndex(t)

globalElectionThreshold == IF Cardinality(Domain) <= 2 THEN Cardinality(Domain)
                           ELSE Cardinality(Domain) - 1

\* findEntryByRequest.
OrderedAt(s, r) == {i \in DOMAIN s.Log : s.Log[i].request = r}

\* prevLogFor and collectTailEntries: the anchor sent with entry i.
prevLogFor(s, i) ==
    [index |-> i - 1,
     term |-> IF Found(s.Log, i - 1) THEN EntryAt(s.Log, i - 1).term
              ELSE IF i - 1 = s.SnapshotLastIndex THEN s.SnapshotLastTerm ELSE 0]

collectTailEntries(s, after, barrier) ==
    IF after >= barrier \/ ~Found(s.Log, after + 1) THEN << >>
    ELSE [k \in 1 .. Lower(barrier, LastLogIndex(s)) - after |-> EntryAt(s.Log, after + k)]

\* replicationSenderTrustedLocked.
Trusts(d, sender) == sender = d \/ follows[d] \in {None, sender}

\* Mutant: an entry in the log counts without the domain's quorum for it.
domainHoldsEntry_noQuorum(s, d, e) == Found(s.Log, e.index) /\ EntryAt(s.Log, e.index) = e

\* domainHoldsEntryLocked.
domainHoldsEntry(s, d, e) ==
    /\ s.DomainQuorumIndex[d] >= e.index
    /\ Found(s.Log, e.index) /\ EntryAt(s.Log, e.index) = e

\* The identity of the last committed entry, as a heartbeat carries it.
CommitPosition(s) ==
    LET i == s.KnownGlobalCommitIndex
    IN  IF Found(s.Log, i) THEN EntryAt(s.Log, i)
        ELSE [index |-> i, term |-> s.SnapshotLastTerm, request |-> s.SnapshotLastRequestID]

\* A leader that another one has superseded may be cut off.
Reaches(l, d) == \/ l = d \/ DeposedReach
                 \/ \A m \in Domain : state[m].GlobalTerm <= state[l].GlobalTerm /\ leads[l] # 0

SetState(d, s) == state' = [state EXCEPT ![d] = s]
\* persistLocked, kept for the domains that may load it again.
Save(d, s) == SetState(d, s) /\ disk' = IF d \in MayRestart THEN [disk EXCEPT ![d] = s] ELSE disk

-----------------------------------------------------------------------------
(* Leadership.                                                             *)

\* campaignGlobal, RequestVoteGlobalInternal of the voters, and the first heartbeat
\* round, after which the voters follow the new leader.
Elect(c, voters) ==
    LET t == state[c].GlobalTerm + 1
    IN  /\ t <= MaxTerm
        /\ c \in voters /\ Cardinality(voters) = globalElectionThreshold
        /\ \A v \in voters \ {c} : state[v].GlobalTerm < t /\ AsNew(state[c], state[v])
        /\ state' = [d \in Domain |-> IF d \in voters THEN [state[d] EXCEPT !.GlobalTerm = t]
                                                      ELSE state[d]]
        /\ disk' = [d \in Domain |-> IF d \in voters \cap MayRestart THEN state'[d] ELSE disk[d]]
        /\ leads' = [d \in Domain |-> IF d = c THEN t ELSE IF d \in voters THEN 0 ELSE leads[d]]
        /\ follows' = [d \in Domain |-> IF d \in voters THEN c ELSE follows[d]]
        /\ serving' = c
        /\ commits' = IF DeposedReach THEN commits ELSE {b \in commits : b.leader = c}
        /\ UNCHANGED <<replaced, fastVars, notices, answers>>

\* HeartbeatGlobalInternal at d, with the commit position of leader l.
HeartbeatGlobal(l, d) ==
    /\ leads[l] # 0 /\ Reaches(l, d) /\ l # d
    /\ leads[l] >= state[d].GlobalTerm
    /\ Save(d, advanceCommitLocked([state[d] EXCEPT !.GlobalTerm = leads[l]],
                                   CommitPosition(state[l])))
    /\ leads' = [leads EXCEPT ![d] = 0]
    /\ follows' = [follows EXCEPT ![d] = l]
    /\ UNCHANGED <<serving, replaced, commits, fastVars, notices, answers>>

\* observeHigherGlobalTerm of leader l, from an answer of d; or, with the term that it
\* has, maybeStepDownExpiredGlobalLeaseLocked.  Running commits go on.
StepDown(l, t) ==
    /\ leads[l] # 0
    /\ t = state[l].GlobalTerm
         \/ \E d \in Domain : t = state[d].GlobalTerm /\ t > state[l].GlobalTerm
    /\ Save(l, [state[l] EXCEPT !.GlobalTerm = t])
    /\ leads' = [leads EXCEPT ![l] = 0]
    /\ follows' = [follows EXCEPT ![l] = None]
    /\ serving' = IF serving = l THEN None ELSE serving
    /\ UNCHANGED <<replaced, commits, fastVars, notices, answers>>

\* The Domain Leader of d stops, and the domain goes on with state s.
Replaced(d, s) ==
    /\ d \in MayRestart \ replaced /\ state[d].GlobalTerm < MaxTerm
    /\ replaced' = replaced \cup {d}
    /\ Save(d, s)
    /\ leads' = [leads EXCEPT ![d] = 0]
    /\ follows' = [follows EXCEPT ![d] = None]
    /\ serving' = IF serving = d THEN None ELSE serving
    /\ commits' = {c \in commits : c.leader # d}
    /\ pendingFast' = [pendingFast EXCEPT ![d] = {}]
    /\ UNCHANGED <<announces, notices, answers>>

\* It comes back with what it has saved.
Restart(d) == Replaced(d, disk[d])

\* Another member leads the domain.  It holds what a quorum of the domain has acknowledged,
\* maybe more, knows of no commit, and has no marks: followers never set them.
TakeOver(d, n) ==
    /\ Takeover /\ disk[d].SnapshotLastIndex = 0
    /\ n \in disk[d].DomainQuorumIndex[d] .. LastLogIndex(disk[d])
    /\ Replaced(d, [NewState EXCEPT !.GlobalTerm = disk[d].GlobalTerm,
                                    !.Log = SubSeq(disk[d].Log, 1, n)])

\* Every tick of failureDetectorLoop saves, as do the handlers that refuse.
Tick(d) ==
    /\ Save(d, state[d])
    /\ UNCHANGED <<roleVars, commits, fastVars, notices, answers>>

-----------------------------------------------------------------------------
(* The receivers.                                                          *)

\* Certificates for the indices an append has overwritten are dropped.
LivePending(d, e) ==
    IF Found(state[d].Log, e.index) /\ ~Same(EntryAt(state[d].Log, e.index), e)
    THEN {p \in pendingFast[d] : p.index < e.index}
    ELSE pendingFast[d]

\* Replicate after the domain's acknowledgements: the mark is raised, and an entry whose
\* certificate is pending is committed.
QuorumReached(s, d, e, pending) ==
    LET raised == RaiseQuorum(s, d, e.index)
    IN  IF e \in pending THEN advanceCommitLocked(raised, e) ELSE raised

\* deliverFastReturn, of an entry in s with a certificate: the answers it sends.  A later run
\* tests the same again, and that a request is answered once: both only take answers away.
deliverFastReturn(s, d, e) ==
    IF domainHoldsEntry(s, d, e) /\ s.KnownGlobalCommitIndex + 1 >= e.index /\ e.term >= s.GlobalTerm
    THEN {e} ELSE {}

\* The commits after domain d has answered the call of leader l for entry e.
Acknowledged(l, e, d) ==
    {IF c.leader = l /\ c.entry = e /\ d \in c.todo
     THEN [c EXCEPT !.todo = @ \ {d}, !.acks = @ \cup {d}] ELSE c : c \in commits}

\* replicateDomainQuorum calls Replicate at d.  The fan-out inside the domain reaches a
\* quorum or not (ReplicaLog looks at what may happen while it runs); the state is saved
\* either way, and only a quorum counts for the caller.  (After a lost answer the caller
\* probes, or gives up.)
Replicate(c, d, quorum) ==
    LET l == c.leader
        e == c.entry
        appended == appendEntryChecked(state[d], e)
        live == LivePending(d, e)
        s == IF quorum THEN QuorumReached(appended, d, e, live) ELSE appended
    IN  /\ d \in c.todo /\ Reaches(l, d)
        /\ e.term < state[d].GlobalTerm => d = l
        /\ e.term = state[d].GlobalTerm => Trusts(d, l)
        /\ appendOutcome(state[d], e, prevLogFor(state[l], e.index)) = "accepted"
        /\ Save(d, s)
        /\ pendingFast' = [pendingFast EXCEPT ![d] = live]
        /\ answers' = IF quorum /\ e \in live THEN answers \cup deliverFastReturn(s, d, e) ELSE answers
        /\ commits' = IF quorum THEN Acknowledged(l, e, d) ELSE commits
        /\ UNCHANGED <<roleVars, announces, notices>>

\* AnnounceGlobalDomainQuorum: with its own quorum for the entry the responder commits it,
\* without saving.
AnnounceGlobalDomainQuorum(a) ==
    LET d == a.responder
        e == a.entry
        holds == domainHoldsEntry(state[d], d, e)
        s == IF holds THEN advanceCommitLocked(state[d], e) ELSE state[d]
    IN  /\ e.term >= state[d].GlobalTerm
        /\ e.term = state[d].GlobalTerm => follows[d] \in {None, a.leader}
        /\ announces' = announces \ {a}
        /\ SetState(d, s)
        /\ pendingFast' = [pendingFast EXCEPT ![d] = {p \in @ : p.index # e.index} \cup {e}]
        /\ answers' = IF holds THEN answers \cup deliverFastReturn(s, d, e) ELSE answers
        /\ UNCHANGED <<disk, roleVars, commits, notices>>

\* Commit.  A refused notice changes nothing.
Commit(d, n) ==
    /\ n.term >= state[d].GlobalTerm
    /\ n.term = state[d].GlobalTerm => Trusts(d, n.sender)
    /\ MayAdvance(state[d], n.entry)
    /\ Save(d, advanceCommitLocked(state[d], n.entry))
    /\ UNCHANGED <<roleVars, commits, fastVars, notices, answers>>

\* reconfirmDomainQuorum at d, for the last entry of its log.
reconfirmDomainQuorum(d) ==
    /\ LastLogIndex(state[d]) > Mark(d) /\ state[d].Log # << >>
    /\ Save(d, RaiseQuorum(state[d], d, LastLogIndex(state[d])))
    /\ UNCHANGED <<roleVars, commits, fastVars, notices, answers>>

-----------------------------------------------------------------------------
(* The Global Leader.                                                      *)

NewCommit(l, e) ==
    [leader |-> l, entry |-> e, todo |-> Domain, acks |-> {}, quorums |-> {}, committed |-> FALSE]

\* Mutant: a retry starts a second commit.
Joins_never(l, r) == FALSE

\* Write joins a commit that is running for the request.
Joins(l, r) == \E c \in commits : c.leader = l /\ c.entry.request = r

\* Write of a request that is not decided.  An entry the log already holds is reused, even
\* of an earlier term; a new one is ordered in memory only; a commit that is running for
\* the request is joined.
Write(l, r) ==
    LET s == state[l]
        at == OrderedAt(s, r)
        new == [index |-> LastLogIndex(s) + 1, term |-> leads[l], request |-> r]
        e == IF at = {} THEN new ELSE s.Log[Min(at)]
    IN  /\ serving = l /\ leads[l] # 0
        /\ s.Results[r] = NoDecision
        /\ at = {} => new.index <= MaxIndex
        /\ ~Joins(l, r)
        /\ SetState(l, IF at = {} THEN [s EXCEPT !.Log = Append(@, e)] ELSE s)
        /\ commits' = commits \cup {NewCommit(l, e)}
        /\ UNCHANGED <<disk, roleVars, fastVars, notices, answers>>

\* Write returns the result of a decided request: the answer of the call that waited for
\* the commit, whoever leads by now, or of a retry at the serving leader.
GlobalResponse(l, r) ==
    LET decision == state[l].Results[r]
    IN  /\ decision # NoDecision
        /\ Joins(l, r) \/ serving = l
        /\ answers' = answers \cup {[index |-> decision.index, term |-> decision.term, request |-> r]}
        /\ UNCHANGED <<nodeVars, roleVars, commits, fastVars, notices>>

\* commitAcrossDomains: Commit at the leader itself, and notices that carry its term.
commitAcrossDomains(l, s, e) ==
    /\ Save(l, advanceCommitLocked(s, e))
    /\ notices' = notices \cup {[term |-> s.GlobalTerm, sender |-> l, entry |-> e]}

\* planReturnPath and selectFloatingResponder: who may answer the client directly.
Responders(r, l) ==
    IF ~FastReturn THEN {}
    ELSE IF OriginOf[r] \in Domain THEN {OriginOf[r]} \ {l}
    ELSE Domain \ {l}

\* Mutant: one domain besides or instead of the leader's is enough.
TwoDomains_any(l, quorums) == quorums # {}

TwoDomains(l, quorums) == l \in quorums /\ quorums \ {l} # {}

\* replicateAndCommit takes the answer of domain d: it raises the mark it keeps for d,
\* announces its own domain's quorum, and commits once there is a second one.
Collect(c, d) ==
    LET l == c.leader
        quorums == c.quorums \cup {d}
        s == RaiseQuorum(state[l], d, c.entry.index)
        commit == ~c.committed /\ TwoDomains(l, quorums)
    IN  /\ d \in c.acks
        /\ commits' = (commits \ {c}) \cup
             {[c EXCEPT !.acks = @ \ {d}, !.quorums = quorums, !.committed = @ \/ commit]}
        /\ IF d = l /\ Responders(c.entry.request, l) # {}
           THEN \E p \in Responders(c.entry.request, l) :
                  announces' = announces \cup {[entry |-> c.entry, leader |-> l, responder |-> p]}
           ELSE UNCHANGED announces
        /\ IF commit THEN commitAcrossDomains(l, s, c.entry)
           ELSE SetState(l, s) /\ UNCHANGED <<disk, notices>>
        /\ UNCHANGED <<roleVars, pendingFast, answers>>

\* The fan-out has ended or its budget is used up; without a commit the marks are saved.
EndCommit(c) ==
    /\ c \in commits
    /\ Patience /\ serving = c.leader => c.committed
    /\ IF c.committed THEN UNCHANGED nodeVars ELSE Save(c.leader, state[c.leader])
    /\ commits' = commits \ {c}
    /\ UNCHANGED <<roleVars, fastVars, notices, answers>>

\* Mutant: the mark that is asked for is one lower.
ProbeSuffices_lower(d, e) == Mark(d) + 1 >= e.index

\* replicateDomainQuorum takes a mark at or above the index for the entry itself.
ProbeSuffices(d, e) == Mark(d) >= e.index

\* replicateDomainQuorum, when Replicate has not brought a quorum: a call of catchUp
\* without entries asks for the mark of d.
Probe(c, d) ==
    /\ d \in c.todo \ {c.leader} /\ Reaches(c.leader, d) /\ follows[d] # None
    /\ ProbeSuffices(d, c.entry)
    /\ commits' = Acknowledged(c.leader, c.entry, d)
    /\ UNCHANGED <<nodeVars, roleVars, fastVars, notices, answers>>

\* buildSnapshotRequestLocked.
BuildSnapshot(s) ==
    LET at == CommitPosition(s)
    IN  [index |-> at.index, term |-> at.term, request |-> at.request,
         StateMachine |-> s.StateMachine, Results |-> s.Results]

\* InstallSnapshot at d, with the acknowledgements of its domain.
Installed(s, d, snap) == RaiseQuorum(installSnapshotState(s, snap), d, snap.index)

\* catchUp passes an entry to Replicate in its own name, so its term is never too old.
Relay(d, from, pending, s, e) ==
    IF appendOutcome(s, e, prevLogFor(from, e.index)) = "accepted"
    THEN QuorumReached(appendEntryChecked(s, e), d, e, pending) ELSE s

\* catchUp entry after entry.  It stops at the first that is refused: the ones after it then
\* lack their predecessor, and would be refused too.
Relayed(d, from, pending, s, tail) ==
    LET after[k \in 0 .. Len(tail)] ==
          IF k = 0 THEN s ELSE Relay(d, from, pending, after[k - 1], tail[k])
    IN  after[Len(tail)]

\* replicateDomainQuorum sends what d is missing, after a snapshot if the entries are
\* compacted, and looks at the mark of d again.
Backfill(c, d) ==
    LET l == c.leader
        e == c.entry
        behind == LastLogIndex(state[d]) < state[l].SnapshotLastIndex
        snap == BuildSnapshot(state[l])
        s == IF behind THEN Installed(state[d], d, snap) ELSE state[d]
        tail == collectTailEntries(state[l], LastLogIndex(s), e.index)
        live == IF behind THEN {p \in pendingFast[d] : p.index > snap.index} ELSE pendingFast[d]
        t == Relayed(d, state[l], live, s, tail)
    IN  /\ d \in c.todo \ {l} /\ Reaches(l, d) /\ follows[d] # None
        /\ ~ProbeSuffices(d, e)
        /\ behind => /\ state[l].GlobalTerm >= state[d].GlobalTerm
                     /\ state[l].GlobalTerm = state[d].GlobalTerm => Trusts(d, l)
        /\ tail # << >>
        /\ \A x \in Range(tail) : x.term <= state[d].GlobalTerm
        /\ Save(d, t)
        /\ pendingFast' = [pendingFast EXCEPT ![d] = live]
        /\ answers' = answers \cup UNION {deliverFastReturn(t, d, x) : x \in Range(tail) \cap live}
        /\ commits' = IF t.DomainQuorumIndex[d] >= e.index THEN Acknowledged(l, e, d) ELSE commits
        /\ UNCHANGED <<roleVars, announces, notices>>

\* recoverCommittedPrefix: the serving leader asks the domains in reached for their marks
\* and commits what its own mark and another one cover, of whatever term.
recoverCommittedPrefix(l, reached) ==
    LET own == state[l].DomainQuorumIndex
        marks == [d \in Domain |-> IF d \in reached THEN Higher(own[d], Mark(d)) ELSE own[d]]
        other == Max({0} \cup {marks[d] : d \in Domain \ {l}})
        target == Lower(Lower(marks[l], other), LastLogIndex(state[l]))
        s == [state[l] EXCEPT !.DomainQuorumIndex = marks]
    IN  /\ serving = l /\ leads[l] # 0
        /\ own[l] > Known(l)
        /\ \A d \in reached : Reaches(l, d) /\ follows[d] # None
        /\ IF target > Known(l) /\ Found(state[l].Log, target)
           THEN commitAcrossDomains(l, s, EntryAt(state[l].Log, target))
           ELSE (IF marks # own THEN Save(l, s) ELSE UNCHANGED nodeVars) /\ UNCHANGED notices
        /\ UNCHANGED <<roleVars, commits, fastVars, answers>>

\* Mutant: leadership and the lease are enough.
ReadPasses_noBarrier(l) == serving = l /\ leads[l] # 0

\* The test of Read.
ReadPasses(l) ==
    /\ serving = l /\ leads[l] # 0
    /\ Known(l) >= Mark(l) /\ state[l].AppliedIndex >= Mark(l)

-----------------------------------------------------------------------------

Next ==
    \/ \E d \in Domain :
         \/ d \in Candidate /\ \E voters \in SUBSET Domain : Elect(d, voters)
         \/ \E l \in Domain : HeartbeatGlobal(l, d)
         \/ \E t \in 1..MaxTerm : StepDown(d, t)
         \/ Restart(d)
         \/ \E n \in 0..MaxIndex : TakeOver(d, n)
         \/ Tick(d)
         \/ reconfirmDomainQuorum(d)
         \/ \E r \in Request : Write(d, r) \/ GlobalResponse(d, r)
         \/ \E reached \in SUBSET (Domain \ {d}) : recoverCommittedPrefix(d, reached)
         \/ \E n \in notices : Commit(d, n)
    \/ \E c \in commits :
         \/ \E d \in Domain : Probe(c, d) \/ Backfill(c, d) \/ Collect(c, d)
         \/ \E d \in Domain, quorum \in BOOLEAN : Replicate(c, d, quorum)
         \/ EndCommit(c)
    \/ \E a \in announces : AnnounceGlobalDomainQuorum(a)

Spec == Init /\ [][Next]_vars

-----------------------------------------------------------------------------
(* What clients rely on.                                                   *)

\* What a node knows to be decided: its result cache.
DecidedBy(s) == {[request |-> r, term |-> s.Results[r].term, index |-> s.Results[r].index] :
                 r \in {x \in Request : s.Results[x] # NoDecision}}
DecidedAt(d) == DecidedBy(state[d])
Decided == UNION {DecidedAt(d) : d \in Domain} \cup answers

\* State machine safety and exactly-once: whatever any two Domain Leaders have applied, and
\* any two answers of any domain to clients and to their retries, agree on the entry at an
\* index and on the entry of a request.
DecisionsAgree ==
    \A a, b \in Decided : a.index = b.index \/ a.request = b.request => a = b

\* An acknowledged write is never lost: the serving leader holds it, applied or in its log.
AcknowledgedIsHeld ==
    \A a \in answers : serving # None =>
        \/ Found(state[serving].Log, a.index) /\ EntryAt(state[serving].Log, a.index) = a
        \/ a \in DecidedAt(serving)

\* Reads and Fast Return: a read that passes the barrier of the serving leader sees every
\* write of its own term that any domain has acknowledged, even one whose commit the leader
\* itself has not completed.
ReadsSeeOwnTerm ==
    \A l \in Domain : ReadPasses(l) => {a \in answers : a.term = leads[l]} \subseteq DecidedAt(l)

\* "A linearizable read" (Read): it sees every acknowledged write.
ReadsSeeAcknowledged ==
    \A l \in Domain : ReadPasses(l) => answers \subseteq DecidedAt(l)

-----------------------------------------------------------------------------
(* What holds with any bounds: two leaders never share a term, and a node  *)
(* goes on from what it has committed.                                     *)

\* Election safety across domains: no two domains believe to lead the same global term,
\* whatever has crashed or been superseded (campaignGlobal, RequestVoteGlobalInternal).
OneLeaderPerTerm == \A c, d \in Domain : leads[c] = leads[d] /\ leads[c] # 0 => c = d

\* The domains whose term is at least t.
Reached(t) == {d \in Domain : state[d].GlobalTerm >= t}

LeadersElected ==
    \A d \in Domain : leads[d] # 0 => Cardinality(Reached(leads[d])) >= globalElectionThreshold

\* The inductive invariant: every node's log is whole, in memory and on disk; a term that is
\* known is saved; and enough domains to elect somebody have reached the term of a leader.
ReplicationInv ==
    /\ ReplicationTypeOK
    /\ \A d \in Domain : Windowed(state[d]) /\ Windowed(disk[d])
    /\ \A d \in MayRestart : disk[d].GlobalTerm = state[d].GlobalTerm
    /\ LeadersElected
    /\ OneLeaderPerTerm

\* Replicate, catchUp, InstallSnapshot, Commit and the announcements never take back what a
\* domain has committed, unless its Domain Leader is replaced in that step; and no term goes
\* back even then.
CommittedIsKept ==
    [][\A d \in Domain : /\ state[d].GlobalTerm <= state'[d].GlobalTerm
                         /\ d \notin replaced' \ replaced => Keeps(state[d], state'[d])]_vars

-----------------------------------------------------------------------------
(* What a read of the serving leader rests on, while superseded leaders    *)
(* are cut off (~DeposedReach).                                            *)

\* Enough domains to elect somebody have reached term t.
Elected(t) == t = 0 \/ Cardinality(Reached(t)) >= globalElectionThreshold

\* The terms that a node knows of, and the entries that messages call committed.
TermsOf(s) == {e.term : e \in Range(s.Log) \cup DecidedBy(s)} \cup {s.SnapshotLastTerm, s.GlobalTerm}
Announced == answers \cup {n.entry : n \in notices} \cup {a.entry : a \in announces}
               \cup UNION {pendingFast[d] : d \in Domain}

\* Every term comes from an election, and a leader is in the term that it leads.
TermsElected ==
    /\ \A e \in Announced \cup {c.entry : c \in commits} : Elected(e.term)
    /\ \A d \in Domain : /\ leads[d] # 0 => leads[d] = state[d].GlobalTerm
                         /\ \A t \in TermsOf(state[d]) \cup TermsOf(disk[d]) : Elected(t)

\* All running commits are of one leader, the serving one if there is one.  It holds their
\* entries, and its own mark covers what its own domain has acknowledged.
CommitsHeld ==
    /\ \A b, c \in commits : b.leader = c.leader
    /\ \A c \in commits :
         LET s == state[c.leader]
         IN  /\ serving # None => c.leader = serving
             /\ c.entry \in Range(s.Log) \/ c.entry.index <= s.SnapshotLastIndex
             /\ c.leader \in c.acks \cup c.quorums => c.entry.index <= Mark(c.leader)

\* The entries of term t that s holds or knows to be decided.
Held(s, t) == {e \in Range(s.Log) \cup DecidedBy(s) : e.term = t}

\* A node in state s knows of no entries of term t but those in H.  They come last in its
\* log, and it has applied none past mark m.
Agrees(s, t, H, m) ==
    /\ \A f, g \in Range(s.Log) : f.term = t /\ f.index < g.index => g.term = t
    /\ Held(s, t) \subseteq H
    /\ \A e \in DecidedBy(s) : e.term = t => e.index <= m

\* The leader of term t has ordered its entries last and no request of them twice, and has
\* applied none past mark m.
Orders(s, t, m) ==
    /\ \A e \in Range(s.Log), f \in Held(s, t) : /\ e.term # t => e.index < f.index
                                                 /\ e.request = f.request => e = f
    /\ \A e \in Range(s.Log) : e.term = t =>
         s.Results[e.request] = IF e.index <= s.AppliedIndex
                                THEN [term |-> e.term, index |-> e.index] ELSE NoDecision
    /\ s.SnapshotLastTerm = t => s.SnapshotLastIndex <= m

\* Leader l has the last word on its term t: it has every entry of it, and its own domain has
\* acknowledged whatever anybody takes for committed.
OwnTerm(l, t) ==
    LET s == state[l]
        H == Held(s, t)
        m == Mark(l)
    IN  /\ \A d \in Domain : /\ state[d].GlobalTerm <= s.GlobalTerm
                             /\ Agrees(state[d], t, H, m) /\ Agrees(disk[d], t, H, m)
        /\ \A e \in Announced : e.term = t => e \in H /\ e.index <= m
        /\ \A c \in commits : IF c.entry.term = t THEN c.entry \in H
                              ELSE \A f \in H : c.entry.index < f.index
        /\ Orders(s, t, m)

ReadInv ==
    /\ TermsElected
    /\ CommitsHeld
    /\ serving # None => leads[serving] # 0 /\ OwnTerm(serving, leads[serving])
=============================================================================
