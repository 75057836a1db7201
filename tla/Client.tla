------------------------------- MODULE Client -------------------------------
(***************************************************************************)
(* One request of one RPCClient (internal/cdraft/rpc_client.go, race.go)   *)
(* and the Write handlers it meets (RPCNode.Write and the life of the      *)
(* background call replicateAndCommit in rpc_node.go).                     *)
(*                                                                         *)
(* The client races the answer of the Global Leader, which it reaches by   *)
(* following redirects, against a Fast Return, and goes on comparing the   *)
(* two after it has returned.  Its caller retries under the same request   *)
(* id.  A handler waits on a channel that some background call closes; the *)
(* call outlives the handler, and a retry may join it or start another.    *)
(*                                                                         *)
(* An entry of the request is named by its global term: a leader orders a  *)
(* request once, so the term tells its index and its result.  Consensus is *)
(* taken from Replication (DecisionsAgree without the probe): a new leader *)
(* holds what is decided, and only the leader of the newest term, or a     *)
(* decision that was made, brings two-domain evidence.                     *)
(***************************************************************************)
EXTENDS Naturals, Sequences, FiniteSets

CONSTANTS
    Node,        \* nodes that may lead
    None,        \* no address
    Target,      \* the node the client is configured with
    MayRestart,  \* nodes that may crash, once
    MayPause,    \* nodes that may be asked to hand off
    MaxTerm,     \* bound on elections
    MaxCommits,  \* bound on background calls
    MaxCalls     \* bound on calls of RPCClient.Write for the request

ASSUME ClientAssumption ==
    /\ None \notin Node /\ Target \in Node
    /\ MayRestart \subseteq Node /\ MayPause \subseteq Node
    /\ MaxTerm \in Nat \ {0} /\ MaxCommits \in Nat /\ MaxCalls \in Nat

VARIABLES
    term,        \* the newest global term
    leads,       \* leads[n]: the term in which n serves as Global Leader, 0 if it does not
    entry,       \* entry[n]: the entry of the request in n's log, 0 if there is none
    decided,     \* entries for which there is two-domain evidence
    result,      \* result[n]: the entry in n's Results, 0 if there is none
    draining,    \* nodes that pause new writes before a handoff
    committing,  \* committing[n]: the done channel on record for the request, 0 if none
    commits,     \* the background calls in the order they began; call k made channel k
    closed,      \* done channels that are closed
    crashed,     \* nodes that have used up their crash
    lastLeader,  \* RPCClient.lastLeader
    call,        \* the running call of RPCClient.Write
    rpc,         \* its writeFollowingRedirects
    calls,       \* calls of Write so far
    answers,     \* history: the valid answers the client has seen, of any call and path
    orphaned     \* history: done channels that another call's deferred delete removed

clusterVars == <<term, leads, entry, decided, result, draining, crashed>>
commitVars == <<committing, commits, closed, orphaned>>
clientVars == <<lastLeader, call, rpc, calls, answers>>
vars == <<clusterVars, commitVars, clientVars>>

Entry == 0..MaxTerm
Channel == 0..MaxCommits
Commit == [node : Node, entry : 1..MaxTerm,
           phase : {"fanout", "committed", "drain", "returned", "gone"}]
NoRpc == [at |-> "off", node |-> None, done |-> 0]
NoCall == [phase |-> "idle", registered |-> FALSE, global |-> 0, fast |-> 0, winner |-> "none"]

Init ==
    /\ term = 0 /\ decided = {} /\ draining = {} /\ closed = {} /\ crashed = {}
    /\ leads = [n \in Node |-> 0]
    /\ entry = leads /\ result = leads /\ committing = leads
    /\ commits = << >>
    /\ lastLeader = None /\ call = NoCall /\ rpc = NoRpc /\ calls = 0
    /\ answers = {} /\ orphaned = {}

-----------------------------------------------------------------------------
(* The client's calls to the cluster: writeFollowingRedirects.             *)

\* Mutant: without a cached leader there is nowhere to start.
leaderOr_cacheOnly == lastLeader

leaderOr == IF lastLeader # None THEN lastLeader ELSE Target

Calling(n) == rpc.at = "calling" /\ rpc.node = n

\* An error: the cached leader is forgotten and the original node is asked again.
Retry ==
    /\ rpc' = [rpc EXCEPT !.at = "calling", !.node = Target, !.done = 0]
    /\ lastLeader' = None

Redirect(m) ==
    /\ rpc' = [rpc EXCEPT !.node = m]
    /\ lastLeader' = m

\* The answer of the Global Leader goes into the buffered channel of the race.
GlobalAnswer(n, e) ==
    /\ rpc' = [rpc EXCEPT !.at = "ended", !.done = 0]
    /\ call' = [call EXCEPT !.global = e]
    /\ lastLeader' = n

\* The call is lost: no connection, or it breaks while the handler waits.
Lost ==
    /\ rpc.at \in {"calling", "waiting"}
    /\ Retry
    /\ UNCHANGED <<clusterVars, commitVars, call, calls, answers>>

-----------------------------------------------------------------------------
(* The Write handler.                                                      *)

\* The leader on record, maybe one that no longer leads, but never the node itself.
globalRedirectAddressLocked(n) == Node \ {n}

\* A node that does not serve names another node, or fails.
NotGlobalLeader(n) ==
    /\ Calling(n) /\ leads[n] = 0
    /\ Retry \/ \E m \in globalRedirectAddressLocked(n) : Redirect(m)
    /\ UNCHANGED <<clusterVars, commitVars, call, calls, answers>>

\* Before a handoff only requests that are ordered or settled are served.
Paused(n) == n \in draining /\ result[n] = 0 /\ entry[n] = 0

WriteDraining(n) ==
    /\ Calling(n) /\ leads[n] # 0 /\ Paused(n)
    /\ Retry
    /\ UNCHANGED <<clusterVars, commitVars, call, calls, answers>>

\* The request is settled: its result is returned.
WriteSettled(n) ==
    /\ Calling(n) /\ leads[n] # 0 /\ result[n] # 0
    /\ GlobalAnswer(n, result[n])
    /\ UNCHANGED <<clusterVars, commitVars, calls, answers>>

\* Mutant: the log is not searched for the request.
EntryFor_new(n) == leads[n]

\* findEntryByRequest: the entry the log holds, of whatever term, before a new one.
EntryFor(n) == IF entry[n] # 0 THEN entry[n] ELSE leads[n]

\* The request is ordered unless it is already, and the handler waits on the channel on
\* record, or on its own with a background call of its own.
WriteOrdered(n) ==
    LET e == EntryFor(n)
        new == Len(commits) + 1
        joins == committing[n] # 0
    IN  /\ Calling(n) /\ leads[n] # 0 /\ result[n] = 0 /\ ~Paused(n)
        /\ joins \/ new <= MaxCommits
        /\ entry' = [entry EXCEPT ![n] = e]
        /\ committing' = [committing EXCEPT ![n] = IF joins THEN @ ELSE new]
        /\ commits' = IF joins THEN commits
                      ELSE Append(commits, [node |-> n, entry |-> e, phase |-> "fanout"])
        /\ rpc' = [rpc EXCEPT !.at = "waiting", !.done = committing'[n]]
        /\ UNCHANGED <<term, leads, decided, result, draining, crashed, closed, orphaned,
                       lastLeader, call, calls, answers>>

\* Mutant: the handler answers for the entry it ordered.
Reply_ordered(n) == entry[n]

\* What the handler finds in Results when its channel is closed.
Reply(n) == result[n]

\* The channel is closed: the result is returned, or ErrNoCommit.
WriteReleased ==
    LET n == rpc.node
    IN  /\ rpc.at = "waiting" /\ rpc.done \in closed
        /\ IF Reply(n) # 0 THEN GlobalAnswer(n, Reply(n)) ELSE Retry /\ UNCHANGED call
        /\ UNCHANGED <<clusterVars, commitVars, calls, answers>>

-----------------------------------------------------------------------------
(* The background call k.                                                  *)

\* signalCommittedWaiterLocked closes whatever channel is on record.
signalCommittedWaiterLocked(n) ==
    /\ closed' = closed \cup ({committing[n]} \ {0})
    /\ committing' = [committing EXCEPT ![n] = 0]

SetPhase(k, phase) == commits' = [commits EXCEPT ![k].phase = phase]

\* Its own domain and another one hold the entry; a responder may answer from now on.
Evidence(k) ==
    LET c == commits[k]
    IN  /\ c.phase = "fanout"
        /\ leads[c.node] = term /\ entry[c.node] = c.entry
        /\ decided' = decided \cup {c.entry}
        /\ UNCHANGED <<term, leads, entry, result, draining, crashed, commitVars, clientVars>>

\* commitAcrossDomains.  The local Commit is refused when the node follows another leader.
CommitAcrossDomains(k, refused) ==
    LET c == commits[k]
    IN  /\ c.phase = "fanout" /\ c.entry \in decided
        /\ refused => leads[c.node] = 0
        /\ result' = IF refused THEN result ELSE [result EXCEPT ![c.node] = c.entry]
        /\ SetPhase(k, "committed")
        /\ UNCHANGED <<term, leads, entry, decided, draining, crashed,
                       committing, closed, orphaned, clientVars>>

\* Whatever came of it, the waiters are released, and the call goes on draining answers.
Signal(k) ==
    /\ commits[k].phase = "committed"
    /\ SetPhase(k, "drain")
    /\ signalCommittedWaiterLocked(commits[k].node)
    /\ UNCHANGED <<clusterVars, orphaned, clientVars>>

\* Mutant: without a commit nobody is released.
FanoutEnds_silent(k) ==
    /\ commits[k].phase \in {"fanout", "drain"}
    /\ SetPhase(k, "returned")
    /\ UNCHANGED <<clusterVars, committing, closed, orphaned, clientVars>>

\* The fan-out has ended or its budget is used up: the deferred signal, unless it was sent.
FanoutEnds(k) ==
    /\ commits[k].phase \in {"fanout", "drain"}
    /\ SetPhase(k, "returned")
    /\ IF commits[k].phase = "fanout" THEN signalCommittedWaiterLocked(commits[k].node)
       ELSE UNCHANGED <<committing, closed>>
    /\ UNCHANGED <<clusterVars, orphaned, clientVars>>

\* The goroutine of Write then deletes the channel on record, which may be of a later call.
DeleteCommitting(k) ==
    LET n == commits[k].node
    IN  /\ commits[k].phase = "returned"
        /\ SetPhase(k, "gone")
        /\ committing' = [committing EXCEPT ![n] = 0]
        /\ orphaned' = orphaned \cup ({committing[n]} \ {0, k})
        /\ UNCHANGED <<clusterVars, closed, clientVars>>

BackgroundCall(k) ==
    \/ \E refused \in BOOLEAN : CommitAcrossDomains(k, refused)
    \/ Signal(k) \/ FanoutEnds(k) \/ DeleteCommitting(k)

-----------------------------------------------------------------------------
(* The cluster.                                                            *)

Elect(n) ==
    /\ term < MaxTerm /\ decided \subseteq {entry[n]}
    /\ term' = term + 1
    /\ leads' = [leads EXCEPT ![n] = term + 1]
    /\ UNCHANGED <<entry, decided, result, draining, crashed, commitVars, clientVars>>

\* A leader steps down, hands off, or finds that it is superseded.
StepDown(n) ==
    /\ leads[n] # 0
    /\ leads' = [leads EXCEPT ![n] = 0]
    /\ draining' = draining \ {n}
    /\ UNCHANGED <<term, entry, decided, result, crashed, commitVars, clientVars>>

\* The newest leader replicates its log to n, which follows it from then on.
Follow(m, n) ==
    /\ leads[m] = term /\ term # 0 /\ m # n
    /\ entry' = [entry EXCEPT ![n] = entry[m]]
    /\ leads' = [leads EXCEPT ![n] = 0]
    /\ draining' = draining \ {n}
    /\ UNCHANGED <<term, decided, result, crashed, commitVars, clientVars>>

\* A commit notice for the request, or for a later one: the latter releases waiters too.
CommitNotice(n, later) ==
    /\ result[n] = 0 /\ entry[n] \in decided
    /\ result' = [result EXCEPT ![n] = entry[n]]
    /\ IF later THEN signalCommittedWaiterLocked(n) ELSE UNCHANGED <<committing, closed>>
    /\ UNCHANGED <<term, leads, entry, decided, draining, crashed, commits, orphaned, clientVars>>

\* The soft pause of a handoff begins, or ends because the handoff is given up.
Pause(n) ==
    /\ n \in MayPause /\ leads[n] # 0
    /\ draining' = IF n \in draining THEN draining \ {n} ELSE draining \cup {n}
    /\ UNCHANGED <<term, leads, entry, decided, result, crashed, commitVars, clientVars>>

\* A crash.  The entry may be in memory only; results are saved.
Restart(n) ==
    /\ n \in MayRestart \ crashed
    /\ crashed' = crashed \cup {n}
    /\ leads' = [leads EXCEPT ![n] = 0]
    /\ draining' = draining \ {n}
    /\ \E e \in {entry[n], result[n]} : entry' = [entry EXCEPT ![n] = e]
    /\ committing' = [committing EXCEPT ![n] = 0]
    /\ commits' = [k \in DOMAIN commits |->
                     IF commits[k].node = n THEN [commits[k] EXCEPT !.phase = "gone"] ELSE commits[k]]
    /\ IF rpc.at \in {"calling", "waiting"} /\ rpc.node = n THEN Retry ELSE UNCHANGED <<rpc, lastLeader>>
    /\ UNCHANGED <<term, decided, result, closed, orphaned, call, calls, answers>>

-----------------------------------------------------------------------------
(* RPCClient.Write and the race.                                           *)

\* The callback is registered and the call to the Global Leader begins.
Write ==
    /\ call.phase = "idle" /\ calls < MaxCalls
    /\ calls' = calls + 1
    /\ call' = [NoCall EXCEPT !.phase = "racing", !.registered = TRUE]
    /\ rpc' = [at |-> "calling", node |-> leaderOr, done |-> 0]
    /\ UNCHANGED <<clusterVars, commitVars, lastLeader, answers>>

\* callbackRouter.FastReturn, early, late or again: a registered channel takes the first.
FastReturn(e) ==
    /\ e \in decided
    /\ call.registered /\ call.fast = 0
    /\ call' = [call EXCEPT !.fast = e]
    /\ UNCHANGED <<clusterVars, commitVars, lastLeader, rpc, calls, answers>>

\* RaceResponses takes the answer on either path, and Write returns.
RaceResponses(winner, e) ==
    /\ call.phase = "racing" /\ e # 0
    /\ answers' = answers \cup {e}
    /\ call' = [call EXCEPT !.phase = "draining", !.winner = winner]
    /\ UNCHANGED <<clusterVars, commitVars, lastLeader, rpc, calls>>

\* drainLate looks at the answer on the other path and Write's goroutine unregisters.
drainLate ==
    LET late == IF call.winner = "global" THEN call.fast ELSE call.global
    IN  /\ call.phase = "draining" /\ late # 0
        /\ answers' = answers \cup {late}
        /\ call' = NoCall /\ rpc' = NoRpc
        /\ UNCHANGED <<clusterVars, commitVars, lastLeader, calls>>

\* The deadline of the caller before an answer, or lateConsistencyGrace after it.
Deadline ==
    /\ call.phase # "idle"
    /\ call' = NoCall /\ rpc' = NoRpc
    /\ UNCHANGED <<clusterVars, commitVars, lastLeader, calls, answers>>

-----------------------------------------------------------------------------

Next ==
    \/ \E n \in Node :
         \/ NotGlobalLeader(n) \/ WriteDraining(n) \/ WriteSettled(n) \/ WriteOrdered(n)
         \/ Elect(n) \/ StepDown(n) \/ Pause(n) \/ Restart(n)
         \/ \E m \in Node : Follow(m, n)
         \/ \E later \in BOOLEAN : CommitNotice(n, later)
    \/ \E k \in DOMAIN commits : Evidence(k) \/ BackgroundCall(k)
    \/ Write \/ WriteReleased \/ Lost \/ drainLate \/ Deadline
    \/ \E e \in decided : FastReturn(e)
    \/ RaceResponses("global", call.global) \/ RaceResponses("fast", call.fast)

\* Goroutines run, and a fan-out has a budget (commitBudget).
Fairness ==
    /\ WF_vars(WriteReleased)
    /\ \A k \in 1..MaxCommits : WF_vars(k \in DOMAIN commits /\ BackgroundCall(k))

Spec == Init /\ [][Next]_vars /\ Fairness

-----------------------------------------------------------------------------

\* The states of the request at the nodes and in the client.
ClientTypeOK ==
    /\ term \in Entry /\ decided \subseteq 1..MaxTerm
    /\ leads \in [Node -> Entry] /\ entry \in [Node -> Entry] /\ result \in [Node -> Entry]
    /\ draining \subseteq Node /\ crashed \subseteq MayRestart
    /\ committing \in [Node -> Channel] /\ closed \subseteq 1..MaxCommits
    /\ commits \in Seq(Commit) /\ Len(commits) <= MaxCommits
    /\ lastLeader \in Node \cup {None}
    /\ call \in [phase : {"idle", "racing", "draining"}, registered : BOOLEAN,
                 global : Entry, fast : Entry, winner : {"none", "global", "fast"}]
    /\ rpc \in [at : {"off", "calling", "waiting", "ended"}, node : Node \cup {None},
                done : Channel]
    /\ rpc.at # "off" => rpc.node \in Node
    /\ calls \in 0..MaxCalls /\ answers \subseteq 1..MaxTerm /\ orphaned \subseteq 1..MaxCommits

\* "The cluster either returns the already-committed result or finally orders the write
\* once" (writeFollowingRedirects): across retries, leaders and crashes, at most one entry
\* of the request is ever decided.
OrderedOnce == Cardinality(decided) <= 1

\* Every answer the client sees for the request, on either path of the race, late or to
\* a retried call, is the decision: drainLate never finds two that differ, and none is
\* given before it.
AnswersAgree == answers \subseteq decided /\ Cardinality(answers) <= 1

\* A handler that waits is released by a background call, whether it commits, is deposed or
\* runs out of time, unless the deferred delete of an earlier call has removed its channel
\* (then only the client's deadline ends the wait).
WaitersAreReleased ==
    \A k \in 1..MaxCommits :
        (rpc.at = "waiting" /\ rpc.done = k) ~> (rpc.done # k \/ k \in orphaned)

-----------------------------------------------------------------------------
(* Why they hold: the inductive invariant.                                 *)

\* No term has two leaders, and the leader of the newest one holds what is decided; a result
\* is of what is decided, and the client's two channels hold results or decisions.
RequestInv ==
    /\ \A n \in Node : leads[n] <= term
    /\ \A m, n \in Node : leads[m] = leads[n] /\ leads[n] # 0 => m = n
    /\ commits # << >> => term # 0
    /\ \A e, f \in decided : e = f
    /\ term # 0 => \A n \in Node : leads[n] = term => decided \subseteq {entry[n]}
    /\ \A n \in Node : result[n] \in decided \cup {0}
    /\ {call.global, call.fast} \subseteq decided \cup {0}
    /\ answers \subseteq decided
=============================================================================
