----------------------------- MODULE Placement -----------------------------
(***************************************************************************)
(* The loop that places the Global Leader: the telemetry that nodes        *)
(* gather (internal/cdraft/stats.go, probeAndReport and the ingest*        *)
(* functions of telemetry.go), the metrics they show (metrics.go), and     *)
(* the external mover (cmd/cdraft-mover/main.go with the Controller of     *)
(* internal/optimizer/optimizer.go) that asks the leader to move.          *)
(*                                                                         *)
(* A domain stands for its Domain Leader.  The handoff itself is one step  *)
(* (Leases looks into it); other elections may come at any time.  Links    *)
(* are steady, so that smoothing (0.7 of the old and 0.3 of the new value) *)
(* keeps an estimate, but for rounding: in float64 some values x have      *)
(* 0.7 * x + 0.3 * x < x.  A stored estimate is a number of grains, ten to *)
(* the half millisecond, and one grain stands for that loss.               *)
(***************************************************************************)
EXTENDS CostModel, Sequences

CONSTANTS
    Floating,        \* client-only domains
    Setups,          \* pairs of the domains that have a leader the others know, and the
                     \* configured delays in milliseconds; one of them is in force
    Short,           \* half milliseconds x with 0.7 * x + 0.3 * x < x in float64
    Window,          \* the statistics window
    TTL,             \* how long a floating latency is fresh
    MinImprovement,  \* required reduction, in tenths
    Confirmations,   \* windows that must agree
    Cooldown,        \* spacing of successful moves
    Load,            \* bound: the requests, pairs of an origin and whether it reads
    Cuts,            \* bound: sets of domains that may be cut off in a round of probes
    MayLead,         \* bound: domains that may be elected without a move
    MaxTime, MaxTerm, MaxRequests, MaxRounds  \* bounds

ASSUME PlacementAssumption ==
    /\ Floating \cap Consensus = {} /\ IsFiniteSet(Floating)
    /\ \A s \in Setups :
         s = <<s[1], s[2]>> /\ s[1] \subseteq Consensus /\ Cardinality(s[1]) >= 2
    /\ \A s \in Setups : \A p \in DOMAIN s[2] : s[2][p] \in Nat
    /\ Short \subseteq Nat \ {0} /\ MaxTime \in Nat /\ MaxTerm \in Nat \ {0}
    /\ Confirmations \in Nat \ {0} /\ MinImprovement \in 0..10 /\ Cooldown \in Nat
    /\ \A l \in Load : l[1] \in Consensus \cup Floating /\ l[2] \in BOOLEAN

VARIABLES
    delay,      \* the delays in force
    now,        \* time
    announced,  \* domains whose leader the others know
    leader,     \* the domain of the Global Leader
    term,       \* its term
    led,        \* domains that have led: a node may still name any of them
    stats,      \* stats[d]: requests that d has counted while it led
    rtt,        \* rtt[d]: d's matrix of latencies between consensus domains
    floating,   \* floating[d]: latencies that floating clients have reported to d
    rounds,     \* rounds of probes so far
    view,       \* view[u]: the topology that floating client u has discovered
    mover,      \* the mover and its Controller
    lastMove    \* history: the mover's last move that was executed

telemetryVars == <<stats, rtt, floating, view, rounds>>
clusterVars == <<delay, now, announced, leader, term, led>>
vars == <<clusterVars, telemetryVars, mover, lastMove>>

Origin == Consensus \cup Floating
Routes == {<<from, to>> : from \in Origin, to \in Consensus}
Empty == << >>
NoView == [leader |-> NoDomain, term |-> 0]
Never == -1
IdleMover == [phase |-> "idle", gl |-> NoDomain, target |-> NoDomain,
              candidate |-> NoDomain, streak |-> 0, lastMigration |-> Never]
NoMove == [at |-> Never, answered |-> FALSE]

Init ==
    /\ \E s \in Setups : announced = s[1] /\ delay = s[2]
    /\ now = 0 /\ term = 1
    /\ leader = (CHOOSE d \in announced : \A e \in announced : Rank[d] <= Rank[e])
    /\ led = {leader}
    /\ stats = [d \in Consensus |-> << >>]
    /\ rtt = [d \in Consensus |-> Empty]
    /\ floating = [d \in Consensus |-> Empty]
    /\ view = [u \in Floating |-> NoView] /\ rounds = 0
    /\ mover = IdleMover /\ lastMove = NoMove

-----------------------------------------------------------------------------
(* Telemetry.  Bounds: it changes between two ticks of the mover, whose    *)
(* steps read it at one moment, and the Domain Leaders probe in rounds,    *)
(* for their probes commute.                                               *)

Between == mover.phase = "idle"
Requests == FoldSet(LAMBDA d, n : n + Len(stats[d]), 0, Consensus)

\* pruneLocked: the requests that are still in the window.
Recent(events) ==
    LET keep[i \in 0..Len(events)] ==
          IF i = 0 THEN << >>
          ELSE IF events[i].at > now - Window THEN Append(keep[i - 1], events[i])
          ELSE keep[i - 1]
    IN  keep[Len(events)]

\* statsWindow.record, by the Write or Read handler of the Global Leader.
record(origin, isRead) ==
    /\ Between /\ Requests < MaxRequests
    /\ stats' = [stats EXCEPT ![leader] =
                   Recent(Append(@, [at |-> now, domain |-> origin, isRead |-> isRead]))]
    /\ UNCHANGED <<clusterVars, rtt, floating, view, rounds, mover, lastMove>>

\* statsWindow.counts.
counts(d, isRead) ==
    LET events == Recent(stats[d])
    IN  [o \in Origin |-> Cardinality({i \in DOMAIN events : events[i].domain = o
                                                           /\ events[i].isRead = isRead})]

\* The round trip of a call: callNode adds the delay of both directions.
RoundTrip(from, to) == OneWayDelay(delay, from, to) + OneWayDelay(delay, to, from)

\* Mutant: the round trip is stored for one way.
Measured_whole(from, to) == 2 * RoundTrip(from, to)

\* observeRTT stores half the round trip: as many half milliseconds as it has milliseconds.
Measured(from, to) == RoundTrip(from, to)

Grains(halves) == 10 * halves
Smoothed(halves) == IF halves \in Short THEN Grains(halves) - 1 ELSE Grains(halves)

Observed(matrix, p, halves) ==
    IF p \in DOMAIN matrix THEN Smoothed(halves) ELSE Grains(halves)

\* Reports carry whole milliseconds, and metrics whole milliseconds of the round trip.
Reportable(grains) == 2 * (grains \div 20)
Shown(grains) == grains \div 10

\* rttStore.merge: what is reported replaces what was known of it.
merge(matrix, row) ==
    [p \in DOMAIN matrix \cup DOMAIN row |-> IF p \in DOMAIN row THEN row[p] ELSE matrix[p]]

\* Leader d pings the other Domain Leaders it knows; those that are cut off do not answer.
Probed(d, cut) ==
    LET answer == IF d \in cut THEN {} ELSE announced \ (cut \cup {d})
    IN  merge(rtt[d], [p \in {d} \X answer |-> Observed(rtt[d], p, Measured(d, p[2]))])

\* It reports its own row, in whole milliseconds.
Reported(d, cut) ==
    LET known == Probed(d, cut)
    IN  [p \in {q \in DOMAIN known : q[1] = d} |-> Grains(Reportable(known[p]))]

\* The reports of several domains, each with a row of its own.
Reports(from, cut) ==
    [p \in UNION {DOMAIN Reported(e, cut) : e \in from} |-> Reported(p[1], cut)[p]]

\* probeAndReport at every Domain Leader.  The reports go to the node that the others take
\* for the Global Leader; it merges them with its own measurements.
probeAndReport(to, cut) ==
    /\ Between /\ rounds < MaxRounds /\ to \in led
    /\ rounds' = rounds + 1
    /\ rtt' = [d \in Consensus |->
                 IF d # to THEN Probed(d, cut)
                 ELSE merge(Probed(d, cut), Reports(Consensus \ (cut \cup {d}), cut))]
    /\ UNCHANGED <<clusterVars, stats, floating, view, mover, lastMove>>

\* What the serving leader answers to DiscoverTopology.
Topology == [leader |-> leader, term |-> term]

\* RPCClient.DiscoverTopology of a floating client, redirected to the serving leader.
DiscoverTopology(u) ==
    /\ Between
    /\ view' = [view EXCEPT ![u] = Topology]
    /\ UNCHANGED <<clusterVars, stats, rtt, floating, rounds, mover, lastMove>>

\* The client pings the Domain Leaders it was told of and reports whole milliseconds.
MeasureFloatingLatencies(u) ==
    [p \in {u} \X announced |-> Reportable(Grains(Measured(u, p[2])))]

\* It reports to the leader it was told of, which takes reports of its own term only.
ReportFloatingLatency(u) ==
    LET report == MeasureFloatingLatencies(u)
        seen == [p \in DOMAIN report |->
                   [oneWay |-> Observed(floating[leader], p, report[p]), at |-> now]]
    IN  /\ Between
        /\ view[u] = Topology
        /\ floating' = [floating EXCEPT ![leader] = merge(@, seen)]
        /\ UNCHANGED <<clusterVars, stats, rtt, view, rounds, mover, lastMove>>

\* floatingLatencyStore.freshSnapshot.
FreshFloating(d) ==
    [p \in {q \in DOMAIN floating[d] : now - floating[d][q].at <= TTL} |-> floating[d][p].oneWay]

-----------------------------------------------------------------------------
(* The mover.                                                              *)

metricsSnapshot(d) ==
    LET known == merge(rtt[d], FreshFloating(d))
    IN  [writes |-> counts(d, FALSE), reads |-> counts(d, TRUE), leaders |-> announced,
         rtt |-> [p \in DOMAIN known |-> Shown(known[p])]]

\* The mover halves the round trips, which makes them half milliseconds one way.
buildInput(d) ==
    LET metrics == metricsSnapshot(d)
    IN  [Writes |-> metrics.writes, Reads |-> metrics.reads,
         Available |-> metrics.leaders \cup {d}, OneWay |-> metrics.rtt]

\* discoverGlobalLeader: some node names a leader, maybe a former one.
discoverGlobalLeader(d) == d \in led

\* The cost of staying is 0 when the current domain cannot commit.
Worthwhile(in, current, z) ==
    /\ z \notin {NoDomain, current}
    /\ candidateCost(in, current) > 0
    /\ 10 * candidateCost(in, z) < candidateCost(in, current) * (10 - MinImprovement)

\* Mutant: the cooldown is not looked at.
Cooling_never == FALSE

Cooling == mover.lastMigration # Never /\ now - mover.lastMigration < Cooldown

\* The windows counted so far are forgotten.
NoDecision == [mover EXCEPT !.candidate = NoDomain, !.streak = 0]

\* Mutant: a decision that the cooldown holds back goes on counting windows.
Decided_counting(d, z, streak) ==
    IF streak < Confirmations \/ Cooling
    THEN [mover EXCEPT !.candidate = z, !.streak = streak]
    ELSE [NoDecision EXCEPT !.phase = "moving", !.gl = d, !.target = z]

\* The window is the streak-th in a row that is for z.
Decided(d, z, streak) ==
    IF streak < Confirmations THEN [mover EXCEPT !.candidate = z, !.streak = streak]
    ELSE IF Cooling THEN NoDecision
    ELSE [NoDecision EXCEPT !.phase = "moving", !.gl = d, !.target = z]

\* A tick until Controller.Observe has answered.  Its two readings are one step, for an
\* election between them is the same as one before them; a tick without an answer to one
\* of them changes nothing.
Observe(d) ==
    LET in == buildInput(d)
        z == Recommended(in)
        streak == IF z = mover.candidate THEN mover.streak + 1 ELSE 1
    IN  /\ mover.phase = "idle" /\ discoverGlobalLeader(d)
        /\ mover' = IF Worthwhile(in, d, z) THEN Decided(d, z, streak) ELSE NoDecision
        /\ UNCHANGED <<clusterVars, telemetryVars, lastMove>>

\* RecordResult, at the end of the tick.
RecordResult(success) ==
    mover' = [mover EXCEPT !.phase = "idle", !.gl = NoDomain, !.target = NoDomain,
                           !.lastMigration = IF success THEN now ELSE @]

\* handleMove at the leader: the handoff succeeds.
MoveExecuted ==
    /\ mover.phase = "moving" /\ mover.gl = leader /\ term < MaxTerm
    /\ leader' = mover.target /\ led' = led \cup {leader'} /\ term' = term + 1
    /\ mover' = [mover EXCEPT !.phase = "moved"]
    /\ lastMove' = [at |-> now, answered |-> FALSE]
    /\ UNCHANGED <<delay, now, announced, telemetryVars>>

MoveAccepted ==
    /\ mover.phase = "moved"
    /\ RecordResult(TRUE)
    /\ lastMove' = [lastMove EXCEPT !.answered = TRUE]
    /\ UNCHANGED <<clusterVars, telemetryVars>>

\* The node is not the leader, the handoff fails, or the answer is lost.
MoveFails ==
    /\ mover.phase \in {"moving", "moved"}
    /\ RecordResult(FALSE)
    /\ UNCHANGED <<clusterVars, telemetryVars, lastMove>>

-----------------------------------------------------------------------------

Elect(d) ==
    /\ d \in (MayLead \cap announced) \ {leader} /\ term < MaxTerm
    /\ leader' = d /\ led' = led \cup {d} /\ term' = term + 1
    /\ UNCHANGED <<delay, now, announced, telemetryVars, mover, lastMove>>

Tick ==
    /\ now < MaxTime
    /\ now' = now + 1
    /\ UNCHANGED <<delay, announced, leader, term, led, telemetryVars, mover, lastMove>>

Next ==
    \/ \E l \in Load : record(l[1], l[2])
    \/ \E to \in Consensus, cut \in Cuts : probeAndReport(to, cut)
    \/ \E u \in Floating : DiscoverTopology(u) \/ ReportFloatingLatency(u)
    \/ \E d \in Consensus : Observe(d) \/ Elect(d)
    \/ MoveExecuted \/ MoveAccepted \/ MoveFails
    \/ Tick

Spec == Init /\ [][Next]_vars

-----------------------------------------------------------------------------

Latencies(m) == DOMAIN m \subseteq Routes /\ \A p \in DOMAIN m : m[p] \in Nat

\* What nodes, clients and the mover hold.
PlacementTypeOK ==
    /\ <<announced, delay>> \in Setups /\ now \in 0..MaxTime /\ term \in 1..MaxTerm
    /\ leader \in announced /\ led \subseteq announced
    /\ \A d \in Consensus :
         /\ \A i \in DOMAIN stats[d] : stats[d][i].at \in 0..now /\ stats[d][i].domain \in Origin
         /\ Latencies(rtt[d]) /\ DOMAIN rtt[d] \subseteq Consensus \X Consensus
         /\ Latencies(FreshFloating(d)) /\ DOMAIN floating[d] \subseteq Floating \X Consensus
    /\ view \in [Floating -> [leader : Consensus \cup {NoDomain}, term : 0..MaxTerm]]
    /\ mover.phase \in {"idle", "moving", "moved"}
    /\ mover.gl \in Consensus \cup {NoDomain}
    /\ mover.candidate \in Consensus \cup {NoDomain}
    /\ mover.target \in Consensus \cup {NoDomain}
    /\ mover.streak \in 0..Confirmations /\ mover.lastMigration \in Never..MaxTime

\* Latencies are halved, smoothed, cut to whole milliseconds, doubled, cut and halved again
\* on their way to the mover: what it computes with is never above what was measured and
\* at most one millisecond, one way, below it, at whatever node it asks.
LatenciesAreMeasured ==
    \A d \in Consensus :
        LET known == buildInput(d).OneWay
        IN  \A p \in DOMAIN known : RoundTrip(p[1], p[2]) - known[p] \in 0..2

\* The ways a request of o to leader z may take: there and back, with another domain in
\* between if it is a write, which a responder, or o's own domain, may answer directly.
Ways(in, o, z, isRead) ==
    LET there == oneWay(in, o, z)
        back(r) == IF HasLink(in, r, o) THEN oneWay(in, r, o) ELSE oneWay(in, o, r)
    IN  IF isRead THEN {2 * there}
        ELSE {2 * there + 2 * oneWay(in, z, j) : j \in Partners(in, z)}
             \cup (IF o \notin Consensus THEN {there + oneWay(in, z, r) + back(r) : r \in Partners(in, z)}
                   ELSE IF o \in in.Available \ {z} THEN {2 * there} ELSE {})

\* The requests in the window of d, each on its cheapest way to leader z.
WindowCost(in, d, z) ==
    LET events == Recent(stats[d])
    IN  SumFunction([i \in DOMAIN events |->
                       Min(Ways(in, events[i].domain, z, events[i].isRead))])

\* ComputeCosts against the definition it stands for: the domain it recommends has somebody
\* to commit with, and no other such domain would have served the requests of the window
\* at less total latency, if every floating origin knows its latencies.
RecommendationIsCheapest ==
    \A d \in led :
        LET in == buildInput(d)
            able == {y \in in.Available : Partners(in, y) # {} /\ \A i \in Consensus : HasLink(in, i, y)}
            z == Recommended(in)
        IN  (\A u \in floatingDomains(in), y \in Consensus : HasLink(in, u, y)) =>
              IF able = {} THEN z = NoDomain
              ELSE z \in able /\ \A y \in able : WindowCost(in, d, z) <= WindowCost(in, d, y)

\* The two latency models of the code agree: with every domain available and every latency
\* known and symmetric, one write costs a candidate of ComputeCosts what
\* EstimateWritePathCost predicts for it.
EstimatesAgree ==
    \A d \in led :
        LET in == buildInput(d)
            one(o) == [in EXCEPT !.Writes = [u \in Origin |-> IF u = o THEN 1 ELSE 0],
                                 !.Reads = [u \in Origin |-> 0]]
        IN  /\ in.Available = Consensus
            /\ \A p \in Routes : HasLink(in, p[1], p[2])
            /\ \A e, f \in Consensus : oneWay(in, e, f) = oneWay(in, f, e)
            => \A o \in Origin, z \in Consensus :
                 candidateCost(one(o), z) = WritePathCost(in, delay, o, z)

\* "At most one migration decision per cooldown" (Controller): the mover's moves are spaced
\* by the cooldown, except after a move whose answer was lost.
MovesAreSpaced ==
    [][mover.phase = "moving" /\ mover'.phase = "moved"
         => ~lastMove.answered \/ now - lastMove.at >= Cooldown]_vars

-----------------------------------------------------------------------------
(* Why they hold: the inductive invariants.                                *)

\* An estimate of a latency of so many half milliseconds, and what a report makes of it.
Estimates(halves) == {Grains(halves), Smoothed(halves)}
Relayed(halves) == {Grains(Reportable(g)) : g \in Estimates(halves)}

\* Each node has its own row as it measured it, the other rows as they were reported, and
\* the floating latencies that clients have measured and reported.
LatencyInv ==
    /\ <<announced, delay>> \in Setups
    /\ DOMAIN rtt = Consensus /\ floating = [d \in Consensus |-> floating[d]]
    /\ \A d \in Consensus :
         /\ \A p \in DOMAIN rtt[d] :
              /\ p \in Consensus \X Consensus
              /\ p[1] = d => rtt[d][p] \in Estimates(RoundTrip(p[1], p[2]))
              /\ p[1] # d => rtt[d][p] \in Relayed(RoundTrip(p[1], p[2]))
         /\ \A p \in DOMAIN floating[d] :
              /\ p \in Floating \X Consensus
              /\ floating[d][p].oneWay \in Estimates(Reportable(Grains(RoundTrip(p[1], p[2]))))

\* The requests that a node has counted; those of the window are among them.
StatsInv ==
    /\ DOMAIN stats = Consensus
    /\ \A d \in Consensus :
         stats[d] \in Seq([at : 0..now, domain : Origin, isRead : BOOLEAN])

\* Whoever leads or is to lead is among the domains whose leader the others know, for a
\* recommendation is one of the domains that the metrics show.
PlacementInv ==
    /\ LatencyInv /\ StatsInv
    /\ now \in 0..MaxTime /\ term \in 1..MaxTerm
    /\ leader \in announced /\ led \subseteq announced
    /\ view \in [Floating -> [leader : Consensus \cup {NoDomain}, term : 0..MaxTerm]]
    /\ mover \in [phase : {"idle", "moving", "moved"}, gl : Consensus \cup {NoDomain},
                  target : Consensus \cup {NoDomain}, candidate : Consensus \cup {NoDomain},
                  streak : 0..Confirmations, lastMigration : Never..MaxTime]
    /\ mover.phase = "moving" => mover.target \in announced

\* A move is under way only after the cooldown of the last one that the mover knows of,
\* which it has noted no earlier than it was executed.
CooldownInv ==
    /\ now \in Nat /\ lastMove \in [at : Int, answered : BOOLEAN] /\ lastMove.at <= now
    /\ DOMAIN mover = DOMAIN IdleMover /\ mover.lastMigration \in Int
    /\ mover.phase = "moving" => ~Cooling
    /\ lastMove.answered => mover.lastMigration # Never /\ mover.lastMigration >= lastMove.at
=============================================================================
