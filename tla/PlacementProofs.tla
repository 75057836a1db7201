-------------------------- MODULE PlacementProofs --------------------------
(***************************************************************************)
(* Proofs about Placement: moves are spaced by the cooldown, the latencies *)
(* on which the mover decides are those that were measured, what it        *)
(* recommends is cheapest, and the two cost models agree; for every set of *)
(* domains, every assignment of delays and every rounding (Short), window, *)
(* threshold and bound.                                                    *)
(***************************************************************************)
EXTENDS Placement, SequenceTheorems, FiniteSetTheorems, TLAPS

-----------------------------------------------------------------------------
(* The cooldown.                                                           *)

\* A decision leaves the time of the last migration alone, and is to move only when the
\* cooldown is over.
LEMMA DecidedSpaced ==
    ASSUME CooldownInv, NEW d, NEW z, NEW streak, NEW m,
           m \in {Decided(d, z, streak), NoDecision}
    PROVE  /\ DOMAIN m = DOMAIN IdleMover
           /\ m.lastMigration = mover.lastMigration
           /\ m.phase = "moving" => mover.phase = "moving" \/ ~Cooling
<1>1. DOMAIN mover = {"phase", "gl", "target", "candidate", "streak", "lastMigration"}
  BY DEF CooldownInv, IdleMover
<1>2. DOMAIN m = DOMAIN mover
  BY DEF Decided, NoDecision
<1>3. m.lastMigration = mover.lastMigration
  BY <1>1 DEF Decided, NoDecision
<1>4. m.phase = "moving" => mover.phase = "moving" \/ ~Cooling
  BY <1>1 DEF Decided, NoDecision
<1> QED
  BY <1>2, <1>3, <1>4 DEF CooldownInv

\* No move is cooling down at first,
LEMMA CooldownInitially == Init => CooldownInv
BY DEF Init, CooldownInv, IdleMover, NoMove, Never, Cooling

\* and every step keeps the cooldown of a move.
LEMMA CooldownStep == CooldownInv /\ [Next]_vars => CooldownInv'
<1> SUFFICES ASSUME CooldownInv, [Next]_vars PROVE CooldownInv'
  OBVIOUS
<1> USE PlacementAssumption DEF PlacementAssumption
<1>1. ASSUME UNCHANGED <<now, mover, lastMove>> PROVE CooldownInv'
  BY <1>1 DEF CooldownInv, Cooling
<1>2. ASSUME NEW d \in Consensus, Observe(d) PROVE CooldownInv'
  <2>1. PICK z, streak : mover' \in {Decided(d, z, streak), NoDecision}
    BY <1>2 DEF Observe
  <2>2. /\ DOMAIN mover' = DOMAIN IdleMover
        /\ mover'.lastMigration = mover.lastMigration
        /\ mover'.phase = "moving" => mover.phase = "moving" \/ ~Cooling
    BY <2>1, DecidedSpaced
  <2>3. now' = now /\ lastMove' = lastMove
    BY <1>2 DEF Observe, clusterVars
  <2> QED
    BY <2>2, <2>3 DEF CooldownInv, Cooling, IdleMover
<1>3. CASE MoveExecuted
  BY <1>3 DEF MoveExecuted, CooldownInv, Cooling, IdleMover
<1>4. CASE MoveAccepted
  <2>1. /\ now' = now /\ mover'.phase = "idle" /\ mover'.lastMigration = now
        /\ DOMAIN mover' = DOMAIN mover
        /\ lastMove' \in [at : Int, answered : BOOLEAN] /\ lastMove'.at = lastMove.at
    BY <1>4 DEF MoveAccepted, RecordResult, CooldownInv, IdleMover, clusterVars
  <2> QED
    BY <2>1 DEF CooldownInv, Cooling, IdleMover, Never
<1>5. CASE MoveFails
  <2>1. /\ now' = now /\ mover'.phase = "idle" /\ mover'.lastMigration = mover.lastMigration
        /\ DOMAIN mover' = DOMAIN mover /\ lastMove' = lastMove
    BY <1>5 DEF MoveFails, RecordResult, CooldownInv, IdleMover, clusterVars
  <2> QED
    BY <2>1 DEF CooldownInv, Cooling, IdleMover
<1>6. CASE Tick
  BY <1>6 DEF Tick, CooldownInv, Cooling, IdleMover, Never
<1>7. ASSUME NEW o, NEW r, record(o, r) PROVE CooldownInv'
  BY <1>7, <1>1 DEF record, clusterVars
<1>8. ASSUME NEW to, NEW cut, probeAndReport(to, cut) PROVE CooldownInv'
  BY <1>8, <1>1 DEF probeAndReport, clusterVars
<1>9. ASSUME NEW u, DiscoverTopology(u) \/ ReportFloatingLatency(u) PROVE CooldownInv'
  BY <1>9, <1>1 DEF DiscoverTopology, ReportFloatingLatency, clusterVars
<1>10. ASSUME NEW d, Elect(d) PROVE CooldownInv'
  BY <1>10, <1>1 DEF Elect
<1> QED
  BY <1>1, <1>2, <1>3, <1>4, <1>5, <1>6, <1>7, <1>8, <1>9, <1>10 DEF Next, vars, clusterVars

\* The mover executes a move only when the cooldown of the last move whose answer it got is
\* over, whatever answers were lost and whoever was elected in between.
THEOREM MovesAreSpacedByTheCooldown == Spec => MovesAreSpaced
<1>1. CooldownInv /\ [Next]_vars =>
        [mover.phase = "moving" /\ mover'.phase = "moved"
           => ~lastMove.answered \/ now - lastMove.at >= Cooldown]_vars
  BY PlacementAssumption DEF CooldownInv, Cooling, PlacementAssumption
<1> QED
  BY <1>1, CooldownInitially, CooldownStep, PTL DEF Spec, MovesAreSpaced

-----------------------------------------------------------------------------
(* The latencies.                                                          *)

\* A measured round trip is a number.
LEMMA RoundTripTyped ==
    ASSUME <<announced, delay>> \in Setups, NEW e, NEW f
    PROVE  RoundTrip(e, f) \in Nat
<1>1. \A p \in DOMAIN delay : delay[p] \in Nat
  BY PlacementAssumption DEF PlacementAssumption
<1>2. ASSUME NEW a, NEW b PROVE OneWayDelay(delay, a, b) \in Nat
  BY <1>1 DEF OneWayDelay
<1> QED
  BY <1>2 DEF RoundTrip

\* A measurement, the first or a smoothed one, is an estimate.
LEMMA ObservedIsEstimate ==
    ASSUME NEW m, NEW p, NEW h \in Nat
    PROVE  Observed(m, p, h) \in Estimates(h)
BY DEF Observed, Smoothed, Estimates

\* An estimate loses at most a half millisecond when it is shown, and a reported one a
\* millisecond.
LEMMA EstimateShown ==
    ASSUME NEW h \in Nat, NEW g \in Estimates(h)
    PROVE  Shown(g) \in Nat /\ h - Shown(g) \in 0..1
BY PlacementAssumption DEF PlacementAssumption, Estimates, Smoothed, Grains, Shown

\* A relayed estimate is off by two grains at most,
LEMMA RelayedShown ==
    ASSUME NEW h \in Nat, NEW g \in Relayed(h)
    PROVE  Shown(g) \in Nat /\ h - Shown(g) \in 0..2
<1>1. PICK e \in Estimates(h) : g = Grains(Reportable(e))
  BY DEF Relayed
<1>2. e \in Int /\ Reportable(e) \in Nat /\ h - Reportable(e) \in 0..2
  BY PlacementAssumption DEF PlacementAssumption, Estimates, Smoothed, Grains, Reportable
<1>3. Shown(g) = Reportable(e)
  BY <1>1, <1>2 DEF Grains, Shown
<1> QED
  BY <1>2, <1>3

\* and so is one that was reported and smoothed again.
LEMMA FloatingShown ==
    ASSUME NEW h \in Nat, NEW g \in Estimates(Reportable(Grains(h)))
    PROVE  Shown(g) \in Nat /\ h - Shown(g) \in 0..2
<1>1. Reportable(Grains(h)) \in Nat /\ h - Reportable(Grains(h)) \in 0..1
  BY DEF Grains, Reportable
<1>2. Shown(g) \in Nat /\ Reportable(Grains(h)) - Shown(g) \in 0..1
  BY <1>1, EstimateShown
<1> QED
  BY <1>1, <1>2

\* A round of probes leaves a node with its own row as measured and the others as reported.
LEMMA ProbedGood ==
    ASSUME LatencyInv, NEW d \in Consensus, NEW cut, NEW p \in DOMAIN Probed(d, cut)
    PROVE  /\ p \in Consensus \X Consensus
           /\ p[1] = d => Probed(d, cut)[p] \in Estimates(RoundTrip(p[1], p[2]))
           /\ p[1] # d => Probed(d, cut)[p] \in Relayed(RoundTrip(p[1], p[2]))
<1> DEFINE answer == IF d \in cut THEN {} ELSE announced \ (cut \cup {d})
           row == [q \in {d} \X answer |-> Observed(rtt[d], q, Measured(d, q[2]))]
<1>1. Probed(d, cut) = merge(rtt[d], row)
  BY DEF Probed
<1>2. announced \subseteq Consensus /\ answer \subseteq Consensus
  BY PlacementAssumption DEF PlacementAssumption, LatencyInv
<1>3. CASE p \in DOMAIN row
  <2>1. PICK f \in Consensus : p = <<d, f>>
    BY <1>2, <1>3
  <2>2. row[p] = Observed(rtt[d], p, RoundTrip(d, f))
    BY <1>3, <2>1 DEF Measured
  <2>3. row[p] \in Estimates(RoundTrip(d, f))
    <3> HIDE DEF row
    <3> QED BY <2>2, ObservedIsEstimate, RoundTripTyped DEF LatencyInv
  <2>4. Probed(d, cut)[p] = row[p]
    <3> HIDE DEF row
    <3> QED BY <1>1, <1>3, Zenon DEF merge
  <2> HIDE DEF row
  <2> QED BY <2>1, <2>3, <2>4
<1>4. CASE p \notin DOMAIN row
  <2> HIDE DEF row
  <2>1. p \in DOMAIN rtt[d] /\ Probed(d, cut)[p] = rtt[d][p]
    BY <1>1, <1>4, Zenon DEF merge
  <2> QED BY <2>1 DEF LatencyInv
<1> QED BY <1>3, <1>4

\* A report has rows of its sender only, cut to whole milliseconds.
LEMMA ReportedGood ==
    ASSUME LatencyInv, NEW from \in SUBSET Consensus, NEW cut,
           NEW p \in DOMAIN Reports(from, cut)
    PROVE  /\ p \in Consensus \X Consensus /\ p[1] \in from
           /\ Reports(from, cut)[p] \in Relayed(RoundTrip(p[1], p[2]))
<1>1. PICK e \in from : p \in DOMAIN Reported(e, cut)
  BY DEF Reports
<1>2. p \in DOMAIN Probed(e, cut) /\ p[1] = e
  BY <1>1 DEF Reported
<1>3. Reports(from, cut)[p] = Reported(e, cut)[p]
  BY <1>1, <1>2 DEF Reports
<1>4. Reported(e, cut)[p] = Grains(Reportable(Probed(e, cut)[p]))
  BY <1>1 DEF Reported
<1>5. /\ p \in Consensus \X Consensus
      /\ Probed(e, cut)[p] \in Estimates(RoundTrip(p[1], p[2]))
  BY <1>2, ProbedGood
<1> QED BY <1>2, <1>3, <1>4, <1>5 DEF Relayed

\* No latency is known at first,
LEMMA LatencyInitially == Init => LatencyInv
<1> SUFFICES ASSUME Init PROVE LatencyInv
  OBVIOUS
<1>1. <<announced, delay>> \in Setups
  <2>1. PICK s \in Setups : announced = s[1] /\ delay = s[2]
    BY DEF Init
  <2> QED BY <2>1, PlacementAssumption DEF PlacementAssumption
<1> QED BY <1>1 DEF Init, LatencyInv, Empty

\* and every step keeps the estimates near what was measured.
LEMMA LatencyStep == LatencyInv /\ [Next]_vars => LatencyInv'
<1> SUFFICES ASSUME LatencyInv, [Next]_vars PROVE LatencyInv'
  OBVIOUS
<1>1. delay' = delay /\ announced' = announced
  BY DEF Next, vars, clusterVars, record, probeAndReport, DiscoverTopology,
         ReportFloatingLatency, Observe, Elect, MoveExecuted, MoveAccepted, MoveFails, Tick
<1>2. \A e, f : RoundTrip(e, f)' = RoundTrip(e, f)
  BY <1>1 DEF RoundTrip, OneWayDelay
<1>3. ASSUME UNCHANGED <<rtt, floating>> PROVE LatencyInv'
  BY <1>1, <1>2, <1>3 DEF LatencyInv
<1>4. ASSUME NEW to \in Consensus, NEW cut, probeAndReport(to, cut) PROVE LatencyInv'
  <2> DEFINE from == Consensus \ (cut \cup {to})
             own == Probed(to, cut)
             reports == Reports(from, cut)
  <2>1. /\ DOMAIN rtt' = Consensus /\ floating' = floating
        /\ \A d \in Consensus \ {to} : rtt'[d] = Probed(d, cut)
        /\ rtt'[to] = merge(own, reports)
    BY <1>4 DEF probeAndReport
  <2>2. ASSUME NEW d \in Consensus, NEW p \in DOMAIN rtt'[d]
        PROVE  /\ p \in Consensus \X Consensus
               /\ p[1] = d => rtt'[d][p] \in Estimates(RoundTrip(p[1], p[2]))
               /\ p[1] # d => rtt'[d][p] \in Relayed(RoundTrip(p[1], p[2]))
    <3>1. CASE d # to
      BY <2>1, <2>2, <3>1, ProbedGood
    <3>2. CASE d = to /\ p \in DOMAIN reports
      <4>1. /\ p \in Consensus \X Consensus /\ p[1] \in from
            /\ reports[p] \in Relayed(RoundTrip(p[1], p[2]))
        BY <3>2, ReportedGood
      <4>2. p[1] # to
        BY <4>1
      <4> HIDE DEF own, reports, from
      <4>3. rtt'[d][p] = reports[p]
        BY <2>1, <3>2, Zenon DEF merge
      <4> QED BY <3>2, <4>1, <4>2, <4>3
    <3>3. CASE d = to /\ p \notin DOMAIN reports
      <4>1. p \in DOMAIN own /\ rtt'[d][p] = own[p]
        <5> HIDE DEF own, reports
        <5> QED BY <2>1, <2>2, <3>3, Zenon DEF merge
      <4> QED BY <3>3, <4>1, ProbedGood
    <3> QED BY <3>1, <3>2, <3>3
  <2> HIDE DEF own, reports
  <2> QED BY <1>1, <1>2, <2>1, <2>2 DEF LatencyInv
<1>5. ASSUME NEW u \in Floating, ReportFloatingLatency(u) PROVE LatencyInv'
  <2> DEFINE report == MeasureFloatingLatencies(u)
             seen == [p \in DOMAIN report |->
                        [oneWay |-> Observed(floating[leader], p, report[p]), at |-> now]]
  <2>1. rtt' = rtt /\ floating' = [floating EXCEPT ![leader] = merge(@, seen)]
    BY <1>5 DEF ReportFloatingLatency
  <2>2. ASSUME NEW p \in DOMAIN seen
        PROVE  /\ p \in Floating \X Consensus
               /\ seen[p].oneWay \in Estimates(Reportable(Grains(RoundTrip(p[1], p[2]))))
    <3>1. announced \subseteq Consensus
      BY PlacementAssumption DEF PlacementAssumption, LatencyInv
    <3>2. PICK f \in Consensus : p = <<u, f>>
      BY <2>2, <3>1 DEF MeasureFloatingLatencies
    <3>3. report[p] = Reportable(Grains(RoundTrip(u, f)))
      BY <2>2, <3>2 DEF MeasureFloatingLatencies, Measured
    <3>4. report[p] \in Nat
      BY <3>3, RoundTripTyped DEF LatencyInv, Reportable, Grains
    <3>5. seen[p].oneWay = Observed(floating[leader], p, report[p])
      BY <2>2
    <3> HIDE DEF report, seen
    <3> QED BY <3>2, <3>3, <3>4, <3>5, ObservedIsEstimate
  <2> HIDE DEF seen
  <2>3. ASSUME NEW d \in Consensus, NEW p \in DOMAIN floating'[d]
        PROVE  /\ p \in Floating \X Consensus
               /\ floating'[d][p].oneWay \in Estimates(Reportable(Grains(RoundTrip(p[1], p[2]))))
    <3>1. CASE d = leader /\ p \in DOMAIN seen
      <4>1. floating'[d] = merge(floating[d], seen)
        BY <2>1, <3>1 DEF LatencyInv
      <4>2. floating'[d][p] = seen[p]
        BY <4>1, <3>1, Zenon DEF merge
      <4> QED BY <2>2, <3>1, <4>2
    <3>2. CASE d # leader \/ p \notin DOMAIN seen
      <4>1. p \in DOMAIN floating[d] /\ floating'[d][p] = floating[d][p]
        <5>1. CASE d # leader
          BY <2>1, <2>3, <5>1 DEF LatencyInv
        <5>2. CASE d = leader /\ p \notin DOMAIN seen
          <6>1. floating'[d] = merge(floating[d], seen)
            BY <2>1, <5>2 DEF LatencyInv
          <6> QED BY <6>1, <2>3, <5>2, Zenon DEF merge
        <5> QED BY <3>2, <5>1, <5>2
      <4> QED BY <4>1 DEF LatencyInv
    <3> QED BY <3>1, <3>2
  <2>4. floating' = [d \in Consensus |-> floating'[d]]
    BY <2>1 DEF LatencyInv
  <2> QED BY <1>1, <1>2, <2>1, <2>3, <2>4 DEF LatencyInv
<1>6. ASSUME NEW o, NEW r, record(o, r) PROVE LatencyInv'
  BY <1>6, <1>3 DEF record
<1>7. ASSUME NEW u, DiscoverTopology(u) PROVE LatencyInv'
  BY <1>7, <1>3 DEF DiscoverTopology
<1>8. ASSUME NEW d, Observe(d) \/ Elect(d) PROVE LatencyInv'
  BY <1>8, <1>3 DEF Observe, Elect, telemetryVars
<1>9. CASE MoveExecuted \/ MoveAccepted \/ MoveFails \/ Tick \/ UNCHANGED vars
  BY <1>9, <1>3 DEF MoveExecuted, MoveAccepted, MoveFails, Tick, telemetryVars, vars
<1> QED BY <1>4, <1>5, <1>6, <1>7, <1>8, <1>9 DEF Next

\* What the mover computes with is what its nodes hold, shown.
LEMMA LatencyKnown ==
    ASSUME LatencyInv, NEW d \in Consensus, NEW p \in DOMAIN buildInput(d).OneWay
    PROVE  /\ p \in Routes /\ buildInput(d).OneWay[p] \in Nat
           /\ RoundTrip(p[1], p[2]) - buildInput(d).OneWay[p] \in 0..2
<1> DEFINE fresh == FreshFloating(d)
           known == merge(rtt[d], fresh)
           h == RoundTrip(p[1], p[2])
<1>1. buildInput(d).OneWay = [q \in DOMAIN known |-> Shown(known[q])]
  BY DEF buildInput, metricsSnapshot
<1>2. h \in Nat
  BY RoundTripTyped DEF LatencyInv
<1>3. p \in DOMAIN known /\ buildInput(d).OneWay[p] = Shown(known[p])
  <2> HIDE DEF known
  <2> QED BY <1>1
<1>4. CASE p \in DOMAIN fresh
  <2>1. p \in DOMAIN floating[d] /\ fresh[p] = floating[d][p].oneWay
    BY <1>4 DEF FreshFloating
  <2>2. known[p] = fresh[p]
    <3> HIDE DEF fresh
    <3> QED BY <1>4, Zenon DEF merge
  <2>3. p \in Floating \X Consensus /\ known[p] \in Estimates(Reportable(Grains(h)))
    <3> HIDE DEF fresh, known
    <3> QED BY <2>1, <2>2 DEF LatencyInv
  <2>4. p \in Routes
    BY <2>3 DEF Routes, Origin
  <2> HIDE DEF h, known
  <2>5. Shown(known[p]) \in Nat /\ h - Shown(known[p]) \in 0..2
    BY <1>2, <2>3, FloatingShown
  <2> QED BY <1>3, <2>4, <2>5 DEF h
<1>5. CASE p \notin DOMAIN fresh
  <2>1. p \in DOMAIN rtt[d] /\ known[p] = rtt[d][p]
    <3> HIDE DEF fresh
    <3> QED BY <1>3, <1>5, Zenon DEF merge
  <2>2. p \in Consensus \X Consensus /\ (known[p] \in Estimates(h) \/ known[p] \in Relayed(h))
    <3> HIDE DEF known
    <3> QED BY <2>1 DEF LatencyInv
  <2>3. p \in Routes
    BY <2>2 DEF Routes, Origin
  <2> HIDE DEF h, known
  <2>4. Shown(known[p]) \in Nat /\ h - Shown(known[p]) \in 0..2
    <3>1. CASE known[p] \in Estimates(h)
      BY <1>2, <3>1, EstimateShown
    <3>2. CASE known[p] \in Relayed(h)
      BY <1>2, <3>2, RelayedShown
    <3> QED BY <2>2, <3>1, <3>2
  <2> QED BY <1>3, <2>3, <2>4 DEF h
<1> QED BY <1>4, <1>5

\* What the mover reads is near what was measured.
LEMMA LatenciesShown == LatencyInv => LatenciesAreMeasured
BY LatencyKnown DEF LatenciesAreMeasured

\* Whatever the delays, and however often an estimate was smoothed, reported and merged at
\* former and present leaders, the mover reads no latency above the one measured, and none
\* more than a millisecond one way below it.
THEOREM LatenciesAreNearlyMeasured == Spec => []LatenciesAreMeasured
BY LatencyInitially, LatencyStep, LatenciesShown, PTL DEF Spec
-----------------------------------------------------------------------------
(* Least elements and sums.                                                *)

\* A nonempty set of naturals has a least element, and Min is it.
LEMMA LeastNatural ==
    ASSUME NEW S \in SUBSET Nat, S # {}
    PROVE  Min(S) \in S /\ \A y \in S : Min(S) <= y
  <1> DEFINE R == OpToRel(<, Nat)
  <1>1. PICK x \in S : \A y \in S : <<y, x>> \notin R
    <2> HIDE DEF R
    <2> QED
      BY NatLessThanWellFounded, WFMin DEF R
  <1>2. \A y \in S : x <= y
    <2> SUFFICES ASSUME NEW y \in S, ~(x <= y) PROVE FALSE
      OBVIOUS
    <2>1. y \in Nat /\ x \in Nat /\ y < x
      OBVIOUS
    <2>2. <<y, x>> \in R
      BY <2>1 DEF OpToRel
    <2> QED
      BY <1>1, <2>2
  <1> QED
    BY <1>2 DEF Min

\* Of the subsets of a finite set with some property, one has no smaller one below it.
LEMMA MinimalSubset ==
    ASSUME NEW S, IsFiniteSet(S), NEW C \in SUBSET SUBSET S, C # {}
    PROVE  \E T \in C : \A x \in T : T \ {x} \notin C
  <1> DEFINE sizes == {Cardinality(T) : T \in C}
             m == Min(sizes)
  <1>1. \A T \in C : IsFiniteSet(T) /\ Cardinality(T) \in Nat
    BY FS_Subset, FS_CardinalityType
  <1>2. m \in sizes /\ \A y \in sizes : m <= y
    <2>1. sizes \in SUBSET Nat /\ sizes # {}
      BY <1>1
    <2> HIDE DEF sizes
    <2> QED
      BY <2>1, LeastNatural
  <1> HIDE DEF m
  <1>3. PICK T \in C : Cardinality(T) = m
    BY <1>2
  <1>4. ASSUME NEW x \in T, T \ {x} \in C PROVE FALSE
    <2>1. Cardinality(T \ {x}) = Cardinality(T) - 1
      BY <1>1, FS_RemoveElement
    <2>2. m <= Cardinality(T \ {x})
      BY <1>2, <1>4
    <2> QED
      BY <1>1, <1>3, <2>1, <2>2
  <1> QED
    BY <1>4

\* The element that a sum over s takes first, and the sums over all parts of a function's
\* domain.
Pick(s) == CHOOSE x \in s : TRUE
Sums(f, sum) ==
    /\ sum[{}] = 0
    /\ \A s \in SUBSET DOMAIN f : s # {} => sum[s] = f[Pick(s)] + sum[s \ {Pick(s)}]

\* SumFunction is the last of the sums, built up over parts of more and more elements.
LEMMA SumRecursion ==
    ASSUME NEW f, IsFiniteSet(DOMAIN f)
    PROVE  \E sum : Sums(f, sum) /\ SumFunction(f) = sum[DOMAIN f]
  <1> DEFINE D == DOMAIN f
             Part(m) == {s \in SUBSET D : Cardinality(s) <= m}
             Step(a, s) == IF s = {} THEN 0 ELSE f[Pick(s)] + a[s \ {Pick(s)}]
             Solves(a, P) == a = [s \in P |-> Step(a, s)]
             Solved(m) == \E a : Solves(a, Part(m))
             n == Cardinality(D)
  <1> HIDE DEF D
  <1>0. IsFiniteSet(D) /\ n \in Nat
    BY FS_CardinalityType DEF D
  <1>a. \A s \in SUBSET D : IsFiniteSet(s) /\ Cardinality(s) \in Nat /\ Cardinality(s) <= n
    BY <1>0, FS_Subset, FS_CardinalityType
  <1>b. ASSUME NEW s \in SUBSET D, s # {}
        PROVE  /\ Pick(s) \in s /\ s \ {Pick(s)} \in SUBSET D
               /\ Cardinality(s \ {Pick(s)}) = Cardinality(s) - 1
    <2>1. Pick(s) \in s
      BY <1>b DEF Pick
    <2> QED
      BY <1>a, <2>1, FS_RemoveElement
  <1>c. Part(n) = SUBSET D
    BY <1>a
  <1> HIDE DEF n
  <1>1. Solved(n)
    <2> DEFINE S == {m \in 0..n : ~Solved(m)}
               m == Min(S)
    <2> SUFFICES ASSUME S # {} PROVE FALSE
      <3>1. n \in 0..n
        BY <1>0
      <3> HIDE DEF Solved
      <3> QED
        BY <3>1
    <2>1. m \in S /\ \A y \in S : m <= y
      <3>1. S \in SUBSET Nat
        OBVIOUS
      <3> HIDE DEF S
      <3> QED
        BY <3>1, LeastNatural
    <2> HIDE DEF m
    <2>2. Solved(0)
      <3> DEFINE a == [s \in Part(0) |-> 0]
      <3>1. \A s \in Part(0) : s = {}
        BY <1>a, FS_EmptySet
      <3>2. \A s \in Part(0) : Step(a, s) = 0
        BY <3>1
      <3> HIDE DEF Step, Part
      <3>3. a = [s \in Part(0) |-> Step(a, s)]
        BY <3>2
      <3> QED
        BY <3>3
    <2>3. m \in 1..n
      <3>1. m # 0
        <4> HIDE DEF Solved
        <4> QED
          BY <2>1, <2>2
      <3> QED
        BY <1>0, <2>1, <3>1
    <2>4. Solved(m - 1)
      <3>1. m - 1 \in 0..n /\ ~(m <= m - 1)
        BY <1>0, <2>3
      <3> HIDE DEF Solved
      <3> QED
        BY <2>1, <3>1
    <2>5. PICK a : Solves(a, Part(m - 1))
      BY <2>4
    <2> DEFINE b == [s \in Part(m) |-> Step(a, s)]
    <2>6. \A s \in Part(m - 1) : s \in Part(m) /\ b[s] = a[s]
      <3>1. \A s \in Part(m - 1) : s \in Part(m)
        BY <1>a, <2>3
      <3> HIDE DEF Part, Step
      <3> QED
        BY <2>5, <3>1
    <2>7. \A s \in Part(m) : Step(b, s) = Step(a, s)
      <3> SUFFICES ASSUME NEW s \in Part(m), s # {}
                   PROVE  Step(b, s) = Step(a, s)
        OBVIOUS
      <3>1. s \ {Pick(s)} \in Part(m - 1)
        BY <1>a, <1>b, <2>3
      <3> HIDE DEF b, Part
      <3> QED
        BY <2>6, <3>1
    <2>8. Solves(b, Part(m))
      <3> HIDE DEF Step, Part
      <3> QED
        BY <2>7
    <2> HIDE DEF b, Solves
    <2> QED
      BY <2>1, <2>8
  <1> DEFINE iter == CHOOSE a : Solves(a, SUBSET D)
  <1>2. Solves(iter, SUBSET D)
    <2> HIDE DEF Solves
    <2> QED
      BY <1>1, <1>c
  <1>3. SumFunction(f) = iter[D]
    BY DEF SumFunction, SumFunctionOnSet, FoldFunctionOnSet, MapThenFoldSet, Pick, D
  <1> HIDE DEF iter
  <1>4. \A s \in SUBSET D : iter[s] = Step(iter, s)
    <2> HIDE DEF Step
    <2> QED
      BY <1>2
  <1>5. Sums(f, iter)
    <2>1. iter[{}] = 0
      BY <1>4
    <2> QED
      BY <1>4, <2>1 DEF Sums, D
  <1> QED
    BY <1>3, <1>5 DEF D

\* A sum of naturals is a natural.
LEMMA SumTyped ==
    ASSUME NEW D, IsFiniteSet(D), NEW f \in [D -> Nat]
    PROVE  SumFunction(f) \in Nat
  <1>1. PICK sum : Sums(f, sum) /\ SumFunction(f) = sum[D]
    BY SumRecursion
  <1> DEFINE C == {s \in SUBSET D : sum[s] \notin Nat}
  <1> SUFFICES ASSUME C # {} PROVE FALSE
    BY <1>1
  <1>2. PICK T \in C : \A x \in T : T \ {x} \notin C
    <2>1. C \in SUBSET SUBSET D
      OBVIOUS
    <2> HIDE DEF C
    <2> QED
      BY <2>1, MinimalSubset
  <1>3. T # {}
    <2>1. sum[{}] \in Nat
      BY <1>1 DEF Sums
    <2> QED
      BY <1>2, <2>1
  <1>4. Pick(T) \in T
    BY <1>3 DEF Pick
  <1>5. sum[T \ {Pick(T)}] \in Nat
    BY <1>2, <1>4
  <1>6. sum[T] = f[Pick(T)] + sum[T \ {Pick(T)}]
    BY <1>1, <1>2, <1>3 DEF Sums
  <1>7. f[Pick(T)] \in Nat
    BY <1>2, <1>4
  <1> QED
    BY <1>2, <1>5, <1>6, <1>7

\* A sum of zeros is zero.
LEMMA SumOfZeros ==
    ASSUME NEW D, IsFiniteSet(D), NEW f \in [D -> Nat], \A x \in D : f[x] = 0
    PROVE  SumFunction(f) = 0
  <1>1. PICK sum : Sums(f, sum) /\ SumFunction(f) = sum[D]
    BY SumRecursion
  <1> DEFINE C == {s \in SUBSET D : sum[s] # 0}
  <1> SUFFICES ASSUME C # {} PROVE FALSE
    BY <1>1
  <1>2. PICK T \in C : \A x \in T : T \ {x} \notin C
    <2>1. C \in SUBSET SUBSET D
      OBVIOUS
    <2> HIDE DEF C
    <2> QED
      BY <2>1, MinimalSubset
  <1>3. T # {}
    BY <1>1, <1>2 DEF Sums
  <1>4. Pick(T) \in T
    BY <1>3 DEF Pick
  <1>5. sum[T \ {Pick(T)}] = 0 /\ f[Pick(T)] = 0
    BY <1>2, <1>4
  <1>6. sum[T] = f[Pick(T)] + sum[T \ {Pick(T)}]
    BY <1>1, <1>2, <1>3 DEF Sums
  <1> QED
    BY <1>2, <1>5, <1>6

\* When one of the terms changes, so does the sum, by as much.
LEMMA SumChange ==
    ASSUME NEW D, IsFiniteSet(D), NEW f \in [D -> Nat], NEW g \in [D -> Nat],
           NEW o \in D, \A x \in D \ {o} : f[x] = g[x]
    PROVE  SumFunction(f) + g[o] = SumFunction(g) + f[o]
  <1>1. PICK sum : Sums(f, sum) /\ SumFunction(f) = sum[D]
    BY SumRecursion
  <1>2. PICK tot : Sums(g, tot) /\ SumFunction(g) = tot[D]
    BY SumRecursion
  <1> DEFINE Off(s) == IF o \in s THEN sum[s] + g[o] = tot[s] + f[o] ELSE sum[s] = tot[s]
             Good(s) == sum[s] \in Nat /\ tot[s] \in Nat /\ Off(s)
             C == {s \in SUBSET D : ~Good(s)}
  <1> SUFFICES ASSUME C # {} PROVE FALSE
    BY <1>1, <1>2
  <1>3. PICK T \in C : \A x \in T : T \ {x} \notin C
    <2>1. C \in SUBSET SUBSET D
      OBVIOUS
    <2> HIDE DEF C
    <2> QED
      BY <2>1, MinimalSubset
  <1>4. T # {}
    <2> SUFFICES ASSUME T = {} PROVE FALSE
      OBVIOUS
    <2>1. sum[T] = 0 /\ tot[T] = 0 /\ o \notin T
      BY <1>1, <1>2 DEF Sums
    <2> QED
      BY <1>3, <2>1
  <1> DEFINE p == Pick(T)
             U == T \ {p}
  <1>5. p \in T /\ U \in SUBSET D /\ p \in D
    BY <1>3, <1>4 DEF Pick
  <1>6. Good(U)
    BY <1>3, <1>5
  <1>7. sum[T] = f[p] + sum[U] /\ tot[T] = g[p] + tot[U]
    BY <1>1, <1>2, <1>3, <1>4 DEF Sums
  <1>8. p = o => o \in T /\ o \notin U
    BY <1>5
  <1>9. p # o => (o \in T <=> o \in U) /\ f[p] = g[p]
    BY <1>5
  <1>10. ~Good(T)
    BY <1>3
  <1>11. f[p] \in Nat /\ g[p] \in Nat /\ f[o] \in Nat /\ g[o] \in Nat
    BY <1>5
  <1> HIDE DEF p, U, C
  <1>12. CASE p = o
    BY <1>6, <1>7, <1>8, <1>10, <1>11, <1>12
  <1>13. CASE p # o
    BY <1>6, <1>7, <1>9, <1>10, <1>11, <1>13
  <1> QED
    BY <1>12, <1>13

-----------------------------------------------------------------------------
(* The cost model.                                                         *)

\* A least element is the minimum.
LEMMA MinIs ==
    ASSUME NEW S \in SUBSET Nat, NEW m \in S, \A y \in S : m <= y
    PROVE  Min(S) = m
  <1>1. Min(S) \in S /\ \A y \in S : Min(S) <= y
    BY LeastNatural
  <1> DEFINE l == Min(S)
  <1>2. l \in Nat /\ m \in Nat /\ l <= m /\ m <= l
    BY <1>1
  <1> HIDE DEF l
  <1>3. l = m
    BY <1>2
  <1> QED
    BY <1>3 DEF l

\* An input of ComputeCosts.
Input(in) ==
    /\ in.Writes \in [Origin -> Nat] /\ in.Reads \in [Origin -> Nat]
    /\ in.Available \subseteq Consensus
    /\ DOMAIN in.OneWay \subseteq Routes
    /\ \A p \in DOMAIN in.OneWay : in.OneWay[p] \in Nat

\* There are finitely many origins of writes.
LEMMA OriginsFinite == IsFiniteSet(Consensus) /\ IsFiniteSet(Origin)
BY CostAssumption, PlacementAssumption, FS_Union DEF CostAssumption, PlacementAssumption, Origin

\* A known link has a latency.
LEMMA LinkTyped ==
    ASSUME NEW in, Input(in), NEW a, NEW b, HasLink(in, a, b)
    PROVE  oneWay(in, a, b) \in Nat
BY DEF Input, HasLink, oneWay

\* Who can commit has a nearest partner.
LEMMA NearestPartner ==
    ASSUME NEW in, Input(in), NEW z, Partners(in, z) # {}
    PROVE  /\ minToOtherAvailable(in, z) \in Nat
           /\ \E j \in Partners(in, z) : minToOtherAvailable(in, z) = oneWay(in, z, j)
           /\ \A j \in Partners(in, z) : minToOtherAvailable(in, z) <= oneWay(in, z, j)
  <1> DEFINE S == {oneWay(in, z, j) : j \in Partners(in, z)}
  <1>1. \A j \in Partners(in, z) : oneWay(in, z, j) \in Nat
    BY LinkTyped DEF Partners
  <1>2. S \in SUBSET Nat /\ S # {}
    BY <1>1
  <1>3. Min(S) \in S /\ \A y \in S : Min(S) <= y
    <2> HIDE DEF S
    <2> QED
      BY <1>2, LeastNatural
  <1>4. minToOtherAvailable(in, z) = Min(S)
    BY DEF minToOtherAvailable
  <1> QED
    BY <1>1, <1>3, <1>4

\* The ways of the responders of a floating domain, if it knows its latencies, are naturals.
LEMMA RelaysTyped ==
    ASSUME NEW in, Input(in), NEW u, NEW z, HasLink(in, u, z)
    PROVE  Relays(in, u, z) \in SUBSET Nat
  <1> SUFFICES ASSUME NEW w \in Relays(in, u, z) PROVE w \in Nat
    OBVIOUS
  <1> DEFINE back(r) == IF HasLink(in, r, u) THEN oneWay(in, r, u) ELSE oneWay(in, u, r)
  <1>1. PICK r \in Partners(in, z) :
          /\ HasLink(in, r, u) \/ HasLink(in, u, r)
          /\ w = oneWay(in, u, z) + oneWay(in, z, r) + back(r)
    BY DEF Relays
  <1>2. back(r) \in Nat
    BY <1>1, LinkTyped
  <1>3. oneWay(in, u, z) \in Nat /\ oneWay(in, z, r) \in Nat
    BY LinkTyped DEF Partners
  <1> HIDE DEF back
  <1> QED
    BY <1>1, <1>2, <1>3

\* The cost of a write from a consensus domain is a number,
LEMMA domainCostTyped ==
    ASSUME NEW in, Input(in), NEW z, CanCommit(in, z), NEW i \in Consensus
    PROVE  domainCost(in, i, z, minToOtherAvailable(in, z)) \in Nat
  <1> DEFINE minZJ == minToOtherAvailable(in, z)
  <1>1. in.Writes[i] \in Nat /\ in.Reads[i] \in Nat
    BY DEF Input, Origin
  <1>2. oneWay(in, i, z) \in Nat
    BY LinkTyped DEF CanCommit
  <1>3. minZJ \in Nat
    BY NearestPartner DEF CanCommit
  <1> HIDE DEF minZJ
  <1>4. domainCost(in, i, z, minZJ) \in Nat
    BY <1>1, <1>2, <1>3 DEF domainCost
  <1> QED
    BY <1>4 DEF minZJ

\* and so is that of a floating client.
LEMMA floatingCostTyped ==
    ASSUME NEW in, Input(in), NEW z, CanCommit(in, z), NEW u \in Origin
    PROVE  floatingCost(in, u, z, minToOtherAvailable(in, z)) \in Nat
  <1> DEFINE minZJ == minToOtherAvailable(in, z)
             S == {2 * (oneWay(in, u, z) + minZJ)} \cup Relays(in, u, z)
  <1>1. in.Writes[u] \in Nat /\ in.Reads[u] \in Nat
    BY DEF Input
  <1>2. minZJ \in Nat
    BY NearestPartner DEF CanCommit
  <1> HIDE DEF minZJ
  <1>3. CASE ~HasLink(in, u, z)
    BY <1>3 DEF floatingCost, minZJ
  <1>4. CASE HasLink(in, u, z)
    <2>1. oneWay(in, u, z) \in Nat
      BY <1>4, LinkTyped
    <2>2. S \in SUBSET Nat /\ S # {}
      BY <1>2, <1>4, <2>1, RelaysTyped
    <2>3. floatingCost(in, u, z, minZJ) = 2 * oneWay(in, u, z) * in.Reads[u] + Min(S) * in.Writes[u]
      BY <1>4 DEF floatingCost
    <2> HIDE DEF S
    <2>4. Min(S) \in Nat
      BY <2>2, LeastNatural
    <2> QED
      BY <1>1, <2>1, <2>3, <2>4 DEF minZJ
  <1> QED
    BY <1>3, <1>4

\* ComputeCosts yields a cost for whoever can commit.
LEMMA candidateCostTyped ==
    ASSUME NEW in, Input(in), NEW z
    PROVE  candidateCost(in, z) \in Nat
  <1> DEFINE minZJ == minToOtherAvailable(in, z)
             F == floatingDomains(in)
             f == [i \in Consensus |-> domainCost(in, i, z, minZJ)]
             g == [u \in F |-> floatingCost(in, u, z, minZJ)]
  <1>1. CASE ~CanCommit(in, z)
    BY <1>1 DEF candidateCost
  <1>2. CASE CanCommit(in, z)
    <2>1. F \in SUBSET Origin
      BY DEF floatingDomains, Input
    <2>2. IsFiniteSet(Consensus) /\ IsFiniteSet(F)
      BY <2>1, OriginsFinite, FS_Subset
    <2>3. f \in [Consensus -> Nat]
      BY <1>2, domainCostTyped
    <2>4. g \in [F -> Nat]
      BY <1>2, <2>1, floatingCostTyped
    <2>5. candidateCost(in, z) = SumFunction(f) + SumFunction(g)
      BY <1>2 DEF candidateCost
    <2> HIDE DEF f, g, F
    <2> QED
      BY <2>2, <2>3, <2>4, <2>5, SumTyped
  <1> QED
    BY <1>1, <1>2

\* ComputeCosts recommends a domain that can commit, if there is one, at the least cost.
LEMMA RecommendedIsLeast ==
    ASSUME NEW in, Input(in)
    PROVE  LET able == {z \in in.Available : CanCommit(in, z)}
           IN  IF able = {} THEN Recommended(in) = NoDomain
               ELSE /\ Recommended(in) \in able
                    /\ \A y \in able : candidateCost(in, Recommended(in)) <= candidateCost(in, y)
  <1> DEFINE able == {z \in in.Available : CanCommit(in, z)}
             Ls == [z \in able |-> candidateCost(in, z)]
             before(y, z) == Ls[y] < Ls[z] \/ (Ls[y] = Ls[z] /\ Rank[y] <= Rank[z])
             first(y) == \A z \in able : before(y, z)
  <1>1. CASE able = {}
    BY <1>1 DEF Recommended
  <1>2. CASE able # {}
    <2>1. Ls \in [able -> Nat] /\ \A z \in able : Ls[z] = candidateCost(in, z)
      BY candidateCostTyped
    <2>2. Recommended(in) = CHOOSE y \in able : first(y)
      BY <1>2 DEF Recommended
    <2>3. \A z \in able : Rank[z] \in Nat
      BY CostAssumption DEF CostAssumption, Input
    <2> HIDE DEF able, Ls
    <2> DEFINE costs == {Ls[z] : z \in able}
               cheap == {z \in able : Ls[z] = Min(costs)}
               ranks == {Rank[z] : z \in cheap}
    <2>4. Min(costs) \in costs /\ \A c \in costs : Min(costs) <= c
      <3>1. costs \in SUBSET Nat /\ costs # {}
        BY <1>2, <2>1
      <3> HIDE DEF costs
      <3> QED
        BY <3>1, LeastNatural
    <2>5. Min(ranks) \in ranks /\ \A r \in ranks : Min(ranks) <= r
      <3>1. ranks \in SUBSET Nat /\ ranks # {}
        BY <2>3, <2>4
      <3> HIDE DEF ranks
      <3> QED
        BY <3>1, LeastNatural
    <2>6. PICK y \in cheap : Rank[y] = Min(ranks)
      BY <2>5
    <2>7. first(y)
      <3> SUFFICES ASSUME NEW z \in able PROVE before(y, z)
        OBVIOUS
      <3>1. Ls[y] <= Ls[z]
        BY <2>4, <2>6
      <3>2. Ls[y] = Ls[z] => Rank[y] <= Rank[z]
        BY <2>5, <2>6
      <3>3. Ls[y] \in Nat /\ Ls[z] \in Nat
        BY <2>1, <2>6
      <3> QED
        BY <3>1, <3>2, <3>3
    <2>8. Recommended(in) \in able /\ first(Recommended(in))
      <3> HIDE DEF first
      <3> QED
        BY <2>2, <2>6, <2>7
    <2>9. \A z \in able : Ls[Recommended(in)] <= Ls[z]
      BY <2>1, <2>8
    <2> HIDE DEF costs, cheap, ranks
    <2> QED
      BY <1>2, <2>1, <2>8, <2>9 DEF able
  <1> QED
    BY <1>1, <1>2

\* A read goes there and back.
LEMMA CheapestRead ==
    ASSUME NEW in, Input(in), NEW o, NEW z, HasLink(in, o, z)
    PROVE  Min(Ways(in, o, z, TRUE)) = 2 * oneWay(in, o, z)
  <1> DEFINE w == 2 * oneWay(in, o, z)
  <1>1. Ways(in, o, z, TRUE) = {w}
    BY DEF Ways
  <1>2. w \in Nat
    BY LinkTyped
  <1> HIDE DEF w
  <1>3. {w} \in SUBSET Nat /\ w \in {w} /\ \A y \in {w} : w <= y
    BY <1>2
  <1>4. Min({w}) = w
    BY <1>3, MinIs
  <1> QED
    BY <1>1, <1>4 DEF w

\* The direct ways of a write: the shortest is over the nearest partner.
LEMMA DirectWays ==
    ASSUME NEW in, Input(in), NEW z, CanCommit(in, z), NEW there \in Nat
    PROVE  LET S == {2 * there + 2 * oneWay(in, z, j) : j \in Partners(in, z)}
               m == 2 * there + 2 * minToOtherAvailable(in, z)
           IN  S \in SUBSET Nat /\ m \in S /\ \A y \in S : m <= y
  <1> DEFINE S == {2 * there + 2 * oneWay(in, z, j) : j \in Partners(in, z)}
             minZJ == minToOtherAvailable(in, z)
             m == 2 * there + 2 * minZJ
  <1>1. /\ minZJ \in Nat
        /\ \E j \in Partners(in, z) : minZJ = oneWay(in, z, j)
        /\ \A j \in Partners(in, z) : minZJ <= oneWay(in, z, j)
    BY NearestPartner DEF CanCommit
  <1>2. \A j \in Partners(in, z) : oneWay(in, z, j) \in Nat
    BY LinkTyped DEF Partners
  <1> HIDE DEF minZJ
  <1>3. S \in SUBSET Nat
    BY <1>2
  <1>4. m \in S
    BY <1>1
  <1>5. \A y \in S : m <= y
    BY <1>1, <1>2
  <1> QED
    BY <1>3, <1>4, <1>5 DEF minZJ

\* A write of a consensus domain: direct, and in two ways less when its own domain is asked to
\* commit and answers.
LEMMA CheapestOwnWrite ==
    ASSUME NEW in, Input(in), NEW z, CanCommit(in, z), NEW o \in Consensus
    PROVE  Min(Ways(in, o, z, FALSE)) =
             IF o \in in.Available \ {z} THEN 2 * oneWay(in, o, z)
             ELSE 2 * oneWay(in, o, z) + 2 * minToOtherAvailable(in, z)
  <1> DEFINE there == oneWay(in, o, z)
             S == {2 * there + 2 * oneWay(in, z, j) : j \in Partners(in, z)}
             m == 2 * there + 2 * minToOtherAvailable(in, z)
             T == IF o \in in.Available \ {z} THEN {2 * there} ELSE {}
  <1>1. there \in Nat /\ minToOtherAvailable(in, z) \in Nat
    BY LinkTyped, NearestPartner DEF CanCommit
  <1>2. Ways(in, o, z, FALSE) = S \cup T
    BY DEF Ways
  <1>3. S \in SUBSET Nat /\ m \in S /\ \A y \in S : m <= y
    <2> HIDE DEF there
    <2> QED
      BY <1>1, DirectWays
  <1>4. CASE o \in in.Available \ {z}
    <2>1. T = {2 * there} /\ 2 * there \in Nat /\ 2 * there <= m
      BY <1>1, <1>4
    <2> HIDE DEF S, T, m, there
    <2>2. 2 * there \in S \cup T /\ S \cup T \in SUBSET Nat
      BY <1>3, <2>1
    <2>3. \A y \in S \cup T : 2 * there <= y
      <3>1. m \in Nat /\ \A y \in S : y \in Nat
        BY <1>3
      <3> QED
        BY <1>3, <2>1, <3>1
    <2>4. Min(S \cup T) = 2 * there
      BY <2>2, <2>3, MinIs
    <2> QED
      BY <1>2, <1>4, <2>4 DEF there
  <1>5. CASE o \notin in.Available \ {z}
    <2>1. S \cup T = S
      BY <1>5
    <2> HIDE DEF S, T
    <2>2. Min(S) = m
      BY <1>3, MinIs
    <2> QED
      BY <1>2, <1>5, <2>1, <2>2
  <1> QED
    BY <1>4, <1>5

\* A write of a floating domain that knows its latencies: what floatingCost charges for it.
LEMMA CheapestFloatingWrite ==
    ASSUME NEW in, Input(in), NEW z, CanCommit(in, z), NEW o, o \notin Consensus,
           HasLink(in, o, z), \A y \in Consensus : HasLink(in, o, y)
    PROVE  LET S == {2 * (oneWay(in, o, z) + minToOtherAvailable(in, z))} \cup Relays(in, o, z)
           IN  /\ Min(Ways(in, o, z, FALSE)) = Min(S)
               /\ Min(S) \in Nat
  <1> DEFINE there == oneWay(in, o, z)
             minZJ == minToOtherAvailable(in, z)
             back(r) == IF HasLink(in, r, o) THEN oneWay(in, r, o) ELSE oneWay(in, o, r)
             D == {2 * there + 2 * oneWay(in, z, j) : j \in Partners(in, z)}
             m == 2 * there + 2 * minZJ
             R == Relays(in, o, z)
             S == {2 * (there + minZJ)} \cup R
  <1>1. there \in Nat /\ minZJ \in Nat
    BY LinkTyped, NearestPartner DEF CanCommit
  <1>2. D \in SUBSET Nat /\ m \in D /\ \A y \in D : m <= y
    <2> HIDE DEF there
    <2> QED
      BY <1>1, DirectWays
  <1>3. R = {there + oneWay(in, z, r) + back(r) : r \in Partners(in, z)}
    <2>1. Partners(in, z) \subseteq Consensus
      BY DEF Partners, Input
    <2>2. {s \in Partners(in, z) : HasLink(in, s, o) \/ HasLink(in, o, s)} = Partners(in, z)
      BY <2>1
    <2> QED
      BY <2>2 DEF Relays
  <1>4. Ways(in, o, z, FALSE) = D \cup R
    BY <1>3 DEF Ways
  <1>5. 2 * (there + minZJ) = m
    <2> HIDE DEF there, minZJ
    <2> QED
      BY <1>1
  <1>6. R \in SUBSET Nat
    BY RelaysTyped
  <1> HIDE DEF there, minZJ, D, m, R
  <1>7. Min(S) \in S /\ \A y \in S : Min(S) <= y
    <2>1. S \in SUBSET Nat /\ S # {}
      BY <1>2, <1>5, <1>6
    <2> HIDE DEF S
    <2> QED
      BY <2>1, LeastNatural
  <1> DEFINE l == Min(S)
  <1>8. l \in D \cup R /\ \A y \in R : l <= y
    BY <1>2, <1>5, <1>7
  <1>9. \A y \in D : l <= y
    <2>1. l <= m /\ m \in Nat /\ l \in Nat /\ \A y \in D : y \in Nat
      BY <1>2, <1>5, <1>6, <1>7
    <2> HIDE DEF l
    <2> QED
      BY <1>2, <2>1
  <1>10. Min(D \cup R) = l /\ l \in Nat
    <2> HIDE DEF l
    <2>1. D \cup R \in SUBSET Nat
      BY <1>2, <1>6
    <2>2. l \in D \cup R /\ \A y \in D \cup R : l <= y
      BY <1>8, <1>9
    <2> QED
      BY <2>1, <2>2, MinIs
  <1> QED
    BY <1>4, <1>10 DEF there, minZJ, R

\* The cheapest way of one request.
WayCost(in, o, z, isRead) == Min(Ways(in, o, z, isRead))

\* What ComputeCosts charges a consensus domain is its requests on their cheapest ways.
LEMMA domainCostIsWays ==
    ASSUME NEW in, Input(in), NEW z, CanCommit(in, z), NEW i \in Consensus
    PROVE  /\ WayCost(in, i, z, FALSE) \in Nat /\ WayCost(in, i, z, TRUE) \in Nat
           /\ domainCost(in, i, z, minToOtherAvailable(in, z)) =
                WayCost(in, i, z, FALSE) * in.Writes[i] + WayCost(in, i, z, TRUE) * in.Reads[i]
  <1> DEFINE minZJ == minToOtherAvailable(in, z)
             l == oneWay(in, i, z)
             w == in.Writes[i]
             r == in.Reads[i]
  <1>1. minZJ \in Nat /\ l \in Nat /\ w \in Nat /\ r \in Nat
    BY LinkTyped, NearestPartner DEF CanCommit, Input, Origin
  <1>2. WayCost(in, i, z, TRUE) = 2 * l
    BY CheapestRead DEF CanCommit, WayCost
  <1>3. WayCost(in, i, z, FALSE) = IF i \in in.Available \ {z} THEN 2 * l ELSE 2 * l + 2 * minZJ
    BY CheapestOwnWrite DEF WayCost
  <1>4. domainCost(in, i, z, minZJ) =
          IF i = z THEN 2 * minZJ * w
          ELSE IF i \in in.Available THEN 2 * l * (w + r)
          ELSE 2 * (l + minZJ) * w + 2 * l * r
    BY DEF domainCost
  <1>5. i = z => l = 0
    BY DEF oneWay
  <1> HIDE DEF minZJ, l, w, r
  <1> DEFINE R == WayCost(in, i, z, TRUE)
             W == WayCost(in, i, z, FALSE)
             c == domainCost(in, i, z, minZJ)
  <1>6. CASE i = z
    <2>1. c = 2 * minZJ * w /\ l = 0
      BY <1>4, <1>5, <1>6
    <2>2. R = 2 * l
      BY <1>2
    <2>3. W = 2 * l + 2 * minZJ
      BY <1>3, <1>6
    <2> HIDE DEF R, W, c
    <2>4. R = 0 /\ W = 2 * minZJ
      BY <1>1, <2>1, <2>2, <2>3
    <2>5. R \in Nat /\ W \in Nat /\ c = W * w + R * r
      BY <1>1, <2>1, <2>4
    <2> QED
      BY <2>5 DEF R, W, c, minZJ, w, r
  <1>7. CASE i # z /\ i \in in.Available
    <2>1. domainCost(in, i, z, minZJ) = 2 * l * (w + r)
      BY <1>4, <1>7
    <2>2. WayCost(in, i, z, TRUE) = 2 * l /\ WayCost(in, i, z, FALSE) = 2 * l
      BY <1>2, <1>3, <1>7
    <2>3. 2 * l * (w + r) = 2 * l * w + 2 * l * r /\ 2 * l \in Nat
      BY <1>1
    <2> QED
      BY <2>1, <2>2, <2>3 DEF minZJ, w, r
  <1>8. CASE i # z /\ i \notin in.Available
    <2>1. domainCost(in, i, z, minZJ) = 2 * (l + minZJ) * w + 2 * l * r
      BY <1>4, <1>8
    <2>2. WayCost(in, i, z, TRUE) = 2 * l /\ WayCost(in, i, z, FALSE) = 2 * l + 2 * minZJ
      BY <1>2, <1>3, <1>8
    <2>3. 2 * (l + minZJ) * w = (2 * l + 2 * minZJ) * w /\ 2 * l \in Nat /\ 2 * l + 2 * minZJ \in Nat
      BY <1>1
    <2> QED
      BY <2>1, <2>2, <2>3 DEF minZJ, w, r
  <1> QED
    BY <1>6, <1>7, <1>8

\* And so for a floating domain that knows its latencies.
LEMMA floatingCostIsWays ==
    ASSUME NEW in, Input(in), NEW z \in Consensus, CanCommit(in, z), NEW u \in Origin \ Consensus,
           \A y \in Consensus : HasLink(in, u, y)
    PROVE  /\ WayCost(in, u, z, FALSE) \in Nat /\ WayCost(in, u, z, TRUE) \in Nat
           /\ floatingCost(in, u, z, minToOtherAvailable(in, z)) =
                WayCost(in, u, z, FALSE) * in.Writes[u] + WayCost(in, u, z, TRUE) * in.Reads[u]
  <1> DEFINE minZJ == minToOtherAvailable(in, z)
             l == oneWay(in, u, z)
             w == in.Writes[u]
             r == in.Reads[u]
             c == Min({2 * (l + minZJ)} \cup Relays(in, u, z))
  <1>1. l \in Nat /\ w \in Nat /\ r \in Nat
    BY LinkTyped DEF Input
  <1>2. WayCost(in, u, z, TRUE) = 2 * l
    BY CheapestRead DEF WayCost
  <1>3. WayCost(in, u, z, FALSE) = c /\ c \in Nat
    BY CheapestFloatingWrite DEF WayCost
  <1>4. floatingCost(in, u, z, minZJ) = 2 * l * r + c * w
    BY DEF floatingCost
  <1> HIDE DEF minZJ, l, w, r, c
  <1>5. 2 * l * r + c * w = c * w + 2 * l * r /\ 2 * l \in Nat
    BY <1>1, <1>3
  <1> QED
    BY <1>2, <1>3, <1>4, <1>5 DEF minZJ, w, r

-----------------------------------------------------------------------------
(* The window of requests.                                                 *)

\* Pruning leaves some of the events, in a sequence.
LEMMA RecentTyped ==
    ASSUME NEW E, NEW events \in Seq(E)
    PROVE  Recent(events) \in Seq(E)
  <1> DEFINE n == Len(events)
             Step(a, i) == IF i = 0 THEN << >>
                           ELSE IF events[i].at > now - Window THEN Append(a[i - 1], events[i])
                           ELSE a[i - 1]
             Solves(a, m) == a = [i \in 0..m |-> Step(a, i)]
             Solved(m) == \E a : Solves(a, m)
  <1>1. n \in Nat /\ \A i \in 1..n : events[i] \in E
    OBVIOUS
  <1> HIDE DEF n
  <1>2. Solved(n)
    <2> DEFINE S == {m \in 0..n : ~Solved(m)}
               m == Min(S)
    <2> SUFFICES ASSUME S # {} PROVE FALSE
      <3>1. n \in 0..n
        BY <1>1
      <3> HIDE DEF Solved
      <3> QED
        BY <3>1
    <2>1. m \in S /\ \A y \in S : m <= y
      <3>1. S \in SUBSET Nat
        OBVIOUS
      <3> HIDE DEF S
      <3> QED
        BY <3>1, LeastNatural
    <2> HIDE DEF m
    <2>2. Solved(0)
      <3> DEFINE a == [i \in 0..0 |-> << >>]
      <3>1. \A i \in 0..0 : Step(a, i) = << >>
        OBVIOUS
      <3> HIDE DEF Step
      <3>2. a = [i \in 0..0 |-> Step(a, i)]
        BY <3>1
      <3> QED
        BY <3>2
    <2>3. m \in 1..n
      <3>1. m # 0
        <4> HIDE DEF Solved
        <4> QED
          BY <2>1, <2>2
      <3> QED
        BY <1>1, <2>1, <3>1
    <2>4. Solved(m - 1)
      <3>1. m - 1 \in 0..n /\ ~(m <= m - 1)
        BY <1>1, <2>3
      <3> HIDE DEF Solved
      <3> QED
        BY <2>1, <3>1
    <2>5. PICK a : Solves(a, m - 1)
      BY <2>4
    <2> DEFINE b == [i \in 0..m |-> IF i = m THEN Step(a, m) ELSE a[i]]
    <2>6. \A i \in 0..m : b[i] = Step(b, i)
      <3> SUFFICES ASSUME NEW i \in 0..m PROVE b[i] = Step(b, i)
        OBVIOUS
      <3>1. i # 0 => i - 1 \in 0..m - 1 /\ b[i - 1] = a[i - 1]
        BY <2>3
      <3>2. Step(b, i) = Step(a, i)
        <4> HIDE DEF b
        <4> QED
          BY <3>1
      <3>3. CASE i = m
        BY <3>2, <3>3
      <3>4. CASE i # m
        <4>1. i \in 0..m - 1 /\ b[i] = a[i]
          BY <2>3, <3>4
        <4>2. a[i] = Step(a, i)
          <5> HIDE DEF Step
          <5> QED
            BY <2>5, <4>1
        <4> QED
          BY <3>2, <4>1, <4>2
      <3> QED
        BY <3>3, <3>4
    <2>7. Solves(b, m)
      <3>1. b = [i \in 0..m |-> b[i]]
        OBVIOUS
      <3> HIDE DEF b, Step
      <3> QED
        BY <2>6, <3>1
    <2> HIDE DEF b, Solves
    <2> QED
      BY <2>1, <2>7
  <1> DEFINE keep == CHOOSE a : Solves(a, n)
  <1>3. Recent(events) = keep[n]
    BY DEF Recent, n
  <1>4. Solves(keep, n)
    <2> HIDE DEF Solves
    <2> QED
      BY <1>2
  <1> HIDE DEF keep
  <1>5. \A i \in 0..n : keep[i] = Step(keep, i)
    <2> HIDE DEF Step
    <2> QED
      BY <1>4
  <1> DEFINE S == {i \in 0..n : keep[i] \notin Seq(E)}
             m == Min(S)
  <1>6. ASSUME S # {} PROVE FALSE
    <2>1. m \in S /\ \A y \in S : m <= y
      <3>1. S \in SUBSET Nat
        OBVIOUS
      <3> HIDE DEF S
      <3> QED
        BY <1>6, <3>1, LeastNatural
    <2> HIDE DEF m
    <2>2. keep[m] = Step(keep, m) /\ m \in 0..n /\ keep[m] \notin Seq(E)
      <3> HIDE DEF Step
      <3> QED
        BY <1>5, <2>1
    <2>3. m # 0
      BY <2>2
    <2>4. m - 1 \in 0..n /\ ~(m <= m - 1) /\ m \in 1..n
      BY <1>1, <2>2, <2>3
    <2>5. keep[m - 1] \in Seq(E) /\ events[m] \in E
      BY <1>1, <2>1, <2>4
    <2>6. Append(keep[m - 1], events[m]) \in Seq(E)
      BY <2>5, AppendProperties
    <2> QED
      BY <2>2, <2>3, <2>5, <2>6
  <1> QED
    BY <1>1, <1>3, <1>6

\* What a leader tells the mover is an input of ComputeCosts.
LEMMA InputTyped ==
    ASSUME LatencyInv, StatsInv, led \subseteq announced, NEW d \in led
    PROVE  /\ d \in Consensus /\ Input(buildInput(d))
           /\ Recent(stats[d]) \in Seq([at : 0..now, domain : Origin, isRead : BOOLEAN])
  <1> DEFINE events == Recent(stats[d])
             E == [at : 0..now, domain : Origin, isRead : BOOLEAN]
             in == buildInput(d)
             Count(o, b) == {i \in DOMAIN events : events[i].domain = o /\ events[i].isRead = b}
  <1>1. announced \subseteq Consensus /\ d \in Consensus
    BY PlacementAssumption DEF PlacementAssumption, LatencyInv
  <1>2. events \in Seq(E)
    BY <1>1, RecentTyped DEF StatsInv
  <1> HIDE DEF events, E
  <1>3. IsFiniteSet(DOMAIN events)
    <2>1. DOMAIN events = 1..Len(events) /\ Len(events) \in Nat
      BY <1>2
    <2> QED
      BY <2>1, FS_Interval
  <1>4. \A s \in SUBSET DOMAIN events : Cardinality(s) \in Nat
    BY <1>3, FS_Subset, FS_CardinalityType
  <1>5. in.Writes = [o \in Origin |-> Cardinality(Count(o, FALSE))]
    BY DEF buildInput, metricsSnapshot, counts, events
  <1>6. in.Reads = [o \in Origin |-> Cardinality(Count(o, TRUE))]
    BY DEF buildInput, metricsSnapshot, counts, events
  <1>7. in.Available = announced \cup {d}
    BY DEF buildInput, metricsSnapshot
  <1>8. ASSUME NEW p \in DOMAIN in.OneWay PROVE p \in Routes /\ in.OneWay[p] \in Nat
    BY <1>1, <1>8, LatencyKnown
  <1> HIDE DEF in
  <1>9. in.Writes \in [Origin -> Nat] /\ in.Reads \in [Origin -> Nat]
    <2>1. \A o \in Origin : Cardinality(Count(o, FALSE)) \in Nat
      BY <1>4
    <2>2. \A o \in Origin : Cardinality(Count(o, TRUE)) \in Nat
      BY <1>4
    <2> QED
      BY <1>5, <1>6, <2>1, <2>2
  <1>10. Input(in)
    BY <1>1, <1>7, <1>8, <1>9 DEF Input
  <1> QED
    BY <1>1, <1>2, <1>10 DEF in, events, E

\* The requests of the window cost a candidate, each on its cheapest way, what ComputeCosts
\* adds up by domain: with every request more, one term of the one sum and one term of
\* another grow by the same.
LEMMA WindowCostIsCandidateCost ==
    ASSUME LatencyInv, StatsInv, led \subseteq announced, NEW d \in led,
           NEW z \in Consensus, CanCommit(buildInput(d), z),
           \A u \in floatingDomains(buildInput(d)), y \in Consensus : HasLink(buildInput(d), u, y)
    PROVE  WindowCost(buildInput(d), d, z) = candidateCost(buildInput(d), z)
  <1> DEFINE events == Recent(stats[d])
             E == [at : 0..now, domain : Origin, isRead : BOOLEAN]
             in == buildInput(d)
             minZJ == minToOtherAvailable(in, z)
             F == floatingDomains(in)
             Way(o, b) == WayCost(in, o, z, b)
             D == DOMAIN events
             Of(s, o, b) == Cardinality({i \in s : events[i].domain = o /\ events[i].isRead = b})
             Term(s, o) == Way(o, FALSE) * Of(s, o, FALSE) + Way(o, TRUE) * Of(s, o, TRUE)
             Own(s) == [o \in Consensus |-> Term(s, o)]
             Flo(s) == [u \in F |-> Term(s, u)]
             f == [i \in D |-> Way(events[i].domain, events[i].isRead)]
  <1>1. Input(in) /\ events \in Seq(E)
    BY InputTyped
  <1>2. IsFiniteSet(D) /\ \A s \in SUBSET D : IsFiniteSet(s)
    <2>1. D = 1..Len(events) /\ Len(events) \in Nat
      <3> HIDE DEF events
      <3> QED
        BY <1>1
    <2>2. IsFiniteSet(D)
      <3> HIDE DEF D
      <3> QED
        BY <2>1, FS_Interval
    <2> HIDE DEF D
    <2> QED
      BY <2>2, FS_Subset
  <1>3. \A o \in Origin : /\ in.Writes[o] = Of(D, o, FALSE) /\ in.Reads[o] = Of(D, o, TRUE)
    BY DEF buildInput, metricsSnapshot, counts
  <1>4. WindowCost(in, d, z) = SumFunction(f)
    BY DEF WindowCost, WayCost
  <1>5. candidateCost(in, z) = SumFunction([o \in Consensus |-> domainCost(in, o, z, minZJ)])
                               + SumFunction([u \in F |-> floatingCost(in, u, z, minZJ)])
    BY DEF candidateCost
  <1>6. F \in SUBSET Origin /\ F \cap Consensus = {}
    BY <1>1 DEF floatingDomains, Input
  <1>7. \A o \in Consensus \cup F : Way(o, FALSE) \in Nat /\ Way(o, TRUE) \in Nat
    BY <1>1, <1>6, domainCostIsWays, floatingCostIsWays
  <1>8. \A o \in Consensus : domainCost(in, o, z, minZJ) = Term(D, o)
    <2> SUFFICES ASSUME NEW o \in Consensus PROVE domainCost(in, o, z, minZJ) = Term(D, o)
      OBVIOUS
    <2>1. domainCost(in, o, z, minZJ) = Way(o, FALSE) * in.Writes[o] + Way(o, TRUE) * in.Reads[o]
      BY <1>1, domainCostIsWays
    <2> QED
      BY <1>3, <2>1 DEF Origin
  <1>9. \A u \in F : floatingCost(in, u, z, minZJ) = Term(D, u)
    <2> SUFFICES ASSUME NEW u \in F PROVE floatingCost(in, u, z, minZJ) = Term(D, u)
      OBVIOUS
    <2>1. floatingCost(in, u, z, minZJ) = Way(u, FALSE) * in.Writes[u] + Way(u, TRUE) * in.Reads[u]
      BY <1>1, <1>6, floatingCostIsWays
    <2> QED
      BY <1>3, <1>6, <2>1
  <1>10. \A i \in D : /\ events[i].domain \in Origin /\ events[i].isRead \in BOOLEAN
                      /\ events[i].domain \in Consensus \cup F
    <2> SUFFICES ASSUME NEW i \in D
                 PROVE  /\ events[i].domain \in Origin /\ events[i].isRead \in BOOLEAN
                        /\ events[i].domain \in Consensus \cup F
      OBVIOUS
    <2> DEFINE o == events[i].domain
               b == events[i].isRead
    <2>1. o \in Origin /\ b \in BOOLEAN
      <3> HIDE DEF events
      <3>1. events[i] \in E
        <4> HIDE DEF E
        <4> QED
          BY <1>1
      <3> QED
        BY <3>1
    <2>2. Of(D, o, b) \in Nat \ {0}
      <3> DEFINE s == {j \in D : events[j].domain = o /\ events[j].isRead = b}
      <3>1. i \in s /\ s \in SUBSET D
        OBVIOUS
      <3> HIDE DEF s, D
      <3>2. IsFiniteSet(s)
        BY <1>2, <3>1
      <3>3. Cardinality(s) \in Nat /\ Cardinality(s) # 0
        BY <3>1, <3>2, FS_CardinalityType, FS_EmptySet
      <3> QED
        BY <3>3 DEF s
    <2> HIDE DEF Of, D
    <2>3. in.Writes[o] \in Nat /\ in.Reads[o] \in Nat /\ in.Writes[o] + in.Reads[o] > 0
      <3>1. in.Writes[o] \in Nat /\ in.Reads[o] \in Nat
        BY <1>1, <2>1 DEF Input
      <3>2. in.Writes[o] = Of(D, o, FALSE) /\ in.Reads[o] = Of(D, o, TRUE)
        BY <1>3, <2>1
      <3>3. b = TRUE \/ b = FALSE
        BY <2>1
      <3>4. in.Writes[o] # 0 \/ in.Reads[o] # 0
        BY <2>2, <3>2, <3>3
      <3> QED
        BY <3>1, <3>4
    <2>4. DOMAIN in.Writes = Origin
      BY <1>1 DEF Input
    <2> HIDE DEF o, b, in
    <2>5. o \in Consensus \cup F
      BY <2>1, <2>3, <2>4 DEF floatingDomains
    <2> QED
      BY <2>1, <2>5 DEF o, b
  <1>11. \A s \in SUBSET D, o \in Consensus \cup F : Term(s, o) \in Nat
    <2> SUFFICES ASSUME NEW s \in SUBSET D, NEW o \in Consensus \cup F PROVE Term(s, o) \in Nat
      OBVIOUS
    <2>1. Of(s, o, FALSE) \in Nat
      BY <1>2, FS_Subset, FS_CardinalityType
    <2>2. Of(s, o, TRUE) \in Nat
      BY <1>2, FS_Subset, FS_CardinalityType
    <2>3. Way(o, FALSE) \in Nat /\ Way(o, TRUE) \in Nat
      BY <1>7
    <2> DEFINE W == Way(o, FALSE)
               R == Way(o, TRUE)
               w == Of(s, o, FALSE)
               r == Of(s, o, TRUE)
    <2> HIDE DEF W, R, w, r
    <2>4. W \in Nat /\ R \in Nat /\ w \in Nat /\ r \in Nat
      BY <2>1, <2>2, <2>3 DEF W, R, w, r
    <2>5. W * w + R * r \in Nat
      BY <2>4
    <2> QED
      BY <2>5 DEF W, R, w, r
  <1>12. ASSUME NEW s \in SUBSET D, NEW p \in s
         PROVE  LET o == events[p].domain
                    U == s \ {p}
                IN  /\ Term(s, o) = Term(U, o) + f[p]
                    /\ \A x \in (Consensus \cup F) \ {o} : Term(s, x) = Term(U, x)
    <2> DEFINE o == events[p].domain
               b == events[p].isRead
               U == s \ {p}
               Is(t, x, c) == {i \in t : events[i].domain = x /\ events[i].isRead = c}
    <2>1. b \in BOOLEAN /\ o \in Consensus \cup F /\ f[p] = Way(o, b)
      BY <1>10, <1>12
    <2>2. ASSUME NEW x, NEW c \in BOOLEAN, x # o \/ c # b
          PROVE  Is(s, x, c) = Is(U, x, c)
      BY <2>2
    <2>3. Of(s, o, b) = Of(U, o, b) + 1 /\ Of(U, o, b) \in Nat
      <3>1. Is(s, o, b) = Is(U, o, b) \cup {p} /\ p \notin Is(U, o, b)
        BY <1>12
      <3>2. IsFiniteSet(Is(U, o, b))
        <4>1. Is(U, o, b) \in SUBSET D
          BY <1>12
        <4> HIDE DEF Is, D
        <4> QED
          BY <1>2, <4>1
      <3> DEFINE A == Is(s, o, b)
                 B == Is(U, o, b)
      <3> HIDE DEF Is, A, B
      <3>3. A = B \cup {p} /\ p \notin B /\ IsFiniteSet(B)
        BY <3>1, <3>2 DEF A, B
      <3>4. Cardinality(A) = Cardinality(B) + 1 /\ Cardinality(B) \in Nat
        BY <3>3, FS_AddElement, FS_CardinalityType
      <3> QED
        BY <3>4 DEF A, B, Is
    <2>4. ASSUME NEW x, x # o PROVE Term(s, x) = Term(U, x)
      <3>1. Is(s, x, FALSE) = Is(U, x, FALSE)
        BY <2>2, <2>4
      <3>2. Is(s, x, TRUE) = Is(U, x, TRUE)
        BY <2>2, <2>4
      <3> QED
        BY <3>1, <3>2
    <2>5. Term(s, o) = Term(U, o) + f[p]
      <3> DEFINE W == Way(o, FALSE)
                 R == Way(o, TRUE)
                 wU == Of(U, o, FALSE)
                 rU == Of(U, o, TRUE)
                 ws == Of(s, o, FALSE)
                 rs == Of(s, o, TRUE)
      <3>0. W \in Nat /\ R \in Nat
        BY <1>7, <2>1
      <3>a. wU \in Nat
        BY <1>2, <1>12, FS_Subset, FS_CardinalityType
      <3>b. rU \in Nat
        BY <1>2, <1>12, FS_Subset, FS_CardinalityType
      <3>1. CASE b = TRUE
        <4>1. ws = wU
          <5>1. Is(s, o, FALSE) = Is(U, o, FALSE)
            BY <2>2, <3>1
          <5> QED
            BY <5>1
        <4>2. rs = rU + 1
          BY <2>3, <3>1
        <4>3. f[p] = R
          BY <2>1, <3>1
        <4> HIDE DEF W, R, wU, rU, ws, rs
        <4>4. W * ws + R * rs = (W * wU + R * rU) + R
          BY <3>0, <3>a, <3>b, <4>1, <4>2
        <4>5. Term(s, o) = W * ws + R * rs /\ Term(U, o) = W * wU + R * rU
          BY DEF W, R, wU, rU, ws, rs
        <4> HIDE DEF Term, f
        <4> QED
          BY <4>3, <4>4, <4>5
      <3>2. CASE b = FALSE
        <4>1. rs = rU
          <5>1. Is(s, o, TRUE) = Is(U, o, TRUE)
            BY <2>2, <3>2
          <5> QED
            BY <5>1
        <4>2. ws = wU + 1
          BY <2>3, <3>2
        <4>3. f[p] = W
          BY <2>1, <3>2
        <4> HIDE DEF W, R, wU, rU, ws, rs
        <4>4. W * ws + R * rs = (W * wU + R * rU) + W
          BY <3>0, <3>a, <3>b, <4>1, <4>2
        <4>5. Term(s, o) = W * ws + R * rs /\ Term(U, o) = W * wU + R * rU
          BY DEF W, R, wU, rU, ws, rs
        <4> HIDE DEF Term, f
        <4> QED
          BY <4>3, <4>4, <4>5
      <3> QED
        BY <2>1, <3>1, <3>2
    <2> HIDE DEF Term, f
    <2> QED
      BY <2>4, <2>5
  <1>13. PICK sum : Sums(f, sum) /\ SumFunction(f) = sum[D]
    <2>1. DOMAIN f = D
      OBVIOUS
    <2> HIDE DEF f, D
    <2> QED
      BY <1>2, <2>1, SumRecursion
  <1> HIDE DEF Term, Way, Of, D, F, events, in
  <1>14. \A s \in SUBSET D : Own(s) \in [Consensus -> Nat] /\ Flo(s) \in [F -> Nat]
    BY <1>11
  <1>15. IsFiniteSet(Consensus) /\ IsFiniteSet(F)
    BY <1>6, OriginsFinite, FS_Subset
  <1> DEFINE Total(s) == SumFunction(Own(s)) + SumFunction(Flo(s))
  <1>16. Total({}) = 0
    <2>1. \A o \in Consensus \cup F : Term({}, o) = 0
      <3> SUFFICES ASSUME NEW o \in Consensus \cup F PROVE Term({}, o) = 0
        OBVIOUS
      <3>1. Of({}, o, FALSE) = 0 /\ Of({}, o, TRUE) = 0
        BY FS_EmptySet DEF Of
      <3> DEFINE W == Way(o, FALSE)
                 R == Way(o, TRUE)
      <3>2. W \in Nat /\ R \in Nat
        BY <1>7
      <3>3. Term({}, o) = W * 0 + R * 0
        BY <3>1 DEF Term
      <3> HIDE DEF W, R
      <3> QED
        BY <3>2, <3>3
    <2>2. {} \in SUBSET D
      OBVIOUS
    <2>3. Own({}) \in [Consensus -> Nat] /\ \A o \in Consensus : Own({})[o] = 0
      BY <1>14, <2>1, <2>2
    <2>4. Flo({}) \in [F -> Nat] /\ \A u \in F : Flo({})[u] = 0
      BY <1>14, <2>1, <2>2
    <2> HIDE DEF Own, Flo
    <2> QED
      BY <1>15, <2>3, <2>4, SumOfZeros
  <1>17. ASSUME NEW s \in SUBSET D
         PROVE  SumFunction(Own(s)) \in Nat /\ SumFunction(Flo(s)) \in Nat
    <2> HIDE DEF Own, Flo
    <2> QED
      BY <1>14, <1>15, SumTyped
  <1>18. ASSUME NEW s \in SUBSET D, NEW p \in s
         PROVE  Total(s) = f[p] + Total(s \ {p})
    <2> DEFINE o == events[p].domain
               U == s \ {p}
    <2>1. U \in SUBSET D /\ o \in Consensus \cup F /\ f[p] = Term(s, o) - Term(U, o)
      <3>1. U \in SUBSET D /\ o \in Consensus \cup F
        BY <1>10, <1>18
      <3>2. Term(s, o) \in Nat /\ Term(U, o) \in Nat /\ Term(s, o) = Term(U, o) + f[p]
        BY <1>11, <1>12, <1>18, <3>1
      <3>3. f[p] \in Nat
        <4>1. f[p] = Way(o, TRUE) \/ f[p] = Way(o, FALSE)
          <5>1. p \in D /\ (events[p].isRead = TRUE \/ events[p].isRead = FALSE)
            BY <1>10, <1>18
          <5> QED
            BY <5>1
        <4> HIDE DEF f
        <4> QED
          BY <1>7, <3>1, <4>1
      <3> HIDE DEF f, U, o
      <3> QED
        BY <3>1, <3>2, <3>3
    <2>2. \A x \in (Consensus \cup F) \ {o} : Term(s, x) = Term(U, x)
      BY <1>12, <1>18
    <2> DEFINE a == SumFunction(Own(s))
               b == SumFunction(Own(U))
               g == SumFunction(Flo(s))
               h == SumFunction(Flo(U))
    <2>3. a \in Nat /\ b \in Nat /\ g \in Nat /\ h \in Nat
      BY <1>17, <2>1
    <2>4. Term(s, o) \in Nat /\ Term(U, o) \in Nat
      BY <1>11, <2>1
    <2> HIDE DEF o, U, f
    <2>5. Own(s) \in [Consensus -> Nat] /\ Own(U) \in [Consensus -> Nat]
      BY <1>14, <2>1
    <2>6. Flo(s) \in [F -> Nat] /\ Flo(U) \in [F -> Nat]
      BY <1>14, <2>1
    <2>7. CASE o \in Consensus
      <3>1. Flo(s) = Flo(U)
        BY <1>6, <2>2, <2>7
      <3>2. \A x \in Consensus \ {o} : Own(s)[x] = Own(U)[x]
        BY <2>2
      <3>3. Own(s)[o] = Term(s, o) /\ Own(U)[o] = Term(U, o)
        BY <2>7
      <3> HIDE DEF Own, Flo
      <3>4. a + Term(U, o) = b + Term(s, o)
        BY <3>3, <1>15, <2>5, <2>7, <3>2, SumChange
      <3>5. g = h
        BY <3>1
      <3> HIDE DEF a, b, g, h
      <3>6. a + g = f[p] + (b + h)
        BY <2>1, <2>3, <2>4, <3>4, <3>5
      <3> QED
        BY <3>6 DEF a, b, g, h, U
    <2>8. CASE o \in F
      <3>1. Own(s) = Own(U)
        BY <1>6, <2>2, <2>8
      <3>2. \A x \in F \ {o} : Flo(s)[x] = Flo(U)[x]
        BY <2>2
      <3>3. Flo(s)[o] = Term(s, o) /\ Flo(U)[o] = Term(U, o)
        BY <2>8
      <3> HIDE DEF Own, Flo
      <3>4. g + Term(U, o) = h + Term(s, o)
        BY <3>3, <1>15, <2>6, <2>8, <3>2, SumChange
      <3>5. a = b
        BY <3>1
      <3> HIDE DEF a, b, g, h
      <3>6. a + g = f[p] + (b + h)
        BY <2>1, <2>3, <2>4, <3>4, <3>5
      <3> QED
        BY <3>6 DEF a, b, g, h, U
    <2> QED
      BY <2>1, <2>7, <2>8
  <1>19. sum[D] = Total(D)
    <2>1. DOMAIN f = D
      OBVIOUS
    <2> HIDE DEF Total, f
    <2> DEFINE C == {s \in SUBSET D : sum[s] # Total(s)}
    <2> SUFFICES ASSUME C # {} PROVE FALSE
      OBVIOUS
    <2>2. PICK T \in C : \A x \in T : T \ {x} \notin C
      <3>1. C \in SUBSET SUBSET D
        OBVIOUS
      <3> HIDE DEF C
      <3> QED
        BY <1>2, <3>1, MinimalSubset
    <2>3. T # {}
      <3>1. sum[{}] = Total({})
        BY <1>13, <1>16 DEF Sums
      <3> QED
        BY <2>2, <3>1
    <2>4. Pick(T) \in T
      BY <2>3 DEF Pick
    <2>5. sum[T \ {Pick(T)}] = Total(T \ {Pick(T)})
      BY <2>2, <2>4
    <2>6. sum[T] = f[Pick(T)] + sum[T \ {Pick(T)}]
      BY <1>13, <2>1, <2>2, <2>3 DEF Sums
    <2>7. Total(T) = f[Pick(T)] + Total(T \ {Pick(T)})
      BY <1>18, <2>2, <2>4
    <2> QED
      BY <2>2, <2>5, <2>6, <2>7
  <1>20. candidateCost(in, z) = Total(D)
    <2>1. [o \in Consensus |-> domainCost(in, o, z, minZJ)] = Own(D)
      BY <1>8
    <2>2. [u \in F |-> floatingCost(in, u, z, minZJ)] = Flo(D)
      BY <1>9
    <2> QED
      BY <1>5, <2>1, <2>2
  <1> QED
    BY <1>4, <1>13, <1>19, <1>20 DEF in

\* The recommendation is the cheapest by candidateCost, and that is what the window costs.
LEMMA CheapestRecommended ==
    LatencyInv /\ StatsInv /\ led \subseteq announced => RecommendationIsCheapest
  <1> SUFFICES ASSUME LatencyInv, StatsInv, led \subseteq announced, NEW d \in led,
                      \A u \in floatingDomains(buildInput(d)), y \in Consensus :
                         HasLink(buildInput(d), u, y)
               PROVE  LET in == buildInput(d)
                          able == {y \in in.Available :
                                     /\ Partners(in, y) # {}
                                     /\ \A i \in Consensus : HasLink(in, i, y)}
                          z == Recommended(in)
                      IN  IF able = {} THEN z = NoDomain
                          ELSE z \in able
                               /\ \A y \in able : WindowCost(in, d, z) <= WindowCost(in, d, y)
    BY DEF RecommendationIsCheapest
  <1> DEFINE in == buildInput(d)
             able == {y \in in.Available : CanCommit(in, y)}
             z == Recommended(in)
  <1>1. Input(in)
    BY InputTyped
  <1>2. IF able = {} THEN z = NoDomain
        ELSE z \in able /\ \A y \in able : candidateCost(in, z) <= candidateCost(in, y)
    <2> HIDE DEF in
    <2> QED
      BY <1>1, RecommendedIsLeast
  <1>3. \A y \in able : WindowCost(in, d, y) = candidateCost(in, y)
    <2> SUFFICES ASSUME NEW y \in able PROVE WindowCost(in, d, y) = candidateCost(in, y)
      OBVIOUS
    <2>1. y \in Consensus /\ CanCommit(in, y)
      BY <1>1 DEF Input
    <2> QED
      BY <2>1, WindowCostIsCandidateCost
  <1>4. able = {y \in in.Available :
                  /\ Partners(in, y) # {}
                  /\ \A i \in Consensus : HasLink(in, i, y)}
    BY DEF CanCommit
  <1> HIDE DEF able, z, in
  <1>5. IF able = {} THEN z = NoDomain
        ELSE z \in able /\ \A y \in able : WindowCost(in, d, z) <= WindowCost(in, d, y)
    BY <1>2, <1>3
  <1> QED
    BY <1>4, <1>5 DEF in, z

\* One write in the window: only its origin costs.
LEMMA CostOfOneWrite ==
    ASSUME NEW in, Input(in), NEW z \in Consensus, CanCommit(in, z), NEW o \in Origin,
           \A u \in Origin : in.Writes[u] = (IF u = o THEN 1 ELSE 0) /\ in.Reads[u] = 0,
           \A u \in Origin, y \in Consensus : HasLink(in, u, y)
    PROVE  candidateCost(in, z) = WayCost(in, o, z, FALSE) /\ WayCost(in, o, z, FALSE) \in Nat
  <1> DEFINE minZJ == minToOtherAvailable(in, z)
             F == floatingDomains(in)
             f == [i \in Consensus |-> domainCost(in, i, z, minZJ)]
             g == [u \in F |-> floatingCost(in, u, z, minZJ)]
             Way(u, b) == WayCost(in, u, z, b)
             W == WayCost(in, o, z, FALSE)
  <1>1. candidateCost(in, z) = SumFunction(f) + SumFunction(g)
    BY DEF candidateCost
  <1>2. F = {o} \ Consensus
    <2>1. DOMAIN in.Writes = Origin
      BY DEF Input
    <2>2. \A u \in Origin : in.Writes[u] + in.Reads[u] > 0 <=> u = o
      OBVIOUS
    <2> QED
      BY <2>1, <2>2 DEF floatingDomains
  <1>3. IsFiniteSet(Consensus) /\ IsFiniteSet(F) /\ F \in SUBSET Origin
    BY <1>2, OriginsFinite, FS_Subset
  <1>4. \A i \in Consensus : f[i] \in Nat /\ f[i] = (IF i = o THEN W ELSE 0)
    <2> SUFFICES ASSUME NEW i \in Consensus PROVE f[i] \in Nat /\ f[i] = (IF i = o THEN W ELSE 0)
      OBVIOUS
    <2> DEFINE w == Way(i, FALSE)
               r == Way(i, TRUE)
    <2>1. f[i] = w * in.Writes[i] + r * in.Reads[i] /\ w \in Nat /\ r \in Nat
      BY domainCostIsWays
    <2>2. in.Writes[i] = (IF i = o THEN 1 ELSE 0) /\ in.Reads[i] = 0
      BY DEF Origin
    <2>3. i = o => w = W
      OBVIOUS
    <2> HIDE DEF w, r, W, f
    <2> QED
      BY <2>1, <2>2, <2>3
  <1>5. \A u \in F : g[u] \in Nat /\ g[u] = W
    <2> SUFFICES ASSUME NEW u \in F PROVE g[u] \in Nat /\ g[u] = W
      OBVIOUS
    <2> DEFINE w == Way(u, FALSE)
               r == Way(u, TRUE)
    <2>1. u = o /\ u \in Origin \ Consensus
      BY <1>2
    <2>2. g[u] = w * in.Writes[u] + r * in.Reads[u] /\ w \in Nat /\ r \in Nat
      BY <2>1, floatingCostIsWays
    <2>3. in.Writes[u] = 1 /\ in.Reads[u] = 0
      BY <2>1
    <2>4. w = W
      BY <2>1
    <2> HIDE DEF w, r, W, g, F
    <2> QED
      BY <2>2, <2>3, <2>4
  <1>6. W \in Nat
    <2>1. CASE o \in Consensus
      BY <2>1, domainCostIsWays
    <2>2. CASE o \notin Consensus
      BY <2>2, floatingCostIsWays
    <2> QED
      BY <2>1, <2>2
  <1>7. f \in [Consensus -> Nat] /\ g \in [F -> Nat]
    BY <1>4, <1>5
  <1> DEFINE none == [i \in Consensus |-> 0]
             zero == [u \in F |-> 0]
  <1>8. SumFunction(none) = 0 /\ SumFunction(zero) = 0
    <2>1. none \in [Consensus -> Nat] /\ \A i \in Consensus : none[i] = 0
      OBVIOUS
    <2>2. zero \in [F -> Nat] /\ \A u \in F : zero[u] = 0
      OBVIOUS
    <2> HIDE DEF none, zero, F
    <2> QED
      BY <1>3, <2>1, <2>2, SumOfZeros
  <1>9. CASE o \in Consensus
    <2>1. F = {} /\ g = zero
      BY <1>2, <1>9
    <2>2. none \in [Consensus -> Nat] /\ none[o] = 0 /\ \A i \in Consensus \ {o} : f[i] = none[i]
      BY <1>4, <1>9
    <2>3. f[o] = W
      BY <1>4, <1>9
    <2> HIDE DEF f, g, none, zero, F, W
    <2>4. SumFunction(f) + none[o] = SumFunction(none) + f[o]
      BY <1>3, <1>7, <1>9, <2>2, SumChange
    <2>5. SumFunction(f) \in Nat
      BY <1>3, <1>7, SumTyped
    <2>6. SumFunction(f) = W
      BY <1>6, <1>8, <2>2, <2>3, <2>4, <2>5
    <2>7. candidateCost(in, z) = W + 0
      BY <1>1, <1>8, <2>1, <2>6
    <2>8. candidateCost(in, z) = W
      BY <1>6, <2>7
    <2> QED
      BY <1>6, <2>8 DEF W
  <1>10. CASE o \notin Consensus
    <2>1. F = {o}
      BY <1>2, <1>10
    <2>2. \A i \in Consensus : f[i] = none[i]
      BY <1>4, <1>10
    <2>3. f = none
      BY <2>2
    <2>4. o \in F /\ g[o] = W
      BY <1>5, <2>1
    <2>5. zero \in [F -> Nat] /\ zero[o] = 0 /\ \A u \in F \ {o} : g[u] = zero[u]
      BY <2>1
    <2> HIDE DEF f, g, none, zero, F, W
    <2>6. SumFunction(g) + zero[o] = SumFunction(zero) + g[o]
      BY <1>3, <1>7, <2>4, <2>5, SumChange
    <2>7. SumFunction(g) \in Nat
      BY <1>3, <1>7, SumTyped
    <2>8. SumFunction(g) = W
      BY <1>6, <1>8, <2>4, <2>5, <2>6, <2>7
    <2>9. candidateCost(in, z) = 0 + W
      BY <1>1, <1>8, <2>3, <2>8
    <2>10. candidateCost(in, z) = W
      BY <1>6, <2>9
    <2> QED
      BY <1>6, <2>10 DEF W
  <1> QED
    BY <1>9, <1>10

\* EstimateWritePathCost predicts the cheapest way, when all latencies are known and symmetric.
LEMMA EstimateIsWay ==
    ASSUME NEW in, Input(in), NEW dl, NEW o \in Origin, NEW z \in Consensus,
           Consensus \ {z} # {}, in.Available = Consensus,
           \A u \in Origin, y \in Consensus : HasLink(in, u, y),
           \A e, f \in Consensus : oneWay(in, e, f) = oneWay(in, f, e)
    PROVE  CanCommit(in, z) /\ WritePathCost(in, dl, o, z) = WayCost(in, o, z, FALSE)
  <1> DEFINE there == oneWay(in, o, z)
             minZJ == minToOtherAvailable(in, z)
             m == 2 * there + 2 * minZJ
             others == Consensus \ {z}
             To(y) == writeCostOneWay(in, dl, o, y)
             From(y) == writeCostOneWay(in, dl, y, o)
  <1>1. Partners(in, z) = others
    BY DEF Partners, Origin
  <1>2. CanCommit(in, z)
    BY <1>1 DEF CanCommit, Origin
  <1>3. /\ minZJ \in Nat
        /\ \E j \in others : minZJ = oneWay(in, z, j)
        /\ \A j \in others : minZJ <= oneWay(in, z, j)
    BY <1>1, NearestPartner
  <1>4. \A u \in Origin, y \in Consensus : oneWay(in, u, y) \in Nat
    BY LinkTyped
  <1>5. \A u \in Origin, y \in Consensus : writeCostOneWay(in, dl, u, y) = oneWay(in, u, y)
    BY DEF writeCostOneWay
  <1>6. \A y \in Consensus : From(y) = oneWay(in, o, y)
    <2> SUFFICES ASSUME NEW y \in Consensus PROVE From(y) = oneWay(in, o, y)
      OBVIOUS
    <2>1. CASE o \in Consensus
      <3>1. y \in Origin
        BY DEF Origin
      <3> QED
        BY <1>5, <2>1, <3>1
    <2>2. CASE o \notin Consensus
      <3>1. <<y, o>> \notin Routes /\ y # o
        BY <2>2 DEF Routes
      <3>2. ~HasLink(in, y, o)
        BY <3>1 DEF HasLink, Input
      <3> QED
        BY <3>2 DEF writeCostOneWay
    <2> QED
      BY <2>1, <2>2
  <1>7. secondQuorumRTT(in, dl, z) = 2 * minZJ
    <2> DEFINE S == {writeCostOneWay(in, dl, z, d) + writeCostOneWay(in, dl, d, z) : d \in others}
    <2>1. \A d \in others : /\ oneWay(in, z, d) \in Nat
                             /\ writeCostOneWay(in, dl, z, d) + writeCostOneWay(in, dl, d, z)
                                  = 2 * oneWay(in, z, d)
      <3> SUFFICES ASSUME NEW d \in others
                   PROVE  /\ oneWay(in, z, d) \in Nat
                          /\ writeCostOneWay(in, dl, z, d) + writeCostOneWay(in, dl, d, z)
                               = 2 * oneWay(in, z, d)
        OBVIOUS
      <3>1. /\ writeCostOneWay(in, dl, z, d) = oneWay(in, z, d)
            /\ writeCostOneWay(in, dl, d, z) = oneWay(in, d, z)
            /\ oneWay(in, z, d) \in Nat /\ oneWay(in, d, z) = oneWay(in, z, d)
        BY <1>4, <1>5 DEF Origin
      <3> QED
        BY <3>1
    <2>2. S = {2 * oneWay(in, z, d) : d \in others}
      BY <2>1
    <2> HIDE DEF S, minZJ, others
    <2>3. S \in SUBSET Nat /\ 2 * minZJ \in S
      BY <1>3, <2>1, <2>2
    <2>4. \A y \in S : 2 * minZJ <= y
      BY <1>3, <2>1, <2>2
    <2>5. Min(S) = 2 * minZJ
      BY <2>3, <2>4, MinIs
    <2> QED
      BY <2>5 DEF secondQuorumRTT, S, others
  <1>8. there \in Nat /\ m \in Nat
    <2>1. there \in Nat
      BY <1>4
    <2> HIDE DEF there, minZJ
    <2> QED
      BY <1>3, <2>1
  <1> DEFINE back == CallbackWays(in, dl, o, z)
             ways == {m} \cup {there + w : w \in back}
  <1>9. WritePathCost(in, dl, o, z) = Min(ways)
    <2> DEFINE direct == To(z) + secondQuorumRTT(in, dl, z) + From(z)
    <2>1. To(z) = there /\ From(z) = there
      BY <1>5, <1>6
    <2>2. direct = m
      <3> HIDE DEF there, minZJ, To, From
      <3> QED
        BY <1>3, <1>7, <1>8, <2>1
    <2>3. WritePathCost(in, dl, o, z) = Min({direct} \cup {To(z) + w : w \in back})
      BY DEF WritePathCost
    <2> HIDE DEF direct, To, From, m, there, back
    <2> QED
      BY <2>1, <2>2, <2>3
  <1>10. CASE o = z
    <2>1. back = {}
      BY <1>10 DEF CallbackWays
    <2>2. ways = {m}
      BY <2>1
    <2>3. WayCost(in, o, z, FALSE) = m
      BY <1>2, <1>10, CheapestOwnWrite DEF WayCost
    <2> HIDE DEF m, ways
    <2>4. {m} \in SUBSET Nat /\ m \in {m} /\ \A y \in {m} : m <= y
      BY <1>8
    <2>5. Min(ways) = m
      BY <2>2, <2>4, MinIs
    <2> QED
      BY <1>2, <1>9, <2>3, <2>5
  <1>11. CASE o \in others
    <2>1. back = {writeCostOneWay(in, dl, z, o) + From(o)}
      BY <1>11 DEF CallbackWays
    <2>2. From(o) = 0 /\ writeCostOneWay(in, dl, z, o) = there
      <3>1. From(o) = oneWay(in, o, o)
        BY <1>6, <1>11
      <3>2. writeCostOneWay(in, dl, z, o) = oneWay(in, z, o)
        BY <1>5, <1>11 DEF Origin
      <3>3. oneWay(in, o, o) = 0
        BY DEF oneWay
      <3>4. oneWay(in, z, o) = oneWay(in, o, z)
        BY <1>11
      <3> QED
        BY <3>1, <3>2, <3>3, <3>4
    <2>3. WayCost(in, o, z, FALSE) = 2 * there
      BY <1>2, <1>11, CheapestOwnWrite DEF WayCost
    <2> DEFINE t == 2 * there
    <2>4. ways = {m, t}
      <3> HIDE DEF there, m, From, back
      <3>1. back = {there}
        BY <1>8, <2>1, <2>2
      <3> QED
        BY <1>8, <3>1
    <2>5. t \in Nat /\ t <= m
      <3> HIDE DEF there, minZJ
      <3> QED
        BY <1>3, <1>8
    <2> HIDE DEF m, ways, t
    <2>6. {m, t} \in SUBSET Nat /\ t \in {m, t} /\ \A y \in {m, t} : t <= y
      BY <1>8, <2>5
    <2>7. Min(ways) = t
      BY <2>4, <2>6, MinIs
    <2> QED
      BY <1>2, <1>9, <2>3, <2>7 DEF t
  <1>12. CASE o \notin Consensus
    <2> DEFINE Way(d) == oneWay(in, z, d) + oneWay(in, o, d)
               Q == {Way(d) : d \in others}
               R == Relays(in, o, z)
    <2>1. \A d \in others : /\ Way(d) \in Nat
                             /\ writeCostOneWay(in, dl, z, d) + From(d) = Way(d)
      BY <1>4, <1>5, <1>6 DEF Origin
    <2>2. back = {Min(Q)}
      <3> DEFINE P == {writeCostOneWay(in, dl, z, d) + From(d) : d \in others}
      <3>1. back = {Min(P)}
        BY <1>12 DEF CallbackWays
      <3>2. P = Q
        BY <2>1
      <3> HIDE DEF P, Q
      <3> QED
        BY <3>1, <3>2
    <2>3. R = {there + q : q \in Q}
      <3>1. \A d \in others : ~HasLink(in, d, o)
        <4> SUFFICES ASSUME NEW d \in others PROVE ~HasLink(in, d, o)
          OBVIOUS
        <4>1. <<d, o>> \notin Routes /\ d # o
          BY <1>12 DEF Routes
        <4> QED
          BY <4>1 DEF HasLink, Input
      <3>2. {s \in Partners(in, z) : HasLink(in, s, o) \/ HasLink(in, o, s)} = others
        BY <1>1
      <3>3. R = {there + oneWay(in, z, r) + (IF HasLink(in, r, o) THEN oneWay(in, r, o)
                                             ELSE oneWay(in, o, r)) : r \in others}
        BY <3>2 DEF Relays
      <3>4. R = {there + oneWay(in, z, r) + oneWay(in, o, r) : r \in others}
        BY <3>1, <3>3
      <3>5. \A r \in others : there + oneWay(in, z, r) + oneWay(in, o, r) = there + Way(r)
        BY <1>4, <1>8 DEF Origin
      <3> HIDE DEF there
      <3> QED
        BY <3>4, <3>5
    <2>4. WayCost(in, o, z, FALSE) = Min({2 * (there + minZJ)} \cup R)
      BY <1>2, <1>12, CheapestFloatingWrite DEF WayCost
    <2>5. 2 * (there + minZJ) = m
      <3> HIDE DEF there, minZJ
      <3> QED
        BY <1>3, <1>8
    <2>6. Q \in SUBSET Nat /\ Q # {}
      BY <2>1
    <2> DEFINE q == Min(Q)
               v == Min(ways)
    <2> HIDE DEF Q, R, there, minZJ, m, back
    <2>7. q \in Q /\ \A y \in Q : q <= y
      BY <2>6, LeastNatural
    <2>8. q \in Nat /\ ways = {m, there + q}
      BY <2>2, <2>6, <2>7
    <2> HIDE DEF q
    <2>9. v \in {m, there + q} /\ v <= m /\ v <= there + q /\ v \in Nat
      <3>1. ways \in SUBSET Nat /\ ways # {}
        BY <1>8, <2>8
      <3>2. v \in ways /\ \A y \in ways : v <= y
        <4> HIDE DEF ways
        <4> QED
          BY <3>1, LeastNatural
      <3> QED
        BY <2>8, <3>1, <3>2
    <2> HIDE DEF v, ways
    <2>10. v \in {m} \cup R /\ {m} \cup R \in SUBSET Nat
      BY <1>8, <2>3, <2>6, <2>7, <2>9
    <2>11. \A y \in {m} \cup R : v <= y
      <3>1. \A y \in Q : there + q <= there + y /\ y \in Nat
        BY <1>8, <2>6, <2>7, <2>8
      <3>2. \A y \in Q : v <= there + y
        BY <1>8, <2>8, <2>9, <3>1
      <3> QED
        BY <2>3, <2>9, <3>2
    <2>12. Min({m} \cup R) = v
      BY <2>10, <2>11, MinIs
    <2> QED
      BY <1>2, <1>9, <2>4, <2>5, <2>12 DEF v
  <1> QED
    BY <1>10, <1>11, <1>12

\* With one write in the window, the two models charge it the same.
LEMMA ModelsAgree ==
    LatencyInv /\ StatsInv /\ led \subseteq announced => EstimatesAgree
  <1> SUFFICES ASSUME LatencyInv, StatsInv, led \subseteq announced, NEW d \in led,
                      buildInput(d).Available = Consensus,
                      \A p \in Routes : HasLink(buildInput(d), p[1], p[2]),
                      \A e, f \in Consensus :
                         oneWay(buildInput(d), e, f) = oneWay(buildInput(d), f, e),
                      NEW o \in Origin, NEW z \in Consensus
               PROVE  candidateCost([buildInput(d) EXCEPT
                                       !.Writes = [u \in Origin |-> IF u = o THEN 1 ELSE 0],
                                       !.Reads = [u \in Origin |-> 0]], z)
                        = WritePathCost(buildInput(d), delay, o, z)
    BY DEF EstimatesAgree
  <1> DEFINE in == buildInput(d)
             writes == [u \in Origin |-> IF u = o THEN 1 ELSE 0]
             reads == [u \in Origin |-> 0]
             j == [in EXCEPT !.Writes = writes, !.Reads = reads]
  <1>1. Input(in)
    BY InputTyped
  <1>2. /\ j.Writes = writes /\ j.Reads = reads
        /\ j.OneWay = in.OneWay /\ j.Available = in.Available
    BY DEF buildInput
  <1>3. writes \in [Origin -> Nat] /\ reads \in [Origin -> Nat]
    OBVIOUS
  <1>4. \A u \in Origin : writes[u] = (IF u = o THEN 1 ELSE 0) /\ reads[u] = 0
    OBVIOUS
  <1>5. \A u \in Origin, y \in Consensus : HasLink(in, u, y)
    <2> SUFFICES ASSUME NEW u \in Origin, NEW y \in Consensus PROVE HasLink(in, u, y)
      OBVIOUS
    <2>1. <<u, y>> \in Routes
      BY DEF Routes
    <2>2. <<u, y>>[1] = u /\ <<u, y>>[2] = y
      OBVIOUS
    <2> HIDE DEF in
    <2> QED
      BY <2>1, <2>2 DEF in
  <1>6. Consensus \ {z} # {}
    <2>1. announced \subseteq Consensus /\ Cardinality(announced) >= 2
      BY PlacementAssumption DEF PlacementAssumption, LatencyInv
    <2>2. SUFFICES ASSUME Consensus \subseteq {z} PROVE FALSE
      OBVIOUS
    <2>3. announced \subseteq {z} /\ IsFiniteSet({z}) /\ Cardinality({z}) = 1
      BY <2>1, <2>2, FS_Singleton
    <2>4. Cardinality(announced) <= 1 /\ Cardinality(announced) \in Nat
      BY <2>3, FS_Subset, FS_CardinalityType
    <2> QED
      BY <2>1, <2>4
  <1>7. CanCommit(in, z) /\ WritePathCost(in, delay, o, z) = WayCost(in, o, z, FALSE)
    <2> HIDE DEF in
    <2>1. /\ in.Available = Consensus
          /\ \A e, f \in Consensus : oneWay(in, e, f) = oneWay(in, f, e)
      BY DEF in
    <2> QED
      BY <1>1, <1>5, <1>6, <2>1, EstimateIsWay
  <1> HIDE DEF j, writes, reads, in
  <1>8. Input(j)
    BY <1>1, <1>2, <1>3 DEF Input
  <1>9. \A a, b : HasLink(j, a, b) <=> HasLink(in, a, b)
    BY <1>2 DEF HasLink
  <1>10. CanCommit(j, z) /\ Partners(j, z) = Partners(in, z)
    <2>1. Partners(j, z) = Partners(in, z)
      BY <1>2, <1>9 DEF Partners
    <2> QED
      BY <1>7, <1>9, <2>1 DEF CanCommit
  <1>11. \A u \in Origin : j.Writes[u] = (IF u = o THEN 1 ELSE 0) /\ j.Reads[u] = 0
    BY <1>2, <1>4
  <1>12. \A u \in Origin, y \in Consensus : HasLink(j, u, y)
    BY <1>5, <1>9
  <1>13. candidateCost(j, z) = WayCost(j, o, z, FALSE)
    BY <1>8, <1>10, <1>11, <1>12, CostOfOneWrite
  <1>14. WayCost(j, o, z, FALSE) = WayCost(in, o, z, FALSE)
    <2>1. \A a, b : oneWay(j, a, b) = oneWay(in, a, b)
      BY <1>2 DEF oneWay
    <2>2. Ways(j, o, z, FALSE) = Ways(in, o, z, FALSE)
      BY <1>2, <1>9, <1>10, <2>1 DEF Ways
    <2> QED
      BY <2>2 DEF WayCost
  <1> QED
    BY <1>7, <1>13, <1>14 DEF j, in, writes, reads

-----------------------------------------------------------------------------
(* The whole invariant.                                                    *)

\* The inductive invariant holds at first.
LEMMA PlacementInitially == Init => PlacementInv
  <1> SUFFICES ASSUME Init PROVE PlacementInv
    OBVIOUS
  <1>1. LatencyInv
    BY LatencyInitially
  <1>2. StatsInv
    BY DEF Init, StatsInv
  <1>3. announced \subseteq Consensus /\ announced # {}
    <2>1. PICK s \in Setups : announced = s[1]
      BY DEF Init
    <2>2. announced \subseteq Consensus /\ Cardinality(announced) >= 2
      BY <2>1, PlacementAssumption DEF PlacementAssumption
    <2>3. Cardinality({}) = 0
      BY FS_EmptySet
    <2> QED
      BY <2>2, <2>3
  <1>4. leader \in announced
    <2> DEFINE ranks == {Rank[d] : d \in announced}
    <2>1. ranks \in SUBSET Nat /\ ranks # {}
      BY <1>3, CostAssumption DEF CostAssumption
    <2>2. Min(ranks) \in ranks /\ \A r \in ranks : Min(ranks) <= r
      <3> HIDE DEF ranks
      <3> QED
        BY <2>1, LeastNatural
    <2>3. PICK d \in announced : Rank[d] = Min(ranks)
      BY <2>2
    <2>4. \A e \in announced : Rank[d] <= Rank[e]
      BY <2>2, <2>3
    <2>5. leader = CHOOSE c \in announced : \A e \in announced : Rank[c] <= Rank[e]
      BY DEF Init
    <2> QED
      BY <2>4, <2>5
  <1>5. led \subseteq announced
    BY <1>4 DEF Init
  <1>6. now \in 0..MaxTime /\ term \in 1..MaxTerm
    BY PlacementAssumption DEF PlacementAssumption, Init
  <1>7. view \in [Floating -> [leader : Consensus \cup {NoDomain}, term : 0..MaxTerm]]
    BY PlacementAssumption DEF PlacementAssumption, Init, NoView
  <1>8. /\ mover \in [phase : {"idle", "moving", "moved"}, gl : Consensus \cup {NoDomain},
                      target : Consensus \cup {NoDomain}, candidate : Consensus \cup {NoDomain},
                      streak : 0..Confirmations, lastMigration : Never..MaxTime]
        /\ mover.phase = "idle"
    BY PlacementAssumption DEF PlacementAssumption, Init, IdleMover, Never
  <1> QED
    BY <1>1, <1>2, <1>4, <1>5, <1>6, <1>7, <1>8 DEF PlacementInv

\* What a tick decides: the target of a move is a domain whose leader is known.
LEMMA ObservedTarget ==
    ASSUME PlacementInv, NEW d \in Consensus, Observe(d)
    PROVE  /\ mover' \in [phase : {"idle", "moving", "moved"}, gl : Consensus \cup {NoDomain},
                          target : Consensus \cup {NoDomain}, candidate : Consensus \cup {NoDomain},
                          streak : 0..Confirmations, lastMigration : Never..MaxTime]
           /\ mover'.phase = "moving" => mover'.target \in announced
  <1> DEFINE in == buildInput(d)
             z == Recommended(in)
             streak == IF z = mover.candidate THEN mover.streak + 1 ELSE 1
             M == [phase : {"idle", "moving", "moved"}, gl : Consensus \cup {NoDomain},
                   target : Consensus \cup {NoDomain}, candidate : Consensus \cup {NoDomain},
                   streak : 0..Confirmations, lastMigration : Never..MaxTime]
  <1>1. mover.phase = "idle" /\ d \in led
    BY DEF Observe, discoverGlobalLeader
  <1>2. announced \subseteq Consensus
    BY PlacementAssumption DEF PlacementAssumption, LatencyInv, PlacementInv
  <1>3. mover \in M /\ Confirmations \in Nat \ {0}
    BY PlacementAssumption DEF PlacementAssumption, PlacementInv
  <1>4. NoDecision \in M /\ NoDecision.phase = "idle"
    <2> DEFINE R(c, n) == [phase |-> mover.phase, gl |-> mover.gl, target |-> mover.target,
                           candidate |-> c, streak |-> n, lastMigration |-> mover.lastMigration]
               uncounted == [mover EXCEPT !.candidate = NoDomain]
    <2>1. mover = R(mover.candidate, mover.streak)
      BY <1>3
    <2>2. uncounted = R(NoDomain, mover.streak)
      BY <2>1
    <2>3. NoDecision = [uncounted EXCEPT !.streak = 0]
      BY DEF NoDecision
    <2> HIDE DEF uncounted
    <2>4. NoDecision = R(NoDomain, 0)
      BY <2>2, <2>3
    <2>5. 0 \in 0..Confirmations
      BY <1>3
    <2> QED
      BY <1>1, <1>3, <2>4, <2>5
  <1>5. ASSUME Worthwhile(in, d, z)
        PROVE  /\ Decided(d, z, streak) \in M
               /\ Decided(d, z, streak).phase = "moving" => Decided(d, z, streak).target \in announced
    <2>1. Input(in)
      BY <1>1, InputTyped DEF PlacementInv
    <2>2. in.Available = announced \cup {d}
      BY DEF buildInput, metricsSnapshot
    <2>3. z # NoDomain
      BY <1>5 DEF Worthwhile
    <2> HIDE DEF in
    <2>4. z \in in.Available
      BY <2>1, <2>3, RecommendedIsLeast
    <2>5. z \in announced /\ z \in Consensus
      BY <1>1, <1>2, <2>2, <2>4 DEF PlacementInv
    <2> HIDE DEF z
    <2>6. streak \in Nat
      BY <1>3
    <2> HIDE DEF streak
    <2>7. CASE streak < Confirmations
      <3>1. Decided(d, z, streak) =
              [phase |-> mover.phase, gl |-> mover.gl, target |-> mover.target,
               candidate |-> z, streak |-> streak, lastMigration |-> mover.lastMigration]
        BY <1>3, <2>7 DEF Decided
      <3>2. streak \in 0..Confirmations
        BY <1>3, <2>6, <2>7
      <3> QED
        BY <1>1, <1>3, <2>5, <3>1, <3>2
    <2>8. CASE ~(streak < Confirmations) /\ Cooling
      BY <1>4, <2>8 DEF Decided
    <2>9. CASE ~(streak < Confirmations) /\ ~Cooling
      <3>1. Decided(d, z, streak) = [NoDecision EXCEPT !.phase = "moving", !.gl = d, !.target = z]
        BY <2>9 DEF Decided
      <3> HIDE DEF NoDecision
      <3> QED
        BY <1>4, <2>5, <3>1
    <2> QED
      BY <2>7, <2>8, <2>9
  <1>6. mover' = IF Worthwhile(in, d, z) THEN Decided(d, z, streak) ELSE NoDecision
    BY DEF Observe
  <1> HIDE DEF in, z, streak, M
  <1>7. mover' \in M /\ (mover'.phase = "moving" => mover'.target \in announced)
    BY <1>4, <1>5, <1>6
  <1> QED
    BY <1>7 DEF M

\* Every step keeps the statistics of the window.
LEMMA StatsStep == PlacementInv /\ [Next]_vars => StatsInv'
  <1> SUFFICES ASSUME PlacementInv, [Next]_vars PROVE StatsInv'
    OBVIOUS
  <1>1. ASSUME stats' = stats, now' = now PROVE StatsInv'
    BY <1>1 DEF PlacementInv, StatsInv
  <1>2. CASE Tick
    <2> DEFINE E == [at : 0..now, domain : Origin, isRead : BOOLEAN]
               G == [at : 0..now', domain : Origin, isRead : BOOLEAN]
    <2>1. stats' = stats /\ E \subseteq G
      BY <1>2 DEF Tick, telemetryVars, PlacementInv
    <2>2. \A d \in Consensus : stats[d] \in Seq(E)
      BY DEF PlacementInv, StatsInv
    <2> HIDE DEF E, G
    <2>3. \A d \in Consensus : stats[d] \in Seq(G)
      BY <2>1, <2>2
    <2> QED
      BY <2>1, <2>3 DEF PlacementInv, StatsInv, G
  <1>3. ASSUME NEW l \in Load, record(l[1], l[2]) PROVE StatsInv'
    <2> DEFINE E == [at : 0..now, domain : Origin, isRead : BOOLEAN]
               e == [at |-> now, domain |-> l[1], isRead |-> l[2]]
               more == Append(stats[leader], e)
    <2>1. e \in E
      BY PlacementAssumption DEF PlacementAssumption, PlacementInv, Origin
    <2>2. leader \in Consensus
      BY PlacementAssumption DEF PlacementAssumption, PlacementInv, LatencyInv
    <2>3. DOMAIN stats = Consensus /\ \A d \in Consensus : stats[d] \in Seq(E)
      BY DEF PlacementInv, StatsInv
    <2>4. now' = now /\ stats' = [stats EXCEPT ![leader] = Recent(more)]
      BY <1>3 DEF record, clusterVars
    <2> HIDE DEF E, e
    <2>5. more \in Seq(E)
      BY <2>1, <2>2, <2>3, AppendProperties
    <2> HIDE DEF more
    <2>6. Recent(more) \in Seq(E)
      BY <2>5, RecentTyped
    <2>7. DOMAIN stats' = Consensus /\ \A d \in Consensus : stats'[d] \in Seq(E)
      BY <2>2, <2>3, <2>4, <2>6
    <2> QED
      BY <2>4, <2>7 DEF StatsInv, E
  <1>4. ASSUME NEW to, NEW cut, probeAndReport(to, cut) PROVE StatsInv'
    BY <1>1, <1>4 DEF probeAndReport, clusterVars
  <1>5. ASSUME NEW u, DiscoverTopology(u) \/ ReportFloatingLatency(u) PROVE StatsInv'
    BY <1>1, <1>5 DEF DiscoverTopology, ReportFloatingLatency, clusterVars
  <1>6. ASSUME NEW d, Observe(d) \/ Elect(d) PROVE StatsInv'
    BY <1>1, <1>6 DEF Observe, Elect, clusterVars, telemetryVars
  <1>7. CASE MoveExecuted \/ MoveAccepted \/ MoveFails \/ UNCHANGED vars
    BY <1>1, <1>7 DEF MoveExecuted, MoveAccepted, MoveFails, vars, clusterVars, telemetryVars
  <1> QED
    BY <1>2, <1>3, <1>4, <1>5, <1>6, <1>7 DEF Next

\* The inductive invariant is kept by every step.
LEMMA PlacementStep == PlacementInv /\ [Next]_vars => PlacementInv'
  <1> SUFFICES ASSUME PlacementInv, [Next]_vars PROVE PlacementInv'
    OBVIOUS
  <1> DEFINE M == [phase : {"idle", "moving", "moved"}, gl : Consensus \cup {NoDomain},
                   target : Consensus \cup {NoDomain}, candidate : Consensus \cup {NoDomain},
                   streak : 0..Confirmations, lastMigration : Never..MaxTime]
             V == [Floating -> [leader : Consensus \cup {NoDomain}, term : 0..MaxTerm]]
             Cluster == /\ now' \in 0..MaxTime /\ term' \in 1..MaxTerm
                        /\ leader' \in announced /\ led' \subseteq announced
             Moves == mover' \in M /\ (mover'.phase = "moving" => mover'.target \in announced)
  <1>1. LatencyInv' /\ StatsInv'
    BY LatencyStep, StatsStep DEF PlacementInv
  <1>2. announced' = announced
    BY DEF Next, vars, clusterVars, record, probeAndReport, DiscoverTopology,
           ReportFloatingLatency, Observe, Elect, MoveExecuted, MoveAccepted, MoveFails, Tick
  <1>3. announced \subseteq Consensus
    BY PlacementAssumption DEF PlacementAssumption, LatencyInv, PlacementInv
  <1>4. /\ now \in 0..MaxTime /\ term \in 1..MaxTerm /\ view \in V /\ mover \in M
        /\ leader \in announced /\ led \subseteq announced
        /\ mover.phase = "moving" => mover.target \in announced
        /\ MaxTime \in Nat /\ MaxTerm \in Nat \ {0}
    BY PlacementAssumption DEF PlacementAssumption, PlacementInv
  <1>5. ASSUME Cluster, view' \in V, Moves PROVE PlacementInv'
    BY <1>1, <1>2, <1>5 DEF PlacementInv
  <1> HIDE DEF V
  <1>6. ASSUME UNCHANGED clusterVars PROVE Cluster
    BY <1>4, <1>6 DEF clusterVars
  <1>7. ASSUME mover' = mover PROVE Moves
    BY <1>4, <1>7
  <1>8. ASSUME NEW l, record(l[1], l[2]) PROVE PlacementInv'
    BY <1>4, <1>5, <1>6, <1>7, <1>8 DEF record
  <1>9. ASSUME NEW to, NEW cut, probeAndReport(to, cut) PROVE PlacementInv'
    BY <1>4, <1>5, <1>6, <1>7, <1>9 DEF probeAndReport
  <1>10. ASSUME NEW u \in Floating, ReportFloatingLatency(u) PROVE PlacementInv'
    BY <1>4, <1>5, <1>6, <1>7, <1>10 DEF ReportFloatingLatency
  <1>11. ASSUME NEW u \in Floating, DiscoverTopology(u) PROVE PlacementInv'
    <2>1. view' = [view EXCEPT ![u] = Topology] /\ UNCHANGED clusterVars /\ mover' = mover
      BY <1>11 DEF DiscoverTopology
    <2>2. Topology \in [leader : Consensus \cup {NoDomain}, term : 0..MaxTerm]
      BY <1>3, <1>4 DEF Topology
    <2>3. view' \in V
      BY <1>4, <2>1, <2>2 DEF V
    <2> QED
      BY <1>5, <1>6, <1>7, <2>1, <2>3
  <1>12. ASSUME NEW d \in Consensus, Observe(d) PROVE PlacementInv'
    <2>1. Moves
      BY <1>12, ObservedTarget
    <2>2. UNCHANGED clusterVars /\ view' = view
      BY <1>12 DEF Observe, telemetryVars
    <2> QED
      BY <1>4, <1>5, <1>6, <2>1, <2>2
  <1>13. ASSUME NEW d \in Consensus, Elect(d) PROVE PlacementInv'
    <2>1. Cluster
      BY <1>4, <1>13 DEF Elect
    <2>2. view' = view /\ mover' = mover
      BY <1>13 DEF Elect, telemetryVars
    <2> QED
      BY <1>4, <1>5, <1>7, <2>1, <2>2
  <1>14. CASE MoveExecuted
    <2>1. Cluster
      BY <1>4, <1>14 DEF MoveExecuted
    <2>2. Moves /\ view' = view
      BY <1>4, <1>14 DEF MoveExecuted, telemetryVars
    <2> QED
      BY <1>4, <1>5, <2>1, <2>2
  <1>15. CASE MoveAccepted
    <2>1. now \in Never..MaxTime
      BY <1>4 DEF Never
    <2>3. Moves
      BY <1>4, <1>15, <2>1 DEF MoveAccepted, RecordResult
    <2>2. UNCHANGED clusterVars /\ view' = view
      BY <1>15 DEF MoveAccepted, telemetryVars
    <2> QED
      BY <1>4, <1>5, <1>6, <2>2, <2>3
  <1>16. CASE MoveFails
    <2>1. Moves
      BY <1>4, <1>16 DEF MoveFails, RecordResult
    <2>2. UNCHANGED clusterVars /\ view' = view
      BY <1>16 DEF MoveFails, telemetryVars
    <2> QED
      BY <1>4, <1>5, <1>6, <2>1, <2>2
  <1>17. CASE Tick
    <2>1. Cluster
      BY <1>4, <1>17 DEF Tick
    <2>2. view' = view /\ mover' = mover
      BY <1>17 DEF Tick, telemetryVars
    <2> QED
      BY <1>4, <1>5, <1>7, <2>1, <2>2
  <1>18. CASE UNCHANGED vars
    <2>1. UNCHANGED clusterVars /\ view' = view /\ mover' = mover
      BY <1>18 DEF vars, telemetryVars
    <2> QED
      BY <1>4, <1>5, <1>6, <1>7, <2>1
  <1> QED
    BY <1>8, <1>9, <1>10, <1>11, <1>12, <1>13, <1>14, <1>15, <1>16, <1>17, <1>18 DEF Next

\* It implies the types.
LEMMA PlacementTyped == PlacementInv => PlacementTypeOK
  <1> SUFFICES ASSUME PlacementInv PROVE PlacementTypeOK
    OBVIOUS
  <1>1. ASSUME NEW h \in Nat PROVE Estimates(h) \subseteq Nat /\ Relayed(h) \subseteq Nat
    <2>1. Estimates(h) \subseteq Nat
      BY PlacementAssumption DEF PlacementAssumption, Estimates, Smoothed, Grains
    <2>2. ASSUME NEW g \in Relayed(h) PROVE g \in Nat
      BY <2>1 DEF Relayed, Grains, Reportable
    <2> QED
      BY <2>1, <2>2
  <1>2. \A e, f : RoundTrip(e, f) \in Nat /\ Reportable(Grains(RoundTrip(e, f))) \in Nat
    <2> SUFFICES ASSUME NEW e, NEW f
                 PROVE  RoundTrip(e, f) \in Nat /\ Reportable(Grains(RoundTrip(e, f))) \in Nat
      OBVIOUS
    <2>1. RoundTrip(e, f) \in Nat
      BY RoundTripTyped DEF PlacementInv, LatencyInv
    <2> QED
      BY <2>1 DEF Reportable, Grains
  <1>3. ASSUME NEW d \in Consensus
        PROVE  Latencies(rtt[d]) /\ DOMAIN rtt[d] \subseteq Consensus \X Consensus
    <2>1. ASSUME NEW p \in DOMAIN rtt[d] PROVE p \in Consensus \X Consensus /\ rtt[d][p] \in Nat
      BY <1>1, <1>2, <2>1 DEF PlacementInv, LatencyInv
    <2>2. DOMAIN rtt[d] \subseteq Routes
      BY <2>1 DEF Routes, Origin
    <2> QED
      BY <2>1, <2>2 DEF Latencies
  <1>4. ASSUME NEW d \in Consensus
        PROVE  Latencies(FreshFloating(d)) /\ DOMAIN floating[d] \subseteq Floating \X Consensus
    <2>1. ASSUME NEW p \in DOMAIN floating[d]
          PROVE  p \in Floating \X Consensus /\ floating[d][p].oneWay \in Nat
      BY <1>1, <1>2, <2>1 DEF PlacementInv, LatencyInv
    <2>2. DOMAIN floating[d] \subseteq Routes
      BY <2>1 DEF Routes, Origin
    <2>3. /\ DOMAIN FreshFloating(d) \subseteq DOMAIN floating[d]
          /\ \A p \in DOMAIN FreshFloating(d) : FreshFloating(d)[p] = floating[d][p].oneWay
      BY DEF FreshFloating
    <2> QED
      BY <2>1, <2>2, <2>3 DEF Latencies
  <1>5. ASSUME NEW d \in Consensus
        PROVE  \A i \in DOMAIN stats[d] : stats[d][i].at \in 0..now /\ stats[d][i].domain \in Origin
    <2> DEFINE E == [at : 0..now, domain : Origin, isRead : BOOLEAN]
    <2>1. stats[d] \in Seq(E)
      BY <1>5 DEF PlacementInv, StatsInv
    <2>2. \A i \in DOMAIN stats[d] : stats[d][i] \in E
      <3> HIDE DEF E
      <3> QED
        BY <2>1
    <2> QED
      BY <2>2
  <1> QED
    BY <1>3, <1>4, <1>5 DEF PlacementInv, LatencyInv, PlacementTypeOK

\* The inductive invariant: what nodes, clients and the mover hold, for any domains, delays,
\* requests and bounds; in particular a move never aims at a domain without a known leader.
THEOREM PlacementInvariant == Spec => []PlacementInv
BY PlacementInitially, PlacementStep, PTL DEF Spec

\* Types of the telemetry and of the mover.
THEOREM PlacementTypeCorrect == Spec => []PlacementTypeOK
BY PlacementInvariant, PlacementTyped, PTL

\* ComputeCosts does what it stands for: whatever was measured and counted, the domain it
\* recommends can commit, and serves the requests of the window at the least total latency.
THEOREM RecommendationsAreCheapest == Spec => []RecommendationIsCheapest
<1>1. PlacementInv => RecommendationIsCheapest
  BY CheapestRecommended DEF PlacementInv
<1> QED
  BY <1>1, PlacementInvariant, PTL

\* The two latency models of the code agree on every topology: where all latencies are known
\* and symmetric, ComputeCosts charges a write what EstimateWritePathCost predicts.
THEOREM CostModelsAgree == Spec => []EstimatesAgree
<1>1. PlacementInv => EstimatesAgree
  BY ModelsAgree DEF PlacementInv
<1> QED
  BY <1>1, PlacementInvariant, PTL
=============================================================================
