----------------------------- MODULE CostModel -----------------------------
(***************************************************************************)
(* The two latency models of CD-Raft: ComputeCosts of                      *)
(* internal/optimizer/optimizer.go, by which the mover chooses the domain  *)
(* of the Global Leader, and EstimateWritePathCost of                      *)
(* internal/cdraft/write_cost.go, which predicts one write; and the link   *)
(* delays of internal/topology/config.go that both fall back to.           *)
(*                                                                         *)
(* A latency is a number of half milliseconds one way, which is the round  *)
(* trip in milliseconds; a matrix is a function on some pairs of domains.  *)
(* The delay inside a domain is 0.  An input of ComputeCosts is a record   *)
(* with Writes and Reads by origin, the Available domains and the matrix   *)
(* OneWay.                                                                 *)
(***************************************************************************)
EXTENDS Integers, FiniteSets, FiniteSetsExt, Functions

CONSTANTS
    Consensus,  \* the consensus domains, the only candidates
    Rank        \* Rank[d]: the position of d in the order of domain ids

ASSUME CostAssumption ==
    /\ IsFiniteSet(Consensus)
    /\ \A d \in Consensus : Rank[d] \in Nat
    /\ \A d, e \in Consensus : Rank[d] = Rank[e] => d = e

NoDomain == "none"

-----------------------------------------------------------------------------
(* optimizer.go                                                            *)

HasLink(in, from, to) == from = to \/ <<from, to>> \in DOMAIN in.OneWay
oneWay(in, from, to) == IF from = to THEN 0 ELSE in.OneWay[<<from, to>>]

\* The domains with which candidate z can form a two-domain commit.
Partners(in, z) == {j \in in.Available \ {z} : HasLink(in, z, j)}

\* Mutant: the partner is the farthest one.
minToOtherAvailable_max(in, z) == Max({oneWay(in, z, j) : j \in Partners(in, z)})

minToOtherAvailable(in, z) == Min({oneWay(in, z, j) : j \in Partners(in, z)})

\* Client-only domains with demand.
floatingDomains(in) == {u \in DOMAIN in.Writes \ Consensus : in.Writes[u] + in.Reads[u] > 0}

\* L_i of consensus domain i, for candidate z.
domainCost(in, i, z, minZJ) ==
    LET w == in.Writes[i]
        r == in.Reads[i]
        liz == oneWay(in, i, z)
    IN  IF i = z THEN 2 * minZJ * w
        ELSE IF i \in in.Available THEN 2 * liz * (w + r)
        ELSE 2 * (liz + minZJ) * w + 2 * liz * r

\* Mutant: the answer of a responder is not considered.
Relays_none(in, u, z) == {}

\* Costs of a write of floating domain u that responder r answers directly; the latency
\* between r and u is taken in the direction that is known.
Relays(in, u, z) ==
    LET back(r) == IF HasLink(in, r, u) THEN oneWay(in, r, u) ELSE oneWay(in, u, r)
    IN  {oneWay(in, u, z) + oneWay(in, z, r) + back(r) :
           r \in {s \in Partners(in, z) : HasLink(in, s, u) \/ HasLink(in, u, s)}}

\* A floating domain whose latency to z is unknown costs nothing.
floatingCost(in, u, z, minZJ) ==
    LET luz == oneWay(in, u, z)
        direct == 2 * (luz + minZJ)
    IN  IF ~HasLink(in, u, z) THEN 0
        ELSE 2 * luz * in.Reads[u] + Min({direct} \cup Relays(in, u, z)) * in.Writes[u]

CanCommit(in, z) ==
    /\ Partners(in, z) # {}
    /\ \A i \in Consensus : HasLink(in, i, z)

candidateCost(in, z) ==
    IF ~CanCommit(in, z) THEN 0
    ELSE LET minZJ == minToOtherAvailable(in, z)
         IN  SumFunction([i \in Consensus |-> domainCost(in, i, z, minZJ)])
             + SumFunction([u \in floatingDomains(in) |-> floatingCost(in, u, z, minZJ)])

\* ComputeCosts: of the candidates that can commit, the cheapest, by id if there are two.
Recommended(in) ==
    LET able == {z \in in.Available : CanCommit(in, z)}
        Ls == [z \in able |-> candidateCost(in, z)]
        before(y, z) == Ls[y] < Ls[z] \/ (Ls[y] = Ls[z] /\ Rank[y] <= Rank[z])
    IN  IF able = {} THEN NoDomain ELSE CHOOSE y \in able : \A z \in able : before(y, z)

-----------------------------------------------------------------------------
(* config.go and write_cost.go                                             *)

\* Config.OneWayDelay: the configured delay of a route, or of the opposite one, or none,
\* in milliseconds.
OneWayDelay(delay, from, to) ==
    IF from = to THEN 0
    ELSE IF <<from, to>> \in DOMAIN delay THEN delay[<<from, to>>]
    ELSE IF <<to, from>> \in DOMAIN delay THEN delay[<<to, from>>]
    ELSE 0

\* A measured latency in either direction, or the configured one.
writeCostOneWay(in, delay, from, to) ==
    IF HasLink(in, from, to) THEN oneWay(in, from, to)
    ELSE IF HasLink(in, to, from) THEN oneWay(in, to, from)
    ELSE 2 * OneWayDelay(delay, from, to)

\* fastestSecondQuorumDomain: the shortest round trip to another domain.
secondQuorumRTT(in, delay, global) ==
    Min({writeCostOneWay(in, delay, global, d) + writeCostOneWay(in, delay, d, global) :
           d \in Consensus \ {global}})

\* fastestFloatingResponder, by the cost of its way.
CallbackWays(in, delay, origin, global) ==
    LET way(d) == writeCostOneWay(in, delay, global, d) + writeCostOneWay(in, delay, d, origin)
    IN  IF origin = global THEN {}
        ELSE IF origin \in Consensus THEN {way(origin)}
        ELSE {Min({way(d) : d \in Consensus \ {global}})}

\* EstimateWritePathCost, its LowerBoundMillis with Fast Return.
WritePathCost(in, delay, origin, global) ==
    LET there == writeCostOneWay(in, delay, origin, global)
        direct == there + secondQuorumRTT(in, delay, global)
                  + writeCostOneWay(in, delay, global, origin)
    IN  Min({direct} \cup {there + w : w \in CallbackWays(in, delay, origin, global)})
=============================================================================
