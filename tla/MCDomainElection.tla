-------------------------- MODULE MCDomainElection --------------------------
(* Small instances of DomainElection for TLC.                              *)
EXTENDS DomainElection, TLC

CONSTANTS a1, a2, a3, b1, A, B

\* A domain of three nodes (no action of an election involves a node of another domain),
\* and a domain of two next to a domain of one.
ThreeOfA == (a1 :> A) @@ (a2 :> A) @@ (a3 :> A)
TwoAndOne == (a1 :> A) @@ (a2 :> A) @@ (b1 :> B)

\* The bounds on campaigns: by domain.
TwoTermsA == [n \in Node |-> IF DomainOf[n] = A THEN 2 ELSE 0]

EmptyLogs == {[term |-> 0, index |-> 0]}
TwoLogs == EmptyLogs \cup {[term |-> 1, index |-> 1]}

SymmetryA23 == Permutations({a2, a3})
=============================================================================
