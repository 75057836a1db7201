--------------------------- MODULE MCReplication ---------------------------
(* Small instances of Replication for TLC.                                 *)
EXTENDS Replication, TLC

CONSTANTS x, y, k, A, B, C

Keys == [r \in Request |-> k]

\* Clients are near C, which never campaigns: A and B are interchangeable, and so are the
\* requests.
NearC == [r \in Request |-> C]
Interchangeable == Permutations({x, y}) \cup Permutations({A, B})
=============================================================================
