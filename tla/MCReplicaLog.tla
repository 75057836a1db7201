---------------------------- MODULE MCReplicaLog ----------------------------
(* Small instances of ReplicaLog for TLC.                                  *)
EXTENDS ReplicaLog, TLC

CONSTANTS x, y, z, k, l, A

\* x and y write one key, z another.
Keys == (x :> k) @@ (y :> k) @@ (z :> l)

\* Three leaders that order one request each, on top of what they inherit, or two of
\* which the first orders two.
OneEach == <<{x}, {y}, {z}>>
TwoThenOne == <<{x, y}, {z}>>
=============================================================================
