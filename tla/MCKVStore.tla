----------------------------- MODULE MCKVStore -----------------------------
(* A small instance of KVStore for TLC.                                    *)
EXTENDS KVStore, TLC

CONSTANTS x, y, z, k, l, A

\* x and y write one key, z another.
Keys == (x :> k) @@ (y :> k) @@ (z :> l)
=============================================================================
