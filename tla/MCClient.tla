------------------------------ MODULE MCClient ------------------------------
(* A small instance of Client for TLC.                                     *)
EXTENDS Client

CONSTANTS n1, n2
=============================================================================
