------------------------------ MODULE MCLeases ------------------------------
(* Small instances of Leases for TLC.                                      *)
EXTENDS Leases

CONSTANTS A, B, C

\* A state the first election reaches: A has just won term 1 with the votes of all.
Booted ==
    /\ term = [d \in Domain |-> 1] /\ votedFor = [d \in Domain |-> A]
    /\ role = [d \in Domain |-> IF d = A THEN "Leader" ELSE "Follower"]
    /\ follows = [d \in Domain |-> IF d = A THEN [leader |-> A, term |-> 1] ELSE NoLeader]
    /\ contact = [d \in Domain |-> 0] /\ due = {}
    /\ lease = [d \in Domain |-> IF d = A THEN Lease ELSE 0]
    /\ confirmed = [d \in Domain |-> 0]
    /\ pending = [d \in Domain |-> "no"] /\ campaign = [d \in Domain |-> Idle]
    /\ rounds = [d \in Domain |-> NoRound]
    /\ migration = [d \in Domain |-> NoMove] /\ handoffs = {} /\ accepted = {}
    /\ elected = {[leader |-> A, term |-> 1, from |-> None, votes |-> Domain]}
    /\ raced = "none"

BootedSpec == Booted /\ [][Next]_vars
=============================================================================
