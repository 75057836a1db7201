---------------------------- MODULE AtomicStore ----------------------------
(***************************************************************************)
(* What the node expects of its Store (internal/cdraft/store.go): Save     *)
(* replaces the saved state as a whole or not at all, and Load returns the *)
(* last state that was saved.  MemoryStore does just that with a clone.    *)
(***************************************************************************)
CONSTANT NewState   \* the zero PersistentState

VARIABLES
    memory,  \* the state of the running process
    saved,   \* the state that the store keeps
    up       \* whether the process has loaded its state

vars == <<memory, saved, up>>

Init == memory = NewState /\ saved = NewState /\ up = FALSE

\* A handler changes the state in memory.
Change == up /\ UNCHANGED <<saved, up>>

Save == up /\ saved' = memory /\ UNCHANGED <<memory, up>>

Crash == up /\ up' = FALSE /\ memory' = NewState /\ UNCHANGED saved

Load == ~up /\ up' = TRUE /\ memory' = saved /\ UNCHANGED saved

Next == Change \/ Save \/ Crash \/ Load

Spec == Init /\ [][Next]_vars
=============================================================================
