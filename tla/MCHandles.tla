----------------------------- MODULE MCHandles -----------------------------
(* Small instances of the handle table for TLC. *)
EXTENDS GodbcHandles, TLC

\* Objects are interchangeable.
ObjectSymmetry == Permutations(Objects)

AllThreads == Threads

\* Only functions that reach the table without mu.
UnlockedSpec == HandlesInit /\ [][\E t \in Threads : RawAccess(t)]_tableVars
=============================================================================
