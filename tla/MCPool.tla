------------------------------- MODULE MCPool -------------------------------
(* Small instances of the connection pool for TLC. *)
EXTENDS GodbcPoolLease, TLC

\* Connections are interchangeable, and so are callers: safety runs only.
PoolSymmetry == Permutations(Conns) \cup Permutations(Threads)

AllUses   == {"drop", "handoff", "orphan", "close"}
LoopUses  == {"drop"}
=============================================================================
