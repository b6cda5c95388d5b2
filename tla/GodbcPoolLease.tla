-------------------------- MODULE GodbcPoolLease --------------------------
(***************************************************************************)
(* The pool implements ConnLease: a pooled connection and one idle inside  *)
(* sql.DB are both idle, a connection in a caller's local variable is lent *)
(* to that caller.                                                         *)
(***************************************************************************)
EXTENDS GodbcPool

ASSUME LeaseAssumption == Threads \cap {"none", "idle", "result", "orphan"} = {}

\* The owner of a connection, read off the pool's variables.
OwnerOf(c) ==
    IF c \in Pooled \cup free THEN "idle"
    ELSE IF c \in out THEN "result"
    ELSE IF c \in orphaned THEN "orphan"
    ELSE IF c \in Held THEN CHOOSE t \in Threads : held[t] = c
    ELSE "none"

Owner == [c \in Conns |-> OwnerOf(c)]

Lease == INSTANCE ConnLease WITH
            Borrowers <- Threads,
            Limit <- MaxConns,
            owner <- Owner

\* Every step of the pool is one of the promised changes of one connection's
\* owner, or the retirement of idle connections, or changes no owner.
ImplementsLease == Lease!LeaseSpec
=============================================================================
