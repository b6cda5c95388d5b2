----------------------------- MODULE ConnLease -----------------------------
(***************************************************************************)
(* What the connection pool promises about each connection, whatever its   *)
(* locks, retries and goroutines do: it has one owner at a time, and owners*)
(* change only in the ways below.  A connection is lent only out of the    *)
(* idle ones or freshly opened, comes back only from the one who has it,   *)
(* and the number of open connections never passes the limit.              *)
(***************************************************************************)
EXTENDS Integers, FiniteSets

CONSTANTS Conns,      \* names for connections
          Borrowers,  \* who may borrow, none of them named as a place below
          Limit       \* most connections open at a time, 0 for no limit

(***************************************************************************)
(* owner[c] is a borrower or, for a connection no borrower has, where it   *)
(* is: "none" (not open), "idle", "result" (a result set keeps it) or      *)
(* "orphan" (left with a transaction or statement that never returns it).  *)
(***************************************************************************)
VARIABLE owner

LeaseInit == owner = [c \in Conns |-> "none"]

Opened     == {c \in Conns : owner[c] # "none"}
MayOpen    == Limit > 0 => Cardinality(Opened) < Limit
Moves(c, from, to) == owner[c] = from /\ owner' = [owner EXCEPT ![c] = to]

Open(c)        == MayOpen /\ Moves(c, "none", "idle")
OpenFor(c, b)  == MayOpen /\ Moves(c, "none", b)
Lend(c, b)     == Moves(c, "idle", b)
GiveBack(c, b) == Moves(c, b, "idle")
Close(c, b)    == Moves(c, b, "none")
Keep(c, b)     == Moves(c, b, "result")
Collect(c, b)  == Moves(c, "result", b)
Abandon(c, b)  == Moves(c, b, "orphan")
Reap(c)        == Moves(c, "orphan", "none")

\* Idle connections are closed at will: dead, expired or with their pool.
Retire == \E S \in SUBSET Conns :
             /\ \A c \in S : owner[c] = "idle"
             /\ owner' = [c \in Conns |-> IF c \in S THEN "none" ELSE owner[c]]

LeaseNext ==
    \/ \E c \in Conns :
          \/ Open(c) \/ Reap(c)
          \/ \E b \in Borrowers :
                \/ OpenFor(c, b) \/ Lend(c, b) \/ GiveBack(c, b)
                \/ Close(c, b) \/ Keep(c, b) \/ Collect(c, b) \/ Abandon(c, b)
    \/ Retire

LeaseSpec == LeaseInit /\ [][LeaseNext]_owner
=============================================================================
