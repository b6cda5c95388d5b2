------------------------------ MODULE Progress ------------------------------
(***************************************************************************)
(* Distances to an end: tuples of natural numbers of one length, ordered   *)
(* as words are.  No endless sequence of them goes down.                   *)
(***************************************************************************)
EXTENDS Integers, Sequences

AtLeast0(n) == IF n > 0 THEN n ELSE 0

\* The first number that differs is smaller.
Nearer(d, e) ==
    \E j \in 1..Len(d) : d[j] < e[j] /\ \A k \in 1..(j - 1) : d[k] = e[k]
=============================================================================
