----------------------------- MODULE MCToString -----------------------------
(* All values up to a length for TLC. *)
EXTENDS ToString
=============================================================================
