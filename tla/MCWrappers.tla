----------------------------- MODULE MCWrappers -----------------------------
(* A small instance of the C++ wrappers for TLC. *)
EXTENDS CppWrappers, TLC

WrapperSymmetry == Permutations(Wrappers)
=============================================================================
