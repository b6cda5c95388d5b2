------------------------------ MODULE Callers ------------------------------
(***************************************************************************)
(* The threads of the C++ program that call into the bridge.  cgo runs each*)
(* call on a goroutine of its own, so a thread is also a goroutine.        *)
(***************************************************************************)
CONSTANT Threads

\* The two names a mutex can have instead of a thread's.
ASSUME ThreadsAssumption == {"free", "replenisher"} \cap Threads = {}
=============================================================================
