----------------------------- MODULE MCBridge -----------------------------
(* Small instances of the exported functions over one pool for TLC. *)
EXTENDS GodbcBridge, TLC

AllUses        == {"drop", "handoff", "orphan", "close"}
CallerSymmetry == Permutations(Threads)
NoRawThreads   == {}
AllThreads     == Threads

\* Sets of exported functions.
ResultFns   == {"Execute", "ExecuteWithParams", "Query", "Next", "CloseRows", "Close"}
SessionFns  == {"BeginTransaction", "Commit", "Prepare", "ClosePrepared",
                "Close", "Execute", "Query"}
ParamFns    == {"QueryWithParams", "Scan", "Next", "CloseRows", "ReturnConnection", "Close",
                "BeginTransaction", "ExecuteInTransaction", "Prepare", "ExecutePrepared"}
QueryFns    == {"Query", "CloseRows", "Execute"}
NoRetryFns  == {"Query", "Execute", "ExecuteWithParams"}
TxFns       == {"BeginTransaction", "Commit"}
ForgetFns   == {"Execute", "ReturnConnection"}
ResultOnly  == {"Query", "CloseRows"}
=============================================================================
