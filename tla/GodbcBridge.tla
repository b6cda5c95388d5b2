---------------------------- MODULE GodbcBridge ----------------------------
(***************************************************************************)
(* The exported functions of bridge/bridge.go over one pool: which locks   *)
(* each one takes, what it does with the connection it gets, and what it   *)
(* leaves in the handle table.  A call is a sequence of steps; each step   *)
(* joins at most one action of GodbcPool with at most one of GodbcHandles. *)
(*                                                                         *)
(* The outcome of a statement is left open: it may succeed on a connection *)
(* that is alive and may fail on any.                                      *)
(***************************************************************************)
EXTENDS GodbcPool, GodbcHandles

CONSTANT Fns   \* the exported functions the callers use

AllFns == {"Execute", "ExecuteWithParams", "Query", "QueryWithParams",
           "Next", "Scan", "CloseRows",
           "BeginTransaction", "ExecuteInTransaction", "ExecuteInTransactionWithParams",
           "Commit", "Rollback",
           "Prepare", "ExecutePrepared", "ClosePrepared", "ReturnConnection", "Close"}

\* What a handle may denote, with the connection it was made on.
Obj(kind, c)  == [kind |-> kind, conn |-> c]
BridgeObjects == {Obj("pool", NoConn)} \cup [kind : {"rows", "tx", "stmt"}, conn : Conns]

ASSUME BridgeAssumption == Fns \subseteq AllFns /\ Objects = BridgeObjects

VARIABLES call,    \* the call each thread is in
          cursors, \* the open sql.Rows, pairs of a result's handle and connection
          crashed  \* a call panicked, and with it the whole process

bridgeVars  == <<call, cursors, crashed>>
bridgeState == <<sqlVars, poolVars, tableVars, bridgeVars>>

NoCall == [fn |-> "none", at |-> "out", h |-> 0, att |-> 0]

BridgeInit ==
    /\ PoolInit
    /\ HandlesInit
    /\ call = [t \in Threads |-> NoCall]
    /\ cursors = {}
    /\ crashed = FALSE

-----------------------------------------------------------------------------
In(t, fns, at) == call[t].fn \in fns /\ call[t].at = at
To(t, at)      == call' = [call EXCEPT ![t].at = at]
Finish(t)      == call' = [call EXCEPT ![t] = NoCall]
Is(t, kind)    == call[t].h \in Live /\ handles[call[t].h].kind = kind
ConnOf(t)      == handles[call[t].h].conn

\* The process runs, and this step does not end it; nor, in most, is a cursor
\* opened or closed.
Running == ~crashed /\ UNCHANGED crashed
Alive   == Running /\ UNCHANGED cursors

PoolUnchanged  == UNCHANGED <<sqlVars, poolVars>>
TableUnchanged == UNCHANGED tableVars

\* Mutant: the deferred mu.Unlock() is missing.
KeepsLock(t) == TableUnchanged

UnlockIfHeld(t) == IF mu = t THEN Unlock(t) ELSE TableUnchanged

\* Connection names are arbitrary: a new connection takes one that no object
\* in the table was made on.
NewNames == \A c \in open' \ open : \A h \in Live : handles[h].conn # c

-----------------------------------------------------------------------------
(* GodbcConnect. *)

Preallocating ==
    /\ Alive
    /\ (\E c \in Conns : Preallocate(c)) \/ PreallocateFails
    /\ TableUnchanged /\ UNCHANGED call

Connect(t) ==
    /\ Alive
    /\ Connected
    /\ Store(t, Obj("pool", NoConn))
    /\ UNCHANGED call

-----------------------------------------------------------------------------
(* A call begins.  Inserting functions are bounded so that handles do not   *)
(* run out inside a call.                                                   *)

Inserting == {"Query", "QueryWithParams", "BeginTransaction", "Prepare"}

Call(t, fn, h) ==
    /\ Alive
    /\ call[t] = NoCall
    /\ fn \in Inserting =>
         nextID + Cardinality({s \in Threads : call[s].fn \in Inserting}) <= MaxID
    /\ call' = [call EXCEPT ![t] = [fn |-> fn, at |-> "called", h |-> h, att |-> 0]]
    /\ PoolUnchanged /\ TableUnchanged

Accepted(fn) ==
    CASE fn \in {"Next", "Scan", "CloseRows"}         -> {"rows"}
      [] fn \in {"Commit", "Rollback"}               -> {"tx"}
      [] fn \in {"ExecutePrepared", "ClosePrepared"} -> {"stmt"}
      [] fn = "Close"                                -> {"pool", "tx", "stmt"}
      [] OTHER                                       -> {"pool"}

\* The two functions that look up a transaction without mu.
TxStatements == {"ExecuteInTransaction", "ExecuteInTransactionWithParams"}

\* getHandle finds no object, or one of a kind the function does not accept.
\* (GodbcExecuteWithParams of a transaction or statement runs it under mu and
\* returns; that changes nothing here, so it is this step as well.)
Misdirected(t) ==
    /\ Alive
    /\ call[t].at = "called" /\ mu = "free" /\ call[t].fn \notin TxStatements
    /\ ~ \E h \in Live : h = call[t].h /\ handles[h].kind \in Accepted(call[t].fn)
    /\ Finish(t)
    /\ PoolUnchanged /\ TableUnchanged

\* Functions that look the pool up and let go of mu before they get a connection.
EnterUnlocked(t) ==
    /\ Alive
    /\ In(t, {"Execute", "BeginTransaction", "Prepare", "QueryWithParams"}, "called")
    /\ mu = "free" /\ Is(t, "pool")
    /\ call[t].fn = "QueryWithParams" => RetryAttempts > 0
    /\ BeginGet(t)
    /\ To(t, "get")
    /\ TableUnchanged

\* GodbcQuery and GodbcExecuteWithParams keep mu until they return.
EnterLocked(t) ==
    /\ Alive
    /\ In(t, {"Query", "ExecuteWithParams"}, "called")
    /\ Is(t, "pool")
    /\ call[t].fn = "Query" => RetryAttempts > 0
    /\ Lock(t)
    /\ BeginGet(t)
    /\ To(t, "get")

\* A query loop of no attempts leaves lastErr nil, and calls lastErr.Error().
QueryPanics(t) ==
    /\ In(t, {"Query", "QueryWithParams"}, "called")
    /\ mu = "free" /\ Is(t, "pool")
    /\ RetryAttempts = 0
    /\ ~crashed /\ crashed' = TRUE
    /\ UNCHANGED <<call, cursors>> /\ PoolUnchanged /\ TableUnchanged

-----------------------------------------------------------------------------
(* Inside getConnectionWithRetry and returnConnection. *)

InPool(t) ==
    /\ Alive
    /\ GetDial(t) \/ ReplaceDial(t) \/ FillDial(t)
    /\ NewNames
    /\ TableUnchanged /\ UNCHANGED call

InPoolLock(t) ==
    /\ Alive
    /\ call[t].at # "closeRows"
    /\ Acquire(t)
    /\ TableUnchanged /\ UNCHANGED call

\* Mutant: one attempt too many.
MayRetryOnceMore(t) == call[t].att + 1 <= RetryAttempts

\* The bridge's query loops try again only what isNetworkError recognises.
MayRetry(t) == call[t].att + 1 < RetryAttempts
Again(t)    == call' = [call EXCEPT ![t].at = "again", ![t].att = @ + 1]

\* No connection: the error is returned, or the query loop goes round.
GetFailed(t) ==
    /\ Alive
    /\ call[t].at = "get"
    /\ ReportError(t)
    /\ \/ Finish(t) /\ UnlockIfHeld(t)
       \/ /\ call[t].fn \in {"Query", "QueryWithParams"}
          /\ MayRetry(t)
          /\ Again(t)
          /\ TableUnchanged

GetAgain(t) ==
    /\ Alive
    /\ call[t].at = "again"
    /\ BeginGet(t)
    /\ To(t, "get")
    /\ TableUnchanged

\* returnConnection is done, and so is the call.
Returned(t) ==
    /\ Alive
    /\ call[t].at = "return" /\ pc[t] = "idle"
    /\ Finish(t)
    /\ UnlockIfHeld(t)
    /\ PoolUnchanged

-----------------------------------------------------------------------------
(* GodbcExecute and GodbcExecuteWithParams. *)

\* The latter returns the connection after an error too.
Executed(t) ==
    /\ Alive
    /\ \/ In(t, {"Execute"}, "get") /\ held[t] \notin dead
       \/ In(t, {"ExecuteWithParams"}, "get")
    /\ BeginReturn(t)
    /\ To(t, "return")
    /\ TableUnchanged

\* Mutant: conn.Close() is missing.
StatementFailsUnclosed(t) ==
    /\ Alive
    /\ In(t, {"Execute", "BeginTransaction", "Prepare"}, "get")
    /\ Orphan(t)
    /\ Finish(t)
    /\ TableUnchanged

\* ExecContext, BeginTx or PrepareContext failed: conn.Close().
StatementFails(t) ==
    /\ Alive
    /\ In(t, {"Execute", "BeginTransaction", "Prepare"}, "get")
    /\ Drop(t)
    /\ Finish(t)
    /\ TableUnchanged

-----------------------------------------------------------------------------
(* GodbcQuery. *)

OpenCursor(h, c) == cursors' = cursors \cup {<<h, c>>}
CloseCursor(h)   == cursors' = {cu \in cursors : cu[1] # h}

QuerySucceeds(t) ==
    /\ Running /\ OpenCursor(nextID, held[t])
    /\ In(t, {"Query"}, "get") /\ held[t] \notin dead
    /\ Handoff(t)
    /\ UnlockInserting(t, Obj("rows", held[t]))
    /\ Finish(t)

QueryFails(t) ==
    /\ Alive
    /\ In(t, {"Query"}, "get")
    /\ BeginReturn(t)
    /\ To(t, "returnErr")
    /\ TableUnchanged

QueryReturned(t) ==
    /\ Alive
    /\ In(t, {"Query"}, "returnErr") /\ pc[t] = "idle"
    /\ \/ Finish(t) /\ Unlock(t)
       \/ MayRetry(t) /\ Again(t) /\ TableUnchanged
    /\ PoolUnchanged

-----------------------------------------------------------------------------
(* GodbcQueryWithParams: the same without mu, the insertion included. *)

ParamQuerySucceeds(t) ==
    /\ Alive
    /\ In(t, {"QueryWithParams"}, "get")
    /\ pc[t] = "leased" /\ held[t] \notin dead
    /\ RawReadID(t)
    /\ To(t, "insert")
    /\ PoolUnchanged

ParamQueryBumps(t) ==
    /\ Alive
    /\ call[t].at = "insert"
    /\ RawBumpID(t)
    /\ UNCHANGED call /\ PoolUnchanged

\* Mutant: conn.Close() is deferred, and so runs after a success as well.
ParamQueryInsertsClosed(t) ==
    /\ Running /\ OpenCursor(reg[t], held[t])
    /\ call[t].at = "insert"
    /\ RawWrite(t, Obj("rows", held[t]))
    /\ Drop(t)
    /\ Finish(t)

ParamQueryInserts(t) ==
    /\ Running /\ OpenCursor(reg[t], held[t])
    /\ call[t].at = "insert"
    /\ RawWrite(t, Obj("rows", held[t]))
    /\ Handoff(t)
    /\ Finish(t)

ParamQueryFails(t) ==
    /\ Alive
    /\ In(t, {"QueryWithParams"}, "get")
    /\ Drop(t)
    /\ Finish(t) \/ (MayRetry(t) /\ Again(t))
    /\ TableUnchanged

-----------------------------------------------------------------------------
(* GodbcNext and GodbcScan: the result is looked up under mu and read after. *)

Reads(t) ==
    /\ Alive
    /\ In(t, {"Next", "Scan"}, "called") /\ mu = "free" /\ Is(t, "rows")
    /\ To(t, "reading")
    /\ PoolUnchanged /\ TableUnchanged

\* There is a row, or none if the rows were closed meanwhile.
ReadsRow(t) ==
    /\ Alive
    /\ call[t].at = "reading"
    /\ Finish(t)
    /\ PoolUnchanged /\ TableUnchanged

\* rows.Next() closes the rows after the last one or an error, and nothing else.
ReadsEnd(t) ==
    /\ Running /\ CloseCursor(call[t].h)
    /\ In(t, {"Next"}, "reading")
    /\ Finish(t)
    /\ PoolUnchanged /\ TableUnchanged

(* GodbcCloseRows: the handle goes first, and mu is kept to the end.  The    *)
(* reader of a cursor does not wait for mu: it may be at it until rows.Close *)
(* comes, and the connection goes back to the pool only after that.          *)

\* Mutant: the handle is not deleted.
CloseRowsKeepingHandle(t) ==
    /\ Alive
    /\ In(t, {"CloseRows"}, "called") /\ Is(t, "rows")
    /\ Lock(t)
    /\ Collect(t, ConnOf(t))
    /\ To(t, "closeRows")

\* Mutant: the connection goes back before the rows are closed.
CloseRowsOpen(t) ==
    /\ Alive
    /\ In(t, {"CloseRows"}, "called") /\ Is(t, "rows")
    /\ LockRemoving(t, call[t].h)
    /\ Collect(t, ConnOf(t))
    /\ To(t, "return")

CloseRows(t) ==
    /\ Alive
    /\ In(t, {"CloseRows"}, "called") /\ Is(t, "rows")
    /\ LockRemoving(t, call[t].h)
    /\ Collect(t, ConnOf(t))
    /\ To(t, "closeRows")

\* rows.Close(), whether it works or not.
RowsClosed(t) ==
    /\ Running /\ CloseCursor(call[t].h)
    /\ call[t].at = "closeRows"
    /\ To(t, "return")
    /\ PoolUnchanged /\ TableUnchanged

-----------------------------------------------------------------------------
(* Transactions and prepared statements.  The connection stays behind: no   *)
(* function below this line gives it back.                                  *)

\* Mutant: the connection is released when the call returns.
BegunReleased(t) ==
    /\ Alive
    /\ In(t, {"BeginTransaction"}, "get")
    /\ Drop(t)
    /\ Store(t, Obj("tx", held[t]))
    /\ Finish(t)

Begun(t) ==
    /\ Alive
    /\ In(t, {"BeginTransaction"}, "get")
    /\ Orphan(t)
    /\ Store(t, Obj("tx", held[t]))
    /\ Finish(t)

Prepared(t) ==
    /\ Alive
    /\ In(t, {"Prepare"}, "get")
    /\ Orphan(t)
    /\ Store(t, Obj("stmt", held[t]))
    /\ Finish(t)

\* The statement that follows the lookup changes nothing here; sql.Tx refuses it
\* once the transaction has ended.
TxLookupBegins(t) ==
    /\ Alive
    /\ In(t, TxStatements, "called")
    /\ RawLookupBegins(t)
    /\ To(t, "lookup")
    /\ PoolUnchanged

TxLookupEnds(t) ==
    /\ Alive
    /\ call[t].at = "lookup"
    /\ RawLookupEnds(t)
    /\ Finish(t)
    /\ PoolUnchanged

ExecutePrepared(t) ==
    /\ Alive
    /\ In(t, {"ExecutePrepared"}, "called") /\ mu = "free" /\ Is(t, "stmt")
    /\ Finish(t)
    /\ PoolUnchanged /\ TableUnchanged

\* Commit or Rollback worked; the handle is removed in a section of its own.
TxEnds(t) ==
    /\ Alive
    /\ In(t, {"Commit", "Rollback"}, "called") /\ mu = "free" /\ Is(t, "tx")
    /\ ConnOf(t) \in orphaned \ dead
    /\ \A s \in Threads : ~(call[s].at = "remove" /\ call[s].h = call[t].h)
    /\ To(t, "remove")
    /\ PoolUnchanged /\ TableUnchanged

\* It did not: the handle stays.
TxFails(t) ==
    /\ Alive
    /\ In(t, {"Commit", "Rollback"}, "called") /\ mu = "free" /\ Is(t, "tx")
    /\ Finish(t)
    /\ PoolUnchanged /\ TableUnchanged

ClosePrepared(t) ==
    /\ Alive
    /\ In(t, {"ClosePrepared"}, "called") /\ mu = "free" /\ Is(t, "stmt")
    /\ To(t, "remove")
    /\ PoolUnchanged /\ TableUnchanged

HandleRemoved(t) ==
    /\ Alive
    /\ call[t].at = "remove"
    /\ RemoveHandle(t, call[t].h)
    /\ Finish(t)
    /\ PoolUnchanged

-----------------------------------------------------------------------------
(* GodbcClose and GodbcReturnConnection. *)

\* A pool is torn down under mu and its own lock.
ClosesPool(t) ==
    /\ Alive
    /\ In(t, {"Close"}, "called") /\ Is(t, "pool")
    /\ Lock(t)
    /\ BeginClose(t)
    /\ To(t, "closing")

PoolClosed(t) ==
    /\ Alive
    /\ call[t].at = "closing" /\ pc[t] = "idle"
    /\ UnlockRemoving(t, call[t].h)
    /\ Finish(t)
    /\ PoolUnchanged

\* Mutant: GodbcClose forgets a pool without tearing it down.
ClosesAnyByRemoving(t) ==
    /\ Alive
    /\ In(t, {"Close", "ReturnConnection"}, "called")
    /\ Is(t, "tx") \/ Is(t, "stmt") \/ Is(t, "pool")
    /\ RemoveHandle(t, call[t].h)
    /\ Finish(t)
    /\ PoolUnchanged

\* A transaction is rolled back, a statement closed, whether that works or not;
\* GodbcReturnConnection of a pool only forgets its handle.
ClosesByRemoving(t) ==
    /\ Alive
    /\ \/ In(t, {"Close"}, "called") /\ (Is(t, "tx") \/ Is(t, "stmt"))
       \/ In(t, {"ReturnConnection"}, "called") /\ Is(t, "pool")
    /\ RemoveHandle(t, call[t].h)
    /\ Finish(t)
    /\ PoolUnchanged

-----------------------------------------------------------------------------
\* A step that waits for mu.
Enter(t) == \/ Misdirected(t) \/ EnterUnlocked(t) \/ EnterLocked(t)
            \/ Reads(t) \/ CloseRows(t) \/ Begun(t) \/ Prepared(t)
            \/ ExecutePrepared(t) \/ TxEnds(t) \/ TxFails(t) \/ ClosePrepared(t) \/ HandleRemoved(t)
            \/ ClosesPool(t) \/ ClosesByRemoving(t)

\* A step inside a call that does not.
Proceed(t) == \/ InPool(t)
              \/ GetFailed(t) \/ GetAgain(t) \/ Returned(t)
              \/ Executed(t) \/ StatementFails(t)
              \/ QuerySucceeds(t) \/ QueryFails(t) \/ QueryReturned(t)
              \/ ParamQuerySucceeds(t) \/ ParamQueryBumps(t)
              \/ ParamQueryInserts(t) \/ ParamQueryFails(t)
              \/ ReadsRow(t) \/ ReadsEnd(t) \/ RowsClosed(t)
              \/ TxLookupBegins(t) \/ TxLookupEnds(t)
              \/ PoolClosed(t)

Replenishing ==
    /\ Alive
    /\ ReplenishStep
    /\ NewNames
    /\ TableUnchanged /\ UNCHANGED call

ReplenishingLock == Alive /\ ReplenishLock /\ TableUnchanged /\ UNCHANGED call

World == Alive /\ (PoolEnvironment \/ Reap) /\ TableUnchanged /\ UNCHANGED call

BridgeNext ==
    \/ Preallocating \/ Replenishing \/ ReplenishingLock \/ World
    \/ \E t \in Threads :
          \/ \E fn \in Fns, h \in Live \cup retired : Call(t, fn, h)
          \/ Connect(t) \/ Enter(t) \/ InPoolLock(t) \/ Proceed(t) \/ QueryPanics(t)

BridgeSpec == BridgeInit /\ [][BridgeNext]_bridgeState

\* As in GodbcPool, and a waiter on mu is served in the end as well.
BridgeFairness ==
    /\ WF_bridgeState(Preallocating)
    /\ WF_bridgeState(\E t \in Threads : Connect(t))
    /\ SF_bridgeState(ReplenishingLock)
    /\ WF_bridgeState(Replenishing)
    /\ \A t \in Threads : /\ SF_bridgeState(Enter(t))
                          /\ SF_bridgeState(InPoolLock(t))
                          /\ WF_bridgeState(Proceed(t))

FairBridgeSpec == BridgeSpec /\ BridgeFairness

-----------------------------------------------------------------------------
(* Properties. *)

CallSteps == {"out", "called", "get", "again", "return", "returnErr",
              "insert", "reading", "closeRows", "lookup", "remove", "closing"}

\* Type invariant.
BridgeTypeOK ==
    /\ PoolTypeOK /\ HandlesTypeOK
    /\ call \in [Threads -> [fn : AllFns \cup {"none"}, at : CallSteps,
                             h : Nat, att : {0} \cup 1..(RetryAttempts - 1)]]
    /\ cursors \subseteq Nat \X Conns
    /\ crashed \in BOOLEAN

Outside    == \A t \in Threads : call[t] = NoCall
ConnsOf(k) == {handles[h].conn : h \in {g \in Live : handles[g].kind = k}}

\* Every connection that a query keeps from the pool belongs to exactly one
\* result handle, which a caller can close, and every result handle owns one.
ResultsReachable ==
    /\ out = ConnsOf("rows")
    /\ \A g, h \in Live : handles[g].kind = "rows" /\ handles[g] = handles[h] => g = h

\* An open cursor is that of a result which a caller can still close, or which
\* GodbcCloseRows is closing and has not given back yet: nobody who reads it
\* without mu ever reads on a connection that the pool can lend to another.
CursorsOwned ==
    \A cu \in cursors :
        \/ cu[1] \in Live /\ handles[cu[1]] = Obj("rows", cu[2])
        \/ \E t \in Threads : In(t, {"CloseRows"}, "closeRows") /\ cu = <<call[t].h, held[t]>>

\* What a caller can still reach between calls: the pool's connections while
\* the pool has a handle, and those of the other handles.
HasPool   == \E h \in Live : handles[h].kind = "pool"
Reachable == (IF HasPool THEN Pooled \cup free ELSE {})
             \cup ConnsOf("rows") \cup ConnsOf("tx") \cup ConnsOf("stmt")

\* When no call is under way, every connection that is open to the server can
\* be reached by a caller.  The code does not ensure it.
LeakFree == Outside /\ phase # "connecting" => open \subseteq Reachable

\* It leaks in three ways and no other: the connection of a transaction or a
\* statement, once its handle is gone; those of a pool whose handle
\* GodbcReturnConnection removed; and one that came back to a closed pool.
\* No error path, retry, fault or overlap of calls leaks one besides.
OnlyKnownLeaks ==
    Outside /\ phase # "connecting" =>
        \A c \in open \ Reachable :
            \/ c \in orphaned /\ Fns \cap {"BeginTransaction", "Prepare"} # {}
            \/ c \in Pooled \cup free /\ phase = "open" /\ "ReturnConnection" \in Fns
            \/ c \in Pooled /\ phase = "closed"

\* A transaction or statement that has a handle is alone on its connection:
\* no caller gets the connection from the pool while the handle lives.
SessionsIsolated ==
    (ConnsOf("tx") \cup ConnsOf("stmt")) \cap (Pooled \cup free \cup Held \cup out) = {}

\* A pool that is open can still be used and closed by somebody.  The code does
\* not ensure it.
PoolReachable == phase = "open" /\ Outside => HasPool

\* The handle of a pool goes without the pool only in GodbcReturnConnection, and
\* a pool without a handle is never closed: whatever call was on its way to
\* close it, nothing does.
PoolForgotten ==
    [][ /\ HasPool /\ ~HasPool' /\ phase' = "open" =>
              \E t \in Threads : In(t, {"ReturnConnection"}, "called")
        /\ phase = "open" /\ ~HasPool => phase' = "open" /\ ~HasPool' ]_bridgeState

\* The functions that end an object of each kind.
EndingFns(kind) ==
    CASE kind = "rows" -> {"CloseRows"}
      [] kind = "tx"   -> {"Commit", "Rollback", "Close"}
      [] kind = "stmt" -> {"ClosePrepared", "Close"}
      [] kind = "pool" -> {"Close", "ReturnConnection"}

\* A handle that goes is that of a call to a function which ends objects of its
\* kind: no call, late as its removal may come after its lookup, ever takes
\* another object's handle away.  The C++ wrappers rely on it.
EndedAsAsked ==
    [][ \A h \in Live : h \notin Live' =>
          \E t \in Threads : call[t].h = h /\ call[t].fn \in EndingFns(handles[h].kind)
      ]_bridgeState

\* The steps at which a thread is queued on mu, and those on p.mu.
WaitsForMu(t) ==
    \/ call[t].at = "remove"
    \/ call[t].at = "called" /\ call[t].fn \notin TxStatements
    \/ In(t, {"BeginTransaction", "Prepare"}, "get") /\ pc[t] = "leased"

WaitsForPool(t) == pc[t] \in {"getLock", "retLock", "closeLock"}

\* mu is taken before p.mu and p.mu before a dial, never the other way round
\* and never twice (a sync.Mutex would wait for itself); and no function comes
\* back with mu held.  So no two callers ever wait for each other's lock.
LocksInOrder ==
    \A t \in Threads :
        /\ WaitsForMu(t) => mu # t /\ pmu # t
        /\ WaitsForPool(t) => pmu # t
        /\ call[t] = NoCall => mu # t /\ pmu # t

\* No call panics in Go, which would take the C++ process with it.
NeverPanics == ~crashed

\* The calls use the pool as GodbcPool says its callers may.
UsesPool == PoolSpec

\* Closing a result always works in the end, and so gives its connection back.
CloseRowsEnds ==
    <>[]up => \A t \in Threads : call[t].fn = "CloseRows" ~> call[t] = NoCall

\* With the server up in the end, every call returns to C++.
CallsEnd == <>[]up => \A t \in Threads : call[t] # NoCall ~> call[t] = NoCall
=============================================================================
