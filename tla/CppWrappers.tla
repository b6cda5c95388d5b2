----------------------------- MODULE CppWrappers -----------------------------
(***************************************************************************)
(* The RAII classes of cpp/godbc.hpp: ResultSet, PreparedStatement,        *)
(* Transaction and Connection.  Each wraps a bridge handle in handle_ and  *)
(* closed_, can be moved but not copied, and ends its handle in close(),   *)
(* in its destructor or when another object is moved onto it.              *)
(*                                                                         *)
(* The bridge is reduced to its table of handles, used from one thread (so *)
(* a new handle is one that was never given out, GodbcHandles shows when), *)
(* and to how far the result or transaction behind each handle has come.   *)
(* A call that fails before it has a handle throws and changes nothing;    *)
(* so do scan and the execute of a Connection or PreparedStatement, whose  *)
(* values are left to ToString.                                            *)
(***************************************************************************)
EXTENDS Naturals

CONSTANTS Wrappers,   \* the C++ objects of the program
          MaxHandle   \* bound: handles given out

ASSUME WrappersAssumption == MaxHandle \in Nat

Classes == {"rows", "stmt", "tx", "pool"}
Handles == 1..MaxHandle

VARIABLES obj,         \* each object's class, handle_ and closed_
          table,       \* the kind of object behind each handle, or "none"
          nextHandle,  \* the next handle the bridge gives out
          ends,        \* how often each handle was given to its closing call
          progress,    \* of the rows or the transaction behind each handle
          commitOf     \* history: "asked" after commit(), "done" if it returned

wrapperVars == <<obj, table, nextHandle, ends, progress, commitOf>>

\* Before its constructor and after its destructor an object is none.
NoObject        == [cls |-> "none", handle |-> 0, closed |-> TRUE]
Opened(cls, h)  == [cls |-> cls, handle |-> h, closed |-> FALSE]
Shut(cls)       == [cls |-> cls, handle |-> 0, closed |-> TRUE]

Exists(w) == obj[w].cls # "none"
Open(w)   == Exists(w) /\ ~obj[w].closed

WrapperInit ==
    /\ obj = [w \in Wrappers |-> NoObject]
    /\ table = [h \in Handles |-> "none"]
    /\ nextHandle = 1
    /\ ends = [h \in Handles |-> 0]
    /\ progress = [h \in Handles |-> "begun"]
    /\ commitOf = [h \in Handles |-> "no"]

-----------------------------------------------------------------------------
(* The closing call of each class.  It may report an error either way; the  *)
(* wrapper drops the handle and throws.                                     *)

Deleted(h)     == table' = [table EXCEPT ![h] = "none"]
Becomes(h, how) == progress' = [progress EXCEPT ![h] = how]

\* GodbcCloseRows and GodbcReturnConnection delete the handle they are given.
CloseRows(h)        == table[h] = "rows" /\ Deleted(h) /\ Becomes(h, "over")
ReturnConnection(h) == table[h] = "pool" /\ Deleted(h) /\ UNCHANGED progress

\* Mutant: the statement is closed first, and a failure returns.
ClosePreparedLate(h) ==
    table[h] = "stmt" /\ (Deleted(h) \/ UNCHANGED table) /\ UNCHANGED progress

\* GodbcClosePrepared deletes the handle before it closes the statement.
ClosePrepared(h) == table[h] = "stmt" /\ Deleted(h) /\ UNCHANGED progress

\* GodbcCommit and GodbcRollback delete it only if they succeed.  A commit
\* that fails may have been done by the server; what is not is undone.
EndTransaction(h, how) ==
    /\ table[h] = "tx"
    /\ \/ Deleted(h) /\ Becomes(h, how)
       \/ UNCHANGED table /\ \E result \in {how, "undone"} : Becomes(h, result)

ClosingCall(cls, h, how) ==
    /\ ends' = [ends EXCEPT ![h] = @ + 1]
    /\ \/ cls = "rows" /\ CloseRows(h)
       \/ cls = "stmt" /\ ClosePrepared(h)
       \/ cls = "tx"   /\ EndTransaction(h, how)
       \/ cls = "pool" /\ ReturnConnection(h)
       \/ table[h] # cls /\ UNCHANGED <<table, progress>>      \* "invalid handle"

Ended(w, how) ==
    \/ Open(w) /\ obj[w].handle # 0 /\ ClosingCall(obj[w].cls, obj[w].handle, how)
    \/ ~(Open(w) /\ obj[w].handle # 0) /\ UNCHANGED <<table, ends, progress>>

\* Mutant: a transaction that goes away is committed.
EndsCommitting(w) == Ended(w, "committed") /\ UNCHANGED commitOf

\* close() as the destructor and the move assignment use it, errors ignored:
\* a transaction is rolled back.
Ends(w) == Ended(w, "undone") /\ UNCHANGED commitOf

-----------------------------------------------------------------------------
\* A handle for a new object behind the bridge.
Gets(w, cls) ==
    /\ ~Exists(w)
    /\ nextHandle <= MaxHandle
    /\ table' = [table EXCEPT ![nextHandle] = cls]
    /\ obj' = [obj EXCEPT ![w] = Opened(cls, nextHandle)]
    /\ nextHandle' = nextHandle + 1
    /\ UNCHANGED <<ends, progress, commitOf>>

\* Connection's constructor and ConnectionPool::getConnection.
Connect(w) == Gets(w, "pool")

\* What an open Connection makes.
Make(w, c, cls) ==
    /\ Open(c) /\ obj[c].cls = "pool"
    /\ table[obj[c].handle] = "pool"
    /\ Gets(w, cls)

Query(w, c)            == Make(w, c, "rows")
Prepare(w, c)          == Make(w, c, "stmt")
BeginTransaction(w, c) == Make(w, c, "tx")

\* Mutant: handle_ keeps its value.
CloseKeepingHandle(w) ==
    /\ Open(w)
    /\ Ends(w)
    /\ obj' = [obj EXCEPT ![w].closed = TRUE]
    /\ UNCHANGED nextHandle

\* close() and rollback().
Close(w) ==
    /\ Open(w)
    /\ Ends(w)
    /\ obj' = [obj EXCEPT ![w] = Shut(obj[w].cls)]
    /\ UNCHANGED nextHandle

\* commit(), which closes the object whether it returns or throws.
Commit(w) ==
    /\ Open(w) /\ obj[w].cls = "tx"
    /\ Ended(w, "committed")
    /\ commitOf' = [commitOf EXCEPT ![obj[w].handle] =
                       IF table'[obj[w].handle] = "none" THEN "done" ELSE "asked"]
    /\ obj' = [obj EXCEPT ![w] = Shut(obj[w].cls)]
    /\ UNCHANGED nextHandle

\* The calls that leave the object open.
Uses(w, cls, how) ==
    /\ Open(w) /\ obj[w].cls = cls
    /\ table[obj[w].handle] = cls
    /\ Becomes(obj[w].handle, how)
    /\ UNCHANGED <<obj, table, nextHandle, ends, commitOf>>

\* Transaction::execute: the statement has been run, or it throws.
Execute(w) == Uses(w, "tx", "changed")

\* next() with a row, and with an error.  After an error the rows stay closed.
Next(w) ==
    /\ Open(w) /\ progress[obj[w].handle] # "failed"
    /\ \E how \in {"row", "failed"} : Uses(w, "rows", how)

\* Mutant: at the end next() only returns false.
NextEndsOpen(w) == Uses(w, "rows", "over")

\* next() at the end of the rows closes the object.
NextEnds(w) ==
    /\ Open(w) /\ obj[w].cls = "rows"
    /\ progress[obj[w].handle] # "failed"
    /\ Ends(w)
    /\ obj' = [obj EXCEPT ![w] = Shut("rows")]
    /\ UNCHANGED nextHandle

Destroy(w) ==
    /\ Exists(w)
    /\ Ends(w)
    /\ obj' = [obj EXCEPT ![w] = NoObject]
    /\ UNCHANGED nextHandle

\* Mutant: the source is left as it was.
MoveConstructCopying(w, v) ==
    /\ ~Exists(w) /\ Exists(v)
    /\ obj' = [obj EXCEPT ![w] = obj[v]]
    /\ UNCHANGED <<table, nextHandle, ends, progress, commitOf>>

MoveConstruct(w, v) ==
    /\ ~Exists(w) /\ Exists(v)
    /\ obj' = [obj EXCEPT ![w] = obj[v], ![v] = Shut(obj[v].cls)]
    /\ UNCHANGED <<table, nextHandle, ends, progress, commitOf>>

\* Mutant: the target's handle is overwritten without close().
MoveAssignOver(w, v) ==
    /\ w # v /\ Exists(w) /\ Exists(v) /\ obj[w].cls = obj[v].cls
    /\ obj' = [obj EXCEPT ![w] = obj[v], ![v] = Shut(obj[v].cls)]
    /\ UNCHANGED <<table, nextHandle, ends, progress, commitOf>>

\* Moving an object onto itself does nothing.
MoveAssign(w, v) ==
    /\ w # v /\ Exists(w) /\ Exists(v) /\ obj[w].cls = obj[v].cls
    /\ Ends(w)
    /\ obj' = [obj EXCEPT ![w] = obj[v], ![v] = Shut(obj[v].cls)]
    /\ UNCHANGED nextHandle

WrapperNext ==
    \E w \in Wrappers :
        \/ Connect(w) \/ Close(w) \/ Commit(w) \/ Destroy(w)
        \/ Execute(w) \/ Next(w) \/ NextEnds(w)
        \/ \E v \in Wrappers : \/ Query(w, v) \/ Prepare(w, v) \/ BeginTransaction(w, v)
                               \/ MoveConstruct(w, v) \/ MoveAssign(w, v)

WrapperSpec == WrapperInit /\ [][WrapperNext]_wrapperVars

-----------------------------------------------------------------------------
(* Properties. *)

Created    == {h \in Handles : h < nextHandle}
Holders(h) == {w \in Wrappers : Open(w) /\ obj[w].handle = h}

\* Type invariant: closed_ and handle_ say the same.
WrapperTypeOK ==
    /\ obj \in [Wrappers -> [cls : Classes \cup {"none"}, handle : 0..MaxHandle,
                             closed : BOOLEAN]]
    /\ \A w \in Wrappers : obj[w].closed <=> obj[w].handle = 0
    /\ table \in [Handles -> Classes \cup {"none"}]
    /\ nextHandle \in 1..(MaxHandle + 1)
    /\ ends \in [Handles -> Nat]
    /\ progress \in [Handles -> {"begun", "row", "failed", "over",
                                "changed", "committed", "undone"}]
    /\ commitOf \in [Handles -> {"no", "asked", "done"}]

\* An object that is not closed never calls the bridge with a stale handle or
\* one of another class, whatever was moved onto what before.
OpenIsLive == \A w \in Wrappers : Open(w) => table[obj[w].handle] = obj[w].cls

\* Every handle has one owner until it is ended, and is ended once: no path
\* through moves, close() and destructors drops a handle or ends it twice.
EndedOnce ==
    \A h \in Created :
        \/ ends[h] = 0 /\ \E w \in Wrappers : Holders(h) = {w}
        \/ ends[h] = 1 /\ Holders(h) = {}

\* A handle that is still in the bridge's table although no object can reach
\* it belongs to a transaction.
LostOnlyTransactions ==
    \A h \in Handles : table[h] # "none" /\ Holders(h) = {} => table[h] = "tx"

\* A transaction is committed only if commit() was called, and is committed if
\* commit() returned; between the two, when the call failed, either may be.  One
\* with changes is decided when no object holds it any more: the server is taken
\* to undo one whose end failed, unless it did it.
CommitsAsAsked ==
    \A h \in Created :
        /\ commitOf[h] = "done" => progress[h] = "committed"
        /\ progress[h] = "committed" => commitOf[h] # "no"
        /\ progress[h] = "changed" => Holders(h) # {}

\* Rows that were read to the end keep no connection: their object is closed.
ReadRowsClosed == \A w \in Wrappers : Open(w) => progress[obj[w].handle] # "over"

\* No handle outlives the objects that could end it.
NothingLost == \A h \in Handles : table[h] # "none" => Holders(h) # {}
=============================================================================
