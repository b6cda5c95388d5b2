------------------------- MODULE GodbcBridge_proofs -------------------------
(***************************************************************************)
(* The exported functions, for any number of callers: they use the pool as *)
(* GodbcPool says its callers may and the table as GodbcHandles does, so   *)
(* that what is proved of those two holds of the bridge; and they keep the *)
(* connections of results, transactions and statements where they belong.  *)
(***************************************************************************)
EXTENDS GodbcBridge, GodbcPoolLease_proofs, GodbcHandles_proofs

-----------------------------------------------------------------------------
(* The pool. *)

\* Every step of the bridge is a step of the pool or leaves it alone.
LEMMA PoolStep ==
    ASSUME PoolInv, [BridgeNext]_bridgeState
    PROVE  [PoolNext]_poolState
  <1> DEFINE Goal == PoolNext \/ UNCHANGED poolState
  <1> SUFFICES Goal
    OBVIOUS
  <1>1. CASE UNCHANGED bridgeState
    BY <1>1 DEF bridgeState, poolState
  <1>2. CASE Preallocating
    BY <1>2 DEF Preallocating, PoolNext, Connecting
  <1>3. CASE Replenishing \/ ReplenishingLock \/ World
    BY <1>3 DEF Replenishing, ReplenishingLock, World, PoolNext
  <1>4. ASSUME NEW t \in Threads, NEW fn \in Fns, NEW h \in Live \cup retired, Call(t, fn, h)
        PROVE  Goal
    BY <1>4 DEF Call, PoolUnchanged, poolState
  <1>5. ASSUME NEW t \in Threads, Connect(t) \/ InPoolLock(t) \/ InPool(t)
        PROVE  Goal
    BY <1>5 DEF Connect, InPoolLock, InPool, PoolNext, Connecting, Continue
  <1>6. ASSUME NEW t \in Threads,
               \/ Misdirected(t) \/ Reads(t) \/ ExecutePrepared(t) \/ TxEnds(t) \/ TxFails(t)
               \/ ClosePrepared(t) \/ HandleRemoved(t) \/ ClosesByRemoving(t) \/ Returned(t)
               \/ ParamQuerySucceeds(t) \/ ParamQueryBumps(t) \/ ReadsRow(t) \/ ReadsEnd(t)
               \/ RowsClosed(t) \/ TxLookupBegins(t) \/ TxLookupEnds(t) \/ PoolClosed(t)
               \/ QueryPanics(t)
               \/ QueryReturned(t)
        PROVE  Goal
    BY <1>6 DEF Misdirected, Reads, ExecutePrepared, TxEnds, TxFails, ClosePrepared, HandleRemoved,
       ClosesByRemoving, Returned, ParamQuerySucceeds, ParamQueryBumps, ReadsRow, ReadsEnd,
       RowsClosed,
       TxLookupBegins, TxLookupEnds, PoolClosed, QueryPanics, QueryReturned, PoolUnchanged,
       poolState
  <1>7. ASSUME NEW t \in Threads, EnterUnlocked(t) \/ EnterLocked(t) \/ GetAgain(t) \/ ClosesPool(t)
        PROVE  Goal
    BY <1>7 DEF EnterUnlocked, EnterLocked, GetAgain, ClosesPool, PoolNext, Start
  <1>8. ASSUME NEW t \in Threads, CloseRows(t)
        PROVE  Goal
    <2>1. ConnOf(t) \in Conns /\ Collect(t, ConnOf(t))
      BY <1>8 DEF CloseRows, Collect, PoolInv, Placed
    <2> QED
      BY <2>1 DEF PoolNext, Start
  <1>9. ASSUME NEW t \in Threads,
               \/ Begun(t) \/ Prepared(t) \/ GetFailed(t) \/ Executed(t) \/ StatementFails(t)
               \/ QuerySucceeds(t) \/ QueryFails(t) \/ ParamQueryInserts(t) \/ ParamQueryFails(t)
        PROVE  Goal
    BY <1>9 DEF Begun, Prepared, GetFailed, Executed, StatementFails, QuerySucceeds, QueryFails,
       ParamQueryInserts, ParamQueryFails, PoolNext, Continue, LeaseEnds
  <1> QED
    BY <1>1, <1>2, <1>3, <1>4, <1>5, <1>6, <1>7, <1>8, <1>9 DEF BridgeNext, Enter, Proceed

\* The pool's invariant is the bridge's.
LEMMA BridgePool == BridgeSpec => []PoolInv
  <1>1. BridgeInit => PoolInv
    BY PoolInitInv DEF BridgeInit
  <1>2. PoolInv /\ [BridgeNext]_bridgeState => PoolInv'
    BY PoolStep, PlacedStep, WithinStep, ReadyStep DEF PoolInv
  <1> QED
    BY <1>1, <1>2, PTL DEF BridgeSpec

\* The exported functions use the pool as GodbcPool allows its callers.
THEOREM BridgeUsesPool == BridgeSpec => UsesPool
  <1>1. BridgeInit => PoolInit
    BY DEF BridgeInit
  <1>2. PoolInv /\ [BridgeNext]_bridgeState => [PoolNext]_poolState
    BY PoolStep
  <1> QED
    BY <1>1, <1>2, BridgePool, PTL DEF BridgeSpec, UsesPool, PoolSpec

\* So a connection has one owner at a time whatever functions are called.
THEOREM BridgeKeepsLease == BridgeSpec => ImplementsLease
  BY BridgeUsesPool, PoolKeepsLease DEF UsesPool

-----------------------------------------------------------------------------
(* The table. *)

\* A call has the handle it was given, live or removed since.
CallInv ==
    /\ call \in [Threads -> [fn : Fns \cup {"none"}, at : CallSteps,
                             h : Given \cup {0}, att : {0} \cup 1..(RetryAttempts - 1)]]
    /\ \A t \in Threads : call[t].at # "out" => call[t].h \in Given

\* Every step of the bridge is a step of the table or leaves it alone.
LEMMA TableMoves ==
    ASSUME PoolInv, CallInv, [BridgeNext]_bridgeState
    PROVE  [HandlesNext]_tableVars
  <1> DEFINE Goal == HandlesNext \/ UNCHANGED tableVars
  <1> SUFFICES Goal
    OBVIOUS
  <1>a. /\ Obj("pool", NoConn) \in Objects
        /\ \A c \in Conns : /\ Obj("rows", c) \in Objects
                            /\ Obj("tx", c) \in Objects
                            /\ Obj("stmt", c) \in Objects
    BY BridgeAssumption DEF BridgeObjects, Obj
  <1>b. \A t \in Threads : pc[t] = "leased" => held[t] \in Conns
    BY DEF PoolInv, Placed, Control, Holding
  <1>1. CASE UNCHANGED bridgeState
    BY <1>1 DEF bridgeState
  <1>2. CASE Preallocating \/ Replenishing \/ ReplenishingLock \/ World
    BY <1>2 DEF Preallocating, Replenishing, ReplenishingLock, World, TableUnchanged
  <1>3. ASSUME NEW t \in Threads, NEW fn \in Fns, NEW h \in Live \cup retired, Call(t, fn, h)
        PROVE  Goal
    BY <1>3 DEF Call, TableUnchanged
  <1>4. ASSUME NEW t \in Threads,
               \/ Misdirected(t) \/ Reads(t) \/ ExecutePrepared(t) \/ TxEnds(t) \/ TxFails(t)
               \/ ClosePrepared(t) \/ EnterUnlocked(t) \/ InPool(t) \/ InPoolLock(t) \/ GetAgain(t)
               \/ Executed(t) \/ StatementFails(t) \/ QueryFails(t) \/ ParamQueryFails(t)
               \/ ReadsRow(t) \/ ReadsEnd(t) \/ RowsClosed(t) \/ QueryPanics(t)
        PROVE  Goal
    BY <1>4 DEF Misdirected, Reads, ExecutePrepared, TxEnds, TxFails, ClosePrepared, EnterUnlocked,
       InPool, InPoolLock, GetAgain, Executed, StatementFails, QueryFails, ParamQueryFails,
       ReadsRow, ReadsEnd, RowsClosed, QueryPanics, TableUnchanged
  <1>5. ASSUME NEW t \in Threads,
               \/ EnterLocked(t) \/ ClosesPool(t) \/ GetFailed(t) \/ Returned(t) \/ QueryReturned(t)
        PROVE  Goal
    BY <1>5 DEF EnterLocked, ClosesPool, GetFailed, Returned, QueryReturned, UnlockIfHeld,
       TableUnchanged, HandlesNext, LockedAccess
  <1>6. ASSUME NEW t \in Threads, Connect(t) \/ Begun(t) \/ Prepared(t) \/ QuerySucceeds(t)
        PROVE  Goal
    <2>1. CASE Connect(t)
      BY <1>a, <2>1 DEF Connect, HandlesNext, LockedAccess
    <2>2. CASE Begun(t)
      BY <1>a, <1>b, <2>2 DEF Begun, Orphan, HandlesNext, LockedAccess
    <2>3. CASE Prepared(t)
      BY <1>a, <1>b, <2>3 DEF Prepared, Orphan, HandlesNext, LockedAccess
    <2>4. CASE QuerySucceeds(t)
      BY <1>a, <1>b, <2>4 DEF QuerySucceeds, Handoff, HandlesNext, LockedAccess
    <2> QED
      BY <1>6, <2>1, <2>2, <2>3, <2>4
  <1>7. ASSUME NEW t \in Threads, CloseRows(t) \/ PoolClosed(t)
        PROVE  Goal
    <2>1. call[t].h \in Live
      BY <1>7 DEF CloseRows, PoolClosed, Is, UnlockRemoving
    <2> QED
      BY <1>7, <2>1 DEF CloseRows, PoolClosed, HandlesNext, LockedAccess
  <1>8. ASSUME NEW t \in Threads, HandleRemoved(t) \/ ClosesByRemoving(t)
        PROVE  Goal
    <2>1. call[t].h \in Live \cup retired
      BY <1>8 DEF HandleRemoved, ClosesByRemoving, Is, CallInv, Given
    <2>2. RemoveHandle(t, call[t].h)
      BY <1>8 DEF HandleRemoved, ClosesByRemoving
    <2> QED
      BY <2>1, <2>2 DEF HandlesNext, LockedAccess
  <1>9. ASSUME NEW t \in Threads,
               \/ ParamQuerySucceeds(t) \/ ParamQueryBumps(t)
               \/ TxLookupBegins(t) \/ TxLookupEnds(t)
        PROVE  Goal
    BY <1>9 DEF ParamQuerySucceeds, ParamQueryBumps, TxLookupBegins, TxLookupEnds,
       HandlesNext, RawAccess
  <1>10. ASSUME NEW t \in Threads, ParamQueryInserts(t)
         PROVE  Goal
    BY <1>a, <1>b, <1>10 DEF ParamQueryInserts, Handoff, HandlesNext, RawAccess
  <1> QED
    BY <1>1, <1>2, <1>3, <1>4, <1>5, <1>6, <1>7, <1>8, <1>9, <1>10 DEF BridgeNext, Enter, Proceed

\* A handle that was given out stays live or becomes a removed one.
LEMMA GivenGrows ==
    ASSUME [HandlesNext]_tableVars
    PROVE  Given \subseteq Given'
  <1> USE DEF Given, Live
  <1>1. ASSUME NEW h, Delete(h)
        PROVE  Given \subseteq Given'
    BY <1>1 DEF Delete
  <1>2. ASSUME NEW h, NEW obj, Put(h, obj), UNCHANGED retired
        PROVE  Given \subseteq Given'
    BY <1>2 DEF Put
  <1>3. ASSUME NEW t \in Threads, LockedAccess(t)
        PROVE  Given \subseteq Given'
    BY <1>1, <1>2, <1>3 DEF LockedAccess, Lock, Unlock, ReleaseMu, UnlockInserting, Store, Insert,
       LockRemoving, UnlockRemoving, StoreAgain, RemoveHandle
  <1>4. ASSUME NEW t \in Threads, RawAccess(t)
        PROVE  Given \subseteq Given'
    BY <1>2, <1>4 DEF RawAccess, RawReadID, RawBumpID, RawWrite, RawLookupBegins, RawLookupEnds
  <1>5. CASE UNCHANGED tableVars
    BY <1>5 DEF tableVars
  <1> QED
    BY <1>3, <1>4, <1>5 DEF HandlesNext

\* What a call moves to.
LEMMA CallMoves ==
    ASSUME CallInv, Given \subseteq Given', NEW t \in Threads,
           \/ call' = call
           \/ Finish(t)
           \/ call[t].at # "out" /\ \E at \in CallSteps : To(t, at)
           \/ call[t].at # "out" /\ MayRetry(t) /\ Again(t)
    PROVE  CallInv'
  <1>1. "out" \in CallSteps /\ "again" \in CallSteps
    BY DEF CallSteps
  <1>2. MayRetry(t) => call[t].att + 1 \in 1..(RetryAttempts - 1)
    BY LimitsAssumption DEF MayRetry, CallInv
  <1> QED
    BY <1>1, <1>2 DEF CallInv, Finish, To, Again, NoCall

\* Every call keeps to the handle it was given.
LEMMA CallStep ==
    ASSUME CallInv, Given \subseteq Given', [BridgeNext]_bridgeState
    PROVE  CallInv'
  <1>1. CASE UNCHANGED bridgeState \/ Preallocating \/ Replenishing \/ ReplenishingLock \/ World
    <2>1. call' = call
      BY <1>1 DEF bridgeState, bridgeVars, Preallocating, Replenishing, ReplenishingLock, World
    <2> QED
      BY <2>1 DEF CallInv
  <1>2. ASSUME NEW t \in Threads, NEW fn \in Fns, NEW h \in Live \cup retired, Call(t, fn, h)
        PROVE  CallInv'
    BY <1>2, BridgeAssumption DEF Call, CallInv, Given, CallSteps
  <1>3. ASSUME NEW t \in Threads, Connect(t) \/ InPoolLock(t) \/ InPool(t) \/ QueryPanics(t)
               \/ ParamQueryBumps(t)
        PROVE  CallInv'
    BY <1>3, CallMoves DEF Connect, InPoolLock, InPool, QueryPanics, ParamQueryBumps
  <1>4. ASSUME NEW t \in Threads, Enter(t)
        PROVE  CallInv'
    <2>1. Finish(t) \/ (call[t].at # "out" /\ \E at \in CallSteps : To(t, at))
      BY <1>4 DEF Enter, Misdirected, EnterUnlocked, EnterLocked, Reads, CloseRows, Begun, Prepared,
         ExecutePrepared, TxEnds, TxFails, ClosePrepared, HandleRemoved, ClosesPool,
         ClosesByRemoving, In, CallSteps
    <2> QED
      BY <2>1, CallMoves
  <1>5. ASSUME NEW t \in Threads, Proceed(t)
        PROVE  CallInv'
    <2>1. \/ call' = call
          \/ Finish(t)
          \/ call[t].at # "out" /\ \E at \in CallSteps : To(t, at)
          \/ call[t].at # "out" /\ MayRetry(t) /\ Again(t)
      BY <1>5 DEF Proceed, InPool, GetFailed, GetAgain, Returned, Executed, StatementFails,
         QuerySucceeds, QueryFails, QueryReturned, ParamQuerySucceeds, ParamQueryBumps,
         ParamQueryInserts, ParamQueryFails, ReadsRow, ReadsEnd, RowsClosed, TxLookupBegins,
         TxLookupEnds,
         PoolClosed, In, CallSteps
    <2> QED
      BY <2>1, CallMoves
  <1> QED
    BY <1>1, <1>2, <1>3, <1>4, <1>5 DEF BridgeNext

\* No call is under way at first.
LEMMA BridgeInitCalls == BridgeInit => CallInv
  BY DEF BridgeInit, CallInv, NoCall, CallSteps

\* Calls keep to their handles throughout.
LEMMA BridgeCalls == BridgeSpec => []CallInv
  <1>1. PoolInv /\ CallInv /\ [BridgeNext]_bridgeState => CallInv'
    BY TableMoves, GivenGrows, CallStep
  <1> QED
    BY <1>1, BridgeInitCalls, BridgePool, PTL DEF BridgeSpec

\* The exported functions use the handle table as GodbcHandles says.
THEOREM BridgeUsesTable == BridgeSpec => HandlesSpec
  <1>1. BridgeInit => HandlesInit
    BY DEF BridgeInit
  <1>2. PoolInv /\ CallInv /\ [BridgeNext]_bridgeState => [HandlesNext]_tableVars
    BY TableMoves
  <1> QED
    BY <1>1, <1>2, BridgePool, BridgeCalls, PTL DEF BridgeSpec, HandlesSpec

\* So, under safe use, a handle the bridge returned means one object until some
\* function removes it, through all of its functions.
THEOREM BridgeRegistry ==
    ASSUME SafeUse
    PROVE  BridgeSpec => ImplementsRegistry
  BY BridgeUsesTable, HandlesRefineRegistry

-----------------------------------------------------------------------------
(***************************************************************************)
(* Transactions and statements.  The connection one was made on is         *)
(* orphaned, or sql.DB has closed it; a name is not opened again while an  *)
(* object in the table goes by it.  GodbcConnect opens its connections     *)
(* without asking for such names, and may: no handle exists yet.           *)
(***************************************************************************)
Early == phase = "connecting" => Given = {}

Sessions ==
    \A h \in Live : handles[h].kind \in {"tx", "stmt"} =>
        handles[h].conn \in orphaned \/ handles[h].conn \notin open

\* An orphaned connection stays so until it is closed.
LEMMA OrphansStay ==
    ASSUME [PoolNext]_poolState
    PROVE  \A c \in orphaned : c \in orphaned' \/ c \notin open'
  <1> DEFINE Goal == \A c \in orphaned : c \in orphaned' \/ c \notin open'
  <1>1. CASE Connecting
    BY <1>1 DEF Connecting, Preallocate, PreallocateFails, Connected
  <1>2. ASSUME NEW t \in Threads, Start(t)
        PROVE  Goal
    BY <1>2 DEF Start, BeginGet, BeginClose, Collect
  <1>3. ASSUME NEW t \in Threads, Acquire(t)
        PROVE  Goal
    BY <1>3 DEF Acquire, GetPooled, GetPooledDead, GetEmpty, ReturnDead, ReturnLive, ClosePool
  <1>4. ASSUME NEW t \in Threads, Continue(t)
        PROVE  Goal
    BY <1>4 DEF Continue, GetDial, GetDialOk, GetDialFails, GetGivesUp, ReportError,
       ReplaceDial, ReplaceDialOk, ReplaceDialFails, ReplaceGivesUp,
       FillDial, FillDialOk, FillDialFails, LeaseEnds, BeginReturn, Drop, Handoff, Orphan
  <1>5. CASE ReplenishLock \/ ReplenishStep
    BY <1>5 DEF ReplenishLock, ReplenishStep, ReplenishDialOk, ReplenishDialFails, ReplenishGivesUp
  <1>6. CASE Reap
    BY <1>6 DEF Reap, Discard
  <1>7. CASE PoolEnvironment \/ UNCHANGED poolState
    BY <1>7 DEF PoolEnvironment, poolState, poolVars
  <1> QED
    BY <1>1, <1>2, <1>3, <1>4, <1>5, <1>6, <1>7 DEF PoolNext

\* A step of a call that does not dial opens nothing.
LEMMA CallsOpen ==
    ASSUME NEW t \in Threads,
           \/ \E fn \in Fns, h \in Live \cup retired : Call(t, fn, h)
           \/ Connect(t) \/ Enter(t) \/ InPoolLock(t) \/ Proceed(t) \/ QueryPanics(t)
    PROVE  InPool(t) \/ open' \subseteq open
  <1> DEFINE Goal == open' \subseteq open
  <1>1. ASSUME \/ \E fn \in Fns, h \in Live \cup retired : Call(t, fn, h)
               \/ Misdirected(t) \/ Reads(t) \/ ExecutePrepared(t) \/ TxEnds(t) \/ TxFails(t)
               \/ ClosePrepared(t) \/ HandleRemoved(t) \/ ClosesByRemoving(t) \/ Returned(t)
               \/ ParamQuerySucceeds(t) \/ ParamQueryBumps(t) \/ ReadsRow(t) \/ ReadsEnd(t)
               \/ RowsClosed(t) \/ TxLookupBegins(t) \/ TxLookupEnds(t) \/ PoolClosed(t)
               \/ QueryPanics(t)
               \/ QueryReturned(t)
        PROVE  Goal
    BY <1>1 DEF Call, Misdirected, Reads, ExecutePrepared, TxEnds, TxFails, ClosePrepared,
       HandleRemoved, ClosesByRemoving, Returned, ParamQuerySucceeds, ParamQueryBumps, ReadsRow,
       ReadsEnd, RowsClosed, TxLookupBegins, TxLookupEnds, PoolClosed, QueryPanics, QueryReturned,
       PoolUnchanged, sqlVars
  <1>2. ASSUME EnterUnlocked(t) \/ EnterLocked(t) \/ GetAgain(t) \/ ClosesPool(t)
        PROVE  Goal
    BY <1>2, OpensByDialling DEF EnterUnlocked, EnterLocked, GetAgain, ClosesPool, Start
  <1>3. ASSUME CloseRows(t)
        PROVE  Goal
    BY <1>3 DEF CloseRows, Collect, sqlVars
  <1>4. ASSUME \/ Begun(t) \/ Prepared(t) \/ GetFailed(t) \/ Executed(t) \/ StatementFails(t)
               \/ QuerySucceeds(t) \/ QueryFails(t) \/ ParamQueryInserts(t) \/ ParamQueryFails(t)
        PROVE  Goal
    BY <1>4, OpensByDialling DEF Begun, Prepared, GetFailed, Executed, StatementFails,
       QuerySucceeds,
       QueryFails, ParamQueryInserts, ParamQueryFails, LeaseEnds
  <1>5. ASSUME Connect(t) \/ InPoolLock(t)
        PROVE  Goal
    BY <1>5, OpensByDialling DEF Connect, InPoolLock
  <1> QED
    BY <1>1, <1>2, <1>3, <1>4, <1>5 DEF Enter, Proceed

\* A connection that is opened has a name that no object goes by.
LEMMA NamesAreNew ==
    ASSUME Early, [BridgeNext]_bridgeState
    PROVE  NewNames
  <1>1. CASE Preallocating
    <2>1. open' \subseteq open \/ phase = "connecting"
      BY <1>1, OpensByDialling DEF Preallocating, Preallocate
    <2> QED
      BY <2>1 DEF NewNames, Early, Given
  <1>2. CASE Replenishing
    BY <1>2 DEF Replenishing
  <1>3. CASE ReplenishingLock \/ World \/ UNCHANGED bridgeState
    <2>1. open' \subseteq open
      BY <1>3, OpensByDialling DEF ReplenishingLock, World, bridgeState, sqlVars
    <2> QED
      BY <2>1 DEF NewNames
  <1>4. ASSUME NEW t \in Threads,
               \/ \E fn \in Fns, h \in Live \cup retired : Call(t, fn, h)
               \/ Connect(t) \/ Enter(t) \/ InPoolLock(t) \/ Proceed(t) \/ QueryPanics(t)
        PROVE  NewNames
    BY <1>4, CallsOpen DEF InPool, NewNames
  <1> QED
    BY <1>1, <1>2, <1>3, <1>4 DEF BridgeNext

\* GodbcConnect does not start again.
LEMMA ConnectingEnds ==
    ASSUME [PoolNext]_poolState, phase' = "connecting"
    PROVE  phase = "connecting" /\ ~Connected
  <1>0. ~Connected
    BY DEF Connected
  <1>1. CASE Connecting
    BY <1>0, <1>1 DEF Connecting, Preallocate, PreallocateFails, Connected
  <1>2. ASSUME NEW t \in Threads, Start(t)
        PROVE  phase' = phase
    BY <1>2 DEF Start, BeginGet, BeginClose, Collect
  <1>3. ASSUME NEW t \in Threads, Acquire(t)
        PROVE  phase' \in {phase, "closed"}
    BY <1>3 DEF Acquire, GetPooled, GetPooledDead, GetEmpty, ReturnDead, ReturnLive, ClosePool
  <1>4. ASSUME NEW t \in Threads, Continue(t)
        PROVE  phase' = phase
    BY <1>4 DEF Continue, GetDial, GetDialOk, GetDialFails, GetGivesUp, ReportError,
       ReplaceDial, ReplaceDialOk, ReplaceDialFails, ReplaceGivesUp,
       FillDial, FillDialOk, FillDialFails, LeaseEnds, BeginReturn, Drop, Handoff, Orphan
  <1>5. ASSUME ReplenishLock \/ ReplenishStep
        PROVE  phase' = phase
    BY <1>5 DEF ReplenishLock, ReplenishStep, ReplenishDialOk, ReplenishDialFails, ReplenishGivesUp
  <1>6. ASSUME Reap \/ PoolEnvironment \/ UNCHANGED poolState
        PROVE  phase' = phase
    BY <1>6 DEF Reap, PoolEnvironment, poolState, poolVars
  <1> QED
    BY <1>0, <1>1, <1>2, <1>3, <1>4, <1>5, <1>6 DEF PoolNext

\* No handle is given out before the pool is open.
LEMMA EarlyStep ==
    ASSUME PoolInv, CallInv, Early, [BridgeNext]_bridgeState
    PROVE  Early'
  <1> SUFFICES ASSUME phase' = "connecting"
               PROVE  Given' = {}
    BY DEF Early
  <1>1. phase = "connecting" /\ ~Connected
    BY PoolStep, ConnectingEnds
  <1>2. Given = {} /\ \A t \in Threads : call[t].at = "out"
    BY <1>1 DEF Early, CallInv
  <1>3. TableUnchanged \/ UNCHANGED bridgeState
    <2>1. ASSUME NEW t \in Threads, Enter(t)
          PROVE  FALSE
      BY <1>2, <2>1 DEF Enter, Misdirected, EnterUnlocked, EnterLocked, Reads, CloseRows, Begun,
         Prepared, ExecutePrepared, TxEnds, TxFails, ClosePrepared, HandleRemoved, ClosesPool,
         ClosesByRemoving, In
    <2>2. ASSUME NEW t \in Threads, Proceed(t)
          PROVE  TableUnchanged
      BY <1>2, <2>2 DEF Proceed, InPool, GetFailed, GetAgain, Returned, Executed, StatementFails,
         QuerySucceeds, QueryFails, QueryReturned, ParamQuerySucceeds, ParamQueryBumps,
         ParamQueryInserts, ParamQueryFails, ReadsRow, ReadsEnd, RowsClosed, TxLookupBegins,
         TxLookupEnds,
         PoolClosed, In
    <2> QED
      BY <1>1, <1>2, <2>1, <2>2 DEF BridgeNext, Preallocating, Replenishing, ReplenishingLock,
         World,
         Call, Connect, InPoolLock, QueryPanics, Given
  <1> QED
    BY <1>2, <1>3 DEF Given, Live, TableUnchanged, tableVars, bridgeState

\* An object that appears in the table is a pool or a result, or was made on a
\* connection that is orphaned now.
LEMMA NewObjects ==
    ASSUME PoolInv, [BridgeNext]_bridgeState
    PROVE  \A h \in Live' :
              \/ h \in Live /\ handles'[h] = handles[h]
              \/ handles'[h].kind \in {"pool", "rows"}
              \/ handles'[h].conn \in orphaned'
  <1> DEFINE Goal == \A h \in Live' : \/ h \in Live /\ handles'[h] = handles[h]
                                      \/ handles'[h].kind \in {"pool", "rows"}
                                      \/ handles'[h].conn \in orphaned'
  <1> USE DEF Live
  <1>1. ASSUME handles' = handles \/ (\E h : Delete(h))
        PROVE  Goal
    BY <1>1 DEF Delete
  <1>2. ASSUME NEW h, NEW obj, Put(h, obj), obj.kind \in {"pool", "rows"} \/ obj.conn \in orphaned'
        PROVE  Goal
    BY <1>2 DEF Put
  <1>3. CASE \/ Preallocating \/ Replenishing \/ ReplenishingLock \/ World \/ UNCHANGED bridgeState
    BY <1>1, <1>3 DEF Preallocating, Replenishing, ReplenishingLock, World, TableUnchanged,
       bridgeState, tableVars
  <1>4. ASSUME NEW t \in Threads,
               \/ \E fn \in Fns, h \in Live \cup retired : Call(t, fn, h)
               \/ InPoolLock(t) \/ QueryPanics(t)
        PROVE  Goal
    BY <1>1, <1>4 DEF Call, InPoolLock, QueryPanics, TableUnchanged, tableVars
  <1>5. ASSUME NEW t \in Threads, Connect(t) \/ QuerySucceeds(t) \/ ParamQueryInserts(t)
        PROVE  Goal
    BY <1>2, <1>5 DEF Connect, QuerySucceeds, ParamQueryInserts, Store, UnlockInserting, Insert,
       RawWrite, Obj
  <1>6. ASSUME NEW t \in Threads, Begun(t) \/ Prepared(t)
        PROVE  Goal
    BY <1>2, <1>6 DEF Begun, Prepared, Orphan, Store, Insert, Obj
  <1>7. ASSUME NEW t \in Threads,
               CloseRows(t) \/ HandleRemoved(t) \/ PoolClosed(t) \/ ClosesByRemoving(t)
        PROVE  Goal
    BY <1>1, <1>7 DEF CloseRows, HandleRemoved, PoolClosed, ClosesByRemoving, LockRemoving,
       UnlockRemoving, RemoveHandle
  <1>8. ASSUME NEW t \in Threads,
               \/ Misdirected(t) \/ EnterUnlocked(t) \/ EnterLocked(t) \/ Reads(t)
               \/ ExecutePrepared(t) \/ TxEnds(t) \/ TxFails(t) \/ ClosePrepared(t) \/ ClosesPool(t)
               \/ InPool(t) \/ GetFailed(t) \/ GetAgain(t) \/ Returned(t)
               \/ Executed(t) \/ StatementFails(t) \/ QueryFails(t) \/ QueryReturned(t)
               \/ ParamQuerySucceeds(t) \/ ParamQueryBumps(t) \/ ParamQueryFails(t)
               \/ ReadsRow(t) \/ ReadsEnd(t) \/ RowsClosed(t)
               \/ TxLookupBegins(t) \/ TxLookupEnds(t)
        PROVE  Goal
    BY <1>1, <1>8 DEF Misdirected, EnterUnlocked, EnterLocked, Reads, ExecutePrepared, TxEnds,
       TxFails, ClosePrepared, ClosesPool, InPool, GetFailed, GetAgain, Returned, Executed,
       StatementFails, QueryFails, QueryReturned, ParamQuerySucceeds, ParamQueryBumps,
       ParamQueryFails, ReadsRow, ReadsEnd, RowsClosed, TxLookupBegins, TxLookupEnds,
       TableUnchanged, tableVars,
       UnlockIfHeld, Unlock, Lock, RawReadID, RawBumpID, RawLookupBegins, RawLookupEnds
  <1> QED
    BY <1>3, <1>4, <1>5, <1>6, <1>7, <1>8 DEF BridgeNext, Enter, Proceed

\* No step brings the connection of a transaction or a statement back within
\* the pool's reach.
LEMMA SessionsStep ==
    ASSUME PoolInv, Early, Sessions, [BridgeNext]_bridgeState
    PROVE  Sessions'
  <1> SUFFICES ASSUME NEW h \in Live', handles'[h].kind \in {"tx", "stmt"}
               PROVE  handles'[h].conn \in orphaned' \/ handles'[h].conn \notin open'
    BY DEF Sessions
  <1>1. CASE handles'[h].conn \in orphaned'
    BY <1>1
  <1>2. CASE h \in Live /\ handles'[h] = handles[h]
    <2>1. NewNames /\ \A c \in orphaned : c \in orphaned' \/ c \notin open'
      BY NamesAreNew, PoolStep, OrphansStay
    <2> QED
      BY <1>2, <2>1 DEF Sessions, NewNames
  <1> QED
    BY <1>1, <1>2, NewObjects

\* While a transaction or a statement has a handle, nobody gets its connection
\* from the pool: for any callers, functions and faults, unlocked ones included.
THEOREM BridgeSessions == BridgeSpec => []SessionsIsolated
  <1>1. BridgeInit => Early /\ Sessions
    BY DEF BridgeInit, HandlesInit, Early, Sessions, Given, Live
  <1>2. /\ PoolInv /\ CallInv /\ Early /\ [BridgeNext]_bridgeState => Early'
        /\ PoolInv /\ Early /\ Sessions /\ [BridgeNext]_bridgeState => Sessions'
    BY EarlyStep, SessionsStep
  <1>3. PoolInv /\ Sessions => SessionsIsolated
    BY DEF PoolInv, Placed, Exclusive, Accounted, Sessions, SessionsIsolated, ConnsOf
  <1> QED
    BY <1>1, <1>2, <1>3, BridgePool, BridgeCalls, PTL DEF BridgeSpec

-----------------------------------------------------------------------------
(***************************************************************************)
(* A thread is inside the pool's methods only inside a call, and the call  *)
(* that closes a pool is done with it when it forgets its handle.          *)
(***************************************************************************)
InStepOf(t) ==
    /\ call[t].at \in {"out", "called", "again", "remove", "reading", "lookup"} => pc[t] = "idle"
    /\ call[t].at = "closing" => pc[t] = "closeLock" \/ (pc[t] = "idle" /\ phase = "closed")
    /\ call[t].at = "closeRows" => pc[t] = "retLock"
    /\ pc[t] = "closeLock" => call[t].at = "closing"

InStep == \A t \in Threads : InStepOf(t)

\* A step of the pool moves one caller at most.
LEMMA PoolMoves ==
    /\ \A t \in Threads :
          \/ Start(t) \/ Acquire(t) \/ Continue(t)
          => /\ pc' = pc \/ \E to : Goto(t, to)
             /\ held' = held \/ \E c : Hold(t, c)
    /\ Connecting \/ ReplenishLock \/ ReplenishStep \/ Reap \/ PoolEnvironment
          => pc' = pc /\ held' = held
  <1>1. ASSUME NEW t \in Threads, Start(t) \/ Acquire(t) \/ Continue(t)
        PROVE  /\ pc' = pc \/ \E to : Goto(t, to)
               /\ held' = held \/ \E c : Hold(t, c)
    BY <1>1 DEF Start, BeginGet, BeginClose, Collect, Acquire, GetPooled, GetPooledDead, GetEmpty,
       ReturnDead, ReturnLive, ClosePool, Continue, GetDial, GetDialOk, GetDialFails, GetGivesUp,
       ReportError, ReplaceDial, ReplaceDialOk, ReplaceDialFails, ReplaceGivesUp, FillDial,
       FillDialOk, FillDialFails, LeaseEnds, BeginReturn, Drop, Handoff, Orphan
  <1>2. Connecting \/ ReplenishLock \/ ReplenishStep \/ Reap \/ PoolEnvironment
           => pc' = pc /\ held' = held
    BY DEF Connecting, Preallocate, PreallocateFails, Connected, ReplenishLock, ReplenishStep,
       ReplenishDialOk, ReplenishDialFails, ReplenishGivesUp, Reap, PoolEnvironment, poolVars
  <1> QED
    BY <1>1, <1>2

\* A closed pool is never opened, and a pool that opens was being connected.
LEMMA ClosedStays ==
    ASSUME [PoolNext]_poolState
    PROVE  /\ phase = "closed" => phase' = "closed"
           /\ phase' = "open" => phase = "open" \/ Connected
  <1>1. CASE Connecting
    BY <1>1 DEF Connecting, Preallocate, PreallocateFails, Connected
  <1>2. ASSUME NEW t \in Threads, Start(t) \/ Continue(t)
        PROVE  phase' = phase
    BY <1>2 DEF Start, BeginGet, BeginClose, Collect, Continue, GetDial, GetDialOk, GetDialFails,
       GetGivesUp, ReportError, ReplaceDial, ReplaceDialOk, ReplaceDialFails, ReplaceGivesUp,
       FillDial, FillDialOk, FillDialFails, LeaseEnds, BeginReturn, Drop, Handoff, Orphan
  <1>3. ASSUME NEW t \in Threads, Acquire(t)
        PROVE  phase' = phase \/ phase' = "closed"
    BY <1>3 DEF Acquire, GetPooled, GetPooledDead, GetEmpty, ReturnDead, ReturnLive, ClosePool
  <1>4. ASSUME ReplenishLock \/ ReplenishStep \/ Reap \/ PoolEnvironment \/ UNCHANGED poolState
        PROVE  phase' = phase
    BY <1>4 DEF ReplenishLock, ReplenishStep, ReplenishDialOk, ReplenishDialFails, ReplenishGivesUp,
       Reap, PoolEnvironment, poolState, poolVars
  <1> QED
    BY <1>1, <1>2, <1>3, <1>4 DEF PoolNext

\* A call moves its own thread only.
LEMMA OthersStay ==
    ASSUME PoolInv, CallInv, NEW t \in Threads,
           \/ \E fn \in Fns, h \in Live \cup retired : Call(t, fn, h)
           \/ Connect(t) \/ Enter(t) \/ InPoolLock(t) \/ Proceed(t) \/ QueryPanics(t),
           NEW s \in Threads, s # t
    PROVE  pc'[s] = pc[s] /\ held'[s] = held[s] /\ call'[s] = call[s]
  <1>1. /\ pc' = pc \/ \E to : Goto(t, to)
        /\ held' = held \/ \E c : Hold(t, c)
    <2>1. CASE \/ \E fn \in Fns, h \in Live \cup retired : Call(t, fn, h)
               \/ Connect(t) \/ InPoolLock(t) \/ QueryPanics(t)
      BY <2>1, PoolMoves DEF Call, Connect, Connecting, InPoolLock, QueryPanics, PoolUnchanged,
         poolVars
    <2>2. CASE Enter(t)
      BY <2>2 DEF Enter, Misdirected, EnterUnlocked, EnterLocked, Reads, CloseRows, Begun, Prepared,
         ExecutePrepared, TxEnds, TxFails, ClosePrepared, HandleRemoved, ClosesPool,
         ClosesByRemoving, BeginGet, BeginClose, Collect, Orphan, PoolUnchanged, poolVars
    <2>3. CASE InPool(t)
      BY <2>3, PoolMoves DEF InPool, Continue
    <2>4. CASE Proceed(t) /\ ~InPool(t)
      BY <2>4 DEF Proceed, GetFailed, GetAgain, Returned, Executed,
         StatementFails, QuerySucceeds, QueryFails, QueryReturned, ParamQuerySucceeds,
         ParamQueryBumps, ParamQueryInserts, ParamQueryFails, ReadsRow, ReadsEnd, RowsClosed,
         TxLookupBegins,
         TxLookupEnds, PoolClosed, ReportError, BeginGet, BeginReturn, Drop, Handoff,
         PoolUnchanged, poolVars
    <2> QED
      BY <2>1, <2>2, <2>3, <2>4
  <1>2. \/ call' = call \/ Finish(t) \/ Again(t) \/ \E at : To(t, at)
        \/ \E new : call' = [call EXCEPT ![t] = new]
    <2>1. CASE \/ \E fn \in Fns, h \in Live \cup retired : Call(t, fn, h)
               \/ Connect(t) \/ InPoolLock(t) \/ QueryPanics(t)
      BY <2>1 DEF Call, Connect, InPoolLock, QueryPanics
    <2>2. CASE Enter(t)
      BY <2>2 DEF Enter, Misdirected, EnterUnlocked, EnterLocked, Reads, CloseRows, Begun, Prepared,
         ExecutePrepared, TxEnds, TxFails, ClosePrepared, HandleRemoved, ClosesPool,
         ClosesByRemoving
    <2>3. CASE Proceed(t)
      BY <2>3 DEF Proceed, InPool, GetFailed, GetAgain, Returned, Executed,
         StatementFails, QuerySucceeds, QueryFails, QueryReturned, ParamQuerySucceeds,
         ParamQueryBumps, ParamQueryInserts, ParamQueryFails, ReadsRow, ReadsEnd, RowsClosed,
         TxLookupBegins,
         TxLookupEnds, PoolClosed
    <2> QED
      BY <2>1, <2>2, <2>3
  <1>3. pc'[s] = pc[s] /\ held'[s] = held[s]
    BY <1>1 DEF Goto, Hold, PoolInv, Placed, Control
  <1>4. call'[s] = call[s]
    BY <1>2 DEF CallInv, Finish, Again, To
  <1> QED
    BY <1>3, <1>4

\* The one thread that a call moves.
LEMMA InStepMoves ==
    ASSUME PoolInv, CallInv, NEW t \in Threads, InStepOf(t),
           \/ \E fn \in Fns, h \in Live \cup retired : Call(t, fn, h)
           \/ Connect(t) \/ Enter(t) \/ InPoolLock(t) \/ Proceed(t) \/ QueryPanics(t)
    PROVE  InStepOf(t)'
  <1> USE DEF InStepOf
  <1>a. pc \in [Threads -> CallPoints] /\ DOMAIN call = Threads
    BY DEF PoolInv, Control, CallInv
  <1>b. /\ Finish(t) => call'[t].at = "out"
        /\ Again(t) => call'[t].at = "again"
        /\ \A at \in CallSteps : To(t, at) => call'[t].at = at
    BY <1>a DEF Finish, NoCall, Again, To, CallInv
  <1>c. \A to \in CallPoints : Goto(t, to) => pc'[t] = to
    BY <1>a DEF Goto
  <1>1. CASE \E fn \in Fns, h \in Live \cup retired : Call(t, fn, h)
    <2>1. pc' = pc /\ call[t].at = "out" /\ call'[t].at = "called"
      BY <1>1, <1>a DEF Call, NoCall, PoolUnchanged, poolVars
    <2> QED
      BY <2>1
  <1>2. CASE Connect(t) \/ QueryPanics(t)
    BY <1>2 DEF Connect, Connected, QueryPanics, PoolUnchanged, poolVars
  <1>3. CASE InPoolLock(t)
    <2>1. /\ call' = call /\ call[t].at # "closeRows"
          /\ pc[t] \in {"getLock", "retLock", "closeLock"}
      BY <1>3 DEF InPoolLock, Acquire, GetPooled, GetPooledDead, GetEmpty, ReturnDead, ReturnLive,
         ClosePool
    <2>2. pc[t] = "closeLock" => ClosePool(t)
      BY <1>3 DEF InPoolLock, Acquire, GetPooled, GetPooledDead, GetEmpty, ReturnDead, ReturnLive
    <2>3. ClosePool(t) => pc'[t] = "idle" /\ phase' = "closed"
      BY <1>c DEF ClosePool, CallPoints
    <2>4. pc'[t] # "closeLock"
      BY <1>3, <1>c DEF InPoolLock, Acquire, GetPooled, GetPooledDead, GetEmpty, ReturnDead,
         ReturnLive, ClosePool, CallPoints
    <2> QED
      BY <2>1, <2>2, <2>3, <2>4
  <1>4. CASE InPool(t)
    <2>1. /\ call' = call /\ pc[t] \in {"getDial", "retReplace", "retFill"}
          /\ pc' = pc \/ Goto(t, "leased") \/ Goto(t, "failed") \/ Goto(t, "idle")
      BY <1>4 DEF InPool, GetDial, GetDialOk, GetDialFails, GetGivesUp, ReplaceDial, ReplaceDialOk,
         ReplaceDialFails, ReplaceGivesUp, FillDial, FillDialOk, FillDialFails
    <2>2. pc'[t] # "closeLock"
      BY <1>c, <2>1 DEF CallPoints
    <2> QED
      BY <2>1, <2>2
  <1>5. CASE \/ Misdirected(t) \/ Reads(t) \/ ExecutePrepared(t) \/ TxEnds(t) \/ TxFails(t)
             \/ ClosePrepared(t) \/ HandleRemoved(t) \/ ClosesByRemoving(t)
             \/ ReadsRow(t) \/ ReadsEnd(t) \/ TxLookupBegins(t) \/ TxLookupEnds(t)
    <2>1. /\ pc' = pc /\ call[t].at \in {"called", "remove", "reading", "lookup"}
          /\ call'[t].at \in {"out", "remove", "reading", "lookup"}
      BY <1>5, <1>b DEF Misdirected, Reads, ExecutePrepared, TxEnds, TxFails, ClosePrepared,
         HandleRemoved, ClosesByRemoving, ReadsRow, ReadsEnd, TxLookupBegins, TxLookupEnds,
         PoolUnchanged, poolVars, In, CallSteps
    <2> QED
      BY <2>1
  <1>6. CASE EnterUnlocked(t) \/ EnterLocked(t) \/ GetAgain(t) \/ Executed(t) \/ QueryFails(t)
    <2>1. /\ call'[t].at \in {"get", "return", "returnErr"}
          /\ pc'[t] \in {"getLock", "retLock"}
      BY <1>6, <1>b, <1>c DEF EnterUnlocked, EnterLocked, GetAgain, Executed, QueryFails, BeginGet,
         BeginReturn, CallSteps, CallPoints
    <2> QED
      BY <2>1
  <1>7. CASE \/ Begun(t) \/ Prepared(t) \/ GetFailed(t) \/ StatementFails(t) \/ QuerySucceeds(t)
             \/ ParamQueryInserts(t) \/ ParamQueryFails(t)
    <2>1. pc'[t] = "idle" /\ call'[t].at \in {"out", "again"}
      BY <1>7, <1>b, <1>c DEF Begun, Prepared, GetFailed, StatementFails, QuerySucceeds,
         ParamQueryInserts, ParamQueryFails, Orphan, ReportError, Drop, Handoff, CallPoints
    <2> QED
      BY <2>1
  <1>8. CASE ClosesPool(t)
    <2>1. pc'[t] = "closeLock" /\ call'[t].at = "closing"
      BY <1>8, <1>b, <1>c DEF ClosesPool, BeginClose, CallPoints, CallSteps
    <2> QED
      BY <2>1
  <1>9. CASE Returned(t) \/ QueryReturned(t) \/ PoolClosed(t)
    <2>1. pc'[t] = "idle" /\ call'[t].at \in {"out", "again"}
      BY <1>9, <1>b DEF Returned, QueryReturned, PoolClosed, PoolUnchanged, poolVars
    <2> QED
      BY <2>1
  <1>10. CASE ParamQueryBumps(t)
    BY <1>10 DEF ParamQueryBumps, PoolUnchanged, poolVars
  <1>11. CASE ParamQuerySucceeds(t)
    <2>1. call'[t].at = "insert" /\ pc' = pc /\ pc[t] = "leased"
      BY <1>11, <1>b DEF ParamQuerySucceeds, PoolUnchanged, poolVars, CallSteps
    <2> QED
      BY <2>1
  <1>12. CASE CloseRows(t)
    <2>1. call'[t].at = "closeRows" /\ pc'[t] = "retLock"
      BY <1>12, <1>b, <1>c DEF CloseRows, Collect, CallSteps, CallPoints
    <2> QED
      BY <2>1
  <1>13. CASE RowsClosed(t)
    <2>1. call'[t].at = "return" /\ pc' = pc /\ pc[t] = "retLock"
      BY <1>13, <1>b DEF RowsClosed, PoolUnchanged, poolVars, CallSteps
    <2> QED
      BY <2>1
  <1> QED
    BY <1>1, <1>2, <1>3, <1>4, <1>5, <1>6, <1>7, <1>8, <1>9, <1>10, <1>11, <1>12, <1>13
    DEF Enter, Proceed

\* No step parts a call from the pool's method it is in.
LEMMA InStepStep ==
    ASSUME PoolInv, CallInv, InStep, [BridgeNext]_bridgeState
    PROVE  InStep'
  <1> SUFFICES ASSUME NEW s \in Threads
               PROVE  InStepOf(s)'
    BY DEF InStep
  <1>1. phase = "closed" => phase' = "closed"
    BY PoolStep, ClosedStays
  <1>2. CASE pc'[s] = pc[s] /\ call'[s] = call[s]
    BY <1>1, <1>2 DEF InStep, InStepOf
  <1>3. CASE UNCHANGED bridgeState \/ Preallocating \/ Replenishing \/ ReplenishingLock \/ World
    BY <1>2, <1>3, PoolMoves DEF bridgeState, bridgeVars, poolVars, Preallocating, Connecting,
       Replenishing, ReplenishingLock, World
  <1>4. ASSUME NEW t \in Threads,
               \/ \E fn \in Fns, h \in Live \cup retired : Call(t, fn, h)
               \/ Connect(t) \/ Enter(t) \/ InPoolLock(t) \/ Proceed(t) \/ QueryPanics(t)
        PROVE  InStepOf(s)'
    BY <1>2, <1>4, OthersStay, InStepMoves DEF InStep
  <1> QED
    BY <1>3, <1>4 DEF BridgeNext

\* The calls and the pool's methods stay in step.
LEMMA BridgeInStep == BridgeSpec => []InStep
  <1>1. BridgeInit => InStep
    BY DEF BridgeInit, PoolInit, NoCall, InStep, InStepOf
  <1>2. PoolInv /\ CallInv /\ InStep /\ [BridgeNext]_bridgeState => InStep'
    BY InStepStep
  <1> QED
    BY <1>1, <1>2, BridgePool, BridgeCalls, PTL DEF BridgeSpec

-----------------------------------------------------------------------------
(***************************************************************************)
(* Results.  Under safe use a handle is not given out twice, so that an    *)
(* entry changes only by being deleted: a call that looked an object up    *)
(* and removes it later removes that object or nothing.  What is left is   *)
(* that the connections out of the pool and the result handles grow and    *)
(* shrink together, and that a cursor outlives its result's handle only    *)
(* while GodbcCloseRows has it.                                            *)
(***************************************************************************)
EndingOf(t) ==
    call[t].h \in Live =>
        /\ call[t].at = "remove"  => /\ handles[call[t].h].kind \in {"tx", "stmt"}
                                     /\ call[t].fn \in EndingFns(handles[call[t].h].kind)
        /\ call[t].at = "closing" => handles[call[t].h].kind = "pool" /\ call[t].fn = "Close"

Ending == \A t \in Threads : EndingOf(t)

\* The live results: handle and connection.
Results == {<<h, handles[h].conn>> : h \in {g \in Live : handles[g].kind = "rows"}}

\* What GodbcCloseRows took out of the table and has not closed.
BeingClosed == {<<call[t].h, held[t]>> : t \in {s \in Threads : In(s, {"CloseRows"}, "closeRows")}}

Kept ==
    /\ out = {r[2] : r \in Results}
    /\ \A r, s \in Results : r[2] = s[2] => r = s
    /\ cursors \subseteq Results \cup BeingClosed

\* An insertion never lands on an entry that was given out before.
LEMMA ObjectsStay ==
    ASSUME TableInv, [HandlesNext]_tableVars
    PROVE  \A h \in Given : h \in Live' => h \in Live /\ handles'[h] = handles[h]
  <1> DEFINE Goal == \A h \in Given : h \in Live' => h \in Live /\ handles'[h] = handles[h]
  <1> USE DEF Live, Given
  <1>1. ASSUME NEW h, Delete(h)
        PROVE  Goal
    BY <1>1 DEF Delete, TableInv, StaleStaysInvalid
  <1>2. ASSUME NEW h, NEW obj, Put(h, obj), h \notin Given
        PROVE  Goal
    BY <1>2 DEF Put, TableInv, StaleStaysInvalid
  <1>3. nextID \notin Given /\ \A t \in Threads : hpc[t] = "rawWrite" => reg[t] \notin Given
    BY DEF TableInv, HandlesTypeOK, Unused
  <1>4. ASSUME NEW t \in Threads, LockedAccess(t)
        PROVE  Goal
    BY <1>1, <1>2, <1>3, <1>4 DEF LockedAccess, Lock, Unlock, ReleaseMu, UnlockInserting, Store,
       Insert, LockRemoving, UnlockRemoving, StoreAgain, RemoveHandle, TableInv, StaleStaysInvalid
  <1>5. ASSUME NEW t \in Threads, RawAccess(t)
        PROVE  Goal
    BY <1>2, <1>3, <1>5 DEF RawAccess, RawReadID, RawBumpID, RawWrite, RawLookupBegins,
       RawLookupEnds,
       TableInv, StaleStaysInvalid
  <1>6. CASE UNCHANGED tableVars
    BY <1>6 DEF tableVars, TableInv, StaleStaysInvalid
  <1> QED
    BY <1>4, <1>5, <1>6 DEF HandlesNext

\* A call begins to remove a handle in three steps only.
LEMMA EndsBegin ==
    ASSUME CallInv, [BridgeNext]_bridgeState, NEW s \in Threads
    PROVE  \/ call'[s] = call[s]
           \/ call'[s].at \notin {"remove", "closing"}
           \/ TxEnds(s) \/ ClosePrepared(s) \/ ClosesPool(s)
  <1> DEFINE Goal == \/ call'[s] = call[s]
                     \/ call'[s].at \notin {"remove", "closing"}
                     \/ TxEnds(s) \/ ClosePrepared(s) \/ ClosesPool(s)
  <1>1. CASE UNCHANGED bridgeState \/ Preallocating \/ Replenishing \/ ReplenishingLock \/ World
    BY <1>1 DEF bridgeState, bridgeVars, Preallocating, Replenishing, ReplenishingLock, World
  <1>2. ASSUME NEW t \in Threads,
               \/ \E fn \in Fns, h \in Live \cup retired : Call(t, fn, h)
               \/ Connect(t) \/ InPoolLock(t) \/ QueryPanics(t)
        PROVE  Goal
    <2>1. ASSUME NEW fn \in Fns, NEW h \in Live \cup retired, Call(t, fn, h)
          PROVE  Goal
      <3>1. call'[s] = IF s = t THEN [fn |-> fn, at |-> "called", h |-> h, att |-> 0] ELSE call[s]
        BY <2>1 DEF Call, CallInv
      <3> QED
        BY <3>1
    <2> QED
      BY <1>2, <2>1 DEF Connect, InPoolLock, QueryPanics
  <1>3. ASSUME NEW t \in Threads,
               \/ call' = call \/ Finish(t) \/ Again(t)
               \/ \E at \in CallSteps \ {"remove", "closing"} : To(t, at)
        PROVE  Goal
    BY <1>3 DEF CallInv, Finish, To, Again, NoCall
  <1>4. ASSUME NEW t \in Threads, TxEnds(t) \/ ClosePrepared(t) \/ ClosesPool(t)
        PROVE  Goal
    <2>1. s = t \/ call'[s] = call[s]
      BY <1>4 DEF TxEnds, ClosePrepared, ClosesPool, To, CallInv
    <2> QED
      BY <1>4, <2>1
  <1>5. ASSUME NEW t \in Threads,
               \/ Misdirected(t) \/ EnterUnlocked(t) \/ EnterLocked(t) \/ Reads(t) \/ CloseRows(t)
               \/ Begun(t) \/ Prepared(t) \/ ExecutePrepared(t) \/ TxFails(t)
               \/ HandleRemoved(t) \/ ClosesByRemoving(t) \/ Proceed(t)
        PROVE  Goal
    <2>1. \/ call' = call \/ Finish(t) \/ Again(t)
          \/ \E at \in CallSteps \ {"remove", "closing"} : To(t, at)
      BY <1>5 DEF Misdirected, EnterUnlocked, EnterLocked, Reads, CloseRows, Begun, Prepared,
         ExecutePrepared, TxFails, HandleRemoved, ClosesByRemoving, Proceed, InPool, GetFailed,
         GetAgain, Returned, Executed, StatementFails, QuerySucceeds, QueryFails, QueryReturned,
         ParamQuerySucceeds, ParamQueryBumps, ParamQueryInserts, ParamQueryFails, ReadsRow,
         ReadsEnd, RowsClosed,
         TxLookupBegins, TxLookupEnds, PoolClosed, CallSteps
    <2> QED
      BY <1>3, <2>1
  <1> QED
    BY <1>1, <1>2, <1>4, <1>5 DEF BridgeNext, Enter

\* A call that removes a handle still knows what the handle denotes.
LEMMA EndingStep ==
    ASSUME PoolInv, CallInv, TableInv, Ending, [BridgeNext]_bridgeState
    PROVE  Ending'
  <1> SUFFICES ASSUME NEW s \in Threads
               PROVE  EndingOf(s)'
    BY DEF Ending
  <1>1. \A h \in Given : h \in Live' => h \in Live /\ handles'[h] = handles[h]
    BY TableMoves, ObjectsStay
  <1>2. CASE call'[s] = call[s]
    <2>1. call[s].at = "out" \/ call[s].h \in Given
      BY DEF CallInv
    <2> QED
      BY <1>1, <1>2, <2>1 DEF Ending, EndingOf
  <1>3. CASE call'[s].at \notin {"remove", "closing"}
    BY <1>3 DEF EndingOf
  <1>4. CASE TxEnds(s) \/ ClosePrepared(s)
    <2>1. /\ handles' = handles /\ call'[s].at = "remove" /\ call'[s].h = call[s].h
          /\ call'[s].fn = call[s].fn /\ handles[call[s].h].kind \in {"tx", "stmt"}
          /\ call[s].fn \in EndingFns(handles[call[s].h].kind)
      BY <1>4 DEF TxEnds, ClosePrepared, To, In, Is, TableUnchanged, tableVars, CallInv, EndingFns
    <2> QED
      BY <2>1 DEF EndingOf, Live
  <1>5. CASE ClosesPool(s)
    <2>1. /\ handles' = handles /\ call'[s].at = "closing" /\ call'[s].h = call[s].h
          /\ call'[s].fn = call[s].fn /\ call[s].fn = "Close" /\ handles[call[s].h].kind = "pool"
      BY <1>5 DEF ClosesPool, To, In, Is, Lock, CallInv
    <2> QED
      BY <2>1 DEF EndingOf, Live
  <1> QED
    BY <1>2, <1>3, <1>4, <1>5, EndsBegin

\* How an insertion and a deletion change the live results.
LEMMA PutResults ==
    ASSUME NEW h, h \notin Live, NEW obj, Put(h, obj)
    PROVE  /\ obj.kind = "rows"  => Results' = Results \cup {<<h, obj.conn>>}
           /\ obj.kind # "rows" => Results' = Results
  <1>1. /\ Live' = Live \cup {h} /\ handles'[h] = obj
        /\ \A k \in Live : k # h /\ handles'[k] = handles[k]
    BY DEF Put, Live
  <1> QED
    BY <1>1 DEF Results

\* A removal takes at most the one result of its handle.
LEMMA DeleteResults ==
    ASSUME NEW h, Delete(h)
    PROVE  /\ Results' = {r \in Results : r[1] # h}
           /\ h \in Live /\ handles[h].kind # "rows" => Results' = Results
           /\ h \notin Live => Results' = Results
  <1>1. /\ Live' = Live \ {h}
        /\ \A k \in Live' : handles'[k] = handles[k]
    BY DEF Delete, Live
  <1> QED
    BY <1>1 DEF Results

\* A result that is being closed stays so until its rows are closed.
ClosingStays == \A cu \in BeingClosed : cu \in BeingClosed' \/ cu \notin cursors'

\* Only its own call goes on with it, and by closing the rows.
LEMMA ClosingStep ==
    ASSUME PoolInv, CallInv, InStep, [BridgeNext]_bridgeState
    PROVE  ClosingStays
  <1> SUFFICES ASSUME NEW s \in Threads, In(s, {"CloseRows"}, "closeRows"),
                      ~RowsClosed(s)
               PROVE  call'[s] = call[s] /\ held'[s] = held[s]
    BY DEF ClosingStays, BeingClosed, RowsClosed, CloseCursor, In
  <1>1. call[s].at = "closeRows" /\ pc[s] = "retLock"
    BY DEF In, InStep, InStepOf
  <1>2. CASE UNCHANGED bridgeState \/ Preallocating \/ Replenishing \/ ReplenishingLock \/ World
    BY <1>2, PoolMoves DEF bridgeState, bridgeVars, poolVars, Preallocating, Connecting,
       Replenishing, ReplenishingLock, World
  <1>3. ASSUME NEW t \in Threads, t # s,
               \/ \E fn \in Fns, h \in Live \cup retired : Call(t, fn, h)
               \/ Connect(t) \/ Enter(t) \/ InPoolLock(t) \/ Proceed(t) \/ QueryPanics(t)
        PROVE  call'[s] = call[s] /\ held'[s] = held[s]
    BY <1>3, OthersStay
  <1>4. CASE Connect(s)
    BY <1>4 DEF Connect, Connected
  <1>5. ~(\/ \E fn \in Fns, h \in Live \cup retired : Call(s, fn, h)
          \/ InPoolLock(s) \/ QueryPanics(s) \/ Enter(s))
    <2>1. ~\E fn \in Fns, h \in Live \cup retired : Call(s, fn, h)
      <3>1. call[s] # NoCall
        BY <1>1 DEF NoCall
      <3> QED
        BY <3>1 DEF Call
    <2>2. ~InPoolLock(s) /\ ~QueryPanics(s)
      BY <1>1 DEF InPoolLock, QueryPanics, In
    <2>3. ~Enter(s)
      BY <1>1 DEF Enter, Misdirected, EnterUnlocked, EnterLocked, Reads, CloseRows, Begun, Prepared,
         ExecutePrepared, TxEnds, TxFails, ClosePrepared, HandleRemoved, ClosesPool,
         ClosesByRemoving, In
    <2> QED
      BY <2>1, <2>2, <2>3
  <1>6. ~Proceed(s)
    <2>1. ~InPool(s)
      BY <1>1 DEF InPool, GetDial, GetDialOk, GetDialFails, GetGivesUp, ReplaceDial, ReplaceDialOk,
         ReplaceDialFails, ReplaceGivesUp, FillDial, FillDialOk, FillDialFails
    <2> QED
      BY <1>1, <2>1 DEF Proceed, GetFailed, GetAgain, Returned, Executed, StatementFails,
         QuerySucceeds, QueryFails, QueryReturned, ParamQuerySucceeds, ParamQueryBumps,
         ParamQueryInserts, ParamQueryFails, ReadsRow, ReadsEnd, TxLookupBegins, TxLookupEnds,
         PoolClosed, In
  <1> QED
    BY <1>2, <1>3, <1>4, <1>5, <1>6 DEF BridgeNext

\* What keeps the results, the cursors and the connections out together.
LEMMA NothingKept ==
    ASSUME Kept, ClosingStays, Results' = Results, out' = out, cursors' \subseteq cursors
    PROVE  Kept'
  BY DEF Kept, ClosingStays

\* A query adds a result on a connection that had none.
LEMMA ResultOpened ==
    ASSUME Kept, ClosingStays, NEW h, h \notin Live, NEW c, c \notin out,
           Put(h, Obj("rows", c)), out' = out \cup {c}, OpenCursor(h, c)
    PROVE  Kept'
  <1> DEFINE rows == <<h, c>>
  <1>1. Results' = Results \cup {rows} /\ cursors' = cursors \cup {rows}
    BY PutResults DEF Obj, OpenCursor
  <1>2. rows[1] = h /\ rows[2] = c
    OBVIOUS
  <1> HIDE DEF rows
  <1>3. \A r \in Results : r[2] # c
    BY DEF Kept
  <1> QED
    BY <1>1, <1>2, <1>3 DEF Kept, ClosingStays

\* The close of a result takes its handle and its connection away at once, and
\* leaves its cursor to the call.
LEMMA ResultClosed ==
    ASSUME Kept, ClosingStays, NEW h \in Live, handles[h].kind = "rows",
           Delete(h), out' = out \ {handles[h].conn}, cursors' = cursors,
           <<h, handles[h].conn>> \in BeingClosed'
    PROVE  Kept'
  <1>1. Results' = {r \in Results : r[1] # h}
    BY DeleteResults
  <1>2. <<h, handles[h].conn>> \in Results
    BY DEF Results
  <1>3. ASSUME NEW r \in Results
        PROVE  /\ r[1] = h <=> r[2] = handles[h].conn
               /\ r[1] = h => r = <<h, handles[h].conn>>
    <2>1. r[1] = h => r = <<h, handles[h].conn>>
      BY DEF Results
    <2>2. r[2] = handles[h].conn => r = <<h, handles[h].conn>>
      BY <1>2 DEF Kept
    <2> QED
      BY <2>1, <2>2
  <1>4. cursors' \subseteq Results' \cup BeingClosed'
    BY <1>1, <1>3 DEF Kept, ClosingStays
  <1> QED
    BY <1>1, <1>3, <1>4 DEF Kept

\* The pool lends and takes connections back elsewhere.
LEMMA OutStays ==
    /\ Connecting \/ ReplenishLock \/ ReplenishStep \/ Reap \/ PoolEnvironment => out' = out
    /\ \A t \in Threads :
          \/ BeginGet(t) \/ BeginClose(t) \/ Acquire(t) \/ GetDial(t) \/ ReportError(t)
          \/ ReplaceDial(t) \/ FillDial(t) \/ BeginReturn(t) \/ Drop(t) \/ Orphan(t)
          => out' = out
  <1>1. Connecting \/ ReplenishLock \/ ReplenishStep \/ Reap \/ PoolEnvironment => out' = out
    BY DEF Connecting, Preallocate, PreallocateFails, Connected, ReplenishLock, ReplenishStep,
       ReplenishDialOk, ReplenishDialFails, ReplenishGivesUp, Reap, PoolEnvironment, poolVars
  <1>2. ASSUME NEW t \in Threads,
               \/ BeginGet(t) \/ BeginClose(t) \/ Acquire(t) \/ GetDial(t) \/ ReportError(t)
               \/ ReplaceDial(t) \/ FillDial(t) \/ BeginReturn(t) \/ Drop(t) \/ Orphan(t)
        PROVE  out' = out
    BY <1>2 DEF BeginGet, BeginClose, Acquire, GetPooled, GetPooledDead, GetEmpty, ReturnDead,
       ReturnLive, ClosePool, GetDial, GetDialOk, GetDialFails, GetGivesUp, ReportError,
       ReplaceDial, ReplaceDialOk, ReplaceDialFails, ReplaceGivesUp, FillDial, FillDialOk,
       FillDialFails, BeginReturn, Drop, Orphan
  <1> QED
    BY <1>1, <1>2

\* No step leaves a connection out of the pool without its one result, or a
\* cursor without its result or the call that closes it.
LEMMA KeptStep ==
    ASSUME PoolInv, CallInv, TableInv, InStep, Ending, Kept, [BridgeNext]_bridgeState
    PROVE  Kept'
  <1>a. nextID \notin Live /\ \A t \in Threads : hpc[t] = "rawWrite" => reg[t] \notin Live
    BY DEF TableInv, HandlesTypeOK, Given, Unused
  <1>b. \A t \in Threads : pc[t] = "leased" => held[t] \in Conns /\ held[t] \notin out
    BY DEF PoolInv, Placed, Control, Holding, Exclusive, Held
  <1>c. handles' = handles => Results' = Results
    BY DEF Results, Live
  <1>d. ClosingStays
    BY ClosingStep
  <1>1. CASE \/ Preallocating \/ Replenishing \/ ReplenishingLock \/ World \/ UNCHANGED bridgeState
    BY <1>1, <1>c, <1>d, OutStays, NothingKept DEF Preallocating, Connecting, Replenishing,
       ReplenishingLock, World, Alive, TableUnchanged, tableVars, bridgeState, bridgeVars, poolVars
  <1>2. ASSUME NEW t \in Threads,
               \/ \E fn \in Fns, h \in Live \cup retired : Call(t, fn, h)
               \/ InPoolLock(t) \/ InPool(t) \/ EnterUnlocked(t) \/ EnterLocked(t)
               \/ GetAgain(t) \/ Executed(t) \/ StatementFails(t) \/ QueryFails(t)
               \/ ParamQueryFails(t) \/ ClosesPool(t) \/ GetFailed(t)
        PROVE  Kept'
    BY <1>2, <1>c, <1>d, OutStays, NothingKept DEF Call, InPoolLock, InPool, EnterUnlocked,
       EnterLocked,
       GetAgain, Executed, StatementFails, QueryFails, ParamQueryFails, ClosesPool, GetFailed,
       Alive, PoolUnchanged, poolVars, TableUnchanged, tableVars, UnlockIfHeld, Lock, Unlock
  <1>3. ASSUME NEW t \in Threads,
               \/ Misdirected(t) \/ Reads(t) \/ ExecutePrepared(t) \/ TxEnds(t) \/ TxFails(t)
               \/ ClosePrepared(t) \/ Returned(t) \/ QueryReturned(t) \/ QueryPanics(t)
               \/ ParamQuerySucceeds(t) \/ ParamQueryBumps(t) \/ ReadsRow(t) \/ ReadsEnd(t)
               \/ RowsClosed(t) \/ TxLookupBegins(t) \/ TxLookupEnds(t)
        PROVE  Kept'
    BY <1>3, <1>c, <1>d, NothingKept DEF Misdirected, Reads, ExecutePrepared, TxEnds, TxFails,
       ClosePrepared, Returned, QueryReturned, QueryPanics, ParamQuerySucceeds, ParamQueryBumps,
       ReadsRow, ReadsEnd, RowsClosed, CloseCursor, TxLookupBegins, TxLookupEnds, Alive,
       PoolUnchanged, poolVars,
       TableUnchanged, tableVars, UnlockIfHeld, Unlock, RawReadID, RawBumpID, RawLookupBegins,
       RawLookupEnds
  <1>4. ASSUME NEW t \in Threads, Connect(t) \/ Begun(t) \/ Prepared(t)
        PROVE  Kept'
    <2>1. PICK obj : obj.kind # "rows" /\ Put(nextID, obj)
      BY <1>4 DEF Connect, Begun, Prepared, Store, Insert, Obj
    <2>2. out' = out /\ cursors' = cursors
      BY <1>4, OutStays DEF Connect, Connecting, Begun, Prepared, Alive
    <2> QED
      BY <1>a, <1>d, <2>1, <2>2, PutResults, NothingKept
  <1>5. ASSUME NEW t \in Threads, QuerySucceeds(t) \/ ParamQueryInserts(t)
        PROVE  Kept'
    <2>1. PICK h : h \notin Live /\ Put(h, Obj("rows", held[t])) /\ OpenCursor(h, held[t])
      BY <1>5, <1>a DEF QuerySucceeds, ParamQueryInserts, UnlockInserting, Insert, RawWrite
    <2>2. held[t] \notin out /\ out' = out \cup {held[t]}
      BY <1>5, <1>b DEF QuerySucceeds, ParamQueryInserts, Handoff
    <2> QED
      BY <1>d, <2>1, <2>2, ResultOpened
  <1>6. ASSUME NEW t \in Threads, CloseRows(t)
        PROVE  Kept'
    <2> DEFINE h == call[t].h
               c == handles[h].conn
    <2>1. /\ h \in Live /\ handles[h].kind = "rows" /\ Delete(h)
          /\ out' = out \ {c} /\ cursors' = cursors /\ Hold(t, c)
      BY <1>6 DEF CloseRows, Is, LockRemoving, Collect, ConnOf, Alive
    <2>2. call'[t].fn = "CloseRows" /\ call'[t].at = "closeRows" /\ call'[t].h = h
      BY <1>6 DEF CloseRows, In, To, CallInv
    <2>3. held'[t] = c
      BY <2>1 DEF Hold, PoolInv, Placed
    <2>4. <<h, c>> \in BeingClosed'
      BY <2>2, <2>3 DEF BeingClosed, In
    <2> HIDE DEF h
    <2> QED
      BY <1>d, <2>1, <2>4, ResultClosed
  <1>7. ASSUME NEW t \in Threads, HandleRemoved(t) \/ ClosesByRemoving(t) \/ PoolClosed(t)
        PROVE  Kept'
    <2> DEFINE h == call[t].h
    <2>1. Delete(h) /\ out' = out /\ cursors' = cursors
      BY <1>7 DEF HandleRemoved, ClosesByRemoving, PoolClosed, RemoveHandle, UnlockRemoving,
         Alive, PoolUnchanged, poolVars
    <2>2. h \in Live => handles[h].kind # "rows"
      BY <1>7 DEF HandleRemoved, ClosesByRemoving, PoolClosed, Is, Ending, EndingOf
    <2> HIDE DEF h
    <2> QED
      BY <1>d, <2>1, <2>2, DeleteResults, NothingKept
  <1> QED
    BY <1>1, <1>2, <1>3, <1>4, <1>5, <1>6, <1>7 DEF BridgeNext, Enter, Proceed

\* Under safe use: the invariant of results.
LEMMA BridgeKept ==
    ASSUME SafeUse
    PROVE  BridgeSpec => [](TableInv /\ Ending /\ Kept)
  <1>1. BridgeInit => Ending /\ Kept
    BY DEF BridgeInit, PoolInit, HandlesInit, NoCall, Ending, EndingOf, Kept, Results, Live
  <1>2. /\ PoolInv /\ CallInv /\ TableInv /\ Ending /\ [BridgeNext]_bridgeState => Ending'
        /\ PoolInv /\ CallInv /\ TableInv /\ InStep /\ Ending /\ Kept /\ [BridgeNext]_bridgeState
              => Kept'
    BY EndingStep, KeptStep
  <1> QED
    BY <1>1, <1>2, BridgePool, BridgeCalls, BridgeInStep, BridgeUsesTable, TableInvariant, PTL
    DEF BridgeSpec

\* Each connection that is out belongs to one result a caller can close, and
\* each result has one: for any callers, limits and faults.
THEOREM BridgeResults ==
    ASSUME SafeUse
    PROVE  BridgeSpec => []ResultsReachable
  <1>1. Kept => ResultsReachable
    <2> SUFFICES ASSUME Kept
                 PROVE  ResultsReachable
      OBVIOUS
    <2>1. ConnsOf("rows") = {r[2] : r \in Results}
      <3>1. ASSUME NEW h \in Live, handles[h].kind = "rows"
            PROVE  <<h, handles[h].conn>> \in Results /\ <<h, handles[h].conn>>[2] = handles[h].conn
        BY <3>1 DEF Results
      <3>2. \A r \in Results : r[2] \in ConnsOf("rows")
        BY DEF ConnsOf, Results
      <3>3. \A c \in ConnsOf("rows") : \E r \in Results : c = r[2]
        BY <3>1 DEF ConnsOf
      <3> QED
        BY <3>2, <3>3
    <2>2. \A g, h \in Live : handles[g].kind = "rows" /\ handles[g] = handles[h] =>
             <<g, handles[g].conn>> \in Results /\ <<h, handles[g].conn>> \in Results
      BY DEF Results
    <2> QED
      BY <2>1, <2>2 DEF Kept, ResultsReachable
  <1> QED
    BY <1>1, BridgeKept, PTL

\* A cursor is open with its result's handle or with the call that closes it,
\* and on their connection, which the pool does not have.
THEOREM BridgeCursors ==
    ASSUME SafeUse
    PROVE  BridgeSpec => []CursorsOwned
  <1>1. TableInv /\ Kept => CursorsOwned
    <2> SUFFICES ASSUME TableInv, Kept, NEW cu \in cursors, cu \notin BeingClosed
                 PROVE  cu[1] \in Live /\ handles[cu[1]] = Obj("rows", cu[2])
      BY DEF CursorsOwned, BeingClosed
    <2>1. PICK h \in Live : handles[h].kind = "rows" /\ cu = <<h, handles[h].conn>>
      BY DEF Kept, Results
    <2>2. handles[h] \in BridgeObjects
      BY BridgeAssumption DEF TableInv, HandlesTypeOK
    <2>3. handles[h] = Obj("rows", handles[h].conn)
      BY <2>1, <2>2 DEF BridgeObjects, Obj
    <2> QED
      BY <2>1, <2>3
  <1> QED
    BY <1>1, BridgeKept, PTL

CrashedOK == crashed \in BOOLEAN

\* The variables of the exported functions keep their types.
THEOREM BridgeTypes ==
    ASSUME SafeUse
    PROVE  BridgeSpec => []BridgeTypeOK
  <1>1. BridgeInit => CrashedOK
    BY DEF BridgeInit, CrashedOK
  <1>2. CrashedOK /\ [BridgeNext]_bridgeState => CrashedOK'
    <2> SUFFICES ASSUME CrashedOK, [BridgeNext]_bridgeState
                 PROVE  CrashedOK'
      OBVIOUS
    <2>1. CASE UNCHANGED bridgeState \/ Preallocating \/ Replenishing \/ ReplenishingLock \/ World
      BY <2>1 DEF bridgeState, bridgeVars, Preallocating, Replenishing, ReplenishingLock, World,
         Alive, Running, CrashedOK
    <2>2. ASSUME NEW t \in Threads,
                 \/ \E fn \in Fns, h \in Live \cup retired : Call(t, fn, h)
                 \/ Connect(t) \/ InPoolLock(t) \/ QueryPanics(t)
          PROVE  CrashedOK'
      BY <2>2 DEF Call, Connect, InPoolLock, QueryPanics, Alive, Running, CrashedOK
    <2>3. ASSUME NEW t \in Threads, Enter(t) \/ Proceed(t)
          PROVE  CrashedOK'
      <3>1. Running
        BY <2>3 DEF Enter, Misdirected, EnterUnlocked, EnterLocked, Reads, CloseRows, Begun,
           Prepared,
           ExecutePrepared, TxEnds, TxFails, ClosePrepared, HandleRemoved, ClosesPool,
           ClosesByRemoving, Proceed, InPool, GetFailed, GetAgain, Returned, Executed,
           StatementFails, QuerySucceeds, QueryFails, QueryReturned, ParamQuerySucceeds,
           ParamQueryBumps, ParamQueryInserts, ParamQueryFails, ReadsRow, ReadsEnd, RowsClosed,
           TxLookupBegins,
           TxLookupEnds, PoolClosed, Alive
      <3> QED
        BY <3>1 DEF Running, CrashedOK
    <2> QED
      BY <2>1, <2>2, <2>3 DEF BridgeNext
  <1>3. PoolInv /\ CallInv /\ TableInv /\ InStep /\ Kept /\ CrashedOK => BridgeTypeOK
    <2> SUFFICES ASSUME PoolInv, CallInv, TableInv, InStep, Kept, CrashedOK
                 PROVE  BridgeTypeOK
      OBVIOUS
    <2>1. PoolTypeOK /\ HandlesTypeOK
      BY DEF PoolInv, Placed, Control, PoolTypeOK, TableInv
    <2>2. Given \subseteq Nat /\ Fns \subseteq AllFns
      BY BridgeAssumption DEF TableInv, HandlesTypeOK, Given
    <2>3. call \in [Threads -> [fn : AllFns \cup {"none"}, at : CallSteps,
                                h : Nat, att : {0} \cup 1..(RetryAttempts - 1)]]
      <3>1. Fns \cup {"none"} \subseteq AllFns \cup {"none"} /\ Given \cup {0} \subseteq Nat
        BY <2>2
      <3> QED
        BY <3>1 DEF CallInv
    <2>4. ASSUME NEW cu \in Results
          PROVE  cu \in Nat \X Conns
      <3>1. PICK h \in Live : handles[h].kind = "rows" /\ cu = <<h, handles[h].conn>>
        BY DEF Results
      <3>2. h \in Nat /\ handles[h] \in BridgeObjects
        BY BridgeAssumption DEF TableInv, HandlesTypeOK
      <3>3. handles[h].conn \in Conns
        BY <3>1, <3>2 DEF BridgeObjects, Obj
      <3> QED
        BY <3>1, <3>2, <3>3
    <2>5. ASSUME NEW cu \in BeingClosed
          PROVE  cu \in Nat \X Conns
      <3>1. PICK t \in Threads : call[t].at = "closeRows" /\ cu = <<call[t].h, held[t]>>
        BY DEF BeingClosed, In
      <3>2. call[t].h \in Nat /\ held[t] \in Conns
        BY <2>2, <3>1 DEF CallInv, InStep, InStepOf, PoolInv, Placed, Control, Holding
      <3> QED
        BY <3>1, <3>2
    <2>6. cursors \subseteq Nat \X Conns
      BY <2>4, <2>5 DEF Kept
    <2> QED
      BY <2>1, <2>3, <2>6 DEF BridgeTypeOK, CrashedOK
  <1> QED
    BY <1>1, <1>2, <1>3, BridgePool, BridgeCalls, BridgeInStep, BridgeKept, PTL DEF BridgeSpec

-----------------------------------------------------------------------------
(***************************************************************************)
(* The locks.  Four functions keep mu over several steps, and whoever has  *)
(* mu is in one of them, past the step that took it.                       *)
(***************************************************************************)
LongHolders == {"Query", "ExecuteWithParams", "CloseRows", "Close"}

HolderOf(t) ==
    mu = t => /\ call[t].fn \in LongHolders
              /\ call[t].at \in {"get", "again", "return", "returnErr", "closeRows", "closing"}

MuHeld == \A t \in Threads : HolderOf(t)

\* A step of a call leaves mu to the others and takes or frees its own.
LEMMA HolderMoves ==
    ASSUME CallInv, NEW t \in Threads, HolderOf(t), mu \in Threads \cup {"free"},
           \/ \E fn \in Fns, h \in Live \cup retired : Call(t, fn, h)
           \/ Connect(t) \/ Enter(t) \/ InPoolLock(t) \/ Proceed(t) \/ QueryPanics(t)
    PROVE  HolderOf(t)' /\ (mu' = mu \/ (mu' = t /\ mu = "free") \/ (mu' = "free" /\ mu = t))
  <1> DEFINE Goal == /\ HolderOf(t)'
                     /\ mu' = mu \/ (mu' = t /\ mu = "free") \/ (mu' = "free" /\ mu = t)
  <1> USE DEF HolderOf
  <1>a. DOMAIN call = Threads /\ "free" \notin Threads
    BY ThreadsAssumption DEF CallInv
  <1>b. /\ Finish(t) => call'[t] = NoCall
        /\ Again(t) => call'[t].fn = call[t].fn /\ call'[t].at = "again"
        /\ \A at \in CallSteps : To(t, at) => call'[t].fn = call[t].fn /\ call'[t].at = at
    BY <1>a DEF Finish, Again, To, CallInv
  <1>1. CASE \E fn \in Fns, h \in Live \cup retired : Call(t, fn, h)
    <2>1. mu' = mu /\ mu # t
      BY <1>1, <1>a DEF Call, NoCall, TableUnchanged, tableVars
    <2> QED
      BY <2>1
  <1>2. CASE Connect(t) \/ QueryPanics(t) \/ InPoolLock(t) \/ InPool(t)
    BY <1>2 DEF Connect, Store, QueryPanics, InPoolLock, InPool, TableUnchanged, tableVars
  <1>3. CASE \/ Misdirected(t) \/ EnterUnlocked(t) \/ Reads(t) \/ Begun(t) \/ Prepared(t)
             \/ ExecutePrepared(t) \/ TxEnds(t) \/ TxFails(t) \/ ClosePrepared(t)
             \/ HandleRemoved(t) \/ ClosesByRemoving(t)
    <2>1. mu' = mu /\ mu = "free"
      BY <1>3 DEF Misdirected, EnterUnlocked, Reads, Begun, Prepared, ExecutePrepared, TxEnds,
         TxFails, ClosePrepared, HandleRemoved, ClosesByRemoving, Store, RemoveHandle,
         TableUnchanged, tableVars
    <2> QED
      BY <2>1, <1>a
  <1>4. CASE EnterLocked(t) \/ CloseRows(t) \/ ClosesPool(t)
    <2>1. mu' = t /\ mu = "free" /\ call[t].fn \in LongHolders
      BY <1>4 DEF EnterLocked, CloseRows, ClosesPool, Lock, LockRemoving, In, LongHolders
    <2>2. call'[t].fn = call[t].fn /\ call'[t].at \in {"get", "closeRows", "closing"}
      BY <1>4, <1>b DEF EnterLocked, CloseRows, ClosesPool, CallSteps
    <2> QED
      BY <2>1, <2>2
  <1>5. CASE QuerySucceeds(t) \/ PoolClosed(t)
    <2>1. mu' = "free" /\ mu = t
      BY <1>5 DEF QuerySucceeds, PoolClosed, UnlockInserting, UnlockRemoving, ReleaseMu
    <2> QED
      BY <2>1, <1>a
  <1>6. CASE GetFailed(t) \/ Returned(t) \/ QueryReturned(t)
    <2>1. \/ mu' = "free" /\ mu = t
          \/ mu' = mu /\ mu # t
          \/ mu' = mu /\ call'[t].fn = call[t].fn /\ call'[t].at = "again"
      BY <1>6, <1>b DEF GetFailed, Returned, QueryReturned, UnlockIfHeld, Unlock, ReleaseMu,
         TableUnchanged, tableVars
    <2> QED
      BY <2>1, <1>a
  <1>7. CASE GetAgain(t) \/ Executed(t) \/ QueryFails(t) \/ RowsClosed(t)
    <2>1. mu' = mu /\ call'[t].fn = call[t].fn /\ call'[t].at \in {"get", "return", "returnErr"}
      BY <1>7, <1>b DEF GetAgain, Executed, QueryFails, RowsClosed, TableUnchanged, tableVars,
         CallSteps
    <2> QED
      BY <2>1
  <1>8. CASE \/ StatementFails(t) \/ ParamQuerySucceeds(t) \/ ParamQueryBumps(t)
             \/ ParamQueryInserts(t) \/ ParamQueryFails(t)
             \/ ReadsRow(t) \/ ReadsEnd(t) \/ TxLookupBegins(t) \/ TxLookupEnds(t)
    <2>1. mu' = mu
      BY <1>8 DEF StatementFails, ParamQuerySucceeds, ParamQueryBumps, ParamQueryInserts,
         ParamQueryFails, ReadsRow, ReadsEnd, TxLookupBegins, TxLookupEnds, RawReadID, RawBumpID,
         RawWrite, RawLookupBegins, RawLookupEnds, TableUnchanged, tableVars
    <2>2. call[t].fn \notin LongHolders \/ call[t].at \in {"insert", "reading", "lookup"}
      BY <1>8 DEF StatementFails, ParamQuerySucceeds, ParamQueryBumps, ParamQueryInserts,
         ParamQueryFails, ReadsRow, ReadsEnd, TxLookupBegins, TxLookupEnds, In,
         TxStatements, LongHolders
    <2> QED
      BY <2>1, <2>2
  <1> QED
    BY <1>1, <1>2, <1>3, <1>4, <1>5, <1>6, <1>7, <1>8 DEF Enter, Proceed

\* No step, of a call or of the pool alone, leaves mu with a thread past its use.
LEMMA MuHeldStep ==
    ASSUME PoolInv, CallInv, MuHeld, mu \in Threads \cup {"free"}, [BridgeNext]_bridgeState
    PROVE  MuHeld' /\ mu' \in Threads \cup {"free"}
  <1>1. CASE UNCHANGED bridgeState \/ Preallocating \/ Replenishing \/ ReplenishingLock \/ World
    BY <1>1 DEF bridgeState, bridgeVars, tableVars, Preallocating, Replenishing, ReplenishingLock,
       World, TableUnchanged, MuHeld, HolderOf
  <1>2. ASSUME NEW t \in Threads,
               \/ \E fn \in Fns, h \in Live \cup retired : Call(t, fn, h)
               \/ Connect(t) \/ Enter(t) \/ InPoolLock(t) \/ Proceed(t) \/ QueryPanics(t)
        PROVE  MuHeld' /\ mu' \in Threads \cup {"free"}
    <2>1. HolderOf(t)' /\ (mu' = mu \/ (mu' = t /\ mu = "free") \/ (mu' = "free" /\ mu = t))
      BY <1>2, HolderMoves DEF MuHeld
    <2>2. ASSUME NEW s \in Threads, s # t
          PROVE  HolderOf(s)'
      BY <1>2, <2>1, <2>2, OthersStay, ThreadsAssumption DEF MuHeld, HolderOf
    <2> QED
      BY <2>1, <2>2 DEF MuHeld
  <1> QED
    BY <1>1, <1>2 DEF BridgeNext

\* The order of the locks, for any callers: no thread waits for a lock it has,
\* none waits for mu with p.mu in its hands, and none leaves a call with either.
THEOREM BridgeLocks == BridgeSpec => []LocksInOrder
  <1>1. BridgeInit => MuHeld /\ mu \in Threads \cup {"free"}
    BY ThreadsAssumption DEF BridgeInit, HandlesInit, MuHeld, HolderOf
  <1>2. PoolInv /\ CallInv /\ MuHeld /\ mu \in Threads \cup {"free"} /\ [BridgeNext]_bridgeState
        => MuHeld' /\ (mu \in Threads \cup {"free"})'
    BY MuHeldStep
  <1>3. PoolInv /\ InStep /\ MuHeld => LocksInOrder
    <2> SUFFICES ASSUME PoolInv, InStep, MuHeld, NEW t \in Threads
                 PROVE  /\ WaitsForMu(t) => mu # t /\ pmu # t
                        /\ WaitsForPool(t) => pmu # t
                        /\ call[t] = NoCall => mu # t /\ pmu # t
      BY DEF LocksInOrder
    <2>1. pmu = t => pc[t] \in {"getDial", "retReplace", "retFill"}
      BY DEF PoolInv, Control, Dialling
    <2>2. HolderOf(t) /\ InStepOf(t)
      BY DEF MuHeld, InStep
    <2>3. WaitsForMu(t) => mu # t
      BY <2>2 DEF WaitsForMu, HolderOf, LongHolders, In
    <2>4. WaitsForMu(t) => pc[t] \in {"idle", "leased"}
      BY <2>2 DEF WaitsForMu, InStepOf
    <2>5. call[t] = NoCall => mu # t /\ pc[t] = "idle"
      BY <2>2 DEF NoCall, HolderOf, InStepOf
    <2> QED
      BY <2>1, <2>3, <2>4, <2>5 DEF WaitsForPool
  <1> QED
    BY <1>1, <1>2, <1>3, BridgePool, BridgeCalls, BridgeInStep, PTL DEF BridgeSpec
-----------------------------------------------------------------------------
\* Only a transaction or a statement orphans its connection.
LEMMA OrphansFrom ==
    ASSUME CallInv, Fns \cap {"BeginTransaction", "Prepare"} = {}, [BridgeNext]_bridgeState
    PROVE  orphaned' \subseteq orphaned
  <1> DEFINE Goal == orphaned' \subseteq orphaned
  <1>1. CASE \/ Preallocating \/ Replenishing \/ ReplenishingLock \/ World \/ UNCHANGED bridgeState
    BY <1>1 DEF Preallocating, Preallocate, PreallocateFails, Replenishing, ReplenishStep,
       ReplenishDialOk, ReplenishDialFails, ReplenishGivesUp, ReplenishingLock, ReplenishLock,
       World,
       PoolEnvironment, Reap, bridgeState, poolVars
  <1>2. ASSUME NEW t \in Threads,
               \/ \E fn \in Fns, h \in Live \cup retired : Call(t, fn, h)
               \/ Connect(t) \/ QueryPanics(t)
        PROVE  Goal
    BY <1>2 DEF Call, Connect, Connected, QueryPanics, PoolUnchanged, poolVars
  <1>3. ASSUME NEW t \in Threads, InPoolLock(t) \/ InPool(t)
        PROVE  Goal
    BY <1>3 DEF InPoolLock, Acquire, GetPooled, GetPooledDead, GetEmpty, ReturnDead, ReturnLive,
       ClosePool, InPool, GetDial, GetDialOk, GetDialFails, GetGivesUp, ReplaceDial, ReplaceDialOk,
       ReplaceDialFails, ReplaceGivesUp, FillDial, FillDialOk, FillDialFails
  <1>4. ASSUME NEW t \in Threads, Begun(t) \/ Prepared(t)
        PROVE  FALSE
    BY <1>4 DEF Begun, Prepared, In, CallInv
  <1>5. ASSUME NEW t \in Threads,
               \/ Misdirected(t) \/ EnterUnlocked(t) \/ EnterLocked(t) \/ Reads(t) \/ CloseRows(t)
               \/ ExecutePrepared(t) \/ TxEnds(t) \/ TxFails(t) \/ ClosePrepared(t)
               \/ HandleRemoved(t) \/ ClosesPool(t) \/ ClosesByRemoving(t)
        PROVE  Goal
    BY <1>5 DEF Misdirected, EnterUnlocked, EnterLocked, Reads, CloseRows, ExecutePrepared, TxEnds,
       TxFails, ClosePrepared, HandleRemoved, ClosesPool, ClosesByRemoving, BeginGet, BeginClose,
       Collect, PoolUnchanged, poolVars
  <1>6. ASSUME NEW t \in Threads, Proceed(t), ~InPool(t)
        PROVE  Goal
    BY <1>6 DEF Proceed, GetFailed, GetAgain, Returned, Executed, StatementFails, QuerySucceeds,
       QueryFails, QueryReturned, ParamQuerySucceeds, ParamQueryBumps, ParamQueryInserts,
       ParamQueryFails, ReadsRow, ReadsEnd, RowsClosed, TxLookupBegins, TxLookupEnds, PoolClosed,
       ReportError,
       BeginGet, BeginReturn, Drop, Handoff, PoolUnchanged, poolVars
  <1> QED
    BY <1>1, <1>2, <1>3, <1>4, <1>5, <1>6 DEF BridgeNext, Enter

-----------------------------------------------------------------------------
(***************************************************************************)
(* What takes a handle away.  Four steps do, each that of its own call,    *)
(* and under safe use the call still means the object it looked up.        *)
(***************************************************************************)

\* A handle goes in a step of the call that has it.
LEMMA Removes ==
    ASSUME [BridgeNext]_bridgeState, NEW h \in Live, h \notin Live'
    PROVE  \E t \in Threads :
              /\ call[t].h = h
              /\ CloseRows(t) \/ HandleRemoved(t) \/ PoolClosed(t) \/ ClosesByRemoving(t)
  <1> USE DEF Live
  <1>1. ASSUME handles' = handles \/ \E g, obj : Put(g, obj)
        PROVE  FALSE
    BY <1>1 DEF Put
  <1>2. ~(Preallocating \/ Replenishing \/ ReplenishingLock \/ World \/ UNCHANGED bridgeState)
    BY <1>1 DEF Preallocating, Replenishing, ReplenishingLock, World, TableUnchanged,
       bridgeState, tableVars
  <1>3. ASSUME NEW t \in Threads,
               \/ \E fn \in Fns, k \in Live \cup retired : Call(t, fn, k)
               \/ InPoolLock(t) \/ QueryPanics(t)
        PROVE  FALSE
    BY <1>1, <1>3 DEF Call, InPoolLock, QueryPanics, TableUnchanged, tableVars
  <1>4. ASSUME NEW t \in Threads,
               \/ Connect(t) \/ QuerySucceeds(t) \/ ParamQueryInserts(t) \/ Begun(t) \/ Prepared(t)
        PROVE  FALSE
    BY <1>1, <1>4 DEF Connect, QuerySucceeds, ParamQueryInserts, Begun, Prepared, Store,
       UnlockInserting, Insert, RawWrite
  <1>5. ASSUME NEW t \in Threads,
               CloseRows(t) \/ HandleRemoved(t) \/ PoolClosed(t) \/ ClosesByRemoving(t)
        PROVE  call[t].h = h
    BY <1>5 DEF CloseRows, HandleRemoved, PoolClosed, ClosesByRemoving, LockRemoving,
       UnlockRemoving, RemoveHandle, Delete
  <1>6. ASSUME NEW t \in Threads,
               \/ Misdirected(t) \/ EnterUnlocked(t) \/ EnterLocked(t) \/ Reads(t)
               \/ ExecutePrepared(t) \/ TxEnds(t) \/ TxFails(t) \/ ClosePrepared(t) \/ ClosesPool(t)
               \/ InPool(t) \/ GetFailed(t) \/ GetAgain(t) \/ Returned(t)
               \/ Executed(t) \/ StatementFails(t) \/ QueryFails(t) \/ QueryReturned(t)
               \/ ParamQuerySucceeds(t) \/ ParamQueryBumps(t) \/ ParamQueryFails(t)
               \/ ReadsRow(t) \/ ReadsEnd(t) \/ RowsClosed(t)
               \/ TxLookupBegins(t) \/ TxLookupEnds(t)
        PROVE  FALSE
    BY <1>1, <1>6 DEF Misdirected, EnterUnlocked, EnterLocked, Reads, ExecutePrepared, TxEnds,
       TxFails, ClosePrepared, ClosesPool, InPool, GetFailed, GetAgain, Returned, Executed,
       StatementFails, QueryFails, QueryReturned, ParamQuerySucceeds, ParamQueryBumps,
       ParamQueryFails, ReadsRow, ReadsEnd, RowsClosed, TxLookupBegins, TxLookupEnds,
       TableUnchanged, tableVars, UnlockIfHeld, Unlock, Lock, RawReadID, RawBumpID,
       RawLookupBegins, RawLookupEnds
  <1> QED
    BY <1>2, <1>3, <1>4, <1>5, <1>6 DEF BridgeNext, Enter, Proceed

\* The call whose step it is asked for it.
LEMMA RemovesAsAsked ==
    ASSUME InStep, Ending, [BridgeNext]_bridgeState, NEW h \in Live, h \notin Live'
    PROVE  \E t \in Threads :
              /\ call[t].h = h /\ call[t].fn \in EndingFns(handles[h].kind)
              /\ handles[h].kind = "pool" =>
                    phase = "closed" \/ In(t, {"ReturnConnection"}, "called")
  <1>1. PICK t \in Threads :
              /\ call[t].h = h
              /\ CloseRows(t) \/ HandleRemoved(t) \/ PoolClosed(t) \/ ClosesByRemoving(t)
    BY Removes
  <1>2. CASE CloseRows(t)
    BY <1>1, <1>2 DEF CloseRows, In, Is, EndingFns
  <1>3. CASE HandleRemoved(t)
    BY <1>1, <1>3 DEF HandleRemoved, Ending, EndingOf
  <1>4. CASE PoolClosed(t)
    BY <1>1, <1>4 DEF PoolClosed, InStep, InStepOf, Ending, EndingOf, EndingFns
  <1>5. CASE ClosesByRemoving(t)
    BY <1>1, <1>5 DEF ClosesByRemoving, In, Is, EndingFns
  <1> QED
    BY <1>1, <1>2, <1>3, <1>4, <1>5

\* No call takes the handle of another object away, however late its removal
\* comes: for any callers, and any use that is safe.
THEOREM BridgeEndsAsAsked ==
    ASSUME SafeUse
    PROVE  BridgeSpec => EndedAsAsked
  <1>1. InStep /\ Ending /\ [BridgeNext]_bridgeState =>
           \A h \in Live : h \notin Live' =>
              \E t \in Threads : call[t].h = h /\ call[t].fn \in EndingFns(handles[h].kind)
    BY RemovesAsAsked
  <1>2. BridgeSpec => [][ \A h \in Live : h \notin Live' =>
              \E t \in Threads : call[t].h = h /\ call[t].fn \in EndingFns(handles[h].kind)
           ]_bridgeState
    BY <1>1, BridgeInStep, BridgeKept, PTL DEF BridgeSpec
  <1> QED
    BY <1>2 DEF EndedAsAsked

-----------------------------------------------------------------------------
(* The pool's own handle. *)

Reach == phase = "open" => HasPool

\* A pool is opened by GodbcConnect.
LEMMA PoolOpens ==
    ASSUME [BridgeNext]_bridgeState, phase # "open", phase' = "open"
    PROVE  \E t \in Threads : Connect(t)
  <1>1. CASE \/ Preallocating \/ Replenishing \/ ReplenishingLock \/ World \/ UNCHANGED bridgeState
    BY <1>1 DEF Preallocating, Preallocate, PreallocateFails, Replenishing, ReplenishStep,
       ReplenishDialOk, ReplenishDialFails, ReplenishGivesUp, ReplenishingLock, ReplenishLock,
       World,
       PoolEnvironment, Reap, bridgeState, poolVars
  <1>2. ASSUME NEW t \in Threads,
               (\E fn \in Fns, h \in Live \cup retired : Call(t, fn, h)) \/ QueryPanics(t)
        PROVE  FALSE
    BY <1>2 DEF Call, QueryPanics, PoolUnchanged, poolVars
  <1>3. ASSUME NEW t \in Threads, InPoolLock(t) \/ InPool(t)
        PROVE  FALSE
    BY <1>3 DEF InPoolLock, Acquire, GetPooled, GetPooledDead, GetEmpty, ReturnDead, ReturnLive,
       ClosePool, InPool, GetDial, GetDialOk, GetDialFails, GetGivesUp, ReplaceDial, ReplaceDialOk,
       ReplaceDialFails, ReplaceGivesUp, FillDial, FillDialOk, FillDialFails
  <1>4. ASSUME NEW t \in Threads, Enter(t)
        PROVE  FALSE
    BY <1>4 DEF Enter, Misdirected, EnterUnlocked, EnterLocked, Reads, CloseRows, Begun, Prepared,
       ExecutePrepared, TxEnds, TxFails, ClosePrepared, HandleRemoved, ClosesPool, ClosesByRemoving,
       BeginGet, BeginClose, Collect, Orphan, PoolUnchanged, poolVars
  <1>5. ASSUME NEW t \in Threads, Proceed(t), ~InPool(t)
        PROVE  FALSE
    BY <1>5 DEF Proceed, GetFailed, GetAgain, Returned, Executed, StatementFails, QuerySucceeds,
       QueryFails, QueryReturned, ParamQuerySucceeds, ParamQueryBumps, ParamQueryInserts,
       ParamQueryFails, ReadsRow, ReadsEnd, RowsClosed, TxLookupBegins, TxLookupEnds, PoolClosed,
       ReportError,
       BeginGet, BeginReturn, Drop, Handoff, PoolUnchanged, poolVars
  <1> QED
    BY <1>1, <1>2, <1>3, <1>4, <1>5 DEF BridgeNext

\* Without godbc_return_connection no step leaves an open pool unreachable.
LEMMA ReachStep ==
    ASSUME PoolInv, TableInv, CallInv, InStep, Ending, Reach, "ReturnConnection" \notin Fns,
           [BridgeNext]_bridgeState
    PROVE  Reach'
  <1> SUFFICES ASSUME phase' = "open"
               PROVE  \E h \in Live' : handles'[h].kind = "pool"
    BY DEF Reach, HasPool
  <1>1. CASE phase = "open"
    <2>1. PICK h \in Live : handles[h].kind = "pool"
      BY <1>1 DEF Reach, HasPool
    <2>2. h \in Live'
      BY <1>1, <2>1, RemovesAsAsked DEF In, CallInv
    <2>3. handles'[h] = handles[h]
      BY <2>2, TableMoves, ObjectsStay DEF Given
    <2> QED
      BY <2>1, <2>2, <2>3
  <1>2. CASE phase # "open"
    <2>1. PICK t \in Threads : Connect(t)
      BY <1>2, PoolOpens
    <2>2. Put(nextID, Obj("pool", NoConn))
      BY <2>1 DEF Connect, Store, Insert
    <2> QED
      BY <2>2 DEF Put, Obj, Live
  <1> QED
    BY <1>1, <1>2

(* What leaks: a pool that is closed or was never opened keeps nothing idle, *)
(* orphans come from transactions and statements, and the rest is pooled.    *)
Leaks ==
    /\ Fns \cap {"BeginTransaction", "Prepare"} = {} => orphaned = {}
    /\ "ReturnConnection" \notin Fns => Reach

\* Between calls, every open connection that no caller can reach is of one of
\* three kinds: that of a transaction or statement that was forgotten, of a pool
\* whose handle GodbcReturnConnection removed, or it came back to a closed pool.
THEOREM BridgeKnownLeaks ==
    ASSUME SafeUse
    PROVE  BridgeSpec => []OnlyKnownLeaks
  <1>1. BridgeInit => Leaks
    BY DEF BridgeInit, PoolInit, Leaks, Reach
  <1>2. PoolInv /\ CallInv /\ TableInv /\ InStep /\ Ending /\ Leaks /\ [BridgeNext]_bridgeState
           => Leaks'
    BY OrphansFrom, ReachStep DEF Leaks
  <1>3. PoolInv /\ InStep /\ Kept /\ Shut /\ Leaks => OnlyKnownLeaks
    <2> SUFFICES ASSUME PoolInv, InStep, Kept, Shut, Leaks, Outside, phase # "connecting",
                        NEW c \in open \ Reachable
                 PROVE  \/ c \in orphaned /\ Fns \cap {"BeginTransaction", "Prepare"} # {}
                        \/ c \in Pooled \cup free /\ phase = "open" /\ "ReturnConnection" \in Fns
                        \/ c \in Pooled /\ phase = "closed"
      BY DEF OnlyKnownLeaks
    <2>1. \A t \in Threads : pc[t] = "idle"
      BY DEF Outside, NoCall, InStep, InStepOf
    <2>2. \A t \in Threads : held[t] = NoConn
      BY <2>1 DEF PoolInv, Control, Holding
    <2>3. Held = {}
      BY <2>2 DEF Held
    <2>4. c \notin out
      <3>1. ASSUME NEW r \in Results
            PROVE  r[2] \in ConnsOf("rows")
        BY DEF ConnsOf, Results
      <3> QED
        BY <3>1 DEF Kept, Reachable
    <2>5. c \in Pooled \cup free \cup orphaned
      BY <2>3, <2>4 DEF PoolInv, Placed, Accounted
    <2>6. c \in orphaned => Fns \cap {"BeginTransaction", "Prepare"} # {}
      BY DEF Leaks
    <2>7. c \in Pooled \cup free => ~HasPool
      BY DEF Reachable
    <2>8. phase \in {"open", "closed", "failed"}
      BY DEF PoolInv, Control
    <2> QED
      BY <2>5, <2>6, <2>7, <2>8 DEF Leaks, Reach, Shut
  <1>4. BridgeSpec => []Shut
    BY BridgeUsesPool, PoolEnds, PTL DEF UsesPool
  <1> QED
    BY <1>1, <1>2, <1>3, <1>4, BridgeCalls, BridgePool, BridgeInStep, BridgeKept, PTL DEF BridgeSpec

-----------------------------------------------------------------------------
(***************************************************************************)
(* A pool that was forgotten.  The call that closes a pool has mu from its *)
(* lookup to the removal of the handle, so that the handle is in the table *)
(* for as long as the call may yet tear the pool down.                     *)
(***************************************************************************)
CloserOf(t) == call[t].at = "closing" => mu = t /\ call[t].h \in Live

Closers == \A t \in Threads : CloserOf(t)

\* What a call that closes a pool does until it is done.
LEMMA CloserMoves ==
    ASSUME CallInv, NEW t \in Threads, call[t].at = "closing", mu = t,
           \/ \E fn \in Fns, h \in Live \cup retired : Call(t, fn, h)
           \/ Connect(t) \/ Enter(t) \/ InPoolLock(t) \/ Proceed(t) \/ QueryPanics(t)
    PROVE  PoolClosed(t) \/ UNCHANGED tableVars
  <1>1. ~\E fn \in Fns, h \in Live \cup retired : Call(t, fn, h)
    <2>1. call[t] # NoCall
      BY DEF NoCall
    <2> QED
      BY <2>1 DEF Call
  <1>2. ~Connect(t)
    BY ThreadsAssumption DEF Connect, Store
  <1>3. ~Enter(t)
    BY DEF Enter, Misdirected, EnterUnlocked, EnterLocked, Reads, CloseRows, Begun, Prepared,
       ExecutePrepared, TxEnds, TxFails, ClosePrepared, HandleRemoved, ClosesPool,
       ClosesByRemoving, In
  <1>4. InPoolLock(t) \/ QueryPanics(t) \/ InPool(t) => UNCHANGED tableVars
    BY DEF InPoolLock, QueryPanics, InPool, TableUnchanged
  <1>5. Proceed(t) => InPool(t) \/ PoolClosed(t)
    BY DEF Proceed, GetFailed, GetAgain, Returned, Executed, StatementFails,
       QuerySucceeds, QueryFails, QueryReturned, ParamQuerySucceeds, ParamQueryBumps,
       ParamQueryInserts, ParamQueryFails, ReadsRow, ReadsEnd, RowsClosed, TxLookupBegins,
       TxLookupEnds, In
  <1> QED
    BY <1>1, <1>2, <1>3, <1>4, <1>5

\* Nobody takes mu or the handle from it.
LEMMA ClosersStep ==
    ASSUME PoolInv, CallInv, MuHeld, mu \in Threads \cup {"free"}, Closers,
           [BridgeNext]_bridgeState
    PROVE  Closers'
  <1> SUFFICES ASSUME NEW s \in Threads, call'[s].at = "closing"
               PROVE  mu' = s /\ call'[s].h \in Live'
    BY DEF Closers, CloserOf
  <1>1. CASE ClosesPool(s)
    <2>1. /\ handles' = handles /\ mu' = s /\ call'[s].h = call[s].h /\ call[s].h \in Live
      BY <1>1 DEF ClosesPool, To, Is, Lock, CallInv
    <2> QED
      BY <2>1 DEF Live
  <1>2. CASE call'[s] = call[s]
    <2>1. mu = s /\ call[s].h \in Live
      BY <1>2 DEF Closers, CloserOf
    <2>2. CASE UNCHANGED bridgeState \/ Preallocating \/ Replenishing \/ ReplenishingLock \/ World
      BY <1>2, <2>1, <2>2 DEF bridgeState, tableVars, Preallocating, Replenishing,
         ReplenishingLock, World, TableUnchanged, Live
    <2>3. ASSUME NEW t \in Threads, t # s,
                 \/ \E fn \in Fns, h \in Live \cup retired : Call(t, fn, h)
                 \/ Connect(t) \/ Enter(t) \/ InPoolLock(t) \/ Proceed(t) \/ QueryPanics(t)
          PROVE  mu' = mu
      BY <2>1, <2>3, HolderMoves, ThreadsAssumption DEF MuHeld
    <2>4. CASE \/ \E fn \in Fns, h \in Live \cup retired : Call(s, fn, h)
               \/ Connect(s) \/ Enter(s) \/ InPoolLock(s) \/ Proceed(s) \/ QueryPanics(s)
      <3>1. ~PoolClosed(s)
        <4>1. Finish(s) => call'[s].at = "out"
          BY DEF Finish, NoCall, CallInv
        <4> QED
          BY <4>1 DEF PoolClosed
      <3> QED
        BY <1>2, <2>1, <2>4, <3>1, CloserMoves DEF tableVars, Live
    <2>5. mu' = s
      BY <2>1, <2>2, <2>3, <2>4 DEF BridgeNext
    <2>6. call[s].h \in Live'
      <3> SUFFICES ASSUME call[s].h \notin Live'
                   PROVE  FALSE
        OBVIOUS
      <3>1. PICK t \in Threads :
                CloseRows(t) \/ HandleRemoved(t) \/ PoolClosed(t) \/ ClosesByRemoving(t)
        BY <2>1, Removes
      <3>2. mu = "free" \/ mu' = "free"
        BY <3>1 DEF CloseRows, HandleRemoved, PoolClosed, ClosesByRemoving, LockRemoving,
           RemoveHandle, UnlockRemoving, ReleaseMu
      <3> QED
        BY <2>1, <2>5, <3>2, ThreadsAssumption
    <2> QED
      BY <1>2, <2>5, <2>6
  <1>3. ~TxEnds(s) /\ ~ClosePrepared(s)
    <2>1. To(s, "remove") => call'[s].at = "remove"
      BY DEF To, CallInv
    <2> QED
      BY <2>1 DEF TxEnds, ClosePrepared
  <1> QED
    BY <1>1, <1>2, <1>3, EndsBegin

\* An open pool ends only in ClosePool.
LEMMA OpenEnds ==
    ASSUME [PoolNext]_poolState, phase = "open", phase' # "open"
    PROVE  \E t \in Threads : pc[t] = "closeLock"
  <1>1. ~Connecting
    BY DEF Connecting, Preallocate, PreallocateFails, Connected
  <1>2. ASSUME NEW t \in Threads, Start(t) \/ Continue(t)
        PROVE  FALSE
    BY <1>2 DEF Start, BeginGet, BeginClose, Collect, Continue, GetDial, GetDialOk, GetDialFails,
       GetGivesUp, ReportError, ReplaceDial, ReplaceDialOk, ReplaceDialFails, ReplaceGivesUp,
       FillDial, FillDialOk, FillDialFails, LeaseEnds, BeginReturn, Drop, Handoff, Orphan
  <1>3. ASSUME NEW t \in Threads, Acquire(t)
        PROVE  pc[t] = "closeLock"
    BY <1>3 DEF Acquire, GetPooled, GetPooledDead, GetEmpty, ReturnDead, ReturnLive, ClosePool
  <1>4. ~(ReplenishLock \/ ReplenishStep \/ Reap \/ PoolEnvironment \/ UNCHANGED poolState)
    BY DEF ReplenishLock, ReplenishStep, ReplenishDialOk, ReplenishDialFails, ReplenishGivesUp,
       Reap, PoolEnvironment, poolState, poolVars
  <1> QED
    BY <1>1, <1>2, <1>3, <1>4 DEF PoolNext

\* Only GodbcConnect makes a handle of a pool.
LEMMA PoolHandleComes ==
    ASSUME PoolInv, CallInv, TableInv, [BridgeNext]_bridgeState, ~HasPool, HasPool'
    PROVE  phase = "connecting"
  <1>1. PICK h \in Live' : handles'[h].kind = "pool"
    BY DEF HasPool
  <1>2. h \notin Given
    BY <1>1, TableMoves, ObjectsStay DEF HasPool
  <1>3. h \notin Live
    BY <1>2 DEF Given
  <1>4. ASSUME \/ handles' = handles
               \/ \E g : Delete(g)
               \/ \E g, obj : Put(g, obj) /\ obj.kind # "pool"
        PROVE  FALSE
    BY <1>1, <1>3, <1>4 DEF Delete, Put, Live
  <1>5. ~(Preallocating \/ Replenishing \/ ReplenishingLock \/ World \/ UNCHANGED bridgeState)
    BY <1>4 DEF Preallocating, Replenishing, ReplenishingLock, World, TableUnchanged,
       bridgeState, tableVars
  <1>6. ASSUME NEW t \in Threads,
               \/ \E fn \in Fns, k \in Live \cup retired : Call(t, fn, k)
               \/ InPoolLock(t) \/ QueryPanics(t)
        PROVE  FALSE
    BY <1>4, <1>6 DEF Call, InPoolLock, QueryPanics, TableUnchanged, tableVars
  <1>7. ASSUME NEW t \in Threads,
               QuerySucceeds(t) \/ ParamQueryInserts(t) \/ Begun(t) \/ Prepared(t)
        PROVE  FALSE
    BY <1>4, <1>7 DEF QuerySucceeds, ParamQueryInserts, Begun, Prepared, Store,
       UnlockInserting, Insert, RawWrite, Obj
  <1>8. ASSUME NEW t \in Threads,
               CloseRows(t) \/ HandleRemoved(t) \/ PoolClosed(t) \/ ClosesByRemoving(t)
        PROVE  FALSE
    BY <1>4, <1>8 DEF CloseRows, HandleRemoved, PoolClosed, ClosesByRemoving, LockRemoving,
       UnlockRemoving, RemoveHandle
  <1>9. ASSUME NEW t \in Threads,
               \/ Misdirected(t) \/ EnterUnlocked(t) \/ EnterLocked(t) \/ Reads(t)
               \/ ExecutePrepared(t) \/ TxEnds(t) \/ TxFails(t) \/ ClosePrepared(t) \/ ClosesPool(t)
               \/ InPool(t) \/ GetFailed(t) \/ GetAgain(t) \/ Returned(t)
               \/ Executed(t) \/ StatementFails(t) \/ QueryFails(t) \/ QueryReturned(t)
               \/ ParamQuerySucceeds(t) \/ ParamQueryBumps(t) \/ ParamQueryFails(t)
               \/ ReadsRow(t) \/ ReadsEnd(t) \/ RowsClosed(t)
               \/ TxLookupBegins(t) \/ TxLookupEnds(t)
        PROVE  FALSE
    BY <1>4, <1>9 DEF Misdirected, EnterUnlocked, EnterLocked, Reads, ExecutePrepared, TxEnds,
       TxFails, ClosePrepared, ClosesPool, InPool, GetFailed, GetAgain, Returned, Executed,
       StatementFails, QueryFails, QueryReturned, ParamQuerySucceeds, ParamQueryBumps,
       ParamQueryFails, ReadsRow, ReadsEnd, RowsClosed, TxLookupBegins, TxLookupEnds,
       TableUnchanged, tableVars, UnlockIfHeld, Unlock, Lock, RawReadID, RawBumpID,
       RawLookupBegins, RawLookupEnds
  <1>10. ASSUME NEW t \in Threads, Connect(t)
         PROVE  phase = "connecting"
    BY <1>10 DEF Connect, Connected
  <1> QED
    BY <1>5, <1>6, <1>7, <1>8, <1>9, <1>10 DEF BridgeNext, Enter, Proceed

Forgets ==
    /\ HasPool /\ ~HasPool' /\ phase' = "open" =>
          \E t \in Threads : In(t, {"ReturnConnection"}, "called")
    /\ phase = "open" /\ ~HasPool => phase' = "open" /\ ~HasPool'

\* An open pool loses its handle to GodbcReturnConnection alone; and then it is
\* never closed, whatever other calls were under way.
THEOREM BridgeForgetsPool ==
    ASSUME SafeUse
    PROVE  BridgeSpec => PoolForgotten
  <1> DEFINE MuOK == mu \in Threads \cup {"free"}
  <1>1. BridgeInit => MuHeld /\ MuOK /\ Closers
    BY ThreadsAssumption DEF BridgeInit, HandlesInit, NoCall, MuHeld, HolderOf, Closers, CloserOf
  <1>2. /\ PoolInv /\ CallInv /\ MuHeld /\ MuOK /\ [BridgeNext]_bridgeState => MuHeld' /\ MuOK'
        /\ PoolInv /\ CallInv /\ MuHeld /\ MuOK /\ Closers /\ [BridgeNext]_bridgeState => Closers'
    BY MuHeldStep, ClosersStep
  <1>3. PoolInv /\ CallInv /\ TableInv /\ InStep /\ Ending /\ Closers /\ [BridgeNext]_bridgeState
           => Forgets
    <2> SUFFICES ASSUME PoolInv, CallInv, TableInv, InStep, Ending, Closers,
                        [BridgeNext]_bridgeState
                 PROVE  Forgets
      OBVIOUS
    <2>1. ASSUME HasPool, ~HasPool', phase' = "open"
          PROVE  \E t \in Threads : In(t, {"ReturnConnection"}, "called")
      <3>1. PICK h \in Live : handles[h].kind = "pool"
        BY <2>1 DEF HasPool
      <3>2. h \notin Live'
        BY <2>1, <3>1, TableMoves, ObjectsStay DEF HasPool, Given
      <3>3. phase # "closed"
        BY <2>1, PoolStep, ClosedStays
      <3> QED
        BY <3>1, <3>2, <3>3, RemovesAsAsked
    <2>2. ASSUME phase = "open", ~HasPool
          PROVE  phase' = "open" /\ ~HasPool'
      <3>1. \A t \in Threads : pc[t] # "closeLock"
        BY <2>2 DEF InStep, InStepOf, Closers, CloserOf, Ending, EndingOf, HasPool
      <3>2. phase' = "open"
        BY <2>2, <3>1, PoolStep, OpenEnds
      <3>3. ~HasPool'
        BY <2>2, PoolHandleComes
      <3> QED
        BY <3>2, <3>3
    <2> QED
      BY <2>1, <2>2 DEF Forgets
  <1>4. BridgeSpec => [][Forgets]_bridgeState
    BY <1>1, <1>2, <1>3, BridgePool, BridgeCalls, BridgeInStep, BridgeKept, PTL DEF BridgeSpec
  <1> QED
    BY <1>4 DEF Forgets, PoolForgotten
=============================================================================
