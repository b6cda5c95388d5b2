----------------------------- MODULE GodbcPool -----------------------------
(***************************************************************************)
(* The connection pool of bridge/bridge.go: type Pool and its methods      *)
(* preallocateConnections, getConnectionWithRetry and returnConnection,    *)
(* the goroutine the second one starts to replenish the pool, and the part *)
(* of GodbcClose that tears a pool down.                                   *)
(*                                                                         *)
(* Threads are the callers of the exported functions.  What a caller does  *)
(* with a connection it got is left open here (LeaseEnds); GodbcBridge     *)
(* says which function does what.  Every step between two acquisitions of  *)
(* p.mu that touches sql.DB once is one action; a step that dials keeps    *)
(* p.mu, and other threads run meanwhile.                                  *)
(***************************************************************************)
EXTENDS SqlDB, Callers, SequencesExt

CONSTANTS Uses,        \* what callers may do besides getting and returning
          MaxSpawned   \* bound: replenishing goroutines alive at a time

ASSUME UsesAssumption ==
    /\ Uses \subseteq {"drop", "handoff", "orphan", "close"}
    /\ MaxSpawned \in Nat

VARIABLES connections,  \* p.connections, a stack of connections on loan from sql.DB
          pmu,          \* who holds p.mu: a thread, "replenisher" or "free"
          tries,        \* the loop variable of the retry loop p.mu's holder is in
          spawned,      \* replenishing goroutines that have not finished
          phase,        \* "connecting", "open", "closed" or "failed"
          pc,           \* where each caller is
          held,         \* the connection each caller has in a local variable
          out,          \* connections a queryResult refers to
          orphaned      \* connections nothing in the bridge refers to any more

poolVars == <<connections, pmu, tries, spawned, phase, pc, held, out, orphaned>>
poolState == <<sqlVars, poolVars>>

-----------------------------------------------------------------------------
Pooled == ToSet(connections)
Held   == {held[t] : t \in Threads} \ {NoConn}

PoolInit ==
    /\ SqlInit
    /\ connections = <<>>
    /\ pmu = "free" /\ tries = 0 /\ spawned = 0
    /\ phase = "connecting"
    /\ pc = [t \in Threads |-> "idle"]
    /\ held = [t \in Threads |-> NoConn]
    /\ out = {} /\ orphaned = {}

Goto(t, to) == pc' = [pc EXCEPT ![t] = to]
Hold(t, c)  == held' = [held EXCEPT ![t] = c]

-----------------------------------------------------------------------------
(* GodbcConnect: the pool is private to its caller until it is open. *)

Preallocate(c) ==
    /\ phase = "connecting" /\ Len(connections) < MinConns
    /\ DialOk(c)
    /\ connections' = Append(connections, c)
    /\ UNCHANGED <<pmu, tries, spawned, phase, pc, held, out, orphaned>>

\* The server is down, or this one dial or its ping fails.
PreallocationFails == (~up \/ faults < MaxFaults) /\ ~AtLimit

\* Mutant: the failure is not returned.
PreallocateFailsSilently ==
    /\ phase = "connecting" /\ Len(connections) < MinConns
    /\ PreallocationFails
    /\ CloseDB(Pooled)
    /\ connections' = <<>>
    /\ UNCHANGED <<pmu, tries, spawned, phase, pc, held, out, orphaned>>

\* Mutant: the connections allocated so far are not closed.
PreallocateFailsKeeping ==
    /\ phase = "connecting" /\ Len(connections) < MinConns
    /\ PreallocationFails
    /\ CloseDB({})
    /\ phase' = "failed"
    /\ UNCHANGED <<connections, pmu, tries, spawned, pc, held, out, orphaned>>

\* Any failure closes what was allocated, and GodbcConnect closes the sql.DB.
PreallocateFails ==
    /\ phase = "connecting" /\ Len(connections) < MinConns
    /\ PreallocationFails
    /\ CloseDB(Pooled)
    /\ connections' = <<>>
    /\ phase' = "failed"
    /\ UNCHANGED <<pmu, tries, spawned, pc, held, out, orphaned>>

Connected ==
    /\ phase = "connecting" /\ Len(connections) >= MinConns
    /\ phase' = "open"
    /\ UNCHANGED <<sqlVars, connections, pmu, tries, spawned, pc, held, out, orphaned>>

-----------------------------------------------------------------------------
(* getConnectionWithRetry. *)

\* A caller that has the *Pool asks for a connection.  A closed pool can
\* still be asked: GodbcClose may run after the caller looked its handle up.
BeginGet(t) ==
    /\ phase \in {"open", "closed"}
    /\ pc[t] = "idle"
    /\ spawned < MaxSpawned
    /\ Goto(t, "getLock")
    /\ UNCHANGED <<sqlVars, connections, pmu, tries, spawned, phase, held, out, orphaned>>

\* Mutant: the connection is not taken off the slice.
GetPooledPeeking(t) ==
    /\ pc[t] = "getLock" /\ pmu = "free"
    /\ connections # <<>> /\ Last(connections) \notin dead
    /\ spawned' = IF Len(connections) < MinConns THEN spawned + 1 ELSE spawned
    /\ Hold(t, Last(connections))
    /\ Goto(t, "leased")
    /\ UNCHANGED <<sqlVars, connections, pmu, tries, phase, out, orphaned>>

\* Mutant: the length is compared with minConns before the connection is taken.
GetPooledCountsFirst(t) ==
    /\ pc[t] = "getLock" /\ pmu = "free"
    /\ connections # <<>> /\ Last(connections) \notin dead
    /\ connections' = Front(connections)
    /\ spawned' = IF Len(connections) < MinConns THEN spawned + 1 ELSE spawned
    /\ Hold(t, Last(connections))
    /\ Goto(t, "leased")
    /\ UNCHANGED <<sqlVars, pmu, tries, phase, out, orphaned>>

\* The last pooled connection answers its ping.
GetPooled(t) ==
    /\ pc[t] = "getLock" /\ pmu = "free"
    /\ connections # <<>> /\ Last(connections) \notin dead
    /\ connections' = Front(connections)
    /\ spawned' = IF Len(connections') < MinConns THEN spawned + 1 ELSE spawned
    /\ Hold(t, Last(connections))
    /\ Goto(t, "leased")
    /\ UNCHANGED <<sqlVars, pmu, tries, phase, out, orphaned>>

\* It does not: it is closed, and a new connection is dialled under p.mu.
GetPooledDead(t) ==
    /\ pc[t] = "getLock" /\ pmu = "free"
    /\ connections # <<>> /\ Last(connections) \in dead
    /\ Discard(Last(connections))
    /\ connections' = Front(connections)
    /\ pmu' = t /\ tries' = 0
    /\ Goto(t, "getDial")
    /\ UNCHANGED <<spawned, phase, held, out, orphaned>>

GetEmpty(t) ==
    /\ pc[t] = "getLock" /\ pmu = "free"
    /\ connections = <<>>
    /\ pmu' = t /\ tries' = 0
    /\ Goto(t, "getDial")
    /\ UNCHANGED <<sqlVars, connections, spawned, phase, held, out, orphaned>>

GetDialOk(t, c) ==
    /\ pc[t] = "getDial" /\ tries < RetryAttempts
    /\ DialOk(c)
    /\ Hold(t, c)
    /\ Goto(t, "leased")
    /\ pmu' = "free"
    /\ UNCHANGED <<connections, tries, spawned, phase, out, orphaned>>

\* Mutant: the loop condition is <= for <.
GetDialFailsOnceMore(t) ==
    /\ pc[t] = "getDial" /\ tries <= RetryAttempts
    /\ DialFails
    /\ tries' = tries + 1
    /\ UNCHANGED <<connections, pmu, spawned, phase, pc, held, out, orphaned>>

GetDialFails(t) ==
    /\ pc[t] = "getDial" /\ tries < RetryAttempts
    /\ DialFails
    /\ tries' = tries + 1
    /\ UNCHANGED <<connections, pmu, spawned, phase, pc, held, out, orphaned>>

\* Mutant: p.mu is not released on the way out.
GetGivesUpLocked(t) ==
    /\ pc[t] = "getDial" /\ tries >= RetryAttempts
    /\ Goto(t, "failed")
    /\ UNCHANGED <<sqlVars, connections, pmu, tries, spawned, phase, held, out, orphaned>>

GetGivesUp(t) ==
    /\ pc[t] = "getDial" /\ tries >= RetryAttempts
    /\ pmu' = "free"
    /\ Goto(t, "failed")
    /\ UNCHANGED <<sqlVars, connections, tries, spawned, phase, held, out, orphaned>>

\* The caller hands the error on.
ReportError(t) ==
    /\ pc[t] = "failed"
    /\ Goto(t, "idle")
    /\ UNCHANGED <<sqlVars, connections, pmu, tries, spawned, phase, held, out, orphaned>>

-----------------------------------------------------------------------------
(* The goroutine getConnectionWithRetry starts when it took the pool below  *)
(* minConns.  It does not look at the pool again before it appends.         *)

ReplenishLock ==
    /\ spawned > 0 /\ pmu = "free"
    /\ pmu' = "replenisher" /\ tries' = 0
    /\ UNCHANGED <<sqlVars, connections, spawned, phase, pc, held, out, orphaned>>

\* Mutant: one attempt is made before retryAttempts is looked at.
ReplenishDialOkFirst(c) ==
    /\ pmu = "replenisher" /\ tries <= RetryAttempts
    /\ DialOk(c)
    /\ connections' = Append(connections, c)
    /\ spawned' = spawned - 1
    /\ pmu' = "free"
    /\ UNCHANGED <<tries, phase, pc, held, out, orphaned>>

ReplenishDialOk(c) ==
    /\ pmu = "replenisher" /\ tries < RetryAttempts
    /\ DialOk(c)
    /\ connections' = Append(connections, c)
    /\ spawned' = spawned - 1
    /\ pmu' = "free"
    /\ UNCHANGED <<tries, phase, pc, held, out, orphaned>>

ReplenishDialFails ==
    /\ pmu = "replenisher" /\ tries < RetryAttempts
    /\ DialFails
    /\ tries' = tries + 1
    /\ UNCHANGED <<connections, pmu, spawned, phase, pc, held, out, orphaned>>

ReplenishGivesUp ==
    /\ pmu = "replenisher" /\ tries >= RetryAttempts
    /\ spawned' = spawned - 1
    /\ pmu' = "free"
    /\ UNCHANGED <<sqlVars, connections, tries, phase, pc, held, out, orphaned>>

-----------------------------------------------------------------------------
(* returnConnection. *)

BeginReturn(t) ==
    /\ pc[t] = "leased"
    /\ Goto(t, "retLock")
    /\ UNCHANGED <<sqlVars, connections, pmu, tries, spawned, phase, held, out, orphaned>>

\* Mutant: the dead connection is replaced but not closed.
ReturnDeadUnclosed(t) ==
    /\ pc[t] = "retLock" /\ pmu = "free"
    /\ held[t] \in dead
    /\ Hold(t, NoConn)
    /\ pmu' = t /\ tries' = 0
    /\ Goto(t, "retReplace")
    /\ UNCHANGED <<sqlVars, connections, spawned, phase, out, orphaned>>

\* A dead connection is closed and replaced, whatever the pool's size.
ReturnDead(t) ==
    /\ pc[t] = "retLock" /\ pmu = "free"
    /\ held[t] \in dead
    /\ Discard(held[t])
    /\ Hold(t, NoConn)
    /\ pmu' = t /\ tries' = 0
    /\ Goto(t, "retReplace")
    /\ UNCHANGED <<connections, spawned, phase, out, orphaned>>

ReplaceDialOk(t, c) ==
    /\ pc[t] = "retReplace" /\ tries < RetryAttempts
    /\ DialOk(c)
    /\ connections' = Append(connections, c)
    /\ pmu' = "free"
    /\ Goto(t, "idle")
    /\ UNCHANGED <<tries, spawned, phase, held, out, orphaned>>

ReplaceDialFails(t) ==
    /\ pc[t] = "retReplace" /\ tries < RetryAttempts
    /\ DialFails
    /\ tries' = tries + 1
    /\ UNCHANGED <<connections, pmu, spawned, phase, pc, held, out, orphaned>>

ReplaceGivesUp(t) ==
    /\ pc[t] = "retReplace" /\ tries >= RetryAttempts
    /\ pmu' = "free"
    /\ Goto(t, "idle")
    /\ UNCHANGED <<sqlVars, connections, tries, spawned, phase, held, out, orphaned>>

\* A live one is kept below maxConns and closed otherwise; then the pool is
\* filled up to minConns before p.mu is released.
ReturnLive(t) ==
    /\ pc[t] = "retLock" /\ pmu = "free"
    /\ held[t] \notin dead
    /\ \/ /\ Len(connections) < MaxConns
          /\ connections' = Append(connections, held[t])
          /\ UNCHANGED sqlVars
       \/ /\ Len(connections) >= MaxConns
          /\ Release(held[t])
          /\ UNCHANGED connections
    /\ Hold(t, NoConn)
    /\ tries' = 0
    /\ \/ /\ Len(connections') < MinConns
          /\ Goto(t, "retFill") /\ pmu' = t
       \/ /\ Len(connections') >= MinConns
          /\ Goto(t, "idle") /\ UNCHANGED pmu
    /\ UNCHANGED <<spawned, phase, out, orphaned>>

\* The filling loop has no exit but a full pool: a round of retryAttempts
\* failed dials starts the next round (with retryAttempts 0 it only spins).
FillDialOk(t, c) ==
    /\ pc[t] = "retFill" /\ tries < RetryAttempts
    /\ DialOk(c)
    /\ connections' = Append(connections, c)
    /\ tries' = 0
    /\ \/ /\ Len(connections') < MinConns
          /\ UNCHANGED <<pmu, pc>>
       \/ /\ Len(connections') >= MinConns
          /\ Goto(t, "idle") /\ pmu' = "free"
    /\ UNCHANGED <<spawned, phase, held, out, orphaned>>

\* Mutant: a round of failed dials is not followed by another one.
FillDialFailsForGood(t) ==
    /\ pc[t] = "retFill" /\ tries < RetryAttempts
    /\ DialFails
    /\ tries' = tries + 1
    /\ UNCHANGED <<connections, pmu, spawned, phase, pc, held, out, orphaned>>

FillDialFails(t) ==
    /\ pc[t] = "retFill" /\ tries < RetryAttempts
    /\ DialFails
    /\ tries' = (tries + 1) % RetryAttempts
    /\ UNCHANGED <<connections, pmu, spawned, phase, pc, held, out, orphaned>>

-----------------------------------------------------------------------------
(* The other ways a caller parts with the connection it got. *)

\* conn.Close() without p.mu, after an operation on the connection failed.
Drop(t) ==
    /\ "drop" \in Uses /\ pc[t] = "leased"
    /\ Release(held[t])
    /\ Hold(t, NoConn)
    /\ Goto(t, "idle")
    /\ UNCHANGED <<connections, pmu, tries, spawned, phase, out, orphaned>>

\* A query succeeded: the queryResult keeps the connection.
Handoff(t) ==
    /\ "handoff" \in Uses /\ pc[t] = "leased"
    /\ out' = out \cup {held[t]}
    /\ Hold(t, NoConn)
    /\ Goto(t, "idle")
    /\ UNCHANGED <<sqlVars, connections, pmu, tries, spawned, phase, orphaned>>

\* GodbcCloseRows takes it back and returns it.
Collect(t, c) ==
    /\ pc[t] = "idle" /\ c \in out
    /\ out' = out \ {c}
    /\ Hold(t, c)
    /\ Goto(t, "retLock")
    /\ UNCHANGED <<sqlVars, connections, pmu, tries, spawned, phase, orphaned>>

\* BeginTx or PrepareContext succeeded: only the sql.Tx or sql.Stmt is kept,
\* and neither its end nor its Close releases the sql.Conn below it.
Orphan(t) ==
    /\ "orphan" \in Uses /\ pc[t] = "leased"
    /\ orphaned' = orphaned \cup {held[t]}
    /\ Hold(t, NoConn)
    /\ Goto(t, "idle")
    /\ UNCHANGED <<sqlVars, connections, pmu, tries, spawned, phase, out>>

\* database/sql closes a sql.Conn when an operation on it finds it bad.
Reap ==
    /\ \E c \in orphaned \cap dead : /\ Discard(c)
                                     /\ orphaned' = orphaned \ {c}
    /\ UNCHANGED <<connections, pmu, tries, spawned, phase, pc, held, out>>

-----------------------------------------------------------------------------
(* GodbcClose of the pool's handle. *)

BeginClose(t) ==
    /\ "close" \in Uses
    /\ phase = "open" /\ pc[t] = "idle"
    /\ \A s \in Threads : pc[s] # "closeLock"
    /\ Goto(t, "closeLock")
    /\ UNCHANGED <<sqlVars, connections, pmu, tries, spawned, phase, held, out, orphaned>>

ClosePool(t) ==
    /\ pc[t] = "closeLock" /\ pmu = "free"
    /\ CloseDB(Pooled)
    /\ connections' = <<>>
    /\ phase' = "closed"
    /\ Goto(t, "idle")
    /\ UNCHANGED <<pmu, tries, spawned, held, out, orphaned>>

-----------------------------------------------------------------------------
Connecting == (\E c \in Conns : Preallocate(c)) \/ PreallocateFails \/ Connected

GetDial(t)     == (\E c \in Conns : GetDialOk(t, c)) \/ GetDialFails(t) \/ GetGivesUp(t)
ReplaceDial(t) == (\E c \in Conns : ReplaceDialOk(t, c)) \/ ReplaceDialFails(t) \/ ReplaceGivesUp(t)
FillDial(t)    == (\E c \in Conns : FillDialOk(t, c)) \/ FillDialFails(t)

\* A step that needs p.mu free: the thread is queued on the mutex.
Acquire(t) == \/ GetPooled(t) \/ GetPooledDead(t) \/ GetEmpty(t)
              \/ ReturnDead(t) \/ ReturnLive(t)
              \/ ClosePool(t)

LeaseEnds(t) == BeginReturn(t) \/ Drop(t) \/ Handoff(t) \/ Orphan(t)

\* What a thread inside a call does next.
Continue(t) == \/ GetDial(t) \/ ReportError(t)
               \/ ReplaceDial(t) \/ FillDial(t)
               \/ LeaseEnds(t)

\* What a caller is free to start.
Start(t) == BeginGet(t) \/ BeginClose(t) \/ (\E c \in Conns : Collect(t, c))

ReplenishStep == \/ \E c \in Conns : ReplenishDialOk(c)
                 \/ ReplenishDialFails
                 \/ ReplenishGivesUp

PoolEnvironment == Environment /\ UNCHANGED poolVars

PoolNext ==
    \/ Connecting
    \/ \E t \in Threads : Start(t) \/ Acquire(t) \/ Continue(t)
    \/ ReplenishLock \/ ReplenishStep
    \/ Reap
    \/ PoolEnvironment

PoolSpec == PoolInit /\ [][PoolNext]_poolState

(***************************************************************************)
(* Fairness: a goroutine that can run does, an operation of the server ends*)
(* (weak fairness), and a waiter on p.mu that finds it free again and again*)
(* gets it in the end: sync.RWMutex queues writers on a sync.Mutex, whose  *)
(* starvation mode hands it over in order (strong fairness).  Callers need *)
(* not start anything, and no fault need happen or end.                    *)
(***************************************************************************)
PoolFairness ==
    /\ WF_poolState(Connecting)
    /\ \A t \in Threads : SF_poolState(Acquire(t)) /\ WF_poolState(Continue(t))
    /\ SF_poolState(ReplenishLock)
    /\ WF_poolState(ReplenishStep)

FairPoolSpec == PoolSpec /\ PoolFairness
-----------------------------------------------------------------------------
(* Properties. *)

CallPoints == {"idle", "getLock", "getDial", "failed", "leased",
               "retLock", "retReplace", "retFill", "closeLock"}

\* Type invariant.
PoolTypeOK ==
    /\ SqlTypeOK
    /\ connections \in Seq(Conns)
    /\ pmu \in Threads \cup {"free", "replenisher"}
    /\ tries \in 0..RetryAttempts
    /\ spawned \in Nat
    /\ phase \in {"connecting", "open", "closed", "failed"}
    /\ pc \in [Threads -> CallPoints]
    /\ held \in [Threads -> Conns \cup {NoConn}]
    /\ out \in SUBSET Conns
    /\ orphaned \in SUBSET Conns

\* A connection is in one place only: once in p.connections, or idle in
\* sql.DB, or in one caller's hands, or kept by a result, or orphaned.  Two
\* callers never run statements on one connection, and a caller never uses
\* one that getConnectionWithRetry can give to somebody else.
Exclusive ==
    /\ IsInjective(connections)
    /\ \A s, t \in Threads : held[s] = held[t] /\ held[s] # NoConn => s = t
    /\ Pooled \cap (free \cup Held \cup out \cup orphaned) = {}
    /\ free \cap (Held \cup out \cup orphaned) = {}
    /\ Held \cap (out \cup orphaned) = {}
    /\ out \cap orphaned = {}

\* The bridge and sql.DB agree on what is open: no path closes a connection
\* and keeps it, and none forgets one without either closing it or handing it
\* to a result, a transaction or a statement.
Accounted == open = Pooled \cup free \cup Held \cup out \cup orphaned

\* The slice never outgrows maxConns, although only one of the four paths
\* that append to it looks at maxConns first.
PoolWithinMax == Limited => Len(connections) <= MaxConns

\* "Min pool connections": while nothing fails, an open pool has minConns
\* connections waiting or a replenisher under way for each one missing,
\* whatever the callers do with theirs.
MinimumKept ==
    phase = "open" /\ faults = 0 /\ RetryAttempts > 0 =>
        Len(connections) + spawned >= MinConns

\* retryAttempts counts attempts, not repetitions: with 0 none of the four
\* dialling loops runs, and a pool lives on what GodbcConnect preallocated.
OnlyPreallocated ==
    [][RetryAttempts = 0 /\ phase # "connecting" => open' \subseteq open]_poolState

\* With the server up in the end, every call gets out of the pool's methods:
\* no caller waits for ever for p.mu or for a connection, and the filling loop
\* ends.
CallsReturn ==
    <>[]up => \A t \in Threads : pc[t] # "idle" ~> pc[t] = "idle"

\* A caller that returned its connection and fills the pool up gets out of the
\* loop: with the server up in the end it has minConns connections or an error.
FillEnds ==
    <>[]up => \A t \in Threads : pc[t] = "retFill" ~> pc[t] # "retFill"

\* GodbcConnect comes back, with a pool or with an error.
ConnectReturns == phase = "connecting" ~> phase # "connecting"

\* A GodbcConnect that fails leaves no connection open, however many it had
\* preallocated before one failed.
FailedConnectDrains == phase = "failed" => open = {}

\* Once a pool is closed and its callers and results are done with it, no
\* connection to the server is left open.
ClosedPoolDrains ==
    phase = "closed" /\ out = {} /\ orphaned = {}
        /\ (\A t \in Threads : pc[t] = "idle") => open = {}
=============================================================================
