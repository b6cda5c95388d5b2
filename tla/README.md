# Verification of godbc in TLA+

This directory holds TLA+ models of godbc, TLC configurations that model-check
them, and proofs checked by TLAPS. godbc lets a C++ program use SQL Server: a
header-only C++ library (`cpp/godbc.hpp`) calls a C interface
(`bridge/bridge.h`) that is implemented in Go (`bridge/bridge.go`) on top of
`database/sql`. Two multi-threaded programs come with it, a runner of SQL files
and a benchmark (`examples/`). Line numbers below are those of `src/`.

1. [The system](#1-the-system)
2. [The models](#2-the-models)
3. [What TLC checks](#3-what-tlc-checks)
4. [Fairness](#4-fairness)
5. [What is proved](#5-what-is-proved)
6. [Where code and documentation disagree](#6-where-code-and-documentation-disagree)
7. [What is not modelled](#7-what-is-not-modelled)

## 1. The system

| Component | State it keeps | Operations | Works with |
|---|---|---|---|
| Connection pool, `bridge.go` `Pool` (49-288, 399-434) | `connections` (a slice used as a stack), `mu`, `minConns`, `maxConns`, `retryAttempts`, one `sql.DB` | `preallocateConnections`, `getConnectionWithRetry`, its replenishing goroutine, `returnConnection`, teardown in `GodbcClose` | `sql.DB` below; the exported functions above |
| Handle table, `bridge.go` (70-75, 1064-1095) | globals `mu`, `handles`, `nextID` | `storeHandle`, `getHandle`, `removeHandle`, and inline accesses in eight functions | every exported function |
| Exported functions, `bridge.go` (343-1062) | none of their own; results with their cursors, transactions and statements live in the handle table | `GodbcConnect`, `Execute`, `Query`, `Next`, `Scan`, `CloseRows`, `BeginTransaction`, `ExecuteInTransaction`, `Commit`, `Prepare`, `ExecutePrepared`, `Close`, ... | lock the table, then the pool; called from C++ threads |
| C++ wrappers, `godbc.hpp` | `handle_`, `closed_` per object | what a connection makes, execution, `next`, moves, `close()`, destructors, `commit`, `rollback` | one closing function of the bridge per class |
| Parameter conversion, `godbc.hpp` (131-160) | none | `toString<std::string>` | its text is bound as a parameter (bridge.go 596-600) |
| SQL runner, `examples/sql_runner.cpp` | `Metrics`: atomic counters, minima, maxima, a stop flag | option parsing, workers over files, a reporter, joining | the C++ library |
| Benchmark, `examples/benchmark.cpp` | `Metrics`, an exit code | option parsing, workers with retries, reconnection and transactions, a reporter | the C++ library |
| Demonstrations, `example.cpp`, `query_examples.cpp` | none | straight-line programs | the C++ library |
| `OpenMSSQL`, named pools, `bridge/mssql.go` | `connPool`, `poolMu` | `OpenMSSQL`, `GetOrCreatePool` | nothing calls them |
| Native Go driver, `mssql/*.go`, `driver.go`, `connection.go` | driver registry, `PoolManager.pools` | `Connect` with retry, `GetPool`, `Close` | `database/sql`; not used by the bridge |

### How they interact

A C++ thread that calls an exported function becomes a goroutine. It takes the
global `mu` to look a handle up, and then the pool's own mutex `p.mu` inside
`getConnectionWithRetry` or `returnConnection`. Some functions let go of `mu`
before they use the pool (`GodbcExecute`, `GodbcBeginTransaction`,
`GodbcPrepare`), some keep it to their end (`GodbcQuery`,
`GodbcExecuteWithParams`, `GodbcCloseRows`, `GodbcClose`), and some never take
it (the insertion in `GodbcQueryWithParams`, the lookup in
`GodbcExecuteInTransaction[WithParams]`). `p.mu` is kept while a connection is
dialled. `db.Conn` gets a context without a deadline, so that it waits for as
long as `maxConns` connections are open and none of them is idle.

A connection that leaves the pool comes back in one of several ways: at the end
of the same call (`Execute`), in a later one (`Query`, given back by
`CloseRows`), by being closed after an error, or never (`BeginTransaction`,
`Prepare`: only the `sql.Tx` or `sql.Stmt` is kept). A cursor is read by
`GodbcNext` and `GodbcScan` outside `mu`, while another thread may close it.

The two programs share their counters between the workers and a reporter, by
atomic operations and no lock; main joins the workers before it stops the
reporter.

### What is hard, and what makes each component correct

* **Pool.** Four paths append to an open pool's slice and only one compares
  with `maxConns`; the goroutine acts long after the decision that started it;
  dialling happens with `p.mu` held; the teardown does not know who still has a
  connection. Correct means: one owner per connection, none forgotten, the
  slice within `maxConns`, a minimum kept, every call gets out again.
* **Handle table.** Some accesses take no lock. Correct means: a handle keeps
  denoting what it was returned for, and a removed one never comes back.
* **Exported functions.** Connections cross calls, on six error paths, two of
  which retry; objects are used after the lock that found them is released.
  Correct means: every connection that left the pool can be given back, sessions
  are alone on theirs, a cursor is never open on a connection that was given
  back, a handle goes only in a call that was asked to end its object, an open
  pool can be reached. The code keeps the last only up to `GodbcReturnConnection`
  and the first only up to the three leaks of section 6.
* **Wrappers.** Moves, explicit `close()` and destructors in any order, with
  calls that fail. Correct means: one owner per handle, ended once, a
  transaction committed only where the program called `commit()`, and always
  where `commit()` returned.
* **Conversion.** Each pass works on the output of the one before. Correct
  means: the server reads back the value.
* **SQL runner and benchmark.** Several counters change per event, one at a
  time; minima and maxima are loaded, compared and exchanged; errors leave a
  loop early, reconnect, or repeat. Correct means: totals agree when the workers
  are done, no extreme is lost, nothing is run, counted or committed twice, the
  program ends and its exit code tells.

`PROJECT.json` lists each hazard with its line and with the properties that
would catch it.

## 2. The models

```
SqlDB  Callers ------------ GodbcHandles ---------- GodbcHandles_proofs
   \     /                       |    \                     |
  GodbcPool ---------------------+-- GodbcBridge ---+       |
    |     \                               |         |       |
    |      GodbcPool_proofs            MCBridge     |       |
    |            |                                  |       |
  GodbcPoolLease-+- GodbcPoolLease_proofs ---- GodbcBridge_proofs
    |        \
  MCPool      INSTANCE ConnLease

  CppWrappers - CppWrappers_proofs     Progress - SqlRunner - SqlRunner_proofs
  ToString - ToString_proofs              \------ Benchmark - Benchmark_proofs

  GodbcHandles: INSTANCE Registry
```

**`SqlDB`** is what the bridge relies on: one `sql.DB`, the driver and the
server, modelled from the calls the bridge makes. `open` is what counts against
`SetMaxOpenConns`, `free` is idle inside `sql.DB`. `DialOk`/`DialFails` are
`db.Conn` and the ping that follows it; when the limit is reached and nothing is
idle **neither** is enabled, which is the wait without a deadline. A connection
may die, the server may go down and come back, one dial or its ping may fail
while the server is up (the second disjunct of `DialFails`), and an idle
connection may expire (`SetConnMaxLifetime`). The first three are faults, which
`MaxFaults` bounds.

**`Callers`** declares the threads, which the pool and the table share.

**`GodbcPool`** models `Pool`. A step is what happens between two acquisitions
of `p.mu`, split where the code waits for `sql.DB` with `p.mu` held:

| Code | Actions |
|---|---|
| `preallocateConnections` and `GodbcConnect` | `Preallocate`, `PreallocateFails`, `Connected` |
| `getConnectionWithRetry` | `BeginGet`, then `GetPooled` / `GetPooledDead` / `GetEmpty` under the lock, then `GetDialOk` / `GetDialFails` / `GetGivesUp` per attempt |
| its goroutine | `ReplenishLock`, then `ReplenishDialOk` / `ReplenishDialFails` / `ReplenishGivesUp` |
| `returnConnection` | `BeginReturn`, then `ReturnDead` and `Replace...`, or `ReturnLive` and, below `minConns`, `Fill...` |
| the callers' other ways to part with a connection | `Drop` (`conn.Close()` after an error), `Handoff` (to a `queryResult`), `Collect` (`GodbcCloseRows`), `Orphan` (`BeginTx`, `PrepareContext`) |
| `GodbcClose` of a pool | `BeginClose`, `ClosePool` |

`tries` is the loop variable of whichever retry loop runs under `p.mu` (one at a
time, by the lock). `out` and `orphaned` say where a connection went that no
caller and no pool has. A thread that has looked a pool up may still ask for a
connection after another one closed it, as in the code.

**`ConnLease`** is the abstract promise: each connection has one owner, owners
change only by being lent, given back, kept, collected, abandoned or closed, and
the number of open connections stays within the limit. **`GodbcPoolLease`** gives
the refinement mapping: `Owner` reads each connection's owner off the pool's
variables.

**`GodbcHandles`** models `mu`, `handles` and `nextID`. A section under `mu` is
one step; the two unlocked kinds of access are split at every access to shared
memory, and `RawBumpID` leaves open whether the compiler loads `nextID` again.
`claims` is a history variable: what a caller was told and may still use.

**`Registry`** is the abstract promise of the table: a new object gets a handle
that no object ever had, the handle denotes it until it is removed, and nothing
else changes the table. `GodbcHandles` maps its state to it
(`ImplementsRegistry`: what is given out is what is live or retired).

**`GodbcBridge`** composes pool and table. Each step of an exported function
joins at most one action of `GodbcPool` with at most one of `GodbcHandles`, so
the lock order, what is held while dialling, and the retry loops of the two
query functions are those of the code. The outcome of a statement is left open:
it may succeed on a live connection and fail on any. Handles given to a call are
any live or removed ones. `cursors` are the open `sql.Rows`: a query opens one,
`GodbcNext` closes it when it meets the end, `GodbcCloseRows` closes it and
gives the connection back. The latter is three steps, which a reader may come
between since it does not wait for `mu`: `CloseRows` takes the handle out of the
table (742), `RowsClosed` closes the rows (744), and then the connection goes
through `returnConnection`. `Reads` is `GodbcNext` or `GodbcScan` after it let go
of `mu`, so that the result may be closed under it; the `closemu` of `sql.Rows`
makes such a reader see the end of the rows, which `ReadsRow` and `ReadsEnd`
say. The statements of a transaction look it up without `mu`
(`TxLookupBegins`, `TxLookupEnds`).

**`CppWrappers`** models the four RAII classes with arbitrary programs over
them: connect, query, prepare, begin a transaction, execute in it, step through
rows, commit, roll back, move-construct, move-assign, close, destroy. The bridge
is reduced to its table and to `progress`, how far the rows or the transaction
behind a handle have come; `commitOf` is a history variable, what the program
asked for and was told. What the closing functions do to the table is taken from
the bridge's source (`ClosingCall`); that other calls leave the entries of an
object's handle alone is what `EndedAsAsked` and `ImplementsRegistry` say of
`GodbcBridge`. The two modules are not composed: no theorem relates their states.

**`ToString`** models the passes of `toString<std::string>` with a reference
reading of T-SQL literals and `LIKE` patterns to compare with.

**`Progress`** has the order by which both programs' workers come nearer to
their end: tuples of numbers, compared as words are. Each program says in
`Distance` what is ahead of a worker: iterations or queries, then files or
attempts, then its place and what it may repeat there.

**`SqlRunner`** models `sql_runner.cpp`: the options from the command line on
(`Parse` reads them left to right, a malformed number aborts under `-t`, `-n`
and `-r` and is caught under `-s`, an empty `-c` counts as none), each worker's
iterations with connecting, testing, timing and running every file, the exchange
loops of the minima and maxima, the reporter and the join. Each access to a
counter is one step. `timed` (which times were measured) and `unopened` (files
that could not be opened) are history variables.

**`Benchmark`** models `benchmark.cpp` likewise: reads, transactions and writes,
the attempts at a query with a reconnection between them, the losses of a connection before
and between queries, the division of the queries among the threads, the exit
code. `commits` counts what the server committed for the query at hand, a commit
whose answer is lost included; `twice` counts the failed transactions that the
program counts as an error and as a success.

Each module also defines operators marked `Mutant`: the definition below it with
a plausible bug. They are used by no specification; substituting one for the
definition it precedes makes the property named in `PROJECT.json` fail.

## 3. What TLC checks

`tlc -config <cfg> <module>` in this directory. Distinct states in brackets.

| Run | Question and answer |
|---|---|
| `pool_safety` (178,169) | Three callers with every use of a connection, a closing thread, two faults and two replenishers, `minConns` 2, `maxConns` 3, two attempts. `PoolTypeOK`, `Exclusive`, `Accounted`, `PoolWithinMax`, `MinimumKept` hold, a connect that fails at its first or second connection leaves none open (`FailedConnectDrains`), and every step is a step of the abstract lease (`ImplementsLease`). |
| `pool_fill` (60,838) | `maxConns` 0: no limit to `sql.DB`, but no room for `returnConnection`, so that each return closes the connection and fills the pool again. `CallsReturn` and `ConnectReturns` hold. |
| `pool_replenish_deadlock` | Expected to fail: `CallsReturn` with `minConns = maxConns = 1`; see section 6. |
| `handles_collision` | Expected to fail: `ClaimsHonoured` with two threads in `GodbcQueryWithParams` (`UnlockedSpec`: the accesses without `mu` and no others). |
| `bridge_results` (1,340,554) | Two callers with `Execute`, `ExecuteWithParams`, `Query`, `Next`, `CloseRows`, `Close` and a fault: `BridgeTypeOK`, `ResultsReachable`, `CursorsOwned` hold; nothing leaks but what comes back to a closed pool (`OnlyKnownLeaks`, whose other two kinds need functions that are not used here); `LocksInOrder` holds: `mu` is never waited for with `p.mu` held, neither is waited for by its holder, and no call ends with one. |
| `bridge_sessions` (693,767) | Two callers with transactions, statements, `Execute`, `Query` and `Close`, `retryAttempts` 0: `SessionsIsolated` holds, a handle goes only in a call that has it and ends such objects (`EndedAsAsked`: two threads may end one transaction, and remove its handle late), and no connection is opened after `GodbcConnect` (`OnlyPreallocated`). |
| `bridge_params` (927,160) | One thread with the unlocked functions: `QueryWithParams`, the statements of a transaction, prepared statements, cursors, `Close` and `ReturnConnection`. `ResultsReachable` holds, every step is one of the registry of handles or leaves it alone (`ImplementsRegistry`), whether or not it takes the lock, and an open pool loses its handle to `ReturnConnection` alone and then stays as it is (`PoolForgotten`). |
| `wrappers_moves` (28,483) | Three objects, four handles, every program: `WrapperTypeOK`, `OpenIsLive`, `EndedOnce`, `LostOnlyTransactions`, `CommitsAsAsked`, `ReadRowsClosed` hold. The server is taken to undo a transaction whose end failed, unless it was a commit that it did. |
| `tostring_literal` (3,847) | Every value of up to four characters: `TextTypeOK` and `LiteralDenotes` hold. The latter excepts patterns of `LIKE` that have brackets, for which see section 6. |
| `sql_runner_counts` (258,746) | Command lines with two threads, two files, three iterations, `-i`, a delay, and every kind of malformed or refused option: `RunnerTypeOK`, `CountsAgree`, `ExtremesExact`, `FilesAllTried`, `AveragesBounded` and `Terminates` hold. |
| `sql_runner_undefined` | Expected to fail: `AlwaysDefined` with the command line that the repository's README gives as its example; the shortest counterexample is the reporter's. |
| `benchmark_counts` (536,933) | Command lines with two threads in each mode, a remainder, no attempts, no threads, nothing to do, malformed numbers and an empty `-c`: `BenchTypeOK`, `CountedOnce`, `CommittedOnce`, `RetriesBounded`, `ExitTellsErrors` and `Terminates` hold. What `ExitTellsErrors` calls every query are those of the workers' shares; for the remainder see `RunsAllQueries` in section 6. |

**Bounds.** `Conns` is a supply of names, at least one more than `maxConns`
where the limit matters; a minimum of two is the least with a connection to
close when a later one fails; with `maxConns` 0 it is six names, of which at most
four are ever in use, so that no dial waits for want of a name. `MaxFaults`
1 or 2 is enough for a fault at every point and for a second one during the
recovery from the first. `MaxSpawned` bounds replenishers, by holding back calls
that might start one more; two are enough for two of them to race with a
caller. `MaxID` bounds handles. Two attempts are the least number with both a
retry and a last attempt. Three callers allow one to hold `p.mu`, one to wait,
and one to change things without it. In the two programs two workers are enough
for every race on a counter, which only one other access can disturb; two
durations make a new minimum, a new maximum, and a tie; two queries per worker
have one before and one after a lost connection. `MaxIterations` bounds `-i`;
`MaxRetries` and `MaxConsecutiveErrors` are 3 and 5 in the code and 2 here,
again one retry and a last one. Symmetry is used in safety runs only, over
names that no definition distinguishes. The theorems of section 5 drop all of
these bounds but `MaxID` and `MaxHandle`, which are arbitrary there, and those
that bound faults and goroutines, which are arbitrary as well.

**Deadlock** is not checked in the runs whose cfg says so: a program may stop
calling or has ended, the handle bound may be used up, and a closed pool has
nothing to do. `MCPool_calls.cfg` and the `MCHandles_*.cfg` check it.

Further configurations are kept beside these for use by hand:

* `MCHandles_single.cfg` (one thread with every kind of access):
  `ClaimsHonoured` and `StaleStaysInvalid` hold.
* `MCPool_calls.cfg` and `MCBridge_calls.cfg`: with as many connections as
  callers need, no minimum and a server that stays up in the end, every call
  returns (`CallsReturn`, `CallsEnd`).
* `MCSqlRunner_advance.cfg` and `MCBenchmark_advance.cfg`: `WorkersAdvance`, on
  the state spaces of `sql_runner_counts` and `benchmark_counts`.
* Those of section 6, each of which shows a behaviour.

## 4. Fairness

`PoolFairness` and `BridgeFairness` assume what the runtime gives:

* a goroutine that can run does, and an operation of the server ends with
  success or failure: weak fairness of `Continue`, `Connecting`,
  `ReplenishStep`, `Proceed`, `Preallocating`, `Replenishing`;
* who waits for a mutex that is free again and again gets it in the end: strong
  fairness of `Acquire`, `ReplenishLock`, `Enter`, `InPoolLock`.
  `sync.RWMutex` queues writers on a `sync.Mutex`, whose starvation mode hands
  the lock over in order of arrival after a millisecond.

No fairness on starting a call, on faults, on the server's recovery (the
properties say `<>[]up =>` instead) or on `Reap`.

A call that has a connection is assumed to part with it in the end (`LeaseEnds`
is part of `Continue`): a statement ends. A query result is **not** assumed to
be closed.

`RunnerFairness` and `FairBenchSpec` schedule every thread of the programs:
weak fairness of each worker, of the reporter and of main, since each has
always one step to take until it ends, and no lock. A `compare_exchange_weak`
may fail for no reason; strong fairness of `Exchange` says that it does not
fail so for ever. A call into the library is assumed to return or throw, so
that `Terminates` is about the programs' own loops: with the waits of section 6
below it, a program may hang with the call.

## 5. What is proved

`tlapm <module>` in this directory checks every leaf. The theorems hold for all
values of the constants under the assumptions in the modules: `Conns` is finite
and `NoConn` is not one of them, limits and bounds are naturals, the mutex
owners and connection owners that are no threads have names of their own; in
the programs, the workers are a finite set of numbers, durations are naturals
below `MaxTime`, and parsed numbers are integers.

**`GodbcPool_proofs`**: `PoolTypes`, `PoolOwnership`, `PoolAccounting`,
`PoolLimit`, `PoolMinimum`, `PoolPreallocated`, `PoolFailsClean`, for any limits,
number of callers, connections, faults and replenishers. The invariant is
`PoolInv == Placed /\ Control /\ WithinMax /\ Ready`:

* `Placed`: `Exclusive` and `Accounted` are inductive only together. A dialled
  connection is new to the pool because everything the pool has is open and it
  was not; what a step moves is missing from every other place because it was in
  one place before. One lemma per kind of move, then one step per action.
* `Control`: who has `p.mu` is in a dialling loop and no one else is; who has a
  connection is at a point where one is held. Without it two threads could be in
  two loops that share `tries`, and `ReturnDead` could close a connection that
  is not there.
* `WithinMax`: `sql.DB` opens no more than `maxConns`. Then `PoolWithinMax`
  follows although three of the four appending paths do not look at `maxConns`:
  the slice repeats nothing (`InjectiveLength`) and all it has is open.
* `Ready`: without a fault, nothing is dead and a replenisher's first dial
  succeeds; a pop below `minConns` starts one and a replenisher ends only by
  appending. Without the clause on `tries` it might give up.

`PoolFailsClean` (`FailedConnectDrains`) adds `Private` and `Shut`: while a pool is
being connected nobody has a connection of it, so that all there is to close is in
the slice; and a pool that is closed or failed has nothing idle in `sql.DB`.

**`GodbcPoolLease_proofs`**: `PoolKeepsLease`, the refinement
`PoolSpec => ImplementsLease`. `OwnerOf` chooses the holder of a connection;
by `Exclusive` there is one holder and the disjuncts are exclusive, so that
`OwnerIs` reads the owner off wherever the connection is. Then each action of
the pool either moves one connection as one action of the lease says (one lemma
per kind of move), retires the idle ones, or leaves every owner alone. The limit
of the lease needs `WithinMax`.

**`GodbcHandles_proofs`**: `HandlesSound`, `HandlesRetired`,
`HandlesRefineRegistry`: if the functions without a lock are not used, or there
is only one thread (`SafeUse`), then `ClaimsHonoured` and `StaleStaysInvalid`
hold and the table implements `Registry`. `TableInv` adds that all handles given
out or removed are below `nextID` and that the number a thread read in
`RawReadID` is still unused; for the refinement, that is what makes a handle new
at the moment it is inserted. `handles_collision` shows that the condition
cannot be dropped.

**`GodbcBridge_proofs`**, which uses the three above:

* `BridgeUsesPool`, `BridgeUsesTable`: every step of the bridge is a step of the
  pool and one of the table, or leaves it alone. (No run checks `UsesPool`, that
  `BridgeSpec` implies `PoolSpec`: the theorem does.) The pool's and table's theorems
  hold for the bridge; `BridgeKeepsLease` is the composition with
  `PoolKeepsLease`. `CallInv` says that a call has a handle that was given out.
* `BridgeRegistry` (under `SafeUse`) is the composition with
  `HandlesRefineRegistry`: through all of its functions the bridge is a
  registry.
* `BridgeLocks`: `LocksInOrder` with no condition, for any callers and any
  functions, the unlocked ones included. Who has `mu` is in one of the four
  functions that keep it, past the step that took it (`MuHeld`); who has `p.mu`
  is dialling (`Control`). So the two mutexes alone never stop the callers: in
  every hang of section 6 somebody waits for a connection.
* `BridgeSessions`: `SessionsIsolated` with no condition. `Sessions` says that
  the connection of any entry ever made for a transaction or statement is
  orphaned or no longer open; `OrphansStay` (no action takes an orphaned
  connection back), `NamesAreNew` and `Early` (no handle exists before the pool
  is open) make it inductive.
* `BridgeResults`, `BridgeCursors` (under `SafeUse`): `Kept`, that the
  connections out of the pool, the live results and the open cursors grow and
  shrink together, is inductive only with `TableInv`, since an insertion over a
  live entry would lose a result, and with `Ending`, that the steps which
  remove a handle after looking it up still find an object of the kind that was
  looked up, or nothing. Between `CloseRows` and `RowsClosed` a cursor is in
  `BeingClosed`; `InStep` says that its call still has the connection then.
* `BridgeTypes` (under `SafeUse`, which the table's own type invariant needs).
* `BridgeEndsAsAsked` (`EndedAsAsked`, under `SafeUse`): by `Removes` a handle
  goes in one of four steps, each of a call that has it; `Ending` says that the
  call's function ends objects of the kind the handle still has.
* `BridgeKnownLeaks` (`OnlyKnownLeaks`, under `SafeUse`, for any functions): by
  `InStep` no thread is inside the pool when no call is under way, so that an
  open connection is pooled, idle, out or orphaned (`Accounted`). What is out has
  a result (`Kept`); what is orphaned came from `BeginTransaction` or `Prepare`
  (`OrphansFrom`); an open pool has a handle unless `ReturnConnection` is used
  (`ReachStep`); and a closed or failed pool has nothing idle (`Shut`). The theorem
  does not say that the code is free of leaks, which it is not: it says that the
  leaks of section 6 are all there are.
* `BridgeForgetsPool` (`PoolForgotten`, under `SafeUse`, `ReturnConnection`
  included): a call that closes a pool has `mu` from its lookup to the removal of
  the handle (`Closers`, inductive with `MuHeld`), so that a pool which is still
  to be closed has its handle, and one without it is not about to be closed.

**`CppWrappers_proofs`**: for any number of objects and handles and any program,
`WrapperTypes`, `WrapperCalls` (`OpenIsLive`), `WrapperOwnership` (`EndedOnce`),
`WrapperLosses`, `WrapperCommits` and `WrapperRows`. In `WrapperInv` a handle is
`Owned` by one open object and not ended, or `Over`: ended once, held by nobody,
out of the table unless it was a transaction's, and decided as the program asked.

**`SqlRunner_proofs`**: for any number of workers, files, iterations and times:

* `RunnerTypes`, `RunnerExtremes`: in `RunnerInv`, `Settling(e)` says of each of
  the four extremes that a measured time which would improve it is still in the
  hands of a worker on the way to it, and that a worker about to exchange has
  compared its time with what it loaded. An exchange succeeds only if the
  counter still has that value.
* `RunnerCounts`: the difference of the totals is the cardinality of the set of
  workers between the two increments (`Halfway`).
* `RunnerFiles`: the files that all iterations have yet to try are a set of
  pairs of a worker and a file (`Left`), and what was counted, could not be
  opened, and is left make up one full set of files per connection (`FilesInv`).
* `RunnerAverages`: every bound of the measured times from above or below,
  multiplied by their number, bounds their sum (`Bounded`); with the exactness
  of the extremes the printed averages lie between them.
* `RunnerAdvances`: every step of a worker lowers its `Distance`, whatever
  fails, but for a failed exchange, which costs it only the load before it; with
  `-i` the iterations are not counted. It needs `FilesInv` (a file that is
  tried is one of the directory) and `PausesInv` (an iteration under way is one
  that was asked for, and a worker that sleeps has some of its pause left).

**`Benchmark_proofs`**: for any options, number of threads and errors:

* `BenchTypes`, `BenchCommits`: in `BenchInv` a query that was committed is at a
  place from which no attempt starts (`Settled`). After a commit whose answer was
  lost this rests on `Rethrow`, see section 6.
* `BenchCounts`, `BenchRetries`, `BenchExit`: in `TallyInv` the number of
  results is the cardinality of a set of pairs of a thread and a query
  (`Counted`) plus the doubly counted ones, and the retries are bounded by a set
  of attempts (`Retried`); `Where` relates a worker's place to its counters.
* `BenchAdvances`: every step of a worker lowers its `Distance`: a new attempt
  is one attempt less, whatever place it starts from.
* `BenchRemainder`: a benchmark that exits with 0 has run the queries but for
  the remainder of their division by the threads; `RunsAllQueries` of section 6
  holds exactly where that is 0.

In both programs `NearerEnds` says that no sequence of distances goes down for
ever: the order is the lexicographic product of the order of the naturals, which
the library proves well-founded. With `RunnerAdvances` and `BenchAdvances` this
is the part of `Terminates` that does not depend on the scheduler; that a
worker's next step is taken, and that main and the reporter follow, is the other.

**`ToString_proofs`**: for values of any length `TextTypes` and `TextDenotes`
(`LiteralDenotes`). In `TextInv`, `Halfway(k)` says of the pass over the quotes
that what lies before the search position denotes the first `k` characters of
the value and what lies behind is the rest of it, untouched. `Read` is recursive,
and so are the facts about it (`ReadAppend`, `ReadingUnique`): they are proved
without an induction rule, from a least counterexample (`LeastNumber`, the
well-ordering of the naturals). `TextNeverAsGiven`: the text that is bound
differs from the argument for every argument, so that `BoundAsGiven` of section
6 fails always and not just for some values.

The temporal properties of these theorems are safety. Liveness is only
model-checked (`CallsReturn`, `ConnectReturns`, `Terminates` of both programs),
since fairness and ENABLED are beyond TLAPS. Some results are stated by theorems
and by no run: `StaleStaysInvalid`, which `ImplementsRegistry` contains;
`WorkersAdvance`, which the configurations of section 3 check;
and the strengthened forms of two findings, `RunsAllButRemainder` and
`NeverAsGiven`.

## 6. Where code and documentation disagree

Found while modelling. The first three are runs; for the others there is a
configuration that shows the behaviour, where one is named.

* **A lone caller can hang** (`pool_replenish_deadlock`). With every allowed
  connection lent, the replenisher waits in `db.Conn` holding `p.mu`
  (bridge.go:132), and the connection can come back only under `p.mu`.
  README.md:306 recommends "connection timeouts to prevent hanging connections";
  `connTimeout` only sets the connections' lifetime (bridge.go:385).
* **Two results under one handle** (`handles_collision`). `GodbcQueryWithParams`
  bumps `nextID` and writes `handles` without `mu` (bridge.go:617-624).
  README.md:13: "Thread-safe connection and resource management".
* **The first average divides by zero** (`sql_runner_undefined`). A
  reporter that prints before the first query is counted divides by zero
  (sql_runner.cpp:62), and so, with `-s`, does a worker that prints the totals
  after its first query and before it counts it (220, 250). README.md:246-249 promises
  "real-time and final metrics" and README.md:226-228 gives this very use.
* `MCBridge_tx_leak.cfg`, `LeakFree`: transactions and statements leak their
  connection. (`OnlyKnownLeaks` says that this, `MCPool_closed_leak.cfg` and
  `MCBridge_pool_leak.cfg` are all the leaks there are.) `GodbcBeginTransaction`
  and `GodbcPrepare` keep only the `sql.Tx` or `sql.Stmt`; nothing closes the
  `sql.Conn` (bridge.go:787, 918). README.md:275: "Resources are automatically
  cleaned up when objects go out of scope".
* `MCPool_exhausted.cfg`, `CallsReturn`: the same hang without a replenisher; a
  caller dials with `p.mu` held while all connections are out (bridge.go:174).
* `MCBridge_query_blocks.cfg`, `CloseRowsEnds`: `GodbcQuery` waits for a
  connection with the global `mu` held, which `GodbcCloseRows` needs
  (bridge.go:535).
* `MCPool_closed_leak.cfg`, `ClosedPoolDrains`: a connection returned after
  `GodbcClose` is appended to the dead pool and stays open (bridge.go:265).
* `MCPool_closed_fill.cfg`, `FillEnds`: with a minimum of two, the same return
  loops for ever, dialling a closed `sql.DB` (bridge.go:272).
* `MCHandles_race.cfg`, `NoDataRace`: the map is read and written without `mu`
  (bridge.go:619, 795, 818).
* `MCBridge_pool_leak.cfg`, `PoolReachable`: `GodbcReturnConnection`, which
  `Connection::close` calls, forgets the pool and leaves it open
  (bridge.go:1031).
* `MCBridge_panic.cfg`, `NeverPanics`: with `retryAttempts` 0 the query
  functions call `lastErr.Error()` on nil (bridge.go:575).
* `MCWrappers_failed_end.cfg`, `NothingLost`: `commit()` and `rollback()` drop
  the handle when the bridge reports an error, and the bridge keeps it then
  (godbc.hpp:340, bridge.go:859-862).
* `MCToString_like.cfg`, `OpenBracketIsLiteral`: the pass that escapes `]` also
  rewrites the one the pass before inserted (godbc.hpp:152).
* `MCToString_bound.cfg`, `BoundAsGiven`: the quoted text is bound as the
  parameter, quotes included (godbc.hpp:158, bridge.go:596-600).
* `MCBenchmark_rethrow.cfg`, `RethrowTriggersRetry`: `throw e` copies the
  exception as its base class, so that the outer handler does not see a
  connection error and a transaction is never tried again, against the comment
  "Re-throw to trigger retry" (benchmark.cpp:232). `CommittedOnce` rests on it:
  with `throw;` in its place (the mutant `RethrowWhole`) a commit whose answer is
  lost is done twice. That the copy has no message is so in libstdc++ and libc++,
  the libraries of the compilers in the repository's build scripts and Dockerfiles
  (GCC, MinGW, Clang). A library that keeps the message in `std::exception` itself,
  as MSVC's does, would behave as `RethrowWhole`; nothing in the repository builds
  with it, although the file has `_WIN32` branches.
* `MCBenchmark_all_queries.cfg`, `RunsAllQueries`: the remainder of the division
  of the queries among the threads is not run (benchmark.cpp:362).

Smaller ones, which the models contain and no configuration is about:

* `benchmark -a 0` runs and counts nothing and exits with 0; a failed
  transaction counts as an error and a success (263). The calls at 142 and 282
  pass `verbose` where `getConnection` takes `networkRetryDelaySecs`.
* In `sql_runner` the workers' looks at `shouldStop` never find it set, since
  main sets it after it joined them. The average query time divides by all
  queries, the failed ones included, and may be below the minimum printed beside
  it; `AveragesBounded` therefore bounds it from above only. With no thread, as
  with `-t 0`, the final results divide by zero. `-t abc` and `-r abc` abort
  (`std::stoi` throws out of main) and `-s abc` is refused.
* In `example.cpp` (46-50), `tx.rollback()` after a failed `tx.commit()` throws
  "Transaction is closed" and hides the error of the commit: by `CppWrappers`,
  a transaction is closed after `commit()` whether it returned or threw.

## 7. What is not modelled

* The data of rows and statements, connection strings, and error texts.
  `isNetworkError` and `isSQLError` (290-340) are a free choice between
  retrying and giving up. Durations in the two programs are a few values; the
  benchmark's sums of times, which end in floating-point quotients, are left
  out.
* `updateConnectionTiming` and its siblings (190-226): statistics that nothing
  reads but a getter.
* The `*sql.Conn` cases of the type switches: no function stores a `*sql.Conn`
  in the table, since `connPool` is filled only by `GetOrCreatePool`, which
  nothing calls.
* Several pools. They share `mu` and the table only; `GodbcHandles` has any
  number of objects.
* `OpenMSSQL` and `GetOrCreatePool` (`bridge/mssql.go`) have no caller in the
  repository: there is no use of them from which to take inputs. The loop of
  `OpenMSSQL` runs no time for a negative count and returns a nil `*sql.DB`
  without an error (32).
* The native Go driver and its pool manager (`mssql/`, `driver.go`,
  `connection.go`, `errors.go`) are a registry, a sequential ping-retry loop, a
  map under one mutex with operations of a line or two, and delegations to
  `database/sql`. Neither the bridge nor a program uses them and they share no
  state with what is modelled. `Close` of a stale pool removes a newer one of
  the same name and closes none (`mssql/pool.go` 57).
* `example.cpp` and `query_examples.cpp`: straight-line programs, whose order of
  calls is among those `CppWrappers` allows; what they print is left out.
* The string helpers of `bridge_types.h`, build files, generated headers and
  data files have no behaviour to model. The raising of the descriptor limit in
  `sql_runner` changes nothing that is modelled.
* Weak memory: apart from `nextID++`, unlocked accesses are sequentially
  consistent. `NoDataRace` says where that is not what Go promises. The
  programs' atomics are sequentially consistent by default.
