-------------------------- MODULE Benchmark_proofs --------------------------
(***************************************************************************)
(* Proofs about Benchmark, for any command lines, any number of threads    *)
(* and any number of attempts.                                             *)
(***************************************************************************)
EXTENDS Benchmark, TLAPS, FiniteSetTheorems, WellFoundedInduction

\* Where a worker may be once its current query was committed: never again at
\* a place that leads to another commit of it.
Settled(w) ==
    \/ pc[w] \in {"succeeded", "txThrown", "failed", "next", "done"}
    \/ pc[w] = "thrown" /\ my[w].error = "other"

LocalTypes == [i : Nat, retryCount : Nat, error : Errors \cup {"none"}]

Types ==
    /\ config.numQueries \in Int /\ config.numThreads \in Int
    /\ config.networkRetryAttempts \in Int /\ 0..(config.numThreads - 1) \subseteq Workers
    /\ main \in {"join", "report", "exit", "crash"} /\ code \in {0, 1} /\ stop \in BOOLEAN
    /\ reporter \in {"check", "print", "done"}
    /\ metrics \in [Counters -> Int]
    /\ pc \in [Workers -> Places]
    /\ my \in [Workers -> LocalTypes]
    /\ commits \in [Workers -> Nat] /\ twice \in Nat

BenchInv ==
    /\ Types
    /\ \A w \in Workers : commits[w] = 0 \/ (commits[w] = 1 /\ Settled(w))

-----------------------------------------------------------------------------
\* The program begins without a commit.
LEMMA BenchInitInv == BenchInit => BenchInv
  <1> SUFFICES ASSUME BenchInit PROVE BenchInv
    OBVIOUS
  <1>1. /\ config.numQueries \in Int /\ config.numThreads \in Int
        /\ config.networkRetryAttempts \in Int /\ 0..(config.numThreads - 1) \subseteq Workers
    BY NumbersAssumption DEF BenchInit
  <1>2. main \in {"join", "report", "exit", "crash"} /\ code \in {0, 1}
    <2> DEFINE fails == config.exit = "error" \/ config.numThreads < 0
               help  == config.exit = "help"
    <2>1. /\ code = IF fails /\ ~help THEN 1 ELSE 0
          /\ \/ main = IF fails \/ help THEN "exit" ELSE "join"
             \/ main = "crash"
      BY DEF BenchInit
    <2> HIDE DEF fails, help
    <2> QED
      BY <2>1
  <1>3. stop \in BOOLEAN /\ reporter \in {"check", "print", "done"} /\ twice \in Nat
    BY DEF BenchInit
  <1>4. metrics \in [Counters -> Int]
    <2>1. metrics = [c \in Counters |-> 0]
      BY DEF BenchInit
    <2> QED
      BY <2>1
  <1>5. /\ pc \in [Workers -> Places] /\ commits \in [Workers -> Nat]
        /\ \A w \in Workers : commits[w] = 0
    BY DEF BenchInit, Places
  <1>6. my \in [Workers -> [i : Nat, retryCount : Nat, error : Errors \cup {"none"}]]
    BY DEF BenchInit
  <1> QED
    <2>1. Types
      BY <1>1, <1>2, <1>3, <1>4, <1>5, <1>6 DEF Types, LocalTypes
    <2> QED
      BY <1>5, <2>1 DEF BenchInv, Types

\* A share of the queries is a number.
LEMMA ShareIsInt == Types => ThreadQueries \in Int
  <1> SUFFICES ASSUME Types PROVE ThreadQueries \in Int
    OBVIOUS
  <1>1. ASSUME NEW a \in Int, NEW b \in Int, b > 0 PROVE Quotient(a, b) \in Int
    BY <1>1 DEF Quotient
  <1> QED
    BY <1>1 DEF ThreadQueries, Types

\* A counter that is added to is still a number.
LEMMA AddKeeps ==
    ASSUME metrics \in [Counters -> Int], NEW c \in Counters, NEW n \in Int, Add(c, n)
    PROVE  metrics' \in [Counters -> Int]
  BY DEF Add

\* A worker's own variables stay in their types.
LEMMA LocalsKept ==
    ASSUME my \in [Workers -> LocalTypes], NEW w \in Workers
    PROVE  /\ [my EXCEPT ![w].i = @ + 1] \in [Workers -> LocalTypes]
           /\ [my EXCEPT ![w].retryCount = @ + 1] \in [Workers -> LocalTypes]
           /\ [my EXCEPT ![w].retryCount = 0, ![w].error = "none"] \in [Workers -> LocalTypes]
           /\ \A e \in Errors : [my EXCEPT ![w].error = e] \in [Workers -> LocalTypes]
  <1>1. \A l \in LocalTypes : [my EXCEPT ![w] = l] \in [Workers -> LocalTypes]
    OBVIOUS
  <1>2. my[w] \in LocalTypes
    OBVIOUS
  <1>3. [my[w] EXCEPT !.i = @ + 1] \in LocalTypes
    BY <1>2 DEF LocalTypes
  <1>4. [my[w] EXCEPT !.retryCount = @ + 1] \in LocalTypes
    BY <1>2 DEF LocalTypes
  <1>5. [my[w] EXCEPT !.retryCount = 0, !.error = "none"] \in LocalTypes
    BY <1>2 DEF LocalTypes
  <1>6. \A e \in Errors : [my[w] EXCEPT !.error = e] \in LocalTypes
    BY <1>2 DEF LocalTypes
  <1> QED
    BY <1>1, <1>3, <1>4, <1>5, <1>6

\* No step of a worker leaves the types.
LEMMA WorkerTypes ==
    ASSUME Types, NEW w \in Workers, Worker(w)
    PROVE  Types'
  <1> USE DEF Types, Places, At, Go, Local, mainVars
  <1>0. Counters = {"successCount", "errorCount", "retryCount", "connectionCreationCount"}
    BY DEF Counters
  <1>1. CASE Connect(w)
    BY <1>1 DEF LocalTypes, Errors, Connect, Call, Raise
  <1>2. CASE CountConnection(w)
    <2>1. metrics' \in [Counters -> Int]
      <3>1. Add("connectionCreationCount", 1)
        BY <1>2 DEF CountConnection
      <3> QED
        BY <1>0, <3>1, AddKeeps
    <2> QED
      BY <1>2, <2>1, LocalsKept DEF CountConnection
  <1>3. CASE Test(w)
    BY <1>3 DEF LocalTypes, Errors, Test, Call, Raise
  <1>4. CASE MakeTable(w)
    BY <1>4 DEF LocalTypes, Errors, MakeTable, Call, Raise
  <1>5. CASE Abandon(w)
    BY <1>5, <1>0, AddKeeps, LocalsKept, ShareIsInt DEF Abandon
  <1>6. CASE NextQuery(w)
    BY <1>6, LocalsKept DEF NextQuery
  <1>7. CASE Finish(w)
    BY <1>7, LocalsKept DEF Finish
  <1>8. CASE ReadQuery(w)
    BY <1>8 DEF LocalTypes, Errors, ReadQuery, Call, Raise
  <1>9. CASE Validate(w)
    BY <1>9 DEF LocalTypes, Errors, Validate, Call, Raise
  <1>10. CASE Begin(w)
    BY <1>10 DEF LocalTypes, Errors, Begin, Call, Raise
  <1>11. CASE TxExecute(w)
    BY <1>11 DEF LocalTypes, Errors, TxExecute, Call, Raise
  <1>12. CASE Commit(w)
    <2>1. my' \in [Workers -> LocalTypes]
      <3>1. my' = my \/ \E e \in Errors : my' = [my EXCEPT ![w].error = e]
        BY <1>12 DEF Commit, Raise
      <3>2. CASE my' = my
        BY <3>2
      <3>3. ASSUME NEW e \in Errors, my' = [my EXCEPT ![w].error = e]
            PROVE  my' \in [Workers -> LocalTypes]
        BY <3>3, LocalsKept
      <3> QED
        BY <3>1, <3>2, <3>3
    <2>2. pc' \in [Workers -> Places]
      BY <1>12 DEF Commit, Raise
    <2>3. [commits EXCEPT ![w] = @ + 1] \in [Workers -> Nat]
      OBVIOUS
    <2>4. commits' \in [Workers -> Nat]
      BY <1>12, <2>3 DEF Commit
    <2> QED
      BY <1>12, <2>1, <2>2, <2>4 DEF Commit
  <1>13. CASE Rethrow(w)
    BY <1>13 DEF LocalTypes, Errors, Rethrow, Raise
  <1>14. CASE CountTxError(w)
    <2>1. metrics' \in [Counters -> Int]
      <3>1. Add("errorCount", 1)
        BY <1>14 DEF CountTxError
      <3> QED
        BY <1>0, <3>1, AddKeeps
    <2>2. twice' \in Nat
      BY <1>14 DEF CountTxError
    <2> QED
      BY <1>14, <2>1, <2>2 DEF CountTxError
  <1>15. CASE CountSuccess(w)
    <2>1. metrics' \in [Counters -> Int]
      <3>1. Add("successCount", 1)
        BY <1>15 DEF CountSuccess
      <3> QED
        BY <1>0, <3>1, AddKeeps
    <2> QED
      BY <1>15, <2>1, LocalsKept DEF CountSuccess
  <1>16. CASE Reconnect(w)
    BY <1>16, LocalsKept DEF Reconnect
  <1>17. CASE CountRetry(w)
    <2>1. metrics' \in [Counters -> Int]
      <3>1. Add("retryCount", 1)
        BY <1>17 DEF CountRetry
      <3> QED
        BY <1>0, <3>1, AddKeeps
    <2> QED
      BY <1>17, <2>1, LocalsKept DEF CountRetry
  <1>18. CASE GiveUp(w)
    BY <1>18, LocalsKept DEF GiveUp
  <1>19. CASE CountError(w)
    <2>1. metrics' \in [Counters -> Int]
      <3>1. Add("errorCount", 1)
        BY <1>19 DEF CountError
      <3> QED
        BY <1>0, <3>1, AddKeeps
    <2> QED
      BY <1>19, <2>1, LocalsKept DEF CountError
  <1> QED
    BY <1>1, <1>2, <1>3, <1>4, <1>5, <1>6, <1>7, <1>8, <1>9, <1>10, <1>11, <1>12,
       <1>13, <1>14, <1>15, <1>16, <1>17, <1>18, <1>19 DEF Worker

\* A worker moves itself alone, and commits once between two starts of a query.
LEMMA WorkerCommits ==
    ASSUME BenchInv, NEW w \in Workers, Worker(w)
    PROVE  /\ \A v \in Workers : v # w => /\ pc'[v] = pc[v] /\ my'[v] = my[v]
                                          /\ commits'[v] = commits[v]
           /\ commits'[w] = 0 \/ (commits'[w] = 1 /\ Settled(w)')
  <1> USE DEF BenchInv, Settled, Types, At, Go, Local, Errors, Retryable
  <1>1. CASE Connect(w)
    BY <1>1 DEF Connect, Call, Raise
  <1>2. CASE CountConnection(w)
    BY <1>2 DEF CountConnection
  <1>3. CASE Test(w)
    BY <1>3 DEF Test, Call, Raise
  <1>4. CASE MakeTable(w)
    BY <1>4 DEF MakeTable, Call, Raise
  <1>5. CASE Abandon(w)
    BY <1>5 DEF Abandon
  <1>6. CASE NextQuery(w)
    <2>1. /\ \A v \in Workers : v # w => commits'[v] = commits[v]
          /\ commits'[w] = 0
      BY <1>6 DEF NextQuery
    <2>2. \A v \in Workers : v # w => my'[v] = my[v]
      BY <1>6 DEF NextQuery
    <2>3. \A v \in Workers : v # w => pc'[v] = pc[v]
      BY <1>6 DEF NextQuery
    <2> QED
      BY <1>6, <2>1, <2>2, <2>3
  <1>7. CASE Finish(w)
    BY <1>7 DEF Finish
  <1>8. CASE ReadQuery(w)
    BY <1>8 DEF ReadQuery, Call, Raise
  <1>9. CASE Validate(w)
    BY <1>9 DEF Validate, Call, Raise
  <1>10. CASE Begin(w)
    BY <1>10 DEF Begin, Call, Raise
  <1>11. CASE TxExecute(w)
    BY <1>11 DEF TxExecute, Call, Raise
  <1>12. CASE Commit(w)
    <2>1. commits[w] = 0
      BY <1>12 DEF Commit
    <2>2. CASE commits' = commits
      BY <1>12, <2>1, <2>2 DEF Commit, Raise
    <2>3. CASE commits' = [commits EXCEPT ![w] = @ + 1]
      <3>1. pc'[w] \in {"succeeded", "txThrown"}
        BY <1>12 DEF Commit, Raise
      <3>2. \A v \in Workers : v # w => pc'[v] = pc[v] /\ my'[v] = my[v]
        BY <1>12 DEF Commit, Raise
      <3>3. commits'[w] = 1 /\ \A v \in Workers : v # w => commits'[v] = commits[v]
        BY <2>1, <2>3
      <3> QED
        BY <3>1, <3>2, <3>3
    <2> QED
      BY <1>12, <2>2, <2>3 DEF Commit
  <1>13. CASE Rethrow(w)
    BY <1>13 DEF Rethrow, Raise
  <1>14. CASE CountTxError(w)
    BY <1>14 DEF CountTxError
  <1>15. CASE CountSuccess(w)
    BY <1>15 DEF CountSuccess
  <1>16. CASE Reconnect(w)
    BY <1>16 DEF Reconnect
  <1>17. CASE CountRetry(w)
    BY <1>17 DEF CountRetry
  <1>18. CASE GiveUp(w)
    BY <1>18 DEF GiveUp
  <1>19. CASE CountError(w)
    BY <1>19 DEF CountError
  <1> QED
    BY <1>1, <1>2, <1>3, <1>4, <1>5, <1>6, <1>7, <1>8, <1>9, <1>10, <1>11, <1>12,
       <1>13, <1>14, <1>15, <1>16, <1>17, <1>18, <1>19 DEF Worker

\* BenchInv is inductive.
LEMMA BenchStep == BenchInv /\ [BenchNext]_benchVars => BenchInv'
  <1> SUFFICES ASSUME BenchInv, [BenchNext]_benchVars
               PROVE  BenchInv'
    OBVIOUS
  <1>1. ASSUME NEW w \in Workers, Worker(w) PROVE BenchInv'
    <2>1. Types'
      BY <1>1, WorkerTypes DEF BenchInv
    <2>2. \A v \in Workers : v # w => /\ Settled(v) <=> Settled(v)'
                                      /\ commits'[v] = commits[v]
      BY <1>1, WorkerCommits DEF Settled
    <2> QED
      BY <1>1, <2>1, <2>2, WorkerCommits DEF BenchInv
  <1>2. CASE ReporterWakes \/ PrintMetrics \/ JoinWorkers \/ FinalResults \/ UNCHANGED benchVars
    <2>1. UNCHANGED <<pc, my, commits>>
      BY <1>2 DEF ReporterWakes, PrintMetrics, JoinWorkers, FinalResults, benchVars
    <2>2. Types'
      BY <1>2 DEF ReporterWakes, PrintMetrics, JoinWorkers, FinalResults, benchVars,
                  BenchInv, Types
    <2> QED
      BY <2>1, <2>2 DEF BenchInv, Settled
  <1> QED
    BY <1>1, <1>2 DEF BenchNext

-----------------------------------------------------------------------------
\* BenchInv is invariant.
THEOREM BenchInvariant == BenchSpec => []BenchInv
  <1> QED
    BY BenchInitInv, BenchStep, PTL DEF BenchSpec

\* The benchmark's variables keep their types for every command line.
THEOREM BenchTypes == BenchSpec => []BenchTypeOK
  <1>1. BenchInv => BenchTypeOK
    BY DEF BenchInv, Types, LocalTypes, BenchTypeOK
  <1> QED
    BY <1>1, BenchInvariant, PTL

\* Whatever is thrown wherever, and however many attempts -a allows, no query
\* is committed twice.
THEOREM BenchCommits == BenchSpec => []CommittedOnce
  <1>1. BenchInv => CommittedOnce
    BY DEF BenchInv, CommittedOnce
  <1> QED
    BY <1>1, BenchInvariant, PTL

-----------------------------------------------------------------------------
(* The counts.  A sum over the workers is the number of elements of a set:   *)
(* the queries, as pairs of a worker and a number, that were counted, and    *)
(* the attempts, as pairs of a query and a number, that may have been.       *)

Threads == 0..(config.numThreads - 1)
Share   == 0..(ThreadQueries - 1)

Early  == {"connect", "connected", "test", "table", "abandoned"}
Active == {"read", "validate", "begin", "statement", "commit", "txThrown", "thrown",
           "retrying", "failed", "succeeded"}

\* What a worker's place says of its query and its attempts.
Where(w) ==
    /\ w \notin Threads => pc[w] = "done"
    /\ pc[w] \in Early => my[w].i = 0 /\ my[w].retryCount = 0
    /\ pc[w] \in Active => my[w].i < ThreadQueries
    /\ pc[w] \in Active \ {"failed"} => my[w].retryCount < config.networkRetryAttempts
    /\ pc[w] = "retrying" => my[w].retryCount > 0
    /\ my[w].retryCount > 0 => my[w].retryCount <= config.networkRetryAttempts

Counted == {q \in Threads \X Share : pc[q[1]] = "done" \/ q[2] < my[q[1]].i}

\* How many attempts of its query a worker has had counted.
Tried(w) == IF pc[w] = "retrying" THEN my[w].retryCount - 1 ELSE my[w].retryCount

Retries == (Threads \X Share) \X (1..(config.networkRetryAttempts - 1))
Retried == {a \in Retries : LET w == a[1][1] IN
              \/ pc[w] = "done" \/ a[1][2] < my[w].i
              \/ a[1][2] = my[w].i /\ pc[w] \in Active /\ a[2] <= Tried(w)}

Tally ==
    config.networkRetryAttempts > 0 /\ config.numQueries >= 0 =>
        /\ metrics.successCount + metrics.errorCount = Cardinality(Counted) + twice
        /\ twice <= metrics.errorCount

Exit ==
    /\ main \in {"join", "report"} => config.numThreads >= 0
    /\ main = "report" => Done
    /\ main = "exit" /\ config.exit = "no" /\ code = 0 =>
         Done /\ config.numThreads >= 0 /\ metrics.errorCount <= 0

TallyInv ==
    /\ \A w \in Workers : Where(w)
    /\ Tally
    /\ config.networkRetryAttempts > 0 => metrics.retryCount <= Cardinality(Retried)
    /\ Exit

\* The share is natural where there is nothing negative to divide.
LEMMA ShareIsNat == Types /\ config.numQueries >= 0 => ThreadQueries \in Nat
  <1> SUFFICES ASSUME Types, config.numQueries >= 0 PROVE ThreadQueries \in Nat
    OBVIOUS
  <1>1. ASSUME NEW a \in Nat, NEW b \in Int, b > 0 PROVE a \div b \in Nat
    BY <1>1
  <1> QED
    BY <1>1 DEF ThreadQueries, Quotient, Types

\* The sets are finite, and as large as their factors say.
LEMMA Sizes ==
    ASSUME Types
    PROVE  /\ IsFiniteSet(Counted) /\ IsFiniteSet(Share)
           /\ IsFiniteSet(Retried) /\ IsFiniteSet(Retries)
           /\ Cardinality(Counted) \in Nat /\ Cardinality(Retried) \in Nat
           /\ ThreadQueries \in Nat => Cardinality(Share) = ThreadQueries
           /\ config.numThreads >= 0 /\ ThreadQueries \in Nat =>
                /\ Cardinality(Counted) <= Planned
                /\ (\A w \in Threads : pc[w] = "done") => Cardinality(Counted) = Planned
                /\ config.networkRetryAttempts > 0 =>
                     Cardinality(Retried) <= Planned * (config.networkRetryAttempts - 1)
  <1> DEFINE N == config.numThreads
             A == config.networkRetryAttempts
  <1>1. N \in Int /\ A \in Int /\ ThreadQueries \in Int
    BY ShareIsInt DEF Types
  <1>2. /\ IsFiniteSet(Threads) /\ IsFiniteSet(Share) /\ IsFiniteSet(1..(A - 1))
        /\ N >= 0 => Cardinality(Threads) = N
        /\ ThreadQueries \in Nat => Cardinality(Share) = ThreadQueries
        /\ A > 0 => Cardinality(1..(A - 1)) = A - 1
    BY <1>1, FS_Interval DEF Threads, Share
  <1>3. /\ IsFiniteSet(Threads \X Share)
        /\ Cardinality(Threads \X Share) = Cardinality(Threads) * Cardinality(Share)
    BY <1>2, FS_Product
  <1>4. /\ IsFiniteSet(Retries)
        /\ Cardinality(Retries) = Cardinality(Threads \X Share) * Cardinality(1..(A - 1))
    BY <1>2, <1>3, FS_Product DEF Retries
  <1>5. /\ IsFiniteSet(Counted) /\ IsFiniteSet(Retried)
        /\ Cardinality(Counted) <= Cardinality(Threads \X Share)
        /\ Cardinality(Retried) <= Cardinality(Retries)
    BY <1>3, <1>4, FS_Subset DEF Counted, Retried
  <1>6. Cardinality(Counted) \in Nat /\ Cardinality(Retried) \in Nat
    BY <1>5, FS_CardinalityType
  <1>7. (\A w \in Threads : pc[w] = "done") => Counted = Threads \X Share
    BY DEF Counted
  <1> QED
    BY <1>1, <1>2, <1>3, <1>4, <1>5, <1>6, <1>7 DEF Planned

(* What a step of a worker may add to the counts, and how it moves then. *)

Ended == metrics.successCount + metrics.errorCount

CountsRetry(w) ==
    /\ pc[w] = "retrying" /\ pc'[w] \in Active \ {"retrying"} /\ my' = my
    /\ Ended' = Ended /\ metrics'.errorCount = metrics.errorCount /\ twice' = twice
    /\ metrics'.retryCount = metrics.retryCount + 1

CountsQuery(w) ==
    /\ pc[w] \in Active /\ pc'[w] = "next" /\ my'[w].i = my[w].i + 1
    /\ Ended' = Ended + 1 /\ metrics'.errorCount - metrics.errorCount \in {0, 1}
    /\ UNCHANGED <<twice, metrics.retryCount>>

CountsTxError(w) ==
    /\ pc[w] = "txThrown" /\ pc'[w] = "succeeded" /\ my' = my
    /\ Ended' = Ended + 1 /\ metrics'.errorCount = metrics.errorCount + 1
    /\ twice' = twice + 1 /\ UNCHANGED metrics.retryCount

CountsAll(w) ==
    /\ pc[w] = "abandoned" /\ pc'[w] = "done"
    /\ Ended' = Ended + ThreadQueries
    /\ metrics'.errorCount = metrics.errorCount + ThreadQueries
    /\ UNCHANGED <<twice, metrics.retryCount>>

\* A worker moves on to its next query, or within one, or before the first.
CountsNothing(w) ==
    /\ UNCHANGED <<Ended, metrics.errorCount, twice, metrics.retryCount>>
    /\ \/ pc[w] = "next" /\ my[w].i >= ThreadQueries /\ pc'[w] = "done"
       \/ pc[w] = "next" /\ pc'[w] = "next" /\ config.networkRetryAttempts <= 0
       \/ pc[w] = "next" /\ pc'[w] \in Active /\ my'[w].i = my[w].i
       \/ pc[w] \in Early /\ pc'[w] \in Early \cup {"next"} /\ my'[w].i = my[w].i
       \/ /\ pc[w] \in Active \ {"retrying"} /\ pc'[w] \in Active
          /\ my'[w].i = my[w].i /\ Tried(w)' >= Tried(w)

\* There is no other way.
LEMMA WorkerMoves ==
    ASSUME Types, NEW w \in Workers, Where(w), Worker(w)
    PROVE  /\ Where(w)' /\ pc[w] # "done"
           /\ \/ CountsRetry(w) \/ CountsQuery(w) \/ CountsTxError(w)
              \/ CountsAll(w) \/ CountsNothing(w)
  <1> USE DEF Types, LocalTypes, Where, At, Go, Local, mainVars, Early, Active, Tried, Ended,
             CountsRetry, CountsQuery, CountsTxError, CountsAll, CountsNothing
  <1>0. /\ {"successCount", "errorCount", "retryCount", "connectionCreationCount"} = Counters
        /\ ThreadQueries' = ThreadQueries /\ Threads' = Threads /\ ThreadQueries \in Int
        /\ config' = config
    <2>1. config' = config
      BY DEF Worker, Connect, Test, MakeTable, ReadQuery, Validate, Begin, TxExecute, Call,
         CountConnection, Abandon, NextQuery, Finish, Commit, Rethrow, CountTxError,
         CountSuccess, Reconnect, CountRetry, GiveUp, CountError
    <2> QED
      BY <2>1, ShareIsInt DEF Counters, ThreadQueries, Threads
  <1>1. CASE Connect(w)
    BY <1>0, <1>1 DEF Connect, Call, Raise
  <1>2. CASE CountConnection(w)
    BY <1>0, <1>2 DEF CountConnection, Add
  <1>3. CASE Test(w)
    BY <1>0, <1>3 DEF Test, Call, Raise
  <1>4. CASE MakeTable(w)
    BY <1>0, <1>4 DEF MakeTable, Call, Raise
  <1>5. CASE Abandon(w)
    BY <1>0, <1>5 DEF Abandon, Add
  <1>6. CASE NextQuery(w)
    BY <1>0, <1>6 DEF NextQuery
  <1>7. CASE Finish(w)
    BY <1>0, <1>7 DEF Finish
  <1>8. CASE ReadQuery(w)
    BY <1>0, <1>8 DEF ReadQuery, Call, Raise
  <1>9. CASE Validate(w)
    BY <1>0, <1>9 DEF Validate, Call, Raise
  <1>10. CASE Begin(w)
    BY <1>0, <1>10 DEF Begin, Call, Raise
  <1>11. CASE TxExecute(w)
    BY <1>0, <1>11 DEF TxExecute, Call, Raise
  <1>12. CASE Commit(w)
    BY <1>0, <1>12 DEF Commit, Raise
  <1>13. CASE Rethrow(w)
    BY <1>0, <1>13 DEF Rethrow, Raise
  <1>14. CASE CountTxError(w)
    BY <1>0, <1>14 DEF CountTxError, Add
  <1>15. CASE CountSuccess(w)
    BY <1>0, <1>15 DEF CountSuccess, Add
  <1>16. CASE Reconnect(w)
    BY <1>0, <1>16 DEF Reconnect
  <1>17. CASE CountRetry(w)
    BY <1>0, <1>17 DEF CountRetry, Add
  <1>18. CASE GiveUp(w)
    BY <1>0, <1>18 DEF GiveUp
  <1>19. CASE CountError(w)
    BY <1>0, <1>19 DEF CountError, Add
  <1> QED
    BY <1>1, <1>2, <1>3, <1>4, <1>5, <1>6, <1>7, <1>8, <1>9, <1>10, <1>11, <1>12, <1>13, <1>14, <1>15,
       <1>16, <1>17, <1>18, <1>19 DEF Worker

\* The other workers do not move, and neither does what the sets are made from.
LEMMA OthersKept ==
    ASSUME Types, NEW w \in Workers, Worker(w)
    PROVE  /\ \A v \in Workers : v # w => pc'[v] = pc[v] /\ my'[v] = my[v]
           /\ config' = config /\ main' = main /\ code' = code /\ main \in {"join", "report"}
           /\ Threads' = Threads /\ ThreadQueries' = ThreadQueries /\ Share' = Share
           /\ Retries' = Retries
  <1>1. /\ \A v \in Workers : v # w => pc'[v] = pc[v] /\ my'[v] = my[v]
        /\ config' = config /\ main' = main /\ code' = code /\ main \in {"join", "report"}
    <2> USE DEF Types, At, Running, Go, Local, mainVars
    <2>1. CASE Connect(w) \/ Test(w) \/ MakeTable(w) \/ ReadQuery(w)
      BY <2>1 DEF Connect, Test, MakeTable, ReadQuery, Call, Raise
    <2>2. CASE Validate(w) \/ Begin(w) \/ TxExecute(w)
      BY <2>2 DEF Validate, Begin, TxExecute, Call, Raise
    <2>3. CASE CountConnection(w) \/ Abandon(w) \/ NextQuery(w) \/ Finish(w)
      BY <2>3 DEF CountConnection, Abandon, NextQuery, Finish
    <2>4. CASE Commit(w) \/ Rethrow(w) \/ CountTxError(w) \/ CountSuccess(w)
      BY <2>4 DEF Commit, Rethrow, CountTxError, CountSuccess, Raise
    <2>5. CASE Reconnect(w) \/ CountRetry(w) \/ GiveUp(w) \/ CountError(w)
      BY <2>5 DEF Reconnect, CountRetry, GiveUp, CountError
    <2> QED
      BY <2>1, <2>2, <2>3, <2>4, <2>5 DEF Worker
  <1>2. ThreadQueries' = ThreadQueries
    BY <1>1 DEF ThreadQueries
  <1> QED
    BY <1>1, <1>2 DEF Threads, Share, Retries

\* A step of a worker keeps the count of the queries.
LEMMA TallyKept ==
    ASSUME Types, \A v \in Workers : Where(v), Tally, NEW w \in Workers, Worker(w)
    PROVE  Tally'
  <1> SUFFICES ASSUME config.networkRetryAttempts > 0, config.numQueries >= 0
               PROVE  Ended' = Cardinality(Counted') + twice' /\ twice' <= metrics'.errorCount
    BY OthersKept DEF Tally, Ended
  <1>1. /\ Ended = Cardinality(Counted) + twice /\ twice <= metrics.errorCount
        /\ config.networkRetryAttempts \in Int /\ Ended \in Int
        /\ metrics.errorCount \in Int /\ twice \in Nat
        /\ Cardinality(Counted) \in Nat /\ IsFiniteSet(Counted)
    BY Sizes DEF Tally, Types, Counters, Ended
  <1>2. ThreadQueries \in Nat /\ IsFiniteSet(Share) /\ Cardinality(Share) = ThreadQueries
    BY ShareIsNat, Sizes
  <1>3. w \in Threads /\ my[w].i \in Nat /\ Threads \subseteq Workers
    BY WorkerMoves DEF Where, Types, LocalTypes, Threads
  <1>a. \A v \in Workers : v # w => pc'[v] = pc[v] /\ my'[v] = my[v]
    BY OthersKept
  <1>b. Counted' = {q \in Threads \X Share : pc'[q[1]] = "done" \/ q[2] < my'[q[1]].i}
    BY OthersKept DEF Counted
  <1>c. pc[w] # "done"
    BY WorkerMoves
  <1>4. ASSUME \/ my'[w].i = my[w].i /\ pc'[w] # "done"
               \/ pc[w] = "next" /\ my[w].i >= ThreadQueries /\ pc'[w] = "done"
        PROVE  Counted' = Counted
    <2>1. \A k \in Share : pc'[w] = "done" \/ k < my'[w].i <=> pc[w] = "done" \/ k < my[w].i
      BY <1>2, <1>3, <1>4, <1>c DEF Share
    <2> QED
      BY <1>3, <1>a, <1>b, <2>1 DEF Counted
  <1>5. ASSUME pc[w] \in Active, pc'[w] = "next", my'[w].i = my[w].i + 1
        PROVE  Cardinality(Counted') = Cardinality(Counted) + 1
    <2>1. my[w].i \in Share /\ <<w, my[w].i>> \notin Counted
      BY <1>2, <1>3, <1>5, <1>c DEF Share, Counted, Where
    <2>2. \A k \in Share : k < my'[w].i <=> k < my[w].i \/ k = my[w].i
      BY <1>2, <1>3, <1>5 DEF Share
    <2>3. Counted' = Counted \cup {<<w, my[w].i>>}
      BY <1>3, <1>5, <1>a, <1>b, <1>c, <2>1, <2>2 DEF Counted
    <2> QED
      BY <1>1, <2>1, <2>3, FS_AddElement
  <1>6. ASSUME pc[w] = "abandoned", pc'[w] = "done"
        PROVE  Cardinality(Counted') = Cardinality(Counted) + ThreadQueries
    <2>1. my[w].i = 0
      BY <1>6 DEF Where, Early
    <2>2. Counted \cap ({w} \X Share) = {}
      BY <1>2, <1>6, <2>1 DEF Share, Counted
    <2>3. Counted' = Counted \cup ({w} \X Share)
      BY <1>3, <1>6, <1>a, <1>b DEF Counted
    <2>4. IsFiniteSet({w} \X Share) /\ Cardinality({w} \X Share) = ThreadQueries
      <3>1. IsFiniteSet({w}) /\ Cardinality({w}) = 1
        BY FS_Singleton
      <3>2. 1 * ThreadQueries = ThreadQueries
        BY <1>2
      <3> QED
        BY <1>2, <3>1, <3>2, FS_Product
    <2>5. /\ Cardinality(Counted') = Cardinality(Counted) + ThreadQueries - Cardinality({})
          /\ Cardinality({}) = 0
      BY <1>1, <2>2, <2>3, <2>4, FS_Union, FS_EmptySet
    <2> QED
      BY <1>1, <1>2, <2>5
  <1>7. CASE CountsRetry(w)
    BY <1>1, <1>4, <1>7 DEF CountsRetry, Active
  <1>8. CASE CountsQuery(w)
    <2>1. metrics'.errorCount \in Int
      BY WorkerTypes DEF Types, Counters
    <2> QED
      BY <1>1, <1>5, <1>8, <2>1 DEF CountsQuery
  <1>9. CASE CountsTxError(w)
    BY <1>1, <1>4, <1>9 DEF CountsTxError
  <1>10. CASE CountsAll(w)
    BY <1>1, <1>2, <1>6, <1>10 DEF CountsAll
  <1>11. CASE CountsNothing(w)
    <2>1. Counted' = Counted
      BY <1>1, <1>4, <1>11 DEF CountsNothing, Active, Early
    <2> QED
      BY <1>1, <1>11, <2>1 DEF CountsNothing
  <1> QED
    BY <1>7, <1>8, <1>9, <1>10, <1>11, WorkerMoves

\* A step of a worker keeps the bound on the retries.
LEMMA RetriesKept ==
    ASSUME Types, \A v \in Workers : Where(v), NEW w \in Workers, Worker(w),
           config.networkRetryAttempts > 0, metrics.retryCount <= Cardinality(Retried)
    PROVE  metrics'.retryCount <= Cardinality(Retried')
  <1>1. /\ metrics.retryCount \in Int /\ ThreadQueries \in Int
        /\ config.networkRetryAttempts \in Int
        /\ Cardinality(Retried) \in Nat /\ IsFiniteSet(Retried) /\ IsFiniteSet(Retries)
    BY Sizes, ShareIsInt DEF Types, Counters
  <1>2. /\ w \in Threads /\ my[w].i \in Nat /\ my[w].retryCount \in Nat
        /\ Threads \subseteq Workers
    BY WorkerMoves DEF Where, Types, LocalTypes, Threads
  <1>a. \A v \in Workers : v # w => pc'[v] = pc[v] /\ my'[v] = my[v]
    BY OthersKept
  <1>b. Retried' = {a \in Retries : LET v == a[1][1] IN
                      \/ pc'[v] = "done" \/ a[1][2] < my'[v].i
                      \/ a[1][2] = my'[v].i /\ pc'[v] \in Active /\ a[2] <= Tried(v)'}
    BY OthersKept DEF Retried
  <1>c. pc[w] # "done" /\ Retried' \subseteq Retries
    BY <1>b, WorkerMoves
  <1>d. ASSUME NEW a \in Retried, a[1][1] # w PROVE a \in Retried'
    <2>1. a[1][1] \in Workers
      BY <1>2 DEF Retried, Retries
    <2> QED
      BY <1>a, <1>b, <1>d, <2>1 DEF Retried, Tried
  <1>e. ASSUME NEW a \in Retried, a[1][1] = w
        PROVE  /\ a[1][2] \in Int /\ a[2] \in Int /\ a \in Retries
               /\ \/ a[1][2] < my[w].i
                  \/ a[1][2] = my[w].i /\ pc[w] \in Active /\ a[2] <= Tried(w)
    BY <1>1, <1>c, <1>e DEF Retried, Retries, Share
  <1>3. ASSUME \/ pc'[w] = "done"
               \/ my'[w].i = my[w].i + 1
               \/ my'[w].i = my[w].i /\ pc[w] \notin Active
               \/ /\ my'[w].i = my[w].i /\ pc[w] \in Active /\ pc'[w] \in Active
                  /\ Tried(w) <= Tried(w)' /\ Tried(w) \in Int /\ Tried(w)' \in Int
        PROVE  Cardinality(Retried) <= Cardinality(Retried')
    <2>1. Retried \subseteq Retried'
      <3> SUFFICES ASSUME NEW a \in Retried, a[1][1] = w PROVE a \in Retried'
        BY <1>d
      <3>1. /\ a[1][2] \in Int /\ a[2] \in Int /\ a \in Retries
            /\ \/ a[1][2] < my[w].i
               \/ a[1][2] = my[w].i /\ pc[w] \in Active /\ a[2] <= Tried(w)
        BY <1>e
      <3> HIDE DEF Tried
      <3>2. \/ pc'[w] = "done" \/ a[1][2] < my'[w].i
            \/ a[1][2] = my'[w].i /\ pc'[w] \in Active /\ a[2] <= Tried(w)'
        BY <1>2, <1>3, <3>1
      <3> QED
        BY <1>b, <3>1, <3>2
    <2>2. IsFiniteSet(Retried')
      BY <1>1, <1>c, FS_Subset
    <2> QED
      BY <2>1, <2>2, FS_Subset
  <1>4. CASE CountsRetry(w)
    <2> DEFINE x == <<<<w, my[w].i>>, my[w].retryCount>>
    <2>1. my[w].i \in Share /\ my[w].retryCount \in 1..(config.networkRetryAttempts - 1)
      BY <1>1, <1>2, <1>4 DEF CountsRetry, Where, Active, Share
    <2>2. x \in Retries
      BY <1>2, <2>1 DEF Retries
    <2>3. x \notin Retried
      BY <1>2, <1>4 DEF CountsRetry, Retried, Tried
    <2>4. x \in Retried'
      BY <1>2, <1>4, <1>b, <2>2 DEF CountsRetry, Tried
    <2>5. Retried \subseteq Retried'
      <3> SUFFICES ASSUME NEW a \in Retried, a[1][1] = w PROVE a \in Retried'
        BY <1>d
      <3>1. /\ a[1][2] \in Int /\ a[2] \in Int /\ a \in Retries
            /\ \/ a[1][2] < my[w].i
               \/ a[1][2] = my[w].i /\ pc[w] \in Active /\ a[2] <= Tried(w)
        BY <1>e
      <3> QED
        BY <1>2, <1>4, <1>b, <3>1 DEF CountsRetry, Tried
    <2>6. /\ IsFiniteSet(Retried') /\ Cardinality(Retried') \in Nat
          /\ Cardinality(Retried \cup {x}) = Cardinality(Retried) + 1
      BY <1>1, <1>c, <2>3, FS_Subset, FS_AddElement, FS_CardinalityType
    <2>7. Cardinality(Retried \cup {x}) <= Cardinality(Retried')
      BY <2>4, <2>5, <2>6, FS_Subset
    <2>8. metrics'.retryCount = metrics.retryCount + 1
      BY <1>4 DEF CountsRetry
    <2> HIDE DEF x
    <2> QED
      BY <1>1, <2>6, <2>7, <2>8
  <1>5. ASSUME CountsQuery(w) \/ CountsTxError(w) \/ CountsAll(w) \/ CountsNothing(w)
        PROVE  /\ metrics'.retryCount = metrics.retryCount
               /\ \/ pc'[w] = "done"
                  \/ my'[w].i = my[w].i + 1
                  \/ my'[w].i = my[w].i /\ pc[w] \notin Active
                  \/ my'[w].i = my[w].i /\ pc[w] \in Active /\ pc'[w] \in Active /\ Tried(w)' >= Tried(w)
    <2>1. CASE CountsQuery(w) \/ CountsAll(w)
      BY <2>1 DEF CountsQuery, CountsAll
    <2>2. CASE CountsTxError(w)
      BY <1>2, <2>2 DEF CountsTxError, Active, Tried
    <2>3. CASE CountsNothing(w)
      <3>1. "next" \notin Active /\ Active \cap Early = {}
        BY DEF Active, Early
      <3> QED
        BY <1>1, <2>3, <3>1 DEF CountsNothing
    <2> QED
      BY <1>5, <2>1, <2>2, <2>3
  <1>6. Tried(w) \in Int /\ Tried(w)' \in Int
    <2>1. my'[w].retryCount \in Nat
      BY WorkerTypes DEF Types, LocalTypes
    <2> QED
      BY <1>2, <2>1 DEF Tried
  <1> HIDE DEF Tried
  <1>7. CASE CountsQuery(w) \/ CountsTxError(w) \/ CountsAll(w) \/ CountsNothing(w)
    <2>1. Cardinality(Retried) <= Cardinality(Retried')
      BY <1>3, <1>5, <1>6, <1>7
    <2>2. Cardinality(Retried') \in Nat
      BY <1>1, <1>c, FS_Subset, FS_CardinalityType
    <2> QED
      BY <1>1, <1>5, <1>7, <2>1, <2>2
  <1> QED
    BY <1>4, <1>7, WorkerMoves

-----------------------------------------------------------------------------
\* Before the first step nothing was counted.
LEMMA TallyInit == BenchInit => TallyInv
  <1> SUFFICES ASSUME BenchInit PROVE TallyInv
    OBVIOUS
  <1>1. Types
    BY BenchInitInv DEF BenchInv
  <1>2. /\ \A w \in Workers : pc[w] = IF w < config.numThreads THEN "connect" ELSE "done"
        /\ \A w \in Workers : my[w].i = 0 /\ my[w].retryCount = 0
        /\ metrics.successCount = 0 /\ metrics.errorCount = 0 /\ metrics.retryCount = 0
        /\ twice = 0
    BY DEF BenchInit, Counters
  <1>3. Threads \subseteq Workers /\ \A w \in Workers : w < config.numThreads => w \in Threads
    BY <1>1, BenchmarkAssumption DEF Threads, Types
  <1>4. \A w \in Workers : Where(w)
    BY <1>2, <1>3 DEF Where, Early, Active
  <1>5. Counted = {}
    <2>1. \A w \in Threads : pc[w] = "connect" /\ my[w].i = 0
      BY <1>1, <1>2, <1>3 DEF Threads, Types
    <2> QED
      BY <1>1, <2>1, ShareIsInt DEF Counted, Share
  <1>6. Tally
    BY <1>2, <1>5, FS_EmptySet DEF Tally
  <1>7. metrics.retryCount <= Cardinality(Retried)
    BY <1>1, <1>2, Sizes
  <1>8. Exit
    <2>1. main # "report" /\ (main = "join" => config.numThreads >= 0)
      BY <1>1 DEF BenchInit, Types
    <2>2. main = "exit" /\ config.exit = "no" => code = 1
      BY DEF BenchInit
    <2> QED
      BY <2>1, <2>2 DEF Exit
  <1> QED
    BY <1>4, <1>6, <1>7, <1>8 DEF TallyInv

\* Every step keeps the counts.
LEMMA TallyStep ==
    ASSUME Types, TallyInv, [BenchNext]_benchVars
    PROVE  TallyInv'
  <1>1. ASSUME NEW w \in Workers, Worker(w)
        PROVE  TallyInv'
    <2>1. \A v \in Workers : Where(v)'
      <3>1. ASSUME NEW v \in Workers, v # w PROVE Where(v)'
        BY <1>1, <3>1, OthersKept DEF TallyInv, Where
      <3> QED
        BY <1>1, <3>1, WorkerMoves DEF TallyInv
    <2>2. Tally'
      BY <1>1, TallyKept DEF TallyInv
    <2>3. (config.networkRetryAttempts > 0 => metrics.retryCount <= Cardinality(Retried))'
      BY <1>1, RetriesKept, OthersKept DEF TallyInv
    <2>4. Exit'
      <3>1. main' = main /\ main \in {"join", "report"}
        BY <1>1, OthersKept
      <3>2. main # "report"
        BY <1>1, WorkerMoves DEF TallyInv, Exit, Done
      <3> QED
        BY <1>1, <3>1, <3>2, OthersKept DEF Exit, TallyInv
    <2> QED
      BY <2>1, <2>2, <2>3, <2>4 DEF TallyInv
  <1>2. ASSUME UNCHANGED <<config, metrics, pc, my, twice>>, Exit'
        PROVE  TallyInv'
    <2>1. /\ Threads' = Threads /\ ThreadQueries' = ThreadQueries /\ Share' = Share
          /\ Retries' = Retries /\ Counted' = Counted
          /\ \A v : Tried(v)' = Tried(v)
      BY <1>2 DEF Threads, ThreadQueries, Share, Retries, Counted, Tried
    <2>2. Retried' = Retried
      BY <1>2, <2>1 DEF Retried
    <2>3. \A v \in Workers : Where(v)'
      BY <1>2, <2>1 DEF TallyInv, Where
    <2> QED
      BY <1>2, <2>1, <2>2, <2>3 DEF TallyInv, Tally
  <1>3. CASE ReporterWakes \/ PrintMetrics \/ UNCHANGED benchVars
    BY <1>2, <1>3 DEF ReporterWakes, PrintMetrics, benchVars, TallyInv, Exit, Done
  <1>4. CASE JoinWorkers
    BY <1>2, <1>4 DEF JoinWorkers, TallyInv, Exit, Done
  <1>5. CASE FinalResults
    BY <1>2, <1>5 DEF FinalResults, TallyInv, Exit, Done, Types, Counters
  <1> QED
    BY <1>1, <1>3, <1>4, <1>5 DEF BenchNext

\* TallyInv is invariant.
THEOREM BenchTally == BenchSpec => []TallyInv
  <1>1. BenchInv => Types
    BY DEF BenchInv
  <1> QED
    BY <1>1, TallyInit, TallyStep, BenchInvariant, PTL DEF BenchSpec

\* Whatever fails and however the workers are interleaved, each query is counted
\* once, a failed transaction twice, and all are when the workers are done.
THEOREM BenchCounts == BenchSpec => []CountedOnce
  <1>1. Types /\ TallyInv => CountedOnce
    <2> SUFFICES ASSUME Types, TallyInv, config.networkRetryAttempts > 0, config.numQueries >= 0
                 PROVE  /\ metrics.successCount + metrics.errorCount <= Planned + twice
                        /\ Done /\ config.numThreads >= 0 =>
                             metrics.successCount + metrics.errorCount = Planned + twice
      BY DEF CountedOnce
    <2>1. /\ metrics.successCount + metrics.errorCount = Cardinality(Counted) + twice
          /\ ThreadQueries \in Nat /\ twice \in Nat /\ Cardinality(Counted) \in Nat
          /\ config.numThreads \in Int /\ Threads \subseteq Workers
      BY ShareIsNat, Sizes DEF TallyInv, Tally, Types, Threads
    <2>2. CASE config.numThreads >= 0
      <3>1. Planned \in Int
        BY <2>1 DEF Planned
      <3>2. Cardinality(Counted) <= Planned /\ (Done => Cardinality(Counted) = Planned)
        BY <2>1, <2>2, Sizes DEF Done
      <3> QED
        BY <2>1, <3>1, <3>2
    <2>3. CASE config.numThreads < 0
      <3>1. Counted = {} /\ Planned = 0
        BY <2>1, <2>3 DEF Counted, Threads, Planned, ThreadQueries
      <3> QED
        BY <2>1, <2>3, <3>1, FS_EmptySet
    <2> QED
      BY <2>1, <2>2, <2>3
  <1>2. BenchInv => Types
    BY DEF BenchInv
  <1> QED
    BY <1>1, <1>2, BenchInvariant, BenchTally, PTL

\* No query is retried more often than -a allows, and neither are all together.
THEOREM BenchRetries == BenchSpec => []RetriesBounded
  <1>1. Types /\ TallyInv => RetriesBounded
    <2> SUFFICES ASSUME Types, TallyInv PROVE RetriesBounded
      OBVIOUS
    <2>1. \A w \in Workers : my[w].retryCount > 0 => my[w].retryCount <= config.networkRetryAttempts
      BY DEF TallyInv, Where
    <2>2. ASSUME config.networkRetryAttempts > 0, Planned >= 0, config.numThreads >= 0
          PROVE  metrics.retryCount <= Planned * (config.networkRetryAttempts - 1)
      <3>1. ThreadQueries \in Nat
        <4>1. ThreadQueries \in Int /\ config.numThreads \in Int
          BY ShareIsInt DEF Types
        <4>2. CASE config.numThreads > 0
          BY <2>2, <4>1, <4>2 DEF Planned
        <4>3. CASE config.numThreads = 0
          BY <4>3 DEF ThreadQueries
        <4> QED
          BY <2>2, <4>1, <4>2, <4>3
      <3>2. Cardinality(Retried) <= Planned * (config.networkRetryAttempts - 1)
        BY <2>2, <3>1, Sizes
      <3>3. /\ metrics.retryCount \in Int /\ Cardinality(Retried) \in Nat
            /\ metrics.retryCount <= Cardinality(Retried)
            /\ Planned * (config.networkRetryAttempts - 1) \in Int
        BY <2>2, <3>1, Sizes DEF TallyInv, Types, Counters, Planned
      <3> QED
        BY <3>2, <3>3
    <2> QED
      BY <2>1, <2>2 DEF RetriesBounded
  <1>2. BenchInv => Types
    BY DEF BenchInv
  <1> QED
    BY <1>1, <1>2, BenchInvariant, BenchTally, PTL

\* An exit code of 0 says that every query succeeded, and only once.
THEOREM BenchExit == BenchSpec => []ExitTellsErrors
  <1>1. Types /\ TallyInv /\ CountedOnce => ExitTellsErrors
    <2> SUFFICES ASSUME Types, TallyInv, CountedOnce, main = "exit", code = 0, config.exit = "no",
                        config.networkRetryAttempts > 0, config.numQueries >= 0
                 PROVE  metrics.successCount = Planned /\ twice = 0
      BY DEF ExitTellsErrors
    <2>1. Done /\ config.numThreads >= 0 /\ metrics.errorCount <= 0
      BY DEF TallyInv, Exit
    <2>2. twice <= metrics.errorCount /\ twice \in Nat /\ metrics.errorCount \in Int
      BY DEF TallyInv, Tally, Types, Counters
    <2>3. metrics.errorCount = 0 /\ twice = 0
      BY <2>1, <2>2
    <2>4. metrics.successCount + metrics.errorCount = Planned + twice
      BY <2>1 DEF CountedOnce
    <2>5. metrics.successCount \in Int /\ Planned \in Int
      BY ShareIsInt DEF Types, Counters, Planned
    <2> QED
      BY <2>3, <2>4, <2>5
  <1>2. BenchInv => Types
    BY DEF BenchInv
  <1> QED
    BY <1>1, <1>2, BenchInvariant, BenchTally, BenchCounts, PTL

-----------------------------------------------------------------------------
(***************************************************************************)
(* The workers end.  A distance is a triple of natural numbers; each step  *)
(* of a worker lowers it, and no sequence of such triples goes down for    *)
(* ever.                                                                   *)
(***************************************************************************)
Distances == [1..3 -> Nat]

Below     == {p \in Nat \X Nat : p[1] < p[2]}

\* Numbers are well-founded, and so are triples of them.
LEMMA DistancesEnd == IsWellFoundedOn(LexProductOrdering(Below, Nat, 3), Distances)
  <1>1. IsWellFoundedOn(Below, Nat)
    BY NatLessThanWellFounded, Zenon DEF OpToRel, Below
  <1>2. 3 \in Nat
    OBVIOUS
  <1> QED
    BY <1>1, <1>2, WFLexProductOrdering, Zenon DEF Distances

\* No endless sequence of distances goes down.
LEMMA NearerEnds ==
    \A f \in [Nat -> Distances] :
        (\A n \in Nat : Len(f[n]) = 3) => \E n \in Nat : ~Nearer(f[n + 1], f[n])
  <1> SUFFICES ASSUME NEW f \in [Nat -> Distances],
                      \A n \in Nat : Len(f[n]) = 3 /\ Nearer(f[n + 1], f[n])
               PROVE  FALSE
    OBVIOUS
  <1> DEFINE Order == LexProductOrdering(Below, Nat, 3)
  <1>1. ASSUME NEW n \in Nat
        PROVE  <<f[n + 1], f[n]>> \in Order
    <2>1. n + 1 \in Nat /\ Len(f[n + 1]) = 3
      OBVIOUS
    <2>2. f[n + 1] \in [1..3 -> Nat] /\ f[n] \in [1..3 -> Nat]
      BY <2>1 DEF Distances
    <2> DEFINE d == f[n + 1]
               e == f[n]
    <2>3. d \in [1..3 -> Nat] /\ e \in [1..3 -> Nat] /\ Len(d) = 3 /\ Nearer(d, e)
      BY <2>1, <2>2
    <2> HIDE DEF d, e
    <2>4. PICK j \in 1..3 : d[j] < e[j] /\ \A k \in 1..(j - 1) : d[k] = e[k]
      BY <2>3 DEF Nearer
    <2>5. <<d[j], e[j]>> \in Below
      BY <2>3, <2>4 DEF Below
    <2>6. <<d, e>> \in Order
      BY <2>3, <2>4, <2>5 DEF LexProductOrdering
    <2> QED
      BY <2>6 DEF d, e
  <1> HIDE DEF Order
  <1>2. \E g \in [Nat -> Distances] : \A n \in Nat : <<g[n + 1], g[n]>> \in Order
    BY <1>1
  <1>3. IsWellFoundedOn(Order, Distances)
    BY DistancesEnd DEF Order
  <1> QED
    BY <1>2, <1>3, Zenon DEF IsWellFoundedOn

\* A distance is one.
LEMMA DistanceType ==
    ASSUME Types, NEW w \in Workers
    PROVE  Distance(w) \in Distances /\ Len(Distance(w)) = 3
  <1>1. /\ ThreadQueries \in Int /\ my[w].i \in Nat /\ my[w].retryCount \in Nat
        /\ config.networkRetryAttempts \in Int
    BY ShareIsInt DEF Types, LocalTypes
  <1>2. Rank(pc[w]) \in Nat
    BY DEF Types, Places, Rank
  <1>3. \A n \in Int : AtLeast0(n) \in Nat
    BY DEF AtLeast0
  <1> QED
    BY <1>1, <1>2, <1>3 DEF Distance, Distances

\* Three ways of being nearer.
LEMMA NearerBy ==
    ASSUME NEW a \in Nat, NEW b \in Nat, NEW c \in Nat, NEW x \in Nat, NEW y \in Nat, NEW z \in Nat,
           a < x \/ (a = x /\ (b < y \/ (b = y /\ c < z)))
    PROVE  Nearer(<<a, b, c>>, <<x, y, z>>)
  <1>1. CASE a < x
    <2>1. 1 \in 1..3 /\ \A k \in 1..0 : FALSE
      OBVIOUS
    <2> QED
      BY <1>1, <2>1 DEF Nearer
  <1>2. CASE a = x /\ b < y
    <2>1. 2 \in 1..3 /\ \A k \in 1..1 : k = 1
      OBVIOUS
    <2> QED
      BY <1>2, <2>1 DEF Nearer
  <1>3. CASE a = x /\ b = y /\ c < z
    <2>1. 3 \in 1..3 /\ \A k \in 1..2 : k = 1 \/ k = 2
      OBVIOUS
    <2> QED
      BY <1>3, <2>1 DEF Nearer
  <1> QED
    BY <1>1, <1>2, <1>3

\* Every step of a worker is done with a query, with an attempt, or with a place.
LEMMA WorkerNearer ==
    ASSUME Types, NEW w \in Workers, Where(w), Worker(w)
    PROVE  Nearer(Distance(w)', Distance(w))
  <1> DEFINE Ahead == AtLeast0(ThreadQueries - my[w].i)
             Tries == AtLeast0(IF pc[w] \in InQuery THEN config.networkRetryAttempts - my[w].retryCount
                                                    ELSE config.networkRetryAttempts + 1)
             Lower == \/ Ahead' < Ahead
                      \/ /\ Ahead' = Ahead
                         /\ Tries' < Tries \/ (Tries' = Tries /\ Rank(pc[w])' < Rank(pc[w]))
  <1>0. /\ ThreadQueries \in Int /\ ThreadQueries' = ThreadQueries /\ config' = config
        /\ config.networkRetryAttempts \in Int
        /\ my[w].i \in Nat /\ my[w].retryCount \in Nat /\ w \in DOMAIN my /\ w \in DOMAIN pc
    BY OthersKept, ShareIsInt DEF Types, LocalTypes
  <1> SUFFICES Lower
    <2>a. my'[w].i \in Nat /\ my'[w].retryCount \in Nat /\ pc[w] \in Places /\ pc'[w] \in Places
      BY WorkerTypes DEF Types, LocalTypes
    <2>b. \A n \in Int : AtLeast0(n) \in Nat
      BY DEF AtLeast0
    <2>c. \A p \in Places : Rank(p) \in Nat
      BY DEF Places, Rank
    <2>d. Ahead \in Nat /\ Ahead' \in Nat
      BY <1>0, <2>a, <2>b
    <2>e. Tries \in Nat /\ Tries' \in Nat
      BY <1>0, <2>a, <2>b
    <2>1. /\ Ahead \in Nat /\ Tries \in Nat /\ Rank(pc[w]) \in Nat
          /\ Ahead' \in Nat /\ Tries' \in Nat /\ Rank(pc[w])' \in Nat
      BY <2>a, <2>c, <2>d, <2>e
    <2> QED
      BY <2>1, NearerBy DEF Distance
  <1>a. \A m, n \in Int : m < n /\ n > 0 => AtLeast0(m) < AtLeast0(n)
    BY DEF AtLeast0
  \* The next query.
  <1>b. ASSUME my[w].i < ThreadQueries, my'[w].i = my[w].i + 1
        PROVE  Lower
    <2>1. Ahead = AtLeast0(ThreadQueries - my[w].i)
          /\ Ahead' = AtLeast0(ThreadQueries - (my[w].i + 1))
      BY <1>0, <1>b
    <2> DEFINE m == ThreadQueries - (my[w].i + 1)
               n == ThreadQueries - my[w].i
    <2>2. m \in Int /\ n \in Int /\ m < n /\ n > 0
      BY <1>0, <1>b
    <2> HIDE DEF m, n, Ahead
    <2>3. AtLeast0(m) < AtLeast0(n)
      BY <1>a, <2>2
    <2> QED
      BY <2>1, <2>3 DEF m, n
  \* The next attempt.
  <1>c. ASSUME my'[w].i = my[w].i, pc'[w] \in InQuery,
               \/ pc[w] \notin InQuery /\ my'[w].retryCount = 0
                  /\ config.networkRetryAttempts > 0
               \/ pc[w] \in InQuery /\ my'[w].retryCount = my[w].retryCount + 1
                  /\ my[w].retryCount < config.networkRetryAttempts
        PROVE  Lower
    <2>1. Ahead' = Ahead
      BY <1>0, <1>c
    <2>2. CASE pc[w] \notin InQuery
      <3>1. Tries = AtLeast0(config.networkRetryAttempts + 1)
            /\ Tries' = AtLeast0(config.networkRetryAttempts)
        BY <1>0, <1>c, <2>2
      <3> DEFINE m == config.networkRetryAttempts
                 n == config.networkRetryAttempts + 1
      <3>2. m \in Int /\ n \in Int /\ m < n /\ n > 0
        BY <1>0, <1>c, <2>2
      <3> HIDE DEF m, n, Ahead, Tries
      <3>3. AtLeast0(m) < AtLeast0(n)
        BY <1>a, <3>2
      <3> QED
        BY <2>1, <3>1, <3>3 DEF m, n
    <2>3. CASE pc[w] \in InQuery
      <3>1. Tries = AtLeast0(config.networkRetryAttempts - my[w].retryCount)
            /\ Tries' = AtLeast0(config.networkRetryAttempts - (my[w].retryCount + 1))
        BY <1>0, <1>c, <2>3
      <3> DEFINE m == config.networkRetryAttempts - (my[w].retryCount + 1)
                 n == config.networkRetryAttempts - my[w].retryCount
      <3>2. m \in Int /\ n \in Int /\ m < n /\ n > 0
        BY <1>0, <1>c, <2>3
      <3> HIDE DEF m, n, Ahead, Tries
      <3>3. AtLeast0(m) < AtLeast0(n)
        BY <1>a, <3>2
      <3> QED
        BY <2>1, <3>1, <3>3 DEF m, n
    <2> QED
      BY <2>2, <2>3
  \* The next place.
  <1>d. ASSUME my'[w].i = my[w].i, my'[w].retryCount = my[w].retryCount,
               pc'[w] \in InQuery <=> pc[w] \in InQuery, Rank(pc'[w]) < Rank(pc[w])
        PROVE  Lower
    BY <1>0, <1>d
  <1> HIDE DEF Lower, Ahead, Tries
  <1> USE DEF Types, LocalTypes, At, Go, Local, mainVars, Rank, InQuery
  <1>1. CASE Connect(w) \/ CountConnection(w) \/ Test(w) \/ MakeTable(w)
    BY <1>1, <1>d DEF Connect, CountConnection, Test, MakeTable, Call, Raise
  <1>2. CASE Abandon(w) \/ Finish(w)
    BY <1>2, <1>d DEF Abandon, Finish
  <1>3. CASE NextQuery(w)
    <2>1. CASE config.networkRetryAttempts > 0
      BY <1>3, <2>1, <1>c DEF NextQuery
    <2>2. CASE ~(config.networkRetryAttempts > 0)
      BY <1>3, <2>2, <1>b DEF NextQuery
    <2> QED
      BY <2>1, <2>2
  <1>4. CASE ReadQuery(w) \/ Validate(w) \/ Begin(w) \/ TxExecute(w)
    BY <1>4, <1>d DEF ReadQuery, Validate, Begin, TxExecute, Call, Raise
  <1>5. CASE Commit(w) \/ Rethrow(w) \/ CountTxError(w)
    BY <1>5, <1>d DEF Commit, Rethrow, CountTxError, Raise
  <1>6. CASE CountSuccess(w) \/ CountError(w)
    BY <1>6, <1>b DEF CountSuccess, CountError, Where, Active
  <1>7. CASE Reconnect(w)
    BY <1>7, <1>c DEF Reconnect, Where, Active
  <1>8. CASE CountRetry(w)
    BY <1>8, <1>d DEF CountRetry
  <1>9. CASE GiveUp(w)
    BY <1>9, <1>c, <1>d DEF GiveUp, Where, Active
  <1> QED
    BY <1>1, <1>2, <1>3, <1>4, <1>5, <1>6, <1>7, <1>8, <1>9 DEF Worker

\* Every worker comes nearer to its end with each of its steps, for any options
\* and any failures: it takes finitely many (NearerEnds).
THEOREM BenchAdvances == BenchSpec => WorkersAdvance
  <1>1. Types /\ TallyInv /\ [BenchNext]_benchVars
          => [\A w \in Workers : Worker(w) => Nearer(Distance(w)', Distance(w))]_benchVars
    BY WorkerNearer DEF TallyInv
  <1>2. BenchInv => Types
    BY DEF BenchInv
  <1> QED
    BY <1>1, <1>2, BenchInvariant, BenchTally, PTL DEF BenchSpec, WorkersAdvance

\* The queries that are run are those that the threads divide among them, so
\* that RunsAllQueries holds exactly if nothing remains.
Remainder == config.numQueries % config.numThreads

RunsAllButRemainder ==
    main = "exit" /\ code = 0 /\ config.exit = "no" /\ config.networkRetryAttempts > 0
    /\ config.numQueries >= 0 /\ config.numThreads > 0 =>
        metrics.successCount + metrics.errorCount = config.numQueries - Remainder

\* A benchmark that exits with 0 has run every query but the remainder.
THEOREM BenchRemainder == BenchSpec => []RunsAllButRemainder
  <1>1. Types /\ TallyInv /\ ExitTellsErrors => RunsAllButRemainder
    <2> SUFFICES ASSUME Types, TallyInv, ExitTellsErrors,
                        main = "exit", code = 0, config.exit = "no",
                        config.networkRetryAttempts > 0,
                        config.numQueries >= 0, config.numThreads > 0
                 PROVE  metrics.successCount + metrics.errorCount = config.numQueries - Remainder
      BY DEF RunsAllButRemainder
    <2>1. /\ metrics.successCount = Planned /\ metrics.errorCount <= 0
          /\ twice <= metrics.errorCount /\ twice \in Nat /\ metrics.errorCount \in Int
      BY DEF ExitTellsErrors, TallyInv, Tally, Exit, Types, Counters
    <2>2. metrics.errorCount = 0 /\ metrics.successCount = Planned
      BY <2>1
    <2>3. ASSUME NEW a \in Nat, NEW b \in Nat, b > 0
          PROVE  a = b * (a \div b) + (a % b) /\ a \div b \in Int /\ a % b \in Int
      BY <2>3
    <2>4. config.numQueries \in Nat /\ config.numThreads \in Nat
      BY DEF Types
    <2>5. Planned = config.numThreads * (config.numQueries \div config.numThreads)
      BY <2>4 DEF Planned, ThreadQueries, Quotient
    <2>6. config.numQueries = Planned + Remainder /\ Remainder \in Int /\ Planned \in Int
      BY <2>3, <2>4, <2>5, ShareIsInt DEF Remainder, Planned, Types
    <2> QED
      BY <2>2, <2>4, <2>6
  <1>2. BenchInv => Types
    BY DEF BenchInv
  <1> QED
    BY <1>1, <1>2, BenchInvariant, BenchTally, BenchExit, PTL
=============================================================================
