----------------------------- MODULE Benchmark -----------------------------
(***************************************************************************)
(* examples/benchmark.cpp: main divides the queries among the workers and  *)
(* starts them and a reporter; each worker gets a connection and runs its  *)
(* queries, every one in up to networkRetryAttempts attempts, as a plain   *)
(* read or inside a transaction; main joins all and exits with the result. *)
(*                                                                         *)
(* An exception is known by the words that the code looks for in its text. *)
(* A call may return or throw any; a commit that throws may have been done *)
(* by the server all the same.  The sums of times are left out: they are   *)
(* only printed, as quotients of floating point.                           *)
(***************************************************************************)
EXTENDS Integers, FiniteSets, SequencesExt, Progress

CONSTANTS ArgLists,   \* command lines: sequences of [name, val]
          Queries,    \* the default of -n, 1000 in the code
          Attempts,   \* the default of -a, 3 in the code
          Malformed,  \* a value that std::stoi rejects
          Workers     \* bound: the thread numbers there can be

ASSUME BenchmarkAssumption == Workers \subseteq Nat /\ Queries \in Int /\ Attempts \in Int

VARIABLES config,    \* the BenchmarkConfig that parseArgs returned
          main,      \* "join", "report", then "exit"; or "crash"
          code,      \* the exit code of the process
          stop,      \* metrics.shouldStop
          reporter,  \* the reporter's place
          metrics,   \* the counters of Metrics
          pc,        \* each worker's place in runQueries
          my,        \* each worker's i, retryCount and caught exception
          commits,   \* history: how often the current query was committed
          twice      \* history: queries counted as an error and then a success

benchVars == <<config, main, code, stop, reporter, metrics, pc, my, commits, twice>>
mainVars  == <<config, main, code, stop, reporter>>

-----------------------------------------------------------------------------
(* parseArgs. *)

Defaults == [connected |-> FALSE, numQueries |-> Queries, numThreads |-> 1,
             delayMs |-> 0, reportIntervalMs |-> 1000, networkRetryAttempts |-> Attempts,
             useTransactions |-> FALSE, useWriteQueries |-> FALSE, exit |-> "no"]

Numbers == ("-n" :> "numQueries") @@ ("-t" :> "numThreads") @@ ("-d" :> "delayMs")
           @@ ("-r" :> "reportIntervalMs") @@ ("-a" :> "networkRetryAttempts")
Flags   == ("-x" :> "useTransactions") @@ ("-w" :> "useWriteQueries")

Apply(c, o) ==
    CASE c.exit # "no"             -> c
      [] o.name = "-h"             -> [c EXCEPT !.exit = "help"]
      [] o.name = "-c"             -> [c EXCEPT !.connected = o.val # ""]
      [] o.name \in DOMAIN Flags   -> [c EXCEPT ![Flags[o.name]] = TRUE]
      [] o.name \in DOMAIN Numbers ->
            IF o.val = Malformed THEN [c EXCEPT !.exit = "error"]
            ELSE [c EXCEPT ![Numbers[o.name]] = o.val]
      [] OTHER                     -> c

Parse(args) ==
    LET c == FoldLeft(Apply, Defaults, args) IN
    IF c.exit = "no" /\ ~c.connected THEN [c EXCEPT !.exit = "error"] ELSE c

\* BenchmarkConfig holds its numbers in integers; Workers has all its threads.
ASSUME NumbersAssumption ==
    \A args \in ArgLists : LET c == Parse(args) IN
        /\ {c.numQueries, c.numThreads, c.networkRetryAttempts} \subseteq Int
        /\ 0..(c.numThreads - 1) \subseteq Workers

Transactional == config.useWriteQueries \/ config.useTransactions

\* The quotient of int, which the code takes for the share of each worker.
Quotient(a, b) == IF a < 0 THEN -((-a) \div b) ELSE a \div b
ThreadQueries  == IF config.numThreads > 0
                  THEN Quotient(config.numQueries, config.numThreads) ELSE 0
Planned        == config.numThreads * ThreadQueries

Counters == {"successCount", "errorCount", "retryCount", "connectionCreationCount"}

\* A negative number of threads makes threads.reserve throw; with none the
\* division by it is undefined, so that the process may be killed or go on.
BenchInit ==
    /\ \E args \in ArgLists : config = Parse(args)
    /\ LET fails == config.exit = "error" \/ config.numThreads < 0
           help  == config.exit = "help"
       IN /\ code = IF fails /\ ~help THEN 1 ELSE 0
          /\ \/ main = IF fails \/ help THEN "exit" ELSE "join"
             \/ ~fails /\ ~help /\ config.numThreads = 0 /\ main = "crash"
    /\ stop = FALSE
    /\ reporter = "check"
    /\ metrics = [c \in Counters |-> 0]
    /\ pc = [w \in Workers |-> IF w < config.numThreads THEN "connect" ELSE "done"]
    /\ my = [w \in Workers |-> [i |-> 0, retryCount |-> 0, error |-> "none"]]
    /\ commits = [w \in Workers |-> 0]
    /\ twice = 0

-----------------------------------------------------------------------------
Running      == main \in {"join", "report"}
At(w, place) == Running /\ pc[w] = place
Go(w, place) == pc' = [pc EXCEPT ![w] = place]
Add(c, n)    == metrics' = [metrics EXCEPT ![c] = @ + n]
Done         == \A w \in Workers : pc[w] = "done"

\* "connection" and "invalid transaction handle" come to the same.
Errors       == {"connection", "invalid handle", "other"}
Retryable(e) == e \in {"connection", "invalid handle"}

Raise(w, e, place) ==
    /\ my' = [my EXCEPT ![w].error = e]
    /\ Go(w, place)

Local == UNCHANGED <<mainVars, metrics, twice>>

\* A call of the library that returns, or throws to a handler.
Call(w, from, to, handler) ==
    /\ At(w, from)
    /\ (Go(w, to) /\ UNCHANGED my) \/ \E e \in Errors : Raise(w, e, handler)
    /\ Local /\ UNCHANGED commits

-----------------------------------------------------------------------------
(* runQueries: the connection, and the table for the inserts. *)

Connect(w) == Call(w, "connect", "connected", "abandoned")

CountConnection(w) ==
    /\ At(w, "connected")
    /\ Add("connectionCreationCount", 1)
    /\ Go(w, "test")
    /\ UNCHANGED <<mainVars, my, commits, twice>>

Test(w)      == Call(w, "test", IF config.useWriteQueries THEN "table" ELSE "next", "abandoned")
MakeTable(w) == Call(w, "table", "next", "abandoned")

\* Without a connection all of the worker's queries count as errors.
Abandon(w) ==
    /\ At(w, "abandoned")
    /\ Add("errorCount", ThreadQueries)
    /\ Go(w, "done")
    /\ UNCHANGED <<mainVars, my, commits, twice>>

(* One query. *)

NextQuery(w) ==
    /\ At(w, "next") /\ my[w].i < ThreadQueries
    /\ IF config.networkRetryAttempts > 0
       THEN /\ my' = [my EXCEPT ![w].retryCount = 0, ![w].error = "none"]
            /\ Go(w, IF Transactional THEN "validate" ELSE "read")
       ELSE my' = [my EXCEPT ![w].i = @ + 1] /\ UNCHANGED pc
    /\ commits' = [commits EXCEPT ![w] = 0]
    /\ Local

Finish(w) ==
    /\ At(w, "next") /\ my[w].i >= ThreadQueries
    /\ Go(w, "done")
    /\ Local /\ UNCHANGED <<my, commits>>

ReadQuery(w) == Call(w, "read", "succeeded", "thrown")
Validate(w)  == Call(w, "validate", "begin", "thrown")
Begin(w)     == Call(w, "begin", "statement", "thrown")
TxExecute(w) == Call(w, "statement", "commit", "txThrown")

Commit(w) ==
    /\ At(w, "commit")
    /\ \/ Go(w, "succeeded") /\ UNCHANGED my
          /\ commits' = [commits EXCEPT ![w] = @ + 1]
       \/ /\ \E e \in Errors : Raise(w, e, "txThrown")
          /\ commits' \in {commits, [commits EXCEPT ![w] = @ + 1]}
    /\ Local

\* Mutant: "throw;", which keeps the exception as it is.
RethrowWhole(w) ==
    /\ At(w, "txThrown") /\ my[w].error = "connection"
    /\ Go(w, "thrown")
    /\ Local /\ UNCHANGED <<my, commits>>

\* The transaction is rolled back, and "throw e" of a const std::exception&
\* throws a copy of that base class.  In libstdc++ and libc++, which all the
\* build scripts use, the text is gone with the rest of the exception; in a
\* library that keeps a message in std::exception itself (as MSVC's does) this
\* step is RethrowWhole.
Rethrow(w) ==
    /\ At(w, "txThrown") /\ my[w].error = "connection"
    /\ Raise(w, "other", "thrown")
    /\ Local /\ UNCHANGED commits

\* Any other error is counted, and control leaves the handler for the code
\* that follows a success.
CountTxError(w) ==
    /\ At(w, "txThrown") /\ my[w].error # "connection"
    /\ Add("errorCount", 1)
    /\ twice' = twice + 1
    /\ Go(w, "succeeded")
    /\ UNCHANGED <<mainVars, my, commits>>

CountSuccess(w) ==
    /\ At(w, "succeeded")
    /\ Add("successCount", 1)
    /\ my' = [my EXCEPT ![w].i = @ + 1]
    /\ Go(w, "next")
    /\ UNCHANGED <<mainVars, commits, twice>>

\* Mutant: the attempts are counted one too late.
ReconnectOnceMore(w) ==
    /\ At(w, "thrown") /\ Retryable(my[w].error)
    /\ my[w].retryCount + 1 <= config.networkRetryAttempts
    /\ my' = [my EXCEPT ![w].retryCount = @ + 1]
    /\ Go(w, "retrying") \/ Go(w, "failed")
    /\ Local /\ UNCHANGED commits

\* A connection error is followed by a new connection while attempts remain.
Reconnect(w) ==
    /\ At(w, "thrown") /\ Retryable(my[w].error)
    /\ my[w].retryCount + 1 < config.networkRetryAttempts
    /\ my' = [my EXCEPT ![w].retryCount = @ + 1]
    /\ Go(w, "retrying") \/ Go(w, "failed")
    /\ Local /\ UNCHANGED commits

CountRetry(w) ==
    /\ At(w, "retrying")
    /\ Add("retryCount", 1)
    /\ Go(w, IF Transactional THEN "validate" ELSE "read")
    /\ UNCHANGED <<mainVars, my, commits, twice>>

GiveUp(w) ==
    /\ At(w, "thrown")
    /\ \/ ~Retryable(my[w].error) /\ UNCHANGED my
       \/ /\ Retryable(my[w].error) /\ my[w].retryCount + 1 >= config.networkRetryAttempts
          /\ my' = [my EXCEPT ![w].retryCount = @ + 1]
    /\ Go(w, "failed")
    /\ Local /\ UNCHANGED commits

\* Mutant: shouldRetry stays true.
CountErrorAgain(w) ==
    /\ At(w, "failed")
    /\ Add("errorCount", 1)
    /\ Go(w, IF Transactional THEN "validate" ELSE "read")
    /\ UNCHANGED <<mainVars, my, commits, twice>>

CountError(w) ==
    /\ At(w, "failed")
    /\ Add("errorCount", 1)
    /\ my' = [my EXCEPT ![w].i = @ + 1]
    /\ Go(w, "next")
    /\ UNCHANGED <<mainVars, commits, twice>>

Worker(w) ==
    \/ Connect(w) \/ CountConnection(w) \/ Test(w) \/ MakeTable(w) \/ Abandon(w)
    \/ NextQuery(w) \/ Finish(w) \/ ReadQuery(w)
    \/ Validate(w) \/ Begin(w) \/ TxExecute(w) \/ Commit(w) \/ Rethrow(w) \/ CountTxError(w)
    \/ CountSuccess(w) \/ Reconnect(w) \/ CountRetry(w) \/ GiveUp(w) \/ CountError(w)

-----------------------------------------------------------------------------
(* The reporter, and the end of main. *)

ReporterWakes ==
    /\ Running /\ reporter = "check"
    /\ reporter' = IF stop THEN "done" ELSE "print"
    /\ UNCHANGED <<config, main, code, stop, metrics, pc, my, commits, twice>>

\* printMetrics only reads, and divides in floating point.
PrintMetrics ==
    /\ Running /\ reporter = "print"
    /\ reporter' = "check"
    /\ UNCHANGED <<config, main, code, stop, metrics, pc, my, commits, twice>>

\* Mutant: the reporter is not told.
JoinWorkersOnly ==
    /\ main = "join" /\ Done
    /\ main' = "report"
    /\ UNCHANGED <<config, code, stop, reporter, metrics, pc, my, commits, twice>>

JoinWorkers ==
    /\ main = "join" /\ Done
    /\ main' = "report" /\ stop' = TRUE
    /\ UNCHANGED <<config, code, reporter, metrics, pc, my, commits, twice>>

\* Mutant: the number of errors is the exit code.
FinalResultsCount ==
    /\ main = "report" /\ reporter = "done"
    /\ main' = "exit"
    /\ code' = metrics.errorCount
    /\ UNCHANGED <<config, stop, reporter, metrics, pc, my, commits, twice>>

\* Mutant: one success is enough.
FinalResultsAny ==
    /\ main = "report" /\ reporter = "done"
    /\ main' = "exit"
    /\ code' = IF metrics.successCount = 0 THEN 1 ELSE 0
    /\ UNCHANGED <<config, stop, reporter, metrics, pc, my, commits, twice>>

FinalResults ==
    /\ main = "report" /\ reporter = "done"
    /\ main' = "exit"
    /\ code' = IF metrics.errorCount > 0 THEN 1 ELSE 0
    /\ UNCHANGED <<config, stop, reporter, metrics, pc, my, commits, twice>>

BenchNext ==
    \/ \E w \in Workers : Worker(w)
    \/ ReporterWakes \/ PrintMetrics \/ JoinWorkers \/ FinalResults

BenchSpec == BenchInit /\ [][BenchNext]_benchVars

\* Every thread is scheduled.
FairBenchSpec ==
    /\ BenchSpec
    /\ \A w \in Workers : WF_benchVars(Worker(w))
    /\ WF_benchVars(ReporterWakes \/ PrintMetrics)
    /\ WF_benchVars(JoinWorkers \/ FinalResults)

-----------------------------------------------------------------------------
(* Properties. *)

Places == {"connect", "connected", "abandoned", "test", "table", "next", "read", "validate",
           "begin", "statement", "commit", "txThrown", "thrown", "retrying", "failed",
           "succeeded", "done"}

\* Type invariant.
BenchTypeOK ==
    /\ main \in {"join", "report", "exit", "crash"} /\ code \in {0, 1} /\ stop \in BOOLEAN
    /\ reporter \in {"check", "print", "done"}
    /\ metrics \in [Counters -> Int]
    /\ pc \in [Workers -> Places]
    /\ my \in [Workers -> [i : Nat, retryCount : Nat, error : Errors \cup {"none"}]]
    /\ commits \in [Workers -> Nat] /\ twice \in Nat

\* Whatever fails, retries or reconnects, and whether a worker loses its
\* connection or runs to the end, each query is counted exactly once, but for
\* the failed transactions, which are counted twice.
CountedOnce ==
    config.networkRetryAttempts > 0 /\ config.numQueries >= 0 =>
        /\ metrics.successCount + metrics.errorCount <= Planned + twice
        /\ Done /\ main # "crash" /\ config.exit = "no" /\ config.numThreads >= 0 =>
             metrics.successCount + metrics.errorCount = Planned + twice

\* No query is committed twice, even where the answer to a commit is lost: an
\* attempt that reached its commit is never repeated.
CommittedOnce == \A w \in Workers : commits[w] <= 1

\* The retries of a query stay within -a.
RetriesBounded ==
    /\ \A w \in Workers : my[w].retryCount > 0 => my[w].retryCount <= config.networkRetryAttempts
    /\ config.networkRetryAttempts > 0 /\ Planned >= 0 /\ config.numThreads >= 0 =>
         metrics.retryCount <= Planned * (config.networkRetryAttempts - 1)

\* A benchmark that exits with 0 has run every query with success.
ExitTellsErrors ==
    main = "exit" /\ code = 0 /\ config.exit = "no" /\ config.networkRetryAttempts > 0
    /\ config.numQueries >= 0 =>
        metrics.successCount = Planned /\ twice = 0

\* The program ends, whatever fails how often.
Terminates == <>(main \in {"exit", "crash"})

\* How far a worker is from its end: the queries ahead of it, the attempts left
\* at this one, and its place.
InQuery == {"read", "validate", "begin", "statement", "commit", "txThrown", "thrown",
            "retrying", "failed", "succeeded"}

Rank(place) ==
    CASE place \in {"retrying"}                     -> 8
      [] place \in {"connect", "validate"}          -> 7
      [] place \in {"connected", "begin", "read"}   -> 6
      [] place \in {"test", "statement"}            -> 5
      [] place \in {"table", "commit"}              -> 4
      [] place \in {"next", "txThrown"}             -> 3
      [] place \in {"abandoned", "thrown"}          -> 2
      [] place \in {"failed", "succeeded"}          -> 1
      [] place \in {"done"}                         -> 0

Distance(w) ==
    <<AtLeast0(ThreadQueries - my[w].i),
      AtLeast0(IF pc[w] \in InQuery THEN config.networkRetryAttempts - my[w].retryCount
                                    ELSE config.networkRetryAttempts + 1),
      Rank(pc[w])>>

\* No retry, reconnection or failed transaction ever takes a worker back: each
\* of its steps brings it nearer to its end, so that it takes finitely many.
WorkersAdvance == [][\A w \in Workers : Worker(w) => Nearer(Distance(w)', Distance(w))]_benchVars

\* "Re-throw to trigger retry": an error of the connection inside a transaction
\* reaches the outer handler as one that is tried again.
RethrowTriggersRetry ==
    [][\A w \in Workers :
         pc[w] = "txThrown" /\ pc'[w] = "thrown" => Retryable(my'[w].error)]_benchVars

\* "Number of queries to run": -n queries are run and counted.
RunsAllQueries ==
    main = "exit" /\ config.exit = "no" /\ code = 0 =>
        metrics.successCount + metrics.errorCount = config.numQueries
=============================================================================
