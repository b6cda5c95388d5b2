----------------------------- MODULE SqlRunner -----------------------------
(***************************************************************************)
(* examples/sql_runner.cpp: main parses the options, starts a reporter and *)
(* the workers, joins the workers, stops the reporter and prints totals.   *)
(* Each worker runs every SQL file once per iteration, on a connection of  *)
(* the pool, and shares the atomic counters of Metrics with the reporter.  *)
(*                                                                         *)
(* An access to a counter is one step, and what a worker does to its own   *)
(* variables is part of the step next to it.  A call into the library may  *)
(* return or throw; a clock measures any of a few durations.               *)
(***************************************************************************)
EXTENDS Integers, FiniteSets, SequencesExt, Progress

CONSTANTS ArgLists,              \* command lines: sequences of [name, val]
          DefaultFiles,          \* how many .sql files the directory "sql" has
          Absent, NotDirectory,  \* values of -d: no such path, a plain file
          Malformed,             \* a value that std::stoi rejects
          Workers,               \* bound: the thread numbers there can be
          MaxIterations,         \* bound: iterations under -i
          Times, MaxTime,        \* durations, and the largest uint64_t
          MaxDelay,              \* the largest int, as a delay
          MaxRetries,            \* maxRetries, 3 in the code
          MaxConsecutiveErrors   \* maxConsecutiveErrors, 5 in the code

ASSUME RunnerAssumption ==
    /\ Workers \subseteq Nat /\ IsFiniteSet(Workers)
    /\ MaxTime \in Nat /\ Times \subseteq 0..(MaxTime - 1)
    /\ MaxRetries \in Nat \ {0}
    /\ MaxConsecutiveErrors \in Nat \ {0}

VARIABLES config,    \* the Config that main parsed
          main,      \* "join", "report", then "exit"; or "crash"
          stop,      \* metrics.shouldStop
          reporter,  \* the reporter's place
          metrics,   \* the counters of Metrics
          pc,        \* each worker's place in runQueries
          my,        \* each worker's local variables
          timed,     \* history: the times given to each pair of extremes
          unopened,  \* history: files that could not be opened
          undefined  \* history: some division was by zero

runnerVars == <<config, main, stop, reporter, metrics, pc, my, timed, unopened, undefined>>
history    == <<timed, unopened, undefined>>

-----------------------------------------------------------------------------
(* main's options.  A directory is the number of .sql files in it. *)

Defaults == [connected |-> FALSE, sqlDir |-> DefaultFiles, numThreads |-> 1,
             iterations |-> 1, delayMs |-> 0, reportIntervalMs |-> 1000,
             infinite |-> FALSE, exit |-> "no"]

Numbers == ("-t" :> "numThreads") @@ ("-n" :> "iterations") @@ ("-r" :> "reportIntervalMs")

\* An option that fails ends main, -s with an error and std::stoi by throwing.
Apply(c, o) ==
    CASE c.exit # "no"             -> c
      [] o.name = "-c"             -> [c EXCEPT !.connected = o.val # ""]
      [] o.name = "-d"             -> [c EXCEPT !.sqlDir = o.val]
      [] o.name \in DOMAIN Numbers ->
            IF o.val = Malformed THEN [c EXCEPT !.exit = "abort"]
            ELSE [c EXCEPT ![Numbers[o.name]] = o.val]
      [] o.name = "-s"             ->
            IF o.val = Malformed \/ o.val \notin 0..MaxDelay THEN [c EXCEPT !.exit = "error"]
            ELSE [c EXCEPT !.delayMs = o.val]
      [] o.name = "-i"             -> [c EXCEPT !.infinite = TRUE]
      [] o.name = "-h"             -> [c EXCEPT !.exit = "help"]
      [] OTHER                     -> c

Parse(args) ==
    LET c == FoldLeft(Apply, Defaults, args) IN
    IF c.exit = "no" /\ (~c.connected \/ c.sqlDir = Absent) THEN [c EXCEPT !.exit = "error"]
    ELSE c

\* Config holds its numbers in integers; the workers are started with a path.
ASSUME OptionsAssumption ==
    \A args \in ArgLists : LET c == Parse(args) IN
        /\ c.delayMs \in Int /\ c.iterations \in Int
        /\ c.exit = "no" => c.sqlDir \in Nat \cup {NotDirectory}

\* The value of a local that holds no counter's value.
NoTime == MaxTime + 1

Locals == [iteration |-> 0, errors |-> 0, retries |-> 0, file |-> 0,
           time |-> 0, seen |-> NoTime, sleep |-> 0]

Minima   == {"minConnectionTime", "minQueryTime"}
Extremes == Minima \cup {"maxConnectionTime", "maxQueryTime"}
Counters == {"totalQueries", "successfulQueries", "failedQueries", "totalExecutionTime",
             "totalConnectionTime", "totalConnections"}

RunnerInit ==
    /\ \E args \in ArgLists : config = Parse(args)
    /\ main = IF config.exit = "no" THEN "join" ELSE "exit"
    /\ stop = FALSE
    /\ reporter = "check"
    /\ metrics = [c \in Counters \cup Extremes |-> IF c \in Minima THEN MaxTime ELSE 0]
    /\ pc = [w \in Workers |-> IF w < config.numThreads THEN "start" ELSE "done"]
    /\ my = [w \in Workers |-> Locals]
    /\ timed = [k \in {"connection", "query"} |-> {}]
    /\ unopened = 0
    /\ undefined = FALSE

-----------------------------------------------------------------------------
Running == main \in {"join", "report"}

At(w, place) == Running /\ pc[w] = place
Go(w, place) == pc' = [pc EXCEPT ![w] = place]
Add(c, n)    == metrics' = [metrics EXCEPT ![c] = @ + n]
Done         == \A w \in Workers : pc[w] = "done"

\* The rest of the program does not move in a worker's step.
Others == UNCHANGED <<config, main, stop, reporter, undefined>>
Local  == Others /\ UNCHANGED <<metrics, timed, unopened>>

\* An integer division by one of the counters: by zero it is undefined, so
\* that the process is killed or goes on with some quotient.
Divide(counters, then) ==
    \/ main' = then /\ undefined' = (undefined \/ \E c \in counters : metrics[c] = 0)
    \/ /\ \E c \in counters : metrics[c] = 0
       /\ main' = "crash" /\ undefined' = TRUE

-----------------------------------------------------------------------------
(* runQueries. *)

\* A path that is no directory makes the iterator throw out of the thread.
ListFiles(w) ==
    /\ At(w, "start")
    /\ IF config.sqlDir = NotDirectory
       THEN main' = "crash" /\ UNCHANGED pc
       ELSE Go(w, IF config.sqlDir = 0 THEN "done" ELSE "loop") /\ UNCHANGED main
    /\ UNCHANGED <<config, stop, reporter, metrics, my, history>>

Continues(w) == ~stop /\ (config.infinite \/ my[w].iteration < config.iterations)

\* Mutant: a connection is counted when it is asked for, too.
ConnectCounting(w) ==
    /\ At(w, "loop") /\ Continues(w)
    /\ config.infinite => my[w].iteration < MaxIterations
    /\ my' = [my EXCEPT ![w].retries = 0]
    /\ Add("totalConnections", 1)
    /\ Go(w, "test") \/ Go(w, "caught")
    /\ Others /\ UNCHANGED <<timed, unopened>>

\* getConnection at the head of an iteration.
Connect(w) ==
    /\ At(w, "loop") /\ Continues(w)
    /\ config.infinite => my[w].iteration < MaxIterations
    /\ my' = [my EXCEPT ![w].retries = 0]
    /\ Go(w, "test") \/ Go(w, "caught")
    /\ Local

Leave(w) ==
    /\ At(w, "loop") /\ ~Continues(w)
    /\ Go(w, "done")
    /\ Local /\ UNCHANGED my

\* "SELECT 1" works, or fails and is tried on a new connection.
TestPasses(w) ==
    /\ At(w, "test")
    /\ Go(w, "connected")
    /\ Local /\ UNCHANGED my

\* Mutant: the retries are counted one too late.
TestFailsOnceMore(w) ==
    /\ At(w, "test")
    /\ my' = [my EXCEPT ![w].retries = @ + 1]
    /\ (my[w].retries + 1 <= MaxRetries /\ UNCHANGED pc) \/ Go(w, "caught")
    /\ Local

TestFails(w) ==
    /\ At(w, "test")
    /\ my' = [my EXCEPT ![w].retries = @ + 1]
    /\ (my[w].retries + 1 < MaxRetries /\ UNCHANGED pc) \/ Go(w, "caught")
    /\ Local

CountConnection(w) ==
    /\ At(w, "connected")
    /\ Add("totalConnections", 1)
    /\ my' = [my EXCEPT ![w].errors = 0, ![w].file = 0]
    /\ Go(w, "connectionTime")
    /\ Others /\ UNCHANGED <<timed, unopened>>

Measure(w, kind, total) ==
    /\ \E t \in Times : /\ Add(total, t)
                        /\ my' = [my EXCEPT ![w].time = t]
                        /\ timed' = [timed EXCEPT ![kind] = @ \cup {t}]
    /\ Others /\ UNCHANGED unopened

AddConnectionTime(w) ==
    /\ At(w, "connectionTime")
    /\ Measure(w, "connection", "totalConnectionTime")
    /\ Go(w, "minConnectionTime")

AddQueryTime(w) ==
    /\ At(w, "ran")
    /\ Measure(w, "query", "totalExecutionTime")
    /\ Go(w, "succeeded")

CountSuccess(w) ==
    /\ At(w, "succeeded")
    /\ Add("successfulQueries", 1)
    /\ Go(w, "minQueryTime")
    /\ Others /\ UNCHANGED <<my, timed, unopened>>

(* The four loops around compare_exchange_weak. *)

Better(e, t, old) == IF e \in Minima THEN t < old ELSE t > old

After(e) ==
    CASE e = "minConnectionTime" -> "maxConnectionTime"
      [] e = "maxConnectionTime" -> "file"
      [] e = "minQueryTime"      -> "maxQueryTime"
      [] e = "maxQueryTime"      -> IF config.delayMs > 0 THEN "show" ELSE "count"

Load(w) ==
    \E e \in Extremes :
        /\ At(w, e) /\ my[w].seen = NoTime
        /\ IF Better(e, my[w].time, metrics[e])
           THEN my' = [my EXCEPT ![w].seen = metrics[e]] /\ UNCHANGED pc
           ELSE Go(w, After(e)) /\ UNCHANGED my
        /\ Local

\* Mutant: a plain store, whatever another thread stored since the load.
ExchangeBlindly(w) ==
    \E e \in Extremes :
        /\ At(w, e) /\ my[w].seen # NoTime
        /\ metrics' = [metrics EXCEPT ![e] = my[w].time]
        /\ my' = [my EXCEPT ![w].seen = NoTime]
        /\ Go(w, After(e))
        /\ Others /\ UNCHANGED <<timed, unopened>>

Exchange(w) ==
    \E e \in Extremes :
        /\ At(w, e) /\ my[w].seen # NoTime /\ metrics[e] = my[w].seen
        /\ metrics' = [metrics EXCEPT ![e] = my[w].time]
        /\ my' = [my EXCEPT ![w].seen = NoTime]
        /\ Go(w, After(e))
        /\ Others /\ UNCHANGED <<timed, unopened>>

\* It fails if the value has changed, and may fail if it has not.
ExchangeFails(w) ==
    \E e \in Extremes :
        /\ At(w, e) /\ my[w].seen # NoTime
        /\ my' = [my EXCEPT ![w].seen = NoTime]
        /\ Local /\ UNCHANGED pc

(* The files of one iteration. *)

HasFile(w) == my[w].file < config.sqlDir

\* Mutant: `break' instead of `continue'.
CannotOpenStops(w) ==
    /\ At(w, "file") /\ HasFile(w)
    /\ my' = [my EXCEPT ![w].file = config.sqlDir]
    /\ unopened' = unopened + 1
    /\ Others /\ UNCHANGED <<metrics, pc, timed>>

\* A file that cannot be opened any more is passed over, uncounted.
CannotOpen(w) ==
    /\ At(w, "file") /\ HasFile(w)
    /\ my' = [my EXCEPT ![w].file = @ + 1]
    /\ unopened' = unopened + 1
    /\ Others /\ UNCHANGED <<metrics, pc, timed>>

Execute(w) ==
    /\ At(w, "file") /\ HasFile(w)
    /\ Go(w, "ran") \/ Go(w, "failed")
    /\ Local /\ UNCHANGED my

\* Mutant: a file that failed is left with `continue'.
CountFailureOnly(w) ==
    /\ At(w, "failed")
    /\ Add("failedQueries", 1)
    /\ my' = [my EXCEPT ![w].file = @ + 1]
    /\ Go(w, "file")
    /\ Others /\ UNCHANGED <<timed, unopened>>

CountFailure(w) ==
    /\ At(w, "failed")
    /\ Add("failedQueries", 1)
    /\ Go(w, "count")
    /\ Others /\ UNCHANGED <<my, timed, unopened>>

\* With a delay the totals are printed before this query is counted.
Show(w) ==
    /\ At(w, "show")
    /\ Divide({"totalQueries", "totalConnections"}, main)
    /\ my' = [my EXCEPT ![w].sleep = config.delayMs]
    /\ Go(w, "sleep")
    /\ UNCHANGED <<config, stop, reporter, metrics, timed, unopened>>

Sleep(w) ==
    /\ At(w, "sleep")
    /\ my' = [my EXCEPT ![w].sleep = IF stop THEN 0 ELSE @ - 1]
    /\ IF my'[w].sleep = 0 THEN Go(w, "count") ELSE UNCHANGED pc
    /\ Local

CountQuery(w) ==
    /\ At(w, "count")
    /\ Add("totalQueries", 1)
    /\ my' = [my EXCEPT ![w].file = @ + 1]
    /\ Go(w, "file")
    /\ Others /\ UNCHANGED <<timed, unopened>>

\* conn.close(), and the end of the iteration if it does not throw.
Close(w) ==
    /\ At(w, "file") /\ ~HasFile(w)
    /\ \/ Go(w, "loop") /\ my' = [my EXCEPT ![w].iteration = @ + 1]
       \/ Go(w, "caught") /\ UNCHANGED my
    /\ Local

\* After maxConsecutiveErrors errors in a row the worker pauses.
Caught(w) ==
    /\ At(w, "caught")
    /\ my' = [my EXCEPT ![w].errors = IF @ + 1 >= MaxConsecutiveErrors THEN 0 ELSE @ + 1,
                        ![w].iteration = @ + 1]
    /\ Go(w, "loop")
    /\ Local

Worker(w) ==
    \/ ListFiles(w) \/ Connect(w) \/ Leave(w) \/ TestPasses(w) \/ TestFails(w)
    \/ CountConnection(w) \/ AddConnectionTime(w) \/ Load(w) \/ Exchange(w)
    \/ CannotOpen(w) \/ Execute(w) \/ AddQueryTime(w) \/ CountSuccess(w)
    \/ CountFailure(w) \/ Show(w) \/ Sleep(w) \/ CountQuery(w) \/ Close(w) \/ Caught(w)

-----------------------------------------------------------------------------
(* The reporter, and the end of main. *)

ReporterWakes ==
    /\ Running /\ reporter = "check"
    /\ reporter' = IF stop THEN "done" ELSE "queries"
    /\ UNCHANGED <<config, main, stop, metrics, pc, my, history>>

\* printMetrics divides by one counter, and later by the other.
PrintMetrics ==
    /\ Running
    /\ \/ /\ reporter = "queries" /\ reporter' = "connections"
          /\ Divide({"totalQueries"}, main)
       \/ /\ reporter = "connections" /\ reporter' = "check"
          /\ Divide({"totalConnections"}, main)
    /\ UNCHANGED <<config, stop, metrics, pc, my, timed, unopened>>

\* Mutant: the reporter is not told.
JoinWorkersOnly ==
    /\ main = "join" /\ Done
    /\ main' = "report"
    /\ UNCHANGED <<config, stop, reporter, metrics, pc, my, history>>

JoinWorkers ==
    /\ main = "join" /\ Done
    /\ main' = "report" /\ stop' = TRUE
    /\ UNCHANGED <<config, reporter, metrics, pc, my, history>>

FinalResults ==
    /\ main = "report" /\ reporter = "done"
    /\ Divide({"totalQueries", "totalConnections"}, "exit")
    /\ UNCHANGED <<config, stop, reporter, metrics, pc, my, timed, unopened>>

RunnerNext ==
    \/ \E w \in Workers : Worker(w) \/ ExchangeFails(w)
    \/ ReporterWakes \/ PrintMetrics \/ JoinWorkers \/ FinalResults

RunnerSpec == RunnerInit /\ [][RunnerNext]_runnerVars

\* Every thread is scheduled; an exchange does not fail for no reason for ever.
RunnerFairness ==
    /\ \A w \in Workers : WF_runnerVars(Worker(w) \/ ExchangeFails(w)) /\ SF_runnerVars(Exchange(w))
    /\ WF_runnerVars(ReporterWakes \/ PrintMetrics)
    /\ WF_runnerVars(JoinWorkers \/ FinalResults)

FairRunnerSpec == RunnerSpec /\ RunnerFairness

-----------------------------------------------------------------------------
(* Properties. *)

Places == {"start", "loop", "test", "connected", "connectionTime", "file", "ran", "failed",
           "succeeded", "show", "sleep", "count", "caught", "done"} \cup Extremes

\* Type invariant.
RunnerTypeOK ==
    /\ main \in {"join", "report", "exit", "crash"}
    /\ stop \in BOOLEAN /\ undefined \in BOOLEAN
    /\ reporter \in {"check", "queries", "connections", "done"}
    /\ \A c \in Counters : metrics[c] \in Nat
    /\ \A e \in Extremes : metrics[e] \in {0, MaxTime} \cup Times
    /\ pc \in [Workers -> Places]
    /\ \A w \in Workers : /\ my[w].retries \in 0..MaxRetries
                          /\ my[w].errors \in 0..(MaxConsecutiveErrors - 1)
                          /\ my[w].time \in {0} \cup Times
                          /\ my[w].seen \in {0, MaxTime, NoTime} \cup Times

\* A query is counted in totalQueries after it was counted as a success or a
\* failure, once, by the worker that ran it: what a report divides by lags
\* behind by the workers that are in between, and by nothing in the end.
CountsAgree ==
    metrics.successfulQueries + metrics.failedQueries =
        metrics.totalQueries +
        Cardinality({w \in Workers : pc[w] \in {"minQueryTime", "maxQueryTime", "show",
                                                "sleep", "count"}})

\* The extremes of a kind are those of the times measured.
IsMin(x, S) == IF S = {} THEN x = MaxTime ELSE x \in S /\ \A t \in S : x <= t
IsMax(x, S) == IF S = {} THEN x = 0 ELSE x \in S /\ \A t \in S : x >= t

\* When the workers are done no update of a minimum or maximum was lost or
\* overwritten by a worse one, however their exchanges were interleaved.
ExtremesExact ==
    Done => /\ IsMin(metrics.minConnectionTime, timed["connection"])
            /\ IsMax(metrics.maxConnectionTime, timed["connection"])
            /\ IsMin(metrics.minQueryTime, timed["query"])
            /\ IsMax(metrics.maxQueryTime, timed["query"])

\* An iteration that got a connection tries every file: an error in one file
\* never costs the files after it, nor is one tried twice.
FilesAllTried ==
    Done /\ metrics.totalConnections > 0 =>
        metrics.totalQueries + unopened = config.sqlDir * metrics.totalConnections

\* The final average connection time lies between the extremes printed with
\* it, and the average query time does not exceed the maximum.
AveragesBounded ==
    Done => /\ metrics.totalConnectionTime <= metrics.maxConnectionTime * metrics.totalConnections
            /\ metrics.totalConnections > 0 =>
                 metrics.totalConnectionTime >= metrics.minConnectionTime * metrics.totalConnections
            /\ metrics.totalExecutionTime <= metrics.maxQueryTime * metrics.totalQueries

\* A run over a number of iterations ends by itself: main joins the workers,
\* the reporter notices, and the results are printed.
Terminates == ~config.infinite => <>(main \in {"exit", "crash"})

\* How far a worker is from its end: the iterations ahead of it, the files of
\* this one, its place, and what it repeats there (a test of its connection, a
\* chunk of a pause, a load).
Rank(place) ==
    CASE place \in {"start"}             -> 15
      [] place \in {"loop"}              -> 14
      [] place \in {"test"}              -> 13
      [] place \in {"connected"}         -> 12
      [] place \in {"connectionTime"}    -> 11
      [] place \in {"minConnectionTime"} -> 10
      [] place \in {"maxConnectionTime"} -> 9
      [] place \in {"file"}              -> 8
      [] place \in {"ran", "failed"}     -> 7
      [] place \in {"succeeded"}         -> 6
      [] place \in {"minQueryTime"}      -> 5
      [] place \in {"maxQueryTime"}      -> 4
      [] place \in {"show"}              -> 3
      [] place \in {"sleep"}             -> 2
      [] place \in {"count", "caught"}   -> 1
      [] place \in {"done"}              -> 0

Ahead(w) == IF pc[w] \in {"start", "loop", "test", "connected"}
            THEN config.sqlDir + 1 ELSE config.sqlDir - my[w].file

Repeats(w) ==
    CASE pc[w] = "test"      -> MaxRetries - my[w].retries
      [] pc[w] = "sleep"     -> my[w].sleep
      [] pc[w] \in Extremes  -> IF my[w].seen = NoTime THEN 1 ELSE 0
      [] OTHER               -> 0

Distance(w) ==
    <<AtLeast0(config.iterations - my[w].iteration), AtLeast0(Ahead(w)),
      Rank(pc[w]), AtLeast0(Repeats(w))>>

\* No failure, retry or pause ever takes a worker back: each of its steps brings
\* it nearer to its end (with -i, to the end of the iteration), but for a failed
\* exchange, which costs it only the load before.
WorkersAdvance ==
    [][\A w \in Workers :
         main' # "crash" /\ (config.infinite => my'[w].iteration = my[w].iteration) =>
            /\ Worker(w) => Nearer(Distance(w)', Distance(w))
            /\ ExchangeFails(w) => \A k \in 1..3 : Distance(w)'[k] = Distance(w)[k]]_runnerVars

\* Every number that is printed is defined.
AlwaysDefined == ~undefined
=============================================================================
