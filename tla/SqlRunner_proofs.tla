-------------------------- MODULE SqlRunner_proofs --------------------------
(***************************************************************************)
(* Proofs about SqlRunner, for any number of workers and any durations.    *)
(*                                                                         *)
(* The inductive core is about one minimum or maximum e: each time that    *)
(* was measured and is better than the value of e is still the time of a   *)
(* worker on its way through the loop around e's compare_exchange, which a *)
(* worker leaves only when its time is no better than what e holds.        *)
(***************************************************************************)
EXTENDS SqlRunner, TLAPS, FiniteSetTheorems, WellFoundedInduction

KindOf(e) == IF e \in {"minConnectionTime", "maxConnectionTime"} THEN "connection" ELSE "query"
First(e)  == IF e \in Minima THEN MaxTime ELSE 0

\* The places of a worker that has measured a time and not yet settled it in e.
Unsettled(e) == {e} \cup (IF e = "maxConnectionTime" THEN {"minConnectionTime"} ELSE {})
                    \cup (IF e = "minQueryTime" THEN {"succeeded"} ELSE {})
                    \cup (IF e = "maxQueryTime" THEN {"minQueryTime", "succeeded"} ELSE {})

LocalTypes ==
    [iteration : Nat, errors : 0..(MaxConsecutiveErrors - 1), retries : 0..MaxRetries,
     file : Nat, time : {0} \cup Times, seen : {0, MaxTime, NoTime} \cup Times,
     sleep : Int]

Types ==
    /\ config.delayMs \in Int
    /\ main \in {"join", "report", "exit", "crash"}
    /\ stop \in BOOLEAN /\ undefined \in BOOLEAN
    /\ reporter \in {"check", "queries", "connections", "done"}
    /\ metrics \in [Counters \cup Extremes -> Nat]
    /\ \A e \in Extremes : metrics[e] \in {0, MaxTime} \cup Times
    /\ pc \in [Workers -> Places]
    /\ my \in [Workers -> LocalTypes]
    /\ timed \in [{"connection", "query"} -> SUBSET Times]
    /\ \A w \in Workers : pc[w] = "test" => my[w].retries < MaxRetries
    /\ \A w \in Workers : my[w].seen # NoTime => pc[w] \in Extremes

\* What the counters and the workers know of the times that were measured.
Settling(e) ==
    /\ metrics[e] \in {First(e)} \cup timed[KindOf(e)]
    /\ \A t \in timed[KindOf(e)] :
         Better(e, t, metrics[e]) => \E w \in Workers : pc[w] \in Unsettled(e) /\ my[w].time = t
    /\ \A w \in Workers : pc[w] \in Unsettled(e) => my[w].time \in timed[KindOf(e)]
    /\ \A w \in Workers : pc[w] = e /\ my[w].seen # NoTime => Better(e, my[w].time, my[w].seen)

RunnerInv == Types /\ \A e \in Extremes : Settling(e)

-----------------------------------------------------------------------------
\* Nothing was measured, and every extreme has its first value.
LEMMA RunnerInitInv == RunnerInit => RunnerInv
  <1> SUFFICES ASSUME RunnerInit PROVE RunnerInv
    OBVIOUS
  <1> USE RunnerAssumption, OptionsAssumption
  <1>1. /\ config.delayMs \in Int
        /\ main \in {"join", "report", "exit", "crash"}
        /\ stop \in BOOLEAN /\ undefined \in BOOLEAN
        /\ reporter \in {"check", "queries", "connections", "done"}
        /\ timed \in [{"connection", "query"} -> SUBSET Times]
    BY DEF RunnerInit
  <1>2. /\ metrics \in [Counters \cup Extremes -> Nat]
        /\ \A e \in Extremes : metrics[e] = First(e) /\ metrics[e] \in {0, MaxTime} \cup Times
    BY DEF RunnerInit, Counters, Extremes, Minima, First
  <1>3. pc \in [Workers -> Places] /\ \A w \in Workers : pc[w] \in {"start", "done"}
    BY DEF RunnerInit, Places
  <1>4. \A w \in Workers : my[w] = Locals
    BY DEF RunnerInit
  <1>5. my \in [Workers -> LocalTypes]
    <2>1. \A w \in Workers : Locals \in LocalTypes
      BY <1>4 DEF Locals, LocalTypes, NoTime
    <2> QED
      BY <2>1 DEF RunnerInit
  <1>6. Types
    BY <1>1, <1>2, <1>3, <1>4, <1>5 DEF Types, Locals
  <1>7. \A e \in Extremes : Settling(e)
    <2> TAKE e \in Extremes
    <2>1. \A w \in Workers : pc[w] \notin Unsettled(e) /\ pc[w] # e
      BY <1>3 DEF Unsettled, Extremes, Minima
    <2>2. timed[KindOf(e)] = {}
      BY DEF RunnerInit, KindOf
    <2> QED
      BY <1>2, <2>1, <2>2 DEF Settling
  <1> QED
    BY <1>6, <1>7 DEF RunnerInv

-----------------------------------------------------------------------------
(* Types. *)

\* No step of a worker leaves the types.
LEMMA WorkerTypes ==
    ASSUME Types, NEW w \in Workers, Worker(w) \/ ExchangeFails(w)
    PROVE  Types'
  <1> USE RunnerAssumption DEF Types, LocalTypes, Places, At, Go, Local, Others, history, Extremes, Minima, Counters, NoTime
  <1>1. CASE ListFiles(w)
    BY <1>1 DEF ListFiles
  <1>2. CASE Connect(w)
    BY <1>2 DEF Connect
  <1>3. CASE Leave(w)
    BY <1>3 DEF Leave
  <1>4. CASE TestPasses(w)
    BY <1>4 DEF TestPasses
  <1>5. CASE TestFails(w)
    BY <1>5 DEF TestFails
  <1>6. CASE CountConnection(w)
    <2>1. /\ my' \in [Workers -> LocalTypes]
          /\ \A v \in Workers : my'[v].seen = my[v].seen /\ my'[v].retries = my[v].retries
      <3>1. my' = [my EXCEPT ![w] = [my[w] EXCEPT !.errors = 0, !.file = 0]]
        BY <1>6 DEF CountConnection
      <3>2. 0 \in 0..(MaxConsecutiveErrors - 1)
        OBVIOUS
      <3>3. [my[w] EXCEPT !.errors = 0, !.file = 0] \in LocalTypes
        BY <3>2
      <3> QED
        BY <3>1, <3>3
    <2>2. /\ metrics' \in [Counters \cup Extremes -> Nat]
          /\ \A e \in Extremes : metrics'[e] = metrics[e]
      BY <1>6 DEF CountConnection, Add
    <2>3. pc' = [pc EXCEPT ![w] = "connectionTime"] /\ pc[w] = "connected"
      BY <1>6 DEF CountConnection
    <2> QED
      BY <1>6, <2>1, <2>2, <2>3 DEF CountConnection
  <1>7. CASE AddConnectionTime(w)
    BY <1>7 DEF AddConnectionTime, Measure, Add
  <1>8. CASE Load(w)
    <2>1. PICK e \in Extremes :
            /\ pc[w] = e /\ my[w].seen = NoTime
            /\ \/ my' = [my EXCEPT ![w].seen = metrics[e]] /\ UNCHANGED pc
               \/ pc' = [pc EXCEPT ![w] = After(e)] /\ UNCHANGED my
      BY <1>8 DEF Load
    <2>2. After(e) \in Places \ {"test"}
      BY DEF After
    <2> QED
      BY <1>8, <2>1, <2>2 DEF Load
  <1>9. CASE Exchange(w)
    BY <1>9 DEF Exchange, After, Better
  <1>10. CASE CannotOpen(w)
    BY <1>10 DEF CannotOpen
  <1>11. CASE Execute(w)
    BY <1>11 DEF Execute
  <1>12. CASE AddQueryTime(w)
    BY <1>12 DEF AddQueryTime, Measure, Add
  <1>13. CASE CountSuccess(w)
    BY <1>13 DEF CountSuccess, Add
  <1>14. CASE CountFailure(w)
    BY <1>14 DEF CountFailure, Add
  <1>15. CASE Show(w)
    <2>1. my' = [my EXCEPT ![w].sleep = config.delayMs] /\ pc' = [pc EXCEPT ![w] = "sleep"]
      BY <1>15 DEF Show
    <2>2. /\ my' \in [Workers -> LocalTypes]
          /\ \A v \in Workers : my'[v].seen = my[v].seen /\ my'[v].retries = my[v].retries
      BY <2>1
    <2>3. main' \in {main, "crash"} /\ undefined' \in BOOLEAN
      BY <1>15 DEF Show, Divide
    <2> QED
      BY <1>15, <2>1, <2>2, <2>3 DEF Show
  <1>16. CASE Sleep(w)
    BY <1>16 DEF Sleep
  <1>17. CASE CountQuery(w)
    BY <1>17 DEF CountQuery, Add
  <1>18. CASE Close(w)
    BY <1>18 DEF Close
  <1>19. CASE Caught(w)
    BY <1>19 DEF Caught
  <1>20. CASE ExchangeFails(w)
    BY <1>20 DEF ExchangeFails
  <1> QED
    BY <1>1, <1>2, <1>3, <1>4, <1>5, <1>6, <1>7, <1>8, <1>9, <1>10, <1>11, <1>12, <1>13, <1>14, <1>15,
       <1>16, <1>17, <1>18, <1>19, <1>20 DEF Worker

\* No step leaves the types.
LEMMA StepTypes == Types /\ [RunnerNext]_runnerVars => Types'
  <1> SUFFICES ASSUME Types, [RunnerNext]_runnerVars
               PROVE  Types'
    OBVIOUS
  <1>1. CASE \E w \in Workers : Worker(w) \/ ExchangeFails(w)
    BY <1>1, WorkerTypes
  <1>2. CASE ReporterWakes
    BY <1>2 DEF ReporterWakes, Types, history
  <1>3. CASE PrintMetrics
    BY <1>3 DEF PrintMetrics, Divide, Types
  <1>4. CASE JoinWorkers
    BY <1>4 DEF JoinWorkers, Types, history
  <1>5. CASE FinalResults
    BY <1>5 DEF FinalResults, Divide, Types
  <1>6. CASE UNCHANGED runnerVars
    BY <1>6 DEF runnerVars, Types
  <1> QED
    BY <1>1, <1>2, <1>3, <1>4, <1>5, <1>6 DEF RunnerNext

-----------------------------------------------------------------------------
(* The extremes. *)

\* Where a worker goes from the loop of an extreme.
LEMMA AfterPlaces ==
    ASSUME NEW e \in Extremes
    PROVE  After(e) \in IF e = "minConnectionTime" THEN {"maxConnectionTime"}
                        ELSE IF e = "maxConnectionTime" THEN {"file"}
                        ELSE IF e = "minQueryTime" THEN {"maxQueryTime"} ELSE {"show", "count"}
  BY DEF After, Extremes, Minima

\* It is settled in that extreme then, and in the others as it was before.
LEMMA AfterSettled ==
    ASSUME NEW d \in Extremes, NEW e \in Extremes
    PROVE  /\ After(d) \in Unsettled(e) <=> d \in Unsettled(e) /\ d # e
           /\ d \in Unsettled(d)
  BY AfterPlaces DEF Unsettled, Extremes, Minima

\* Better is a strict order.
LEMMA BetterOrder ==
    ASSUME NEW e, NEW a \in Int, NEW b \in Int, NEW c \in Int
    PROVE  /\ ~Better(e, a, a)
           /\ Better(e, a, b) /\ Better(e, b, c) => Better(e, a, c)
  BY DEF Better

\* A step that neither stores nor measures, and moves no worker into or out of
\* the loops, changes nothing.
LEMMA QuietStep ==
    ASSUME NEW e \in Extremes, Settling(e),
           metrics'[e] = metrics[e], timed' = timed,
           \A v \in Workers :
             /\ pc'[v] \in Unsettled(e) <=> pc[v] \in Unsettled(e)
             /\ pc[v] \in Unsettled(e) => my'[v].time = my[v].time
             /\ pc'[v] = e /\ my'[v].seen # NoTime => pc[v] = e /\ my'[v].seen = my[v].seen
    PROVE  Settling(e)'
  <1>1. metrics'[e] \in {First(e)} \cup timed'[KindOf(e)]
    BY DEF Settling
  <1>2. ASSUME NEW t \in timed'[KindOf(e)], Better(e, t, metrics'[e])
        PROVE  \E v \in Workers : pc'[v] \in Unsettled(e) /\ my'[v].time = t
    BY <1>2 DEF Settling
  <1>3. \A v \in Workers : pc'[v] \in Unsettled(e) => my'[v].time \in timed'[KindOf(e)]
    BY DEF Settling
  <1>4. \A v \in Workers : pc'[v] = e /\ my'[v].seen # NoTime => Better(e, my'[v].time, my'[v].seen)
    <2>1. e \in Unsettled(e)
      BY AfterSettled
    <2> QED
      BY <2>1 DEF Settling
  <1> QED
    BY <1>1, <1>2, <1>3, <1>4 DEF Settling, Better, First, KindOf, Unsettled

\* A worker outside the loops stays outside, and CountSuccess stays before one.
LEMMA QuietWorker ==
    ASSUME Types, NEW w \in Workers, NEW e \in Extremes, Settling(e),
           \/ ListFiles(w) \/ Connect(w) \/ Leave(w) \/ TestPasses(w) \/ TestFails(w)
           \/ CountConnection(w) \/ CannotOpen(w) \/ Execute(w) \/ CountSuccess(w)
           \/ CountFailure(w) \/ Show(w) \/ Sleep(w) \/ CountQuery(w) \/ Close(w) \/ Caught(w)
    PROVE  Settling(e)'
  <1> DEFINE Outside == Places \ (Extremes \cup {"succeeded"})
  <1>1. timed' = timed
    BY DEF ListFiles, Connect, Leave, TestPasses, TestFails, CountConnection, CannotOpen, Execute,
       CountSuccess, CountFailure, Show, Sleep, CountQuery, Close, Caught, Others, Local, history
  <1>2. metrics'[e] = metrics[e]
    <2>1. CASE CountConnection(w) \/ CountSuccess(w) \/ CountFailure(w) \/ CountQuery(w)
      BY <2>1 DEF CountConnection, CountSuccess, CountFailure, CountQuery, Add, Types,
         Counters, Extremes, Minima
    <2>2. CASE ~(CountConnection(w) \/ CountSuccess(w) \/ CountFailure(w) \/ CountQuery(w))
      BY <2>2 DEF ListFiles, Connect, Leave, TestPasses, TestFails, CannotOpen, Execute, Show, Sleep,
         Close, Caught,
         Local, Others
    <2> QED
      BY <2>1, <2>2
  <1>3. /\ \A v \in Workers : v # w => pc'[v] = pc[v] /\ my'[v] = my[v]
        /\ \/ pc[w] \in Outside /\ pc'[w] \in Outside
           \/ pc[w] = "succeeded" /\ pc'[w] = "minQueryTime" /\ my'[w] = my[w]
    <2>1. CASE ListFiles(w)
      BY <2>1 DEF ListFiles, Types, At, Go, Local, Places, Extremes, Minima, history
    <2>2. CASE Connect(w)
      BY <2>2 DEF Connect, Types, At, Go, Local, Places, Extremes, Minima, history
    <2>3. CASE Leave(w)
      BY <2>3 DEF Leave, Types, At, Go, Local, Places, Extremes, Minima, history
    <2>4. CASE TestPasses(w)
      BY <2>4 DEF TestPasses, Types, At, Go, Local, Places, Extremes, Minima, history
    <2>5. CASE TestFails(w)
      BY <2>5 DEF TestFails, Types, At, Go, Local, Places, Extremes, Minima, history
    <2>6. CASE CountConnection(w)
      BY <2>6 DEF CountConnection, Types, At, Go, Local, Places, Extremes, Minima, history
    <2>7. CASE CannotOpen(w)
      BY <2>7 DEF CannotOpen, Types, At, Go, Local, Places, Extremes, Minima, history
    <2>8. CASE Execute(w)
      BY <2>8 DEF Execute, Types, At, Go, Local, Places, Extremes, Minima, history
    <2>9. CASE CountSuccess(w)
      BY <2>9 DEF CountSuccess, Types, At, Go, Local, Places, Extremes, Minima, history
    <2>10. CASE CountFailure(w)
      BY <2>10 DEF CountFailure, Types, At, Go, Local, Places, Extremes, Minima, history
    <2>11. CASE Show(w)
      BY <2>11 DEF Show, Types, At, Go, Local, Places, Extremes, Minima, history
    <2>12. CASE Sleep(w)
      BY <2>12 DEF Sleep, Types, At, Go, Local, Places, Extremes, Minima, history
    <2>13. CASE CountQuery(w)
      BY <2>13 DEF CountQuery, Types, At, Go, Local, Places, Extremes, Minima, history
    <2>14. CASE Close(w)
      BY <2>14 DEF Close, Types, At, Go, Local, Places, Extremes, Minima, history
    <2>15. CASE Caught(w)
      BY <2>15 DEF Caught, Types, At, Go, Local, Places, Extremes, Minima, history
    <2> QED
      BY <2>1, <2>2, <2>3, <2>4, <2>5, <2>6, <2>7, <2>8, <2>9, <2>10, <2>11, <2>12, <2>13, <2>14, <2>15
  <1>4. ASSUME NEW v \in Workers
        PROVE  /\ pc'[v] \in Unsettled(e) <=> pc[v] \in Unsettled(e)
               /\ pc[v] \in Unsettled(e) => my'[v].time = my[v].time
               /\ pc'[v] = e /\ my'[v].seen # NoTime => pc[v] = e /\ my'[v].seen = my[v].seen
    <2>1. Outside \cap Unsettled(e) = {} /\ e \notin Outside /\ e # "succeeded"
      BY DEF Unsettled, Extremes, Minima
    <2>2. "succeeded" \in Unsettled(e) <=> "minQueryTime" \in Unsettled(e)
      BY DEF Unsettled, Extremes, Minima
    <2>3. my[w].seen # NoTime => pc[w] # "succeeded"
      BY DEF Types, Extremes, Minima
    <2> QED
      BY <1>3, <2>1, <2>2, <2>3
  <1> QED
    BY <1>1, <1>2, <1>4, QuietStep

\* A measured time goes to the set and to the worker at once.
LEMMA MeasureSettles ==
    ASSUME Types, NEW w \in Workers, NEW e \in Extremes, Settling(e),
           AddConnectionTime(w) \/ AddQueryTime(w)
    PROVE  Settling(e)'
  <1>1. PICK kind \in {"connection", "query"}, t \in Times :
          /\ my' = [my EXCEPT ![w].time = t]
          /\ timed' = [timed EXCEPT ![kind] = @ \cup {t}]
          /\ \/ kind = "connection" /\ pc[w] = "connectionTime"
                                      /\ pc' = [pc EXCEPT ![w] = "minConnectionTime"]
             \/ kind = "query" /\ pc[w] = "ran" /\ pc' = [pc EXCEPT ![w] = "succeeded"]
    BY DEF AddConnectionTime, AddQueryTime, Measure, At, Go
  <1>2. metrics'[e] = metrics[e]
    BY DEF AddConnectionTime, AddQueryTime, Measure, Add, Types, Counters, Extremes, Minima
  <1>3. /\ \A v \in Workers : v # w => pc'[v] = pc[v] /\ my'[v] = my[v]
        /\ my'[w].time = t /\ my'[w].seen = my[w].seen /\ my[w].seen = NoTime
    BY <1>1 DEF Types, LocalTypes, Extremes, Minima
  <1>4. /\ pc[w] \notin Unsettled(e)
        /\ pc'[w] \in Unsettled(e) <=> KindOf(e) = kind
        /\ KindOf(e) \in {"connection", "query"}
    BY <1>1 DEF Types, Unsettled, KindOf, Extremes, Minima
  <1>5. /\ timed'[KindOf(e)] = timed[KindOf(e)] \cup (IF KindOf(e) = kind THEN {t} ELSE {})
    BY <1>1, <1>4 DEF Types
  <1>6. metrics'[e] \in {First(e)} \cup timed'[KindOf(e)]
    BY <1>2, <1>5 DEF Settling
  <1>7. ASSUME NEW u \in timed'[KindOf(e)], Better(e, u, metrics'[e])
        PROVE  \E v \in Workers : pc'[v] \in Unsettled(e) /\ my'[v].time = u
    <2>1. CASE u \in timed[KindOf(e)]
      BY <1>2, <1>3, <1>4, <1>7, <2>1 DEF Settling
    <2>2. CASE KindOf(e) = kind /\ u = t
      BY <1>3, <1>4, <2>2
    <2> QED
      BY <1>5, <1>7, <2>1, <2>2
  <1>8. \A v \in Workers : pc'[v] \in Unsettled(e) => my'[v].time \in timed'[KindOf(e)]
    BY <1>3, <1>4, <1>5 DEF Settling
  <1>9. \A v \in Workers : pc'[v] = e /\ my'[v].seen # NoTime => Better(e, my'[v].time, my'[v].seen)
    BY <1>3 DEF Settling
  <1> QED
    BY <1>6, <1>7, <1>8, <1>9 DEF Settling, Better, First, KindOf, Unsettled

\* A worker leaves the loop of d because its time is no better than the value
\* of d; if it reads a worse value, it remembers that one.
LEMMA LoadSettles ==
    ASSUME Types, NEW w \in Workers, NEW e \in Extremes, Settling(e), Load(w)
    PROVE  Settling(e)'
  <1> USE RunnerAssumption
  <1>1. PICK d \in Extremes :
          /\ pc[w] = d /\ my[w].seen = NoTime
          /\ IF Better(d, my[w].time, metrics[d])
             THEN my' = [my EXCEPT ![w].seen = metrics[d]] /\ UNCHANGED pc
             ELSE pc' = [pc EXCEPT ![w] = After(d)] /\ UNCHANGED my
    BY DEF Load, At, Go
  <1>2. metrics' = metrics /\ timed' = timed
    BY DEF Load, Local
  <1>3. CASE Better(d, my[w].time, metrics[d])
    <2>1. /\ pc' = pc /\ my'[w].time = my[w].time /\ my'[w].seen = metrics[d]
          /\ \A v \in Workers : v # w => my'[v] = my[v]
      BY <1>1, <1>3 DEF Types, LocalTypes
    <2> QED
      BY <1>1, <1>2, <1>3, <2>1 DEF Settling, Better, First, KindOf, Unsettled
  <1>4. CASE ~Better(d, my[w].time, metrics[d])
    <2>1. /\ my' = my /\ pc'[w] = After(d)
          /\ \A v \in Workers : v # w => pc'[v] = pc[v]
      BY <1>1, <1>4 DEF Types
    <2>2. CASE e # d
      BY <1>1, <1>2, <2>1, <2>2, AfterSettled, QuietStep
    <2>3. CASE e = d
      <3>1. pc[w] \in Unsettled(e) /\ pc'[w] \notin Unsettled(e) /\ pc'[w] # e
        BY <1>1, <2>1, <2>3, AfterSettled
      <3>2. ASSUME NEW t \in timed[KindOf(e)], Better(e, t, metrics[e])
            PROVE  \E v \in Workers : pc'[v] \in Unsettled(e) /\ my'[v].time = t
        <4>1. PICK v \in Workers : pc[v] \in Unsettled(e) /\ my[v].time = t
          BY <3>2 DEF Settling
        <4>2. v # w
          BY <1>4, <2>3, <3>2, <4>1
        <4> QED
          BY <2>1, <4>1, <4>2
      <3> QED
        BY <1>1, <1>2, <2>1, <3>1, <3>2 DEF Settling, Better, First, KindOf, Unsettled
    <2> QED
      BY <2>2, <2>3
  <1> QED
    BY <1>3, <1>4

\* An exchange stores a time that is better than the value it replaces, which
\* is the one the worker read: what is better than the time was unsettled.
LEMMA ExchangeSettles ==
    ASSUME Types, NEW w \in Workers, NEW e \in Extremes, Settling(e), Exchange(w)
    PROVE  Settling(e)'
  <1> USE RunnerAssumption
  <1>1. PICK d \in Extremes :
          /\ pc[w] = d /\ my[w].seen # NoTime /\ metrics[d] = my[w].seen
          /\ metrics' = [metrics EXCEPT ![d] = my[w].time]
          /\ my' = [my EXCEPT ![w].seen = NoTime]
          /\ pc' = [pc EXCEPT ![w] = After(d)]
    BY DEF Exchange, At, Go
  <1>2. timed' = timed
    BY DEF Exchange
  <1>3. /\ my'[w].time = my[w].time /\ my'[w].seen = NoTime
        /\ pc'[w] = After(d)
        /\ \A v \in Workers : v # w => pc'[v] = pc[v] /\ my'[v] = my[v]
    BY <1>1 DEF Types, LocalTypes
  <1>4. CASE e # d
    <2>1. metrics'[e] = metrics[e]
      BY <1>1, <1>4 DEF Types
    <2> QED
      BY <1>1, <1>2, <1>3, <1>4, <2>1, AfterSettled, QuietStep
  <1>5. CASE e = d
    <2> DEFINE T == my[w].time
    <2>1. pc[w] \in Unsettled(e) /\ pc'[w] \notin Unsettled(e) /\ pc'[w] # e
      BY <1>1, <1>3, <1>5, AfterSettled
    <2>2. T \in timed[KindOf(e)] /\ Better(e, T, metrics[e])
      BY <1>1, <1>5, <2>1 DEF Settling
    <2>3. metrics'[e] = T
      BY <1>1, <1>5 DEF Types
    <2>4. T \in Int /\ metrics[e] \in Int /\ timed[KindOf(e)] \subseteq Int
      <3>1. KindOf(e) \in {"connection", "query"}
        BY DEF KindOf
      <3>2. my[w].time \in {0} \cup Times /\ metrics[e] \in Nat
        BY DEF Types, LocalTypes
      <3>3. timed[KindOf(e)] \subseteq Times
        BY <3>1 DEF Types
      <3>4. \A t \in Times : t \in Int
        BY DEF RunnerAssumption
      <3>5. T \in Int
        <4>1. T = 0 \/ T \in Times
          BY <3>2
        <4>2. CASE T = 0
          BY <4>2
        <4>3. CASE T \in Times
          BY <3>4, <4>3
        <4> QED
          BY <4>1, <4>2, <4>3
      <3>6. metrics[e] \in Int
        BY <3>2
      <3> QED
        BY <3>3, <3>4, <3>5, <3>6
    <2>5. ASSUME NEW t \in timed[KindOf(e)], Better(e, t, T)
          PROVE  \E v \in Workers : pc'[v] \in Unsettled(e) /\ my'[v].time = t
      <3>1. Better(e, t, metrics[e]) /\ t # T
        BY <2>2, <2>4, <2>5, BetterOrder
      <3>2. PICK v \in Workers : pc[v] \in Unsettled(e) /\ my[v].time = t
        BY <3>1 DEF Settling
      <3> QED
        BY <1>3, <3>1, <3>2
    <2>6. \A v \in Workers : pc'[v] \in Unsettled(e) => my'[v].time \in timed[KindOf(e)]
      BY <1>3, <2>1 DEF Settling
    <2>7. \A v \in Workers : pc'[v] = e /\ my'[v].seen # NoTime =>
                                Better(e, my'[v].time, my'[v].seen)
      BY <1>3, <2>1 DEF Settling
    <2> QED
      BY <1>2, <2>2, <2>3, <2>5, <2>6, <2>7 DEF Settling, Better, First, KindOf, Unsettled
  <1> QED
    BY <1>4, <1>5

\* A failed exchange forgets what was read.
LEMMA ExchangeFailsSettles ==
    ASSUME Types, NEW w \in Workers, NEW e \in Extremes, Settling(e), ExchangeFails(w)
    PROVE  Settling(e)'
  <1>1. /\ my' = [my EXCEPT ![w].seen = NoTime] /\ pc' = pc
        /\ metrics' = metrics /\ timed' = timed
    BY DEF ExchangeFails, Local
  <1>2. /\ my'[w].time = my[w].time /\ my'[w].seen = NoTime
        /\ \A v \in Workers : v # w => my'[v] = my[v]
    BY <1>1 DEF Types, LocalTypes
  <1> QED
    BY <1>1, <1>2, QuietStep

\* RunnerInv is inductive.
LEMMA RunnerStep == RunnerInv /\ [RunnerNext]_runnerVars => RunnerInv'
  <1> SUFFICES ASSUME RunnerInv, [RunnerNext]_runnerVars
               PROVE  RunnerInv'
    OBVIOUS
  <1>1. Types /\ Types'
    BY StepTypes DEF RunnerInv
  <1>2. ASSUME NEW e \in Extremes PROVE Settling(e)'
    <2>1. Settling(e)
      BY DEF RunnerInv
    <2>2. CASE \E w \in Workers : Worker(w) \/ ExchangeFails(w)
      BY <1>1, <2>1, <2>2, QuietWorker, MeasureSettles, LoadSettles, ExchangeSettles,
         ExchangeFailsSettles DEF Worker
    <2>3. CASE \/ ReporterWakes \/ PrintMetrics \/ JoinWorkers \/ FinalResults
               \/ UNCHANGED runnerVars
      <3>1. UNCHANGED <<metrics, pc, my, timed>>
        BY <2>3 DEF ReporterWakes, PrintMetrics, JoinWorkers, FinalResults, runnerVars, history
      <3> QED
        BY <2>1, <3>1, QuietStep
    <2> QED
      BY <2>2, <2>3 DEF RunnerNext
  <1> QED
    BY <1>1, <1>2 DEF RunnerInv

-----------------------------------------------------------------------------
\* RunnerInv is invariant.
THEOREM RunnerInvariant == RunnerSpec => []RunnerInv
  <1> QED
    BY RunnerInitInv, RunnerStep, PTL DEF RunnerSpec

\* The runner's variables keep their types for any number of threads, and any
\* limits and durations.
THEOREM RunnerTypes == RunnerSpec => []RunnerTypeOK
  <1>1. RunnerInv => RunnerTypeOK
    <2> SUFFICES ASSUME RunnerInv PROVE RunnerTypeOK
      OBVIOUS
    <2>1. Types
      BY DEF RunnerInv
    <2> QED
      BY <2>1 DEF Types, LocalTypes, RunnerTypeOK
  <1> QED
    BY <1>1, RunnerInvariant, PTL

\* However many workers race for a minimum or a maximum: when they are done it
\* is that of the times they measured.
THEOREM RunnerExtremes == RunnerSpec => []ExtremesExact
  <1>1. RunnerInv => ExtremesExact
    <2> SUFFICES ASSUME RunnerInv, Done PROVE ExtremesExact
      BY DEF ExtremesExact
    <2> USE RunnerAssumption
    <2>1. ASSUME NEW e \in Extremes
          PROVE  LET S == timed[KindOf(e)]
                 IN  /\ S \subseteq 0..(MaxTime - 1)
                     /\ metrics[e] \in {First(e)} \cup S
                     /\ \A t \in S : ~Better(e, t, metrics[e])
      <3>1. \A w \in Workers : pc[w] \notin Unsettled(e)
        BY DEF Done, Unsettled, Extremes, Minima
      <3>2. KindOf(e) \in {"connection", "query"}
        BY DEF KindOf
      <3> QED
        BY <3>1, <3>2 DEF RunnerInv, Types, Settling
    <2>2. ASSUME NEW e \in Minima PROVE IsMin(metrics[e], timed[KindOf(e)])
      BY <2>1, <2>2 DEF Extremes, First, Better, IsMin
    <2>3. ASSUME NEW e \in Extremes \ Minima PROVE IsMax(metrics[e], timed[KindOf(e)])
      BY <2>1, <2>3 DEF First, Better, IsMax
    <2> QED
      BY <2>2, <2>3 DEF ExtremesExact, KindOf, Extremes, Minima
  <1> QED
    BY <1>1, RunnerInvariant, PTL

-----------------------------------------------------------------------------
(* The queries. *)

\* The workers at one of some places.
In(P) == {w \in Workers : pc[w] \in P}

\* Where a worker's query is a success or a failure and not yet in the total.
Halfway == {"minQueryTime", "maxQueryTime", "show", "sleep", "count"}

\* The workers at some places change by the one that moves.
LEMMA InMoves ==
    ASSUME NEW P, NEW w \in Workers, \A v \in Workers : v # w => pc'[v] = pc[v]
    PROVE  /\ Cardinality(In(P)) \in Nat
           /\ (pc[w] \in P <=> pc'[w] \in P) => Cardinality(In(P)') = Cardinality(In(P))
           /\ pc[w] \notin P /\ pc'[w] \in P => Cardinality(In(P)') = Cardinality(In(P)) + 1
           /\ pc[w] \in P /\ pc'[w] \notin P => Cardinality(In(P)') = Cardinality(In(P)) - 1
  <1>1. IsFiniteSet(In(P))
    BY RunnerAssumption, FS_Subset DEF In
  <1>2. Cardinality(In(P)) \in Nat
    BY <1>1, FS_CardinalityType
  <1>3. ASSUME pc[w] \in P <=> pc'[w] \in P PROVE In(P)' = In(P)
    BY <1>3 DEF In
  <1>4. ASSUME pc[w] \notin P, pc'[w] \in P PROVE In(P)' = In(P) \cup {w} /\ w \notin In(P)
    BY <1>4 DEF In
  <1>5. ASSUME pc[w] \in P, pc'[w] \notin P PROVE In(P)' = In(P) \ {w} /\ w \in In(P)
    BY <1>5 DEF In
  <1> QED
    BY <1>1, <1>2, <1>3, <1>4, <1>5, FS_AddElement, FS_RemoveElement

\* What a worker's step adds to the three counters of queries, by the way it
\* moves into, through or out of the places in between.
LEMMA WorkerCounts ==
    ASSUME Types, NEW w \in Workers, Worker(w) \/ ExchangeFails(w)
    PROVE  /\ \A v \in Workers : v # w => pc'[v] = pc[v]
           /\ LET done  == metrics.successfulQueries + metrics.failedQueries
                  total == metrics.totalQueries
              IN  \/ /\ pc[w] \in Halfway <=> pc'[w] \in Halfway
                     /\ done' = done /\ total' = total
                  \/ /\ pc[w] \notin Halfway /\ pc'[w] \in Halfway
                     /\ done' = done + 1 /\ total' = total
                  \/ /\ pc[w] \in Halfway /\ pc'[w] \notin Halfway
                     /\ done' = done /\ total' = total + 1
  <1> USE DEF Types, At, Go, Local, Others, history, Extremes, Minima, Counters, Halfway
  <1>1. CASE ListFiles(w)
    BY <1>1 DEF ListFiles
  <1>2. CASE Connect(w)
    BY <1>2 DEF Connect
  <1>3. CASE Leave(w)
    BY <1>3 DEF Leave
  <1>4. CASE TestPasses(w)
    BY <1>4 DEF TestPasses
  <1>5. CASE TestFails(w)
    BY <1>5 DEF TestFails
  <1>6. CASE CountConnection(w)
    BY <1>6 DEF CountConnection, Add
  <1>7. CASE AddConnectionTime(w)
    BY <1>7 DEF AddConnectionTime, Measure, Add
  <1>8. CASE Load(w)
    BY <1>8 DEF Load, After
  <1>9. CASE Exchange(w)
    BY <1>9 DEF Exchange, After
  <1>10. CASE CannotOpen(w)
    BY <1>10 DEF CannotOpen
  <1>11. CASE Execute(w)
    BY <1>11 DEF Execute
  <1>12. CASE AddQueryTime(w)
    BY <1>12 DEF AddQueryTime, Measure, Add
  <1>13. CASE CountSuccess(w)
    BY <1>13 DEF CountSuccess, Add
  <1>14. CASE CountFailure(w)
    BY <1>14 DEF CountFailure, Add
  <1>15. CASE Show(w)
    BY <1>15 DEF Show
  <1>16. CASE Sleep(w)
    BY <1>16 DEF Sleep
  <1>17. CASE CountQuery(w)
    BY <1>17 DEF CountQuery, Add
  <1>18. CASE Close(w)
    BY <1>18 DEF Close
  <1>19. CASE Caught(w)
    BY <1>19 DEF Caught
  <1>20. CASE ExchangeFails(w)
    BY <1>20 DEF ExchangeFails
  <1> QED
    BY <1>1, <1>2, <1>3, <1>4, <1>5, <1>6, <1>7, <1>8, <1>9, <1>10, <1>11, <1>12, <1>13, <1>14, <1>15,
       <1>16, <1>17, <1>18, <1>19, <1>20 DEF Worker

\* However the workers and the reporter are interleaved, a query that ended is
\* in totalQueries or its worker is about to put it there.
THEOREM RunnerCounts == RunnerSpec => []CountsAgree
  <1>1. CountsAgree <=> metrics.successfulQueries + metrics.failedQueries =
                          metrics.totalQueries + Cardinality(In(Halfway))
    BY DEF CountsAgree, In, Halfway
  <1>2. RunnerInit => CountsAgree
    <2> SUFFICES ASSUME RunnerInit PROVE CountsAgree
      OBVIOUS
    <2>1. \A w \in Workers : pc[w] \in {"start", "done"}
      BY DEF RunnerInit
    <2>2. In(Halfway) = {}
      BY <2>1 DEF In, Halfway
    <2>3. /\ metrics.successfulQueries = 0 /\ metrics.failedQueries = 0
          /\ metrics.totalQueries = 0
      BY DEF RunnerInit, Counters, Minima
    <2> QED
      BY <1>1, <2>2, <2>3, FS_EmptySet
  <1>3. Types /\ CountsAgree /\ [RunnerNext]_runnerVars => CountsAgree'
    <2> SUFFICES ASSUME Types, CountsAgree, [RunnerNext]_runnerVars
                 PROVE  CountsAgree'
      OBVIOUS
    <2>1. /\ metrics.successfulQueries \in Nat /\ metrics.failedQueries \in Nat
          /\ metrics.totalQueries \in Nat
      BY DEF Types, Counters
    <2>2. CountsAgree' <=> metrics'.successfulQueries + metrics'.failedQueries =
                             metrics'.totalQueries + Cardinality(In(Halfway)')
      BY DEF CountsAgree, In, Halfway
    <2>3. ASSUME NEW w \in Workers, Worker(w) \/ ExchangeFails(w)
          PROVE  CountsAgree'
      BY <1>1, <2>1, <2>2, <2>3, WorkerCounts, InMoves
    <2>4. CASE \/ ReporterWakes \/ PrintMetrics \/ JoinWorkers \/ FinalResults
               \/ UNCHANGED runnerVars
      <3>1. UNCHANGED <<metrics, pc>>
        BY <2>4 DEF ReporterWakes, PrintMetrics, JoinWorkers, FinalResults, runnerVars, history
      <3> QED
        BY <1>1, <2>2, <3>1 DEF In
    <2> QED
      BY <2>3, <2>4 DEF RunnerNext
  <1>4. RunnerInv => Types
    BY DEF RunnerInv
  <1> QED
    BY <1>2, <1>3, <1>4, RunnerInvariant, PTL DEF RunnerSpec

-----------------------------------------------------------------------------
(* The files.  What an iteration has left is a set of pairs, of a worker and *)
(* the number of a file, so that a sum over the workers is its cardinality.  *)

Files == 0..(config.sqlDir - 1)

\* The places of a worker that has a connection and has not closed it.
Trying == {"ran", "failed", "succeeded"} \cup Halfway
Inside == {"connectionTime", "minConnectionTime", "maxConnectionTime", "file"} \cup Trying

Left == {q \in Workers \X Files : pc[q[1]] \in Inside /\ q[2] >= my[q[1]].file}

FilesInv ==
    /\ unopened \in Nat
    /\ Running => config.sqlDir \in Nat \cup {NotDirectory}
    /\ config.sqlDir \notin Nat =>
         metrics.totalConnections = 0 /\ \A w \in Workers : pc[w] \in {"start", "done"}
    /\ \A w \in Workers : pc[w] \in Trying => my[w].file < config.sqlDir
    /\ config.sqlDir \in Nat =>
         metrics.totalQueries + unopened + Cardinality(Left) = config.sqlDir * metrics.totalConnections

(* What a step of a worker does to the files it has left. *)

Tried == metrics.totalQueries + unopened

StartsFiles(w) ==
    /\ pc[w] = "connected" /\ pc'[w] = "connectionTime" /\ my'[w].file = 0
    /\ metrics'.totalConnections = metrics.totalConnections + 1 /\ Tried' = Tried

TriesFile(w) ==
    /\ pc[w] \in {"file", "count"} /\ pc'[w] = "file" /\ my'[w].file = my[w].file + 1
    /\ my[w].file < config.sqlDir
    /\ metrics'.totalConnections = metrics.totalConnections /\ Tried' = Tried + 1

EndsFiles(w) ==
    /\ pc[w] = "file" /\ pc'[w] \notin Inside /\ ~HasFile(w)
    /\ metrics'.totalConnections = metrics.totalConnections /\ Tried' = Tried

KeepsFiles(w) ==
    /\ pc[w] \in Inside <=> pc'[w] \in Inside
    /\ my'[w].file = my[w].file
    /\ pc'[w] \in Trying => pc[w] \in Trying \/ HasFile(w)
    /\ metrics'.totalConnections = metrics.totalConnections /\ Tried' = Tried

\* A step is one of these, and moves no other worker.
LEMMA WorkerFiles ==
    ASSUME Types, unopened \in Nat, \A v \in Workers : pc[v] \in Trying => my[v].file < config.sqlDir,
           NEW w \in Workers, Worker(w) \/ ExchangeFails(w)
    PROVE  /\ \A v \in Workers : v # w => pc'[v] = pc[v] /\ my'[v] = my[v]
           /\ config' = config /\ Running /\ unopened' \in Nat
           /\ pc[w] = "start" =>
                \/ pc'[w] = "start"
                \/ config.sqlDir # NotDirectory /\ pc'[w] \in {"loop", "done"}
           /\ pc[w] # "done"
           /\ StartsFiles(w) \/ TriesFile(w) \/ EndsFiles(w) \/ KeepsFiles(w)
  <1> USE DEF Types, LocalTypes, At, Go, Local, Others, history, Extremes, Minima, Counters, Halfway,
              Trying, Inside, Tried, StartsFiles, TriesFile, EndsFiles, KeepsFiles, HasFile
  <1>1. CASE ListFiles(w)
    BY <1>1 DEF ListFiles
  <1>2. CASE Connect(w)
    BY <1>2 DEF Connect
  <1>3. CASE Leave(w)
    BY <1>3 DEF Leave
  <1>4. CASE TestPasses(w)
    BY <1>4 DEF TestPasses
  <1>5. CASE TestFails(w)
    BY <1>5 DEF TestFails
  <1>6. CASE CountConnection(w)
    BY <1>6 DEF CountConnection, Add
  <1>7. CASE AddConnectionTime(w)
    BY <1>7 DEF AddConnectionTime, Measure, Add
  <1>8. CASE Load(w)
    BY <1>8 DEF Load, After
  <1>9. CASE Exchange(w)
    BY <1>9 DEF Exchange, After
  <1>10. CASE CannotOpen(w)
    <2>1. my' = [my EXCEPT ![w].file = @ + 1] /\ pc' = pc /\ metrics' = metrics /\ pc[w] = "file"
      BY <1>10 DEF CannotOpen
    <2>2. unopened' = unopened + 1 /\ HasFile(w) /\ Running /\ config' = config
      BY <1>10 DEF CannotOpen
    <2>3. Tried' = Tried + 1
      BY <2>1, <2>2
    <2>4. my'[w].file = my[w].file + 1 /\ \A v \in Workers : v # w => my'[v] = my[v]
      BY <2>1
    <2> HIDE DEF Tried
    <2> QED
      BY <2>1, <2>2, <2>3, <2>4
  <1>11. CASE Execute(w)
    BY <1>11 DEF Execute
  <1>12. CASE AddQueryTime(w)
    BY <1>12 DEF AddQueryTime, Measure, Add
  <1>13. CASE CountSuccess(w)
    BY <1>13 DEF CountSuccess, Add
  <1>14. CASE CountFailure(w)
    BY <1>14 DEF CountFailure, Add
  <1>15. CASE Show(w)
    BY <1>15 DEF Show
  <1>16. CASE Sleep(w)
    BY <1>16 DEF Sleep
  <1>17. CASE CountQuery(w)
    BY <1>17 DEF CountQuery, Add
  <1>18. CASE Close(w)
    BY <1>18 DEF Close
  <1>19. CASE Caught(w)
    BY <1>19 DEF Caught
  <1>20. CASE ExchangeFails(w)
    BY <1>20 DEF ExchangeFails
  <1> QED
    BY <1>1, <1>2, <1>3, <1>4, <1>5, <1>6, <1>7, <1>8, <1>9, <1>10, <1>11, <1>12, <1>13, <1>14, <1>15,
       <1>16, <1>17, <1>18, <1>19, <1>20 DEF Worker

\* A worker's step keeps the account of the files.
LEMMA WorkerKeepsFiles ==
    ASSUME Types, FilesInv, NEW w \in Workers, Worker(w) \/ ExchangeFails(w)
    PROVE  FilesInv'
  <1>1. /\ \A v \in Workers : v # w => pc'[v] = pc[v] /\ my'[v] = my[v]
        /\ config' = config /\ Running /\ unopened' \in Nat
        /\ pc[w] # "done"
        /\ StartsFiles(w) \/ TriesFile(w) \/ EndsFiles(w) \/ KeepsFiles(w)
    BY WorkerFiles DEF FilesInv
  <1>2. /\ metrics.totalConnections \in Nat /\ metrics.totalQueries \in Nat /\ unopened \in Nat
        /\ Tried \in Nat /\ my[w].file \in Nat
    BY DEF Types, LocalTypes, Counters, FilesInv, Tried
  <1>3. CASE config.sqlDir \notin Nat
    <2>1. config.sqlDir = NotDirectory /\ pc[w] = "start"
      BY <1>1, <1>3 DEF FilesInv
    <2>2. pc'[w] = "start"
      BY <2>1, WorkerFiles DEF FilesInv
    <2>3. metrics'.totalConnections = metrics.totalConnections
      BY <1>1, <2>1, <2>2 DEF StartsFiles, TriesFile, EndsFiles, KeepsFiles
    <2>4. \A v \in Workers : pc'[v] \in {"start", "done"}
      BY <1>1, <1>3, <2>2 DEF FilesInv
    <2> QED
      BY <1>1, <1>3, <2>1, <2>3, <2>4 DEF FilesInv, Trying, Halfway
  <1>4. CASE config.sqlDir \in Nat
    <2>1. /\ IsFiniteSet(Files) /\ Cardinality(Files) = config.sqlDir
          /\ IsFiniteSet(Left) /\ Cardinality(Left) \in Nat
      <3>1. IsFiniteSet(Files) /\ Cardinality(Files) = config.sqlDir
        BY <1>4, FS_Interval DEF Files
      <3>2. IsFiniteSet(Workers \X Files)
        BY <3>1, RunnerAssumption, FS_Product
      <3> QED
        BY <3>1, <3>2, FS_Subset, FS_CardinalityType DEF Left
    <2>2. Left' = {q \in Workers \X Files : pc'[q[1]] \in Inside /\ q[2] >= my'[q[1]].file}
      BY <1>1 DEF Left, Files
    <2>3. Tried + Cardinality(Left) = config.sqlDir * metrics.totalConnections
      BY <1>4 DEF FilesInv, Tried
    <2>4. /\ Tried' + Cardinality(Left') = config.sqlDir * metrics'.totalConnections
          /\ pc'[w] \in Trying => my'[w].file < config.sqlDir
      <3>1. CASE StartsFiles(w)
        <4>1. \A k \in Files : k >= my'[w].file
          BY <3>1 DEF StartsFiles, Files
        <4>2. Left' = Left \cup ({w} \X Files) /\ Left \cap ({w} \X Files) = {}
          BY <1>1, <2>2, <3>1, <4>1 DEF StartsFiles, Left, Inside, Trying, Halfway
        <4>3. IsFiniteSet({w} \X Files) /\ Cardinality({w} \X Files) = config.sqlDir
          <5>1. IsFiniteSet({w}) /\ Cardinality({w}) = 1
            BY FS_Singleton
          <5>2. 1 * config.sqlDir = config.sqlDir
            BY <1>4
          <5> QED
            BY <2>1, <5>1, <5>2, FS_Product
        <4>4. /\ Cardinality(Left') = Cardinality(Left) + config.sqlDir - Cardinality({})
              /\ Cardinality({}) = 0
          BY <2>1, <4>2, <4>3, FS_Union, FS_EmptySet
        <4>5. config.sqlDir * (metrics.totalConnections + 1) =
                config.sqlDir * metrics.totalConnections + config.sqlDir
          BY <1>2, <1>4
        <4>6. config.sqlDir * metrics.totalConnections \in Nat
          BY <1>2, <1>4
        <4>7. pc'[w] \notin Trying
          BY <3>1 DEF StartsFiles, Trying, Halfway
        <4> QED
          BY <1>2, <1>4, <2>1, <2>3, <3>1, <4>4, <4>5, <4>6, <4>7 DEF StartsFiles
      <3>2. CASE TriesFile(w)
        <4>1. <<w, my[w].file>> \in Left
          <5>1. my[w].file \in Files
            BY <1>2, <1>4, <3>2 DEF TriesFile, Files
          <5>2. pc[w] \in Inside
            BY <3>2 DEF TriesFile, Inside, Trying, Halfway
          <5> QED
            BY <1>2, <5>1, <5>2 DEF Left
        <4>2. \A k \in Files : k >= my'[w].file <=> k >= my[w].file /\ k # my[w].file
          BY <1>2, <3>2 DEF TriesFile, Files
        <4>3. Left' = Left \ {<<w, my[w].file>>}
          <5>1. pc[w] \in Inside /\ pc'[w] \in Inside
            BY <3>2 DEF TriesFile, Inside, Trying, Halfway
          <5> QED
            BY <1>1, <2>2, <4>2, <5>1 DEF Left
        <4>4. Cardinality(Left') = Cardinality(Left) - 1
          BY <2>1, <4>1, <4>3, FS_RemoveElement
        <4>5. config.sqlDir * metrics.totalConnections \in Nat
          BY <1>2, <1>4
        <4>6. pc'[w] \notin Trying
          BY <3>2 DEF TriesFile, Trying, Halfway
        <4> QED
          BY <1>2, <2>1, <2>3, <3>2, <4>4, <4>5, <4>6 DEF TriesFile
      <3>3. CASE EndsFiles(w)
        <4>1. \A k \in Files : ~(k >= my[w].file)
          BY <1>2, <1>4, <3>3 DEF EndsFiles, HasFile, Files
        <4>2. Left' = Left
          BY <1>1, <2>2, <3>3, <4>1 DEF EndsFiles, Left
        <4>3. pc'[w] \notin Trying
          BY <3>3 DEF EndsFiles, Inside
        <4> QED
          BY <2>3, <3>3, <4>2, <4>3 DEF EndsFiles
      <3>4. CASE KeepsFiles(w)
        <4>1. Left' = Left
          BY <1>1, <2>2, <3>4 DEF KeepsFiles, Left
        <4> QED
          BY <2>3, <3>4, <4>1 DEF KeepsFiles, FilesInv, HasFile
      <3> QED
        BY <1>1, <3>1, <3>2, <3>3, <3>4
    <2>5. \A v \in Workers : pc'[v] \in Trying => my'[v].file < config.sqlDir
      BY <1>1, <2>4 DEF FilesInv
    <2> QED
      BY <1>1, <1>4, <2>4, <2>5 DEF FilesInv, Tried
  <1> QED
    BY <1>3, <1>4

\* The account of the files is invariant.
LEMMA FilesInvariant == RunnerSpec => []FilesInv
  <1>1. RunnerInit => FilesInv
    <2> SUFFICES ASSUME RunnerInit PROVE FilesInv
      OBVIOUS
    <2>1. \A w \in Workers : pc[w] \in {"start", "done"}
      BY DEF RunnerInit
    <2>2. Running => config.sqlDir \in Nat \cup {NotDirectory}
      BY OptionsAssumption DEF RunnerInit, Running
    <2>3. metrics.totalConnections = 0 /\ metrics.totalQueries = 0 /\ unopened = 0
      BY DEF RunnerInit, Counters, Minima
    <2>4. Left = {}
      BY <2>1 DEF Left, Inside, Trying, Halfway
    <2>5. config.sqlDir \in Nat => config.sqlDir * 0 = 0
      OBVIOUS
    <2> QED
      BY <2>1, <2>2, <2>3, <2>4, <2>5, FS_EmptySet DEF FilesInv, Trying, Halfway
  <1>2. Types /\ FilesInv /\ [RunnerNext]_runnerVars => FilesInv'
    <2> SUFFICES ASSUME Types, FilesInv, [RunnerNext]_runnerVars
                 PROVE  FilesInv'
      OBVIOUS
    <2>1. CASE \E w \in Workers : Worker(w) \/ ExchangeFails(w)
      BY <2>1, WorkerKeepsFiles
    <2>2. CASE \/ ReporterWakes \/ PrintMetrics \/ JoinWorkers \/ FinalResults
               \/ UNCHANGED runnerVars
      <3>1. UNCHANGED <<config, metrics, pc, my, unopened>> /\ (Running' => Running)
        BY <2>2 DEF ReporterWakes, PrintMetrics, JoinWorkers, FinalResults, Divide, Running,
           runnerVars, history
      <3>2. Left' = Left
        BY <3>1 DEF Left, Files
      <3> QED
        BY <3>1, <3>2 DEF FilesInv
    <2> QED
      BY <2>1, <2>2 DEF RunnerNext
  <1>3. RunnerInv => Types
    BY DEF RunnerInv
  <1> QED
    BY <1>1, <1>2, <1>3, RunnerInvariant, PTL DEF RunnerSpec

\* An iteration that got a connection tries each file once, whatever fails.
THEOREM RunnerFiles == RunnerSpec => []FilesAllTried
  <1>1. Types /\ FilesInv => FilesAllTried
    <2> SUFFICES ASSUME Types, FilesInv, Done, metrics.totalConnections > 0
                 PROVE  metrics.totalQueries + unopened = config.sqlDir * metrics.totalConnections
      BY DEF FilesAllTried
    <2>1. config.sqlDir \in Nat
      BY DEF FilesInv
    <2>2. Left = {}
      BY DEF Done, Left, Inside, Trying, Halfway
    <2>3. metrics.totalQueries + unopened \in Nat
      BY DEF FilesInv, Types, Counters
    <2> QED
      BY <2>1, <2>2, <2>3, FS_EmptySet DEF FilesInv
  <1>2. RunnerInv => Types
    BY DEF RunnerInv
  <1> QED
    BY <1>1, <1>2, RunnerInvariant, FilesInvariant, PTL

-----------------------------------------------------------------------------
(* The averages.  A total is bounded by any bound of the times that were     *)
(* measured, times the number of them.                                       *)

\* How many times were added to the two totals.
Timed(kind) == IF kind = "connection"
               THEN metrics.totalConnections - Cardinality(In({"connectionTime"}))
               ELSE metrics.successfulQueries + Cardinality(In({"succeeded"}))
Total(kind) == IF kind = "connection" THEN metrics.totalConnectionTime
               ELSE metrics.totalExecutionTime

Bounded(kind) ==
    /\ \A m \in Nat : (\A t \in timed[kind] : t <= m) => Total(kind) <= m * Timed(kind)
    /\ \A m \in Nat : (\A t \in timed[kind] : t >= m) => Total(kind) >= m * Timed(kind)

(* What a step of a worker does to one of the totals. *)

AddsTime(kind) ==
    \E t \in Times : /\ Total(kind)' = Total(kind) + t
                     /\ timed'[kind] = timed[kind] \cup {t}

AddsNone(kind) == Total(kind)' = Total(kind) /\ timed'[kind] = timed[kind]

ConnectionStep(w) ==
    \/ /\ pc[w] = "connectionTime" <=> pc'[w] = "connectionTime"
       /\ metrics'.totalConnections = metrics.totalConnections /\ AddsNone("connection")
    \/ /\ pc[w] # "connectionTime" /\ pc'[w] = "connectionTime"
       /\ metrics'.totalConnections = metrics.totalConnections + 1 /\ AddsNone("connection")
    \/ /\ pc[w] = "connectionTime" /\ pc'[w] # "connectionTime"
       /\ metrics'.totalConnections = metrics.totalConnections /\ AddsTime("connection")

QueryStep(w) ==
    \/ /\ pc[w] = "succeeded" <=> pc'[w] = "succeeded"
       /\ metrics'.successfulQueries = metrics.successfulQueries /\ AddsNone("query")
    \/ /\ pc[w] # "succeeded" /\ pc'[w] = "succeeded"
       /\ metrics'.successfulQueries = metrics.successfulQueries /\ AddsTime("query")
    \/ /\ pc[w] = "succeeded" /\ pc'[w] # "succeeded"
       /\ metrics'.successfulQueries = metrics.successfulQueries + 1 /\ AddsNone("query")

\* A time is added to its total and to the measured ones in one step.
LEMMA WorkerTimes ==
    ASSUME Types, NEW w \in Workers, Worker(w) \/ ExchangeFails(w)
    PROVE  /\ \A v \in Workers : v # w => pc'[v] = pc[v]
           /\ ConnectionStep(w) /\ QueryStep(w)
  <1> USE DEF Types, At, Go, Local, Others, history, Extremes, Minima, Counters,
              ConnectionStep, QueryStep, AddsTime, AddsNone, Total
  <1>1. CASE ListFiles(w)
    BY <1>1 DEF ListFiles
  <1>2. CASE Connect(w)
    BY <1>2 DEF Connect
  <1>3. CASE Leave(w)
    BY <1>3 DEF Leave
  <1>4. CASE TestPasses(w)
    BY <1>4 DEF TestPasses
  <1>5. CASE TestFails(w)
    BY <1>5 DEF TestFails
  <1>6. CASE CountConnection(w)
    BY <1>6 DEF CountConnection, Add
  <1>7. CASE AddConnectionTime(w)
    BY <1>7 DEF AddConnectionTime, Measure, Add
  <1>8. CASE Load(w)
    BY <1>8 DEF Load, After
  <1>9. CASE Exchange(w)
    BY <1>9 DEF Exchange, After
  <1>10. CASE CannotOpen(w)
    BY <1>10 DEF CannotOpen
  <1>11. CASE Execute(w)
    BY <1>11 DEF Execute
  <1>12. CASE AddQueryTime(w)
    BY <1>12 DEF AddQueryTime, Measure, Add
  <1>13. CASE CountSuccess(w)
    BY <1>13 DEF CountSuccess, Add
  <1>14. CASE CountFailure(w)
    BY <1>14 DEF CountFailure, Add
  <1>15. CASE Show(w)
    BY <1>15 DEF Show
  <1>16. CASE Sleep(w)
    BY <1>16 DEF Sleep
  <1>17. CASE CountQuery(w)
    BY <1>17 DEF CountQuery, Add
  <1>18. CASE Close(w)
    BY <1>18 DEF Close
  <1>19. CASE Caught(w)
    BY <1>19 DEF Caught
  <1>20. CASE ExchangeFails(w)
    BY <1>20 DEF ExchangeFails
  <1> QED
    BY <1>1, <1>2, <1>3, <1>4, <1>5, <1>6, <1>7, <1>8, <1>9, <1>10, <1>11, <1>12, <1>13, <1>14, <1>15,
       <1>16, <1>17, <1>18, <1>19, <1>20 DEF Worker

\* One more time, one more multiple of the bound.
LEMMA BoundedGrows ==
    ASSUME NEW kind, Bounded(kind), Timed(kind) \in Int, Total(kind) \in Int, Times \subseteq Int,
           \/ Timed(kind)' = Timed(kind) /\ AddsNone(kind)
           \/ Timed(kind)' = Timed(kind) + 1 /\ AddsTime(kind)
    PROVE  Bounded(kind)'
  <1>1. CASE Timed(kind)' = Timed(kind) /\ AddsNone(kind)
    BY <1>1 DEF Bounded, AddsNone
  <1>2. CASE Timed(kind)' = Timed(kind) + 1 /\ AddsTime(kind)
    <2>1. PICK t \in Times : /\ Total(kind)' = Total(kind) + t
                             /\ timed'[kind] = timed[kind] \cup {t}
      BY <1>2 DEF AddsTime
    <2>2. ASSUME NEW m \in Nat
          PROVE  m * Timed(kind)' = m * Timed(kind) + m /\ m * Timed(kind) \in Int
      <3>1. ASSUME NEW n \in Int PROVE m * (n + 1) = m * n + m /\ m * n \in Int
        OBVIOUS
      <3> QED
        BY <1>2, <3>1
    <2>3. ASSUME NEW m \in Nat, \A s \in timed'[kind] : s <= m
          PROVE  Total(kind)' <= m * Timed(kind)'
      <3>1. t <= m /\ Total(kind) <= m * Timed(kind)
        BY <2>1, <2>3 DEF Bounded
      <3> QED
        BY <2>1, <2>2, <3>1
    <2>4. ASSUME NEW m \in Nat, \A s \in timed'[kind] : s >= m
          PROVE  Total(kind)' >= m * Timed(kind)'
      <3>1. t >= m /\ Total(kind) >= m * Timed(kind)
        BY <2>1, <2>4 DEF Bounded
      <3> QED
        BY <2>1, <2>2, <3>1
    <2> QED
      BY <2>3, <2>4 DEF Bounded
  <1> QED
    BY <1>1, <1>2

\* A step of a worker keeps the bounds.
LEMMA WorkerBounded ==
    ASSUME Types, NEW w \in Workers, Worker(w) \/ ExchangeFails(w),
           NEW kind \in {"connection", "query"}, Bounded(kind)
    PROVE  Bounded(kind)'
  <1>1. /\ \A v \in Workers : v # w => pc'[v] = pc[v]
        /\ ConnectionStep(w) /\ QueryStep(w)
    BY WorkerTimes
  <1>2. /\ metrics.totalConnections \in Nat /\ metrics.successfulQueries \in Nat
        /\ Total(kind) \in Int /\ Times \subseteq Int
    BY RunnerAssumption DEF Types, Counters, Total
  <1>3. CASE kind = "connection"
    <2> DEFINE P == {"connectionTime"}
    <2>1. /\ Cardinality(In(P)) \in Nat
          /\ (pc[w] \in P <=> pc'[w] \in P) => Cardinality(In(P)') = Cardinality(In(P))
          /\ pc[w] \notin P /\ pc'[w] \in P => Cardinality(In(P)') = Cardinality(In(P)) + 1
          /\ pc[w] \in P /\ pc'[w] \notin P => Cardinality(In(P)') = Cardinality(In(P)) - 1
      BY <1>1, InMoves
    <2>2. /\ Timed(kind) = metrics.totalConnections - Cardinality(In(P))
          /\ Timed(kind)' = metrics'.totalConnections - Cardinality(In(P)')
      BY <1>3 DEF Timed, In
    <2>3. \/ Timed(kind)' = Timed(kind) /\ AddsNone(kind)
          \/ Timed(kind)' = Timed(kind) + 1 /\ AddsTime(kind)
      BY <1>1, <1>2, <1>3, <2>1, <2>2 DEF ConnectionStep
    <2> QED
      BY <1>2, <2>1, <2>2, <2>3, BoundedGrows
  <1>4. CASE kind = "query"
    <2> DEFINE P == {"succeeded"}
    <2>1. /\ Cardinality(In(P)) \in Nat
          /\ (pc[w] \in P <=> pc'[w] \in P) => Cardinality(In(P)') = Cardinality(In(P))
          /\ pc[w] \notin P /\ pc'[w] \in P => Cardinality(In(P)') = Cardinality(In(P)) + 1
          /\ pc[w] \in P /\ pc'[w] \notin P => Cardinality(In(P)') = Cardinality(In(P)) - 1
      BY <1>1, InMoves
    <2>2. /\ Timed(kind) = metrics.successfulQueries + Cardinality(In(P))
          /\ Timed(kind)' = metrics'.successfulQueries + Cardinality(In(P)')
      BY <1>4 DEF Timed, In
    <2>3. \/ Timed(kind)' = Timed(kind) /\ AddsNone(kind)
          \/ Timed(kind)' = Timed(kind) + 1 /\ AddsTime(kind)
      BY <1>1, <1>2, <1>4, <2>1, <2>2 DEF QueryStep
    <2> QED
      BY <1>2, <2>1, <2>2, <2>3, BoundedGrows
  <1> QED
    BY <1>3, <1>4

\* The totals and the numbers they are divided by never get out of step so far
\* that an average leaves the extremes printed with it.
THEOREM RunnerAverages == RunnerSpec => []AveragesBounded
  <1> DEFINE BoundedAll == \A kind \in {"connection", "query"} : Bounded(kind)
  <1>1. RunnerInit => BoundedAll
    <2> SUFFICES ASSUME RunnerInit, NEW kind \in {"connection", "query"} PROVE Bounded(kind)
      OBVIOUS
    <2>1. Total(kind) = 0 /\ metrics.totalConnections = 0 /\ metrics.successfulQueries = 0
      BY DEF RunnerInit, Total, Counters, Minima
    <2>2. In({"connectionTime"}) = {} /\ In({"succeeded"}) = {}
      BY DEF RunnerInit, In
    <2>3. Timed(kind) = 0
      BY <2>1, <2>2, FS_EmptySet DEF Timed
    <2>4. \A m \in Nat : m * 0 = 0
      OBVIOUS
    <2> QED
      BY <2>1, <2>3, <2>4 DEF Bounded
  <1>2. Types /\ BoundedAll /\ [RunnerNext]_runnerVars => BoundedAll'
    <2> SUFFICES ASSUME Types, [RunnerNext]_runnerVars,
                        NEW kind \in {"connection", "query"}, Bounded(kind)
                 PROVE  Bounded(kind)'
      OBVIOUS
    <2>1. CASE \E w \in Workers : Worker(w) \/ ExchangeFails(w)
      BY <2>1, WorkerBounded
    <2>2. CASE \/ ReporterWakes \/ PrintMetrics \/ JoinWorkers \/ FinalResults
               \/ UNCHANGED runnerVars
      <3>1. UNCHANGED <<metrics, pc, timed>>
        BY <2>2 DEF ReporterWakes, PrintMetrics, JoinWorkers, FinalResults, runnerVars, history
      <3>2. Timed(kind)' = Timed(kind) /\ Total(kind)' = Total(kind)
        BY <3>1 DEF Timed, Total, In
      <3> QED
        BY <3>1, <3>2 DEF Bounded
    <2> QED
      BY <2>1, <2>2 DEF RunnerNext
  <1>3. Types /\ BoundedAll /\ ExtremesExact /\ CountsAgree => AveragesBounded
    <2> SUFFICES ASSUME Types, Bounded("connection"), Bounded("query"), ExtremesExact, CountsAgree, Done
                 PROVE  /\ metrics.totalConnectionTime <=
                             metrics.maxConnectionTime * metrics.totalConnections
                        /\ metrics.totalConnections > 0 =>
                             metrics.totalConnectionTime >=
                               metrics.minConnectionTime * metrics.totalConnections
                        /\ metrics.totalExecutionTime <= metrics.maxQueryTime * metrics.totalQueries
      BY DEF AveragesBounded
    <2>1. /\ Timed("connection") = metrics.totalConnections
          /\ Timed("query") = metrics.successfulQueries
          /\ metrics.totalConnections \in Nat /\ metrics.successfulQueries \in Nat
          /\ metrics.failedQueries \in Nat /\ metrics.totalQueries \in Nat
          /\ metrics.totalConnectionTime \in Nat /\ metrics.totalExecutionTime \in Nat
          /\ \A e \in Extremes : metrics[e] \in Nat
      <3>1. In({"connectionTime"}) = {} /\ In({"succeeded"}) = {}
        BY DEF Done, In
      <3>2. Cardinality(In({"connectionTime"})) = 0 /\ Cardinality(In({"succeeded"})) = 0
        BY <3>1, FS_EmptySet
      <3>3. /\ metrics.totalConnections \in Nat /\ metrics.successfulQueries \in Nat
            /\ metrics.failedQueries \in Nat /\ metrics.totalQueries \in Nat
            /\ metrics.totalConnectionTime \in Nat /\ metrics.totalExecutionTime \in Nat
        BY DEF Types, Counters
      <3>4. \A e \in Extremes : metrics[e] \in Nat
        BY DEF Types
      <3>5. Timed("connection") = metrics.totalConnections
        BY <3>2, <3>3 DEF Timed
      <3>6. Timed("query") = metrics.successfulQueries
        BY <3>2, <3>3 DEF Timed
      <3> QED
        BY <3>3, <3>4, <3>5, <3>6
    <2>2. /\ IsMin(metrics.minConnectionTime, timed["connection"])
          /\ IsMax(metrics.maxConnectionTime, timed["connection"])
          /\ IsMax(metrics.maxQueryTime, timed["query"])
          /\ timed["connection"] \subseteq Int /\ timed["query"] \subseteq Int
      <3>1. timed["connection"] \subseteq Times /\ timed["query"] \subseteq Times
        BY DEF Types
      <3>2. Times \subseteq Int
        BY RunnerAssumption
      <3>3. /\ IsMin(metrics.minConnectionTime, timed["connection"])
            /\ IsMax(metrics.maxConnectionTime, timed["connection"])
            /\ IsMax(metrics.maxQueryTime, timed["query"])
        BY DEF ExtremesExact
      <3> QED
        BY <3>1, <3>2, <3>3
    <2>3. /\ metrics.maxConnectionTime \in Nat /\ metrics.minConnectionTime \in Nat
          /\ metrics.maxQueryTime \in Nat
      BY <2>1 DEF Extremes, Minima
    <2>4. metrics.totalConnectionTime <= metrics.maxConnectionTime * metrics.totalConnections
      <3>1. \A t \in timed["connection"] : t <= metrics.maxConnectionTime
        BY <2>2, <2>3 DEF IsMax
      <3> QED
        BY <2>1, <2>3, <3>1 DEF Bounded, Total
    <2>5. ASSUME metrics.totalConnections > 0
          PROVE  metrics.totalConnectionTime >= metrics.minConnectionTime * metrics.totalConnections
      <3>1. timed["connection"] # {}
        <4> SUFFICES ASSUME timed["connection"] = {} PROVE FALSE
          OBVIOUS
        <4>1. /\ metrics.totalConnectionTime <= 0 * metrics.totalConnections
              /\ metrics.totalConnectionTime >= 1 * metrics.totalConnections
          BY <2>1 DEF Bounded, Total
        <4> QED
          BY <2>1, <2>5, <4>1
      <3>2. \A t \in timed["connection"] : t >= metrics.minConnectionTime
        BY <2>2, <2>3, <3>1 DEF IsMin
      <3> QED
        BY <2>1, <2>3, <3>2 DEF Bounded, Total
    <2>6. metrics.totalExecutionTime <= metrics.maxQueryTime * metrics.totalQueries
      <3>1. \A t \in timed["query"] : t <= metrics.maxQueryTime
        BY <2>2, <2>3 DEF IsMax
      <3>2. metrics.totalExecutionTime <= metrics.maxQueryTime * metrics.successfulQueries
        BY <2>1, <2>3, <3>1 DEF Bounded, Total
      <3>3. metrics.totalQueries = metrics.successfulQueries + metrics.failedQueries
        <4>1. {w \in Workers : pc[w] \in {"minQueryTime", "maxQueryTime", "show", "sleep", "count"}} = {}
          BY DEF Done
        <4> QED
          BY <2>1, <4>1, FS_EmptySet DEF CountsAgree
      <3>4. ASSUME NEW m \in Nat, NEW a \in Nat, NEW b \in Nat
            PROVE  m * a <= m * (a + b) /\ m * a \in Nat /\ m * (a + b) \in Nat
        <4>1. m * (a + b) = m * a + m * b /\ m * a \in Nat /\ m * b \in Nat
          OBVIOUS
        <4> QED
          BY <4>1
      <3>5. metrics.maxQueryTime * metrics.successfulQueries
              <= metrics.maxQueryTime * metrics.totalQueries
        BY <2>1, <2>3, <3>3, <3>4
      <3> QED
        BY <2>1, <2>3, <3>2, <3>3, <3>4, <3>5
    <2> QED
      BY <2>4, <2>5, <2>6
  <1>4. RunnerInv => Types
    BY DEF RunnerInv
  <1> HIDE DEF BoundedAll
  <1> QED
    BY <1>1, <1>2, <1>3, <1>4, RunnerInvariant, RunnerExtremes, RunnerCounts, PTL DEF RunnerSpec

-----------------------------------------------------------------------------
(***************************************************************************)
(* The workers end.  A distance is four natural numbers; each step of a    *)
(* worker lowers it, and no sequence of distances goes down for ever.      *)
(***************************************************************************)
Distances == [1..4 -> Nat]
Below     == {p \in Nat \X Nat : p[1] < p[2]}

\* Numbers are well-founded, and so are tuples of four.
LEMMA DistancesEnd == IsWellFoundedOn(LexProductOrdering(Below, Nat, 4), Distances)
  <1>1. IsWellFoundedOn(Below, Nat)
    BY NatLessThanWellFounded, Zenon DEF OpToRel, Below
  <1>2. 4 \in Nat
    OBVIOUS
  <1> QED
    BY <1>1, <1>2, WFLexProductOrdering, Zenon DEF Distances

\* No endless sequence of distances goes down.
LEMMA NearerEnds ==
    \A f \in [Nat -> Distances] :
        (\A n \in Nat : Len(f[n]) = 4) => \E n \in Nat : ~Nearer(f[n + 1], f[n])
  <1> SUFFICES ASSUME NEW f \in [Nat -> Distances],
                      \A n \in Nat : Len(f[n]) = 4 /\ Nearer(f[n + 1], f[n])
               PROVE  FALSE
    OBVIOUS
  <1> DEFINE Order == LexProductOrdering(Below, Nat, 4)
  <1>1. ASSUME NEW n \in Nat
        PROVE  <<f[n + 1], f[n]>> \in Order
    <2>1. n + 1 \in Nat /\ Len(f[n + 1]) = 4
      OBVIOUS
    <2>2. f[n + 1] \in [1..4 -> Nat] /\ f[n] \in [1..4 -> Nat]
      BY <2>1 DEF Distances
    <2> DEFINE d == f[n + 1]
               e == f[n]
    <2>3. d \in [1..4 -> Nat] /\ e \in [1..4 -> Nat] /\ Len(d) = 4 /\ Nearer(d, e)
      BY <2>1, <2>2
    <2> HIDE DEF d, e
    <2>4. PICK j \in 1..4 : d[j] < e[j] /\ \A k \in 1..(j - 1) : d[k] = e[k]
      BY <2>3 DEF Nearer
    <2>5. <<d[j], e[j]>> \in Below
      BY <2>3, <2>4 DEF Below
    <2>6. <<d, e>> \in Order
      BY <2>3, <2>4, <2>5 DEF LexProductOrdering
    <2> QED
      BY <2>6 DEF d, e
  <1> HIDE DEF Order
  <1>2. \E g \in [Nat -> Distances] : \A n \in Nat : <<g[n + 1], g[n]>> \in Order
    BY <1>1
  <1>3. IsWellFoundedOn(Order, Distances)
    BY DistancesEnd DEF Order
  <1> QED
    BY <1>2, <1>3, Zenon DEF IsWellFoundedOn

\* Four ways of being nearer.
LEMMA NearerBy ==
    ASSUME NEW a \in Nat, NEW b \in Nat, NEW c \in Nat, NEW d \in Nat,
           NEW x \in Nat, NEW y \in Nat, NEW z \in Nat, NEW t \in Nat,
           \/ a < x
           \/ a = x /\ b < y
           \/ a = x /\ b = y /\ c < z
           \/ a = x /\ b = y /\ c = z /\ d < t
    PROVE  Nearer(<<a, b, c, d>>, <<x, y, z, t>>)
  <1>1. CASE a < x
    <2>1. 1 \in 1..4 /\ \A k \in 1..0 : FALSE
      OBVIOUS
    <2> QED
      BY <1>1, <2>1 DEF Nearer
  <1>2. CASE a = x /\ b < y
    <2>1. 2 \in 1..4 /\ \A k \in 1..1 : k = 1
      OBVIOUS
    <2> QED
      BY <1>2, <2>1 DEF Nearer
  <1>3. CASE a = x /\ b = y /\ c < z
    <2>1. 3 \in 1..4 /\ \A k \in 1..2 : k = 1 \/ k = 2
      OBVIOUS
    <2> QED
      BY <1>3, <2>1 DEF Nearer
  <1>4. CASE a = x /\ b = y /\ c = z /\ d < t
    <2>1. 4 \in 1..4 /\ \A k \in 1..3 : k = 1 \/ k = 2 \/ k = 3
      OBVIOUS
    <2> QED
      BY <1>4, <2>1 DEF Nearer
  <1> QED
    BY <1>1, <1>2, <1>3, <1>4

\* What a worker's place says of its iteration and of a pause.
Pausing(w) ==
    /\ pc[w] \notin {"start", "loop", "done"} /\ ~config.infinite =>
         my[w].iteration < config.iterations
    /\ pc[w] = "show" => config.delayMs > 0
    /\ pc[w] = "sleep" => my[w].sleep > 0

PausesInv == config.iterations \in Int /\ \A w \in Workers : Pausing(w)

\* A worker's step keeps it so.
LEMMA WorkerPauses ==
    ASSUME Types, NEW w \in Workers, Pausing(w), config.iterations \in Int,
           Worker(w) \/ ExchangeFails(w)
    PROVE  Pausing(w)'
  <1> USE DEF Types, LocalTypes, At, Go, Local, Others, history, Extremes, Minima, Pausing
  <1>1. CASE ListFiles(w) \/ Connect(w) \/ Leave(w) \/ TestPasses(w) \/ TestFails(w)
    BY <1>1 DEF ListFiles, Connect, Leave, TestPasses, TestFails, Continues
  <1>2. CASE CountConnection(w) \/ AddConnectionTime(w) \/ AddQueryTime(w) \/ CountSuccess(w)
    BY <1>2 DEF CountConnection, AddConnectionTime, AddQueryTime, Measure, CountSuccess
  <1>3. CASE Load(w) \/ Exchange(w) \/ ExchangeFails(w)
    BY <1>3 DEF Load, Exchange, ExchangeFails, After
  <1>4. CASE CannotOpen(w) \/ Execute(w) \/ CountFailure(w) \/ CountQuery(w)
    BY <1>4 DEF CannotOpen, Execute, CountFailure, CountQuery
  <1>5. CASE Show(w)
    BY <1>5 DEF Show
  <1>6. CASE Sleep(w)
    BY <1>6 DEF Sleep
  <1>7. CASE Close(w) \/ Caught(w)
    BY <1>7 DEF Close, Caught
  <1> QED
    BY <1>1, <1>2, <1>3, <1>4, <1>5, <1>6, <1>7 DEF Worker

\* A worker's step moves no other worker, and no option.
LEMMA WorkerMoves ==
    ASSUME Types, NEW w \in Workers, Worker(w) \/ ExchangeFails(w)
    PROVE  config' = config /\ \A v \in Workers : v # w => pc'[v] = pc[v] /\ my'[v] = my[v]
  <1> USE DEF Types, At, Go, Local, Others, history
  <1>1. CASE ListFiles(w) \/ Connect(w) \/ Leave(w) \/ TestPasses(w) \/ TestFails(w)
    BY <1>1 DEF ListFiles, Connect, Leave, TestPasses, TestFails
  <1>2. CASE CountConnection(w) \/ AddConnectionTime(w) \/ AddQueryTime(w) \/ CountSuccess(w)
    BY <1>2 DEF CountConnection, AddConnectionTime, AddQueryTime, Measure, CountSuccess
  <1>3. CASE Load(w) \/ Exchange(w) \/ ExchangeFails(w)
    BY <1>3 DEF Load, Exchange, ExchangeFails
  <1>4. CASE CannotOpen(w) \/ Execute(w) \/ CountFailure(w) \/ CountQuery(w)
    BY <1>4 DEF CannotOpen, Execute, CountFailure, CountQuery
  <1>5. CASE Show(w) \/ Sleep(w) \/ Close(w) \/ Caught(w)
    BY <1>5 DEF Show, Sleep, Close, Caught
  <1> QED
    BY <1>1, <1>2, <1>3, <1>4, <1>5 DEF Worker

\* PausesInv is invariant: what a worker does touches its own pause alone.
LEMMA PausesInvariant == RunnerSpec => []PausesInv
  <1>1. RunnerInit => PausesInv
    <2> SUFFICES ASSUME RunnerInit PROVE PausesInv
      OBVIOUS
    <2>1. config.iterations \in Int
      BY OptionsAssumption DEF RunnerInit
    <2>2. \A w \in Workers : pc[w] \in {"start", "done"}
      BY DEF RunnerInit
    <2> QED
      BY <2>1, <2>2 DEF PausesInv, Pausing
  <1>2. Types /\ PausesInv /\ [RunnerNext]_runnerVars => PausesInv'
    <2> SUFFICES ASSUME Types, PausesInv, [RunnerNext]_runnerVars PROVE PausesInv'
      OBVIOUS
    <2>1. ASSUME NEW w \in Workers, Worker(w) \/ ExchangeFails(w) PROVE PausesInv'
      <3>1. config' = config /\ \A v \in Workers : v # w => pc'[v] = pc[v] /\ my'[v] = my[v]
        BY <2>1, WorkerMoves
      <3>2. Pausing(w)'
        BY <2>1, WorkerPauses DEF PausesInv
      <3>3. \A v \in Workers : v # w => Pausing(v)'
        BY <3>1 DEF PausesInv, Pausing
      <3> QED
        BY <3>1, <3>2, <3>3 DEF PausesInv
    <2>2. CASE \/ ReporterWakes \/ PrintMetrics \/ JoinWorkers \/ FinalResults
               \/ UNCHANGED runnerVars
      <3>1. UNCHANGED <<config, pc, my>>
        BY <2>2 DEF ReporterWakes, PrintMetrics, JoinWorkers, FinalResults, runnerVars
      <3> QED
        BY <3>1 DEF PausesInv, Pausing
    <2> QED
      BY <2>1, <2>2 DEF RunnerNext
  <1>3. RunnerInv => Types
    BY DEF RunnerInv
  <1> QED
    BY <1>1, <1>2, <1>3, RunnerInvariant, PTL DEF RunnerSpec

\* A distance is four natural numbers, wherever the files are listed.
LEMMA DistanceType ==
    ASSUME Types, NEW w \in Workers, config.iterations \in Int, config.sqlDir \in Nat
    PROVE  Distance(w) \in Distances /\ Len(Distance(w)) = 4
  <1>1. my[w] \in LocalTypes /\ pc[w] \in Places /\ MaxRetries \in Nat
    BY RunnerAssumption DEF Types
  <1>2. /\ my[w].iteration \in Nat /\ my[w].file \in Nat /\ my[w].sleep \in Int
        /\ my[w].retries \in Nat
    BY <1>1 DEF LocalTypes
  <1>3. \A n \in Int : AtLeast0(n) \in Nat
    BY DEF AtLeast0
  <1>4. Rank(pc[w]) \in Nat
    BY <1>1 DEF Places, Rank, Extremes, Minima
  <1>5. Ahead(w) \in Int
    BY <1>2 DEF Ahead
  <1>6. Repeats(w) \in Int
    BY <1>1, <1>2 DEF Repeats
  <1>7. config.iterations - my[w].iteration \in Int
    BY <1>2
  <1> QED
    BY <1>3, <1>4, <1>5, <1>6, <1>7 DEF Distance, Distances

\* Every step of a worker is done with an iteration, a file, a place, or one of
\* the things it repeats there.
LEMMA WorkerNearer ==
    ASSUME Types, FilesInv, NEW w \in Workers, Pausing(w), config.iterations \in Int,
           Worker(w), main' # "crash", config.infinite => my'[w].iteration = my[w].iteration
    PROVE  Nearer(Distance(w)', Distance(w))
  <1> DEFINE Runs  == AtLeast0(config.iterations - my[w].iteration)
             Rest  == AtLeast0(Ahead(w))
             Again == AtLeast0(Repeats(w))
             Lower == \/ Runs' < Runs
                      \/ /\ Runs' = Runs
                         /\ \/ Rest' < Rest
                            \/ /\ Rest' = Rest
                               /\ \/ Rank(pc[w])' < Rank(pc[w])
                                  \/ Rank(pc[w])' = Rank(pc[w]) /\ Again' < Again
  <1>0. /\ config' = config /\ config.sqlDir \in Nat /\ MaxRetries \in Nat
        /\ my[w] \in LocalTypes /\ my'[w] \in LocalTypes /\ w \in DOMAIN my /\ w \in DOMAIN pc
    <2>1. config' = config
      BY WorkerMoves
    <2>2. Running /\ (pc[w] \in {"start", "done"} => pc[w] = "start" /\ config.sqlDir # NotDirectory)
      BY DEF Worker, ListFiles, Connect, Leave, TestPasses, TestFails, CountConnection, AddConnectionTime,
             Load, Exchange, CannotOpen, Execute, AddQueryTime, CountSuccess, CountFailure, Show,
             Sleep, CountQuery, Close, Caught, At, Extremes, Minima
    <2>3. config.sqlDir \in Nat
      BY <2>2 DEF FilesInv
    <2>4. my' \in [Workers -> LocalTypes]
      BY WorkerTypes DEF Types
    <2> QED
      BY <2>1, <2>3, <2>4, RunnerAssumption DEF Types
  <1>1. /\ my[w].iteration \in Nat /\ my[w].file \in Nat /\ my[w].sleep \in Int
        /\ my[w].retries \in Nat
        /\ my'[w].iteration \in Nat /\ my'[w].file \in Nat /\ my'[w].sleep \in Int
        /\ my'[w].retries \in Nat
    BY <1>0 DEF LocalTypes
  <1> SUFFICES Lower
    <2>1. \A n \in Int : AtLeast0(n) \in Nat
      BY DEF AtLeast0
    <2>2. \A place \in Places : Rank(place) \in Nat
      BY DEF Places, Rank, Extremes, Minima
    <2>3. pc[w] \in Places /\ pc'[w] \in Places
      BY WorkerTypes DEF Types
    <2>4. Runs \in Nat /\ Runs' \in Nat
      BY <1>0, <1>1, <2>1
    <2>5. Ahead(w) \in Int /\ Ahead(w)' \in Int
      BY <1>0, <1>1 DEF Ahead
    <2>6. Repeats(w) \in Int
      BY <1>0, <1>1 DEF Repeats
    <2>7. Repeats(w)' \in Int
      BY <1>0, <1>1 DEF Repeats
    <2>8. Rest \in Nat /\ Rest' \in Nat /\ Again \in Nat /\ Again' \in Nat
      BY <2>1, <2>5, <2>6, <2>7
    <2>9. Rank(pc[w]) \in Nat /\ Rank(pc[w])' \in Nat
      BY <2>2, <2>3
    <2> QED
      BY <2>4, <2>8, <2>9, NearerBy DEF Distance
  <1>a. \A m, n \in Int : m < n /\ n > 0 => AtLeast0(m) < AtLeast0(n)
    BY DEF AtLeast0
  \* The next iteration.
  <1>b. ASSUME my[w].iteration < config.iterations, my'[w].iteration = my[w].iteration + 1
        PROVE  Lower
    <2> DEFINE m == config.iterations - (my[w].iteration + 1)
               n == config.iterations - my[w].iteration
    <2>1. Runs = AtLeast0(n) /\ Runs' = AtLeast0(m)
      BY <1>0, <1>b
    <2>2. m \in Int /\ n \in Int /\ m < n /\ n > 0
      BY <1>1, <1>b
    <2> HIDE DEF m, n, Runs
    <2>3. AtLeast0(m) < AtLeast0(n)
      BY <1>a, <2>2
    <2> QED
      BY <2>1, <2>3
  \* The next file.
  <1>c. ASSUME my'[w].iteration = my[w].iteration, Ahead(w) \in Int, Ahead(w)' \in Int,
               Ahead(w)' < Ahead(w), Ahead(w) > 0
        PROVE  Lower
    <2>1. Runs' = Runs
      BY <1>0, <1>c
    <2>2. Rest' < Rest
      BY <1>a, <1>c
    <2> QED
      BY <2>1, <2>2
  \* The next place.
  <1>d. ASSUME my'[w].iteration = my[w].iteration, Ahead(w)' = Ahead(w), Rank(pc'[w]) < Rank(pc[w])
        PROVE  Lower
    BY <1>0, <1>d
  \* One repetition less.
  <1>e. ASSUME my'[w].iteration = my[w].iteration, Ahead(w)' = Ahead(w), pc'[w] = pc[w],
               Repeats(w) \in Int, Repeats(w)' \in Int, Repeats(w)' < Repeats(w), Repeats(w) > 0
        PROVE  Lower
    <2>1. Again' < Again
      BY <1>a, <1>e
    <2> QED
      BY <1>0, <1>e, <2>1
  <1>f. Ahead(w) = IF pc[w] \in {"start", "loop", "test", "connected"}
                   THEN config.sqlDir + 1 ELSE config.sqlDir - my[w].file
    BY DEF Ahead
  <1>g. Ahead(w)' = IF pc'[w] \in {"start", "loop", "test", "connected"}
                    THEN config.sqlDir + 1 ELSE config.sqlDir - my'[w].file
    BY <1>0 DEF Ahead
  <1>h. config.infinite => my'[w].iteration = my[w].iteration
    OBVIOUS
  <1> HIDE DEF Lower, Runs, Rest, Again
  <1> USE DEF Types, At, Go, Local, Others, history, Extremes, Minima
  <1>2. CASE ListFiles(w)
    <2>1. my' = my /\ pc[w] = "start" /\ pc'[w] \in {"loop", "done"}
          /\ (pc'[w] = "done" => config.sqlDir = 0)
      BY <1>2 DEF ListFiles
    <2>2. CASE pc'[w] = "loop"
      BY <1>d, <1>f, <1>g, <2>1, <2>2 DEF Rank
    <2>3. CASE pc'[w] = "done"
      BY <1>0, <1>1, <1>c, <1>f, <1>g, <2>1, <2>3
    <2> QED
      BY <2>1, <2>2, <2>3
  <1>3. CASE Connect(w)
    <2>1. /\ my'[w].iteration = my[w].iteration /\ my'[w].file = my[w].file
          /\ pc[w] = "loop" /\ pc'[w] \in {"test", "caught"}
      BY <1>3 DEF Connect
    <2>2. CASE pc'[w] = "test"
      BY <1>d, <1>f, <1>g, <2>1, <2>2 DEF Rank
    <2>3. CASE pc'[w] = "caught"
      BY <1>0, <1>1, <1>c, <1>f, <1>g, <2>1, <2>3
    <2> QED
      BY <2>1, <2>2, <2>3
  <1>4. CASE Leave(w)
    <2>1. my' = my /\ pc[w] = "loop" /\ pc'[w] = "done"
      BY <1>4 DEF Leave
    <2> QED
      BY <1>0, <1>1, <1>c, <1>f, <1>g, <2>1
  <1>5. CASE TestPasses(w)
    <2>1. my' = my /\ pc[w] = "test" /\ pc'[w] = "connected"
      BY <1>5 DEF TestPasses
    <2> QED
      BY <1>d, <1>f, <1>g, <2>1 DEF Rank
  <1>6. CASE TestFails(w)
    <2>1. /\ my'[w].iteration = my[w].iteration /\ my'[w].file = my[w].file
          /\ my'[w].retries = my[w].retries + 1 /\ my[w].retries < MaxRetries
          /\ pc[w] = "test" /\ pc'[w] \in {"test", "caught"}
      BY <1>0, <1>6 DEF TestFails, LocalTypes
    <2>2. CASE pc'[w] = "test"
      <3>1. Repeats(w) = MaxRetries - my[w].retries /\ Repeats(w)' = MaxRetries - my'[w].retries
        BY <2>1, <2>2 DEF Repeats
      <3> QED
        BY <1>0, <1>1, <1>e, <1>f, <1>g, <2>1, <2>2, <3>1
    <2>3. CASE pc'[w] = "caught"
      BY <1>0, <1>1, <1>c, <1>f, <1>g, <2>1, <2>3
    <2> QED
      BY <2>1, <2>2, <2>3
  <1>7. CASE CountConnection(w)
    <2>1. /\ my'[w].iteration = my[w].iteration /\ my'[w].file = 0
          /\ pc[w] = "connected" /\ pc'[w] = "connectionTime"
      BY <1>0, <1>7 DEF CountConnection, LocalTypes
    <2> QED
      BY <1>0, <1>1, <1>c, <1>f, <1>g, <2>1
  <1>8. CASE \/ AddConnectionTime(w) \/ Execute(w) \/ AddQueryTime(w) \/ CountSuccess(w)
             \/ CountFailure(w) \/ Show(w)
    <2>1. /\ my'[w].iteration = my[w].iteration /\ my'[w].file = my[w].file
          /\ pc[w] \notin {"start", "loop", "test", "connected"}
          /\ pc'[w] \notin {"start", "loop", "test", "connected"}
          /\ Rank(pc'[w]) < Rank(pc[w])
      <3> USE <1>0 DEF LocalTypes
      <3>1. CASE AddConnectionTime(w) \/ AddQueryTime(w)
        <4>1. /\ my'[w].iteration = my[w].iteration /\ my'[w].file = my[w].file
              /\ \/ pc[w] = "connectionTime" /\ pc'[w] = "minConnectionTime"
                 \/ pc[w] = "ran" /\ pc'[w] = "succeeded"
          BY <3>1 DEF AddConnectionTime, AddQueryTime, Measure
        <4> QED
          BY <4>1 DEF Rank
      <3>2. CASE Execute(w) \/ CountSuccess(w) \/ CountFailure(w)
        <4>1. /\ my' = my
              /\ \/ pc[w] = "file" /\ pc'[w] \in {"ran", "failed"}
                 \/ pc[w] = "succeeded" /\ pc'[w] = "minQueryTime"
                 \/ pc[w] = "failed" /\ pc'[w] = "count"
          BY <3>2 DEF Execute, CountSuccess, CountFailure
        <4> QED
          BY <4>1 DEF Rank
      <3>3. CASE Show(w)
        <4>1. /\ my'[w].iteration = my[w].iteration /\ my'[w].file = my[w].file
              /\ pc[w] = "show" /\ pc'[w] = "sleep"
          BY <3>3 DEF Show
        <4> QED
          BY <4>1 DEF Rank
      <3> QED
        BY <1>8, <3>1, <3>2, <3>3
    <2> QED
      BY <1>d, <1>f, <1>g, <2>1
  <1>9. CASE Load(w) \/ Exchange(w)
    <2>1. PICK e \in Extremes :
            /\ pc[w] = e
            /\ my'[w].iteration = my[w].iteration /\ my'[w].file = my[w].file
            /\ \/ pc'[w] = After(e)
               \/ pc'[w] = e /\ my[w].seen = NoTime /\ my'[w].seen # NoTime
      <3>1. CASE Exchange(w)
        <4>1. PICK e \in Extremes :
                /\ pc[w] = e /\ pc' = [pc EXCEPT ![w] = After(e)]
                /\ my' = [my EXCEPT ![w].seen = NoTime]
          BY <3>1 DEF Exchange
        <4> QED
          BY <1>0, <4>1 DEF LocalTypes
      <3>2. CASE Load(w)
        <4>1. \A e \in Extremes : metrics[e] # NoTime
          BY RunnerAssumption DEF NoTime
        <4>2. PICK e \in Extremes :
                /\ pc[w] = e
                /\ \/ pc' = [pc EXCEPT ![w] = After(e)] /\ my' = my
                   \/ /\ my' = [my EXCEPT ![w].seen = metrics[e]] /\ pc' = pc
                      /\ my[w].seen = NoTime
          BY <3>2 DEF Load
        <4> QED
          BY <1>0, <4>1, <4>2 DEF LocalTypes
      <3> QED
        BY <1>9, <3>1, <3>2
    <2>2. CASE pc'[w] = After(e)
      <3>1. Rank(pc'[w]) < Rank(pc[w])
        BY <2>1, <2>2 DEF After, Rank
      <3>2. /\ pc[w] \notin {"start", "loop", "test", "connected"}
            /\ pc'[w] \notin {"start", "loop", "test", "connected"}
        BY <2>1, <2>2 DEF After
      <3> QED
        BY <1>d, <1>f, <1>g, <2>1, <3>1, <3>2
    <2>3. CASE pc'[w] = e /\ my[w].seen = NoTime /\ my'[w].seen # NoTime
      <3>1. Repeats(w) = 1 /\ Repeats(w)' = 0
        BY <2>1, <2>3 DEF Repeats
      <3> QED
        BY <1>e, <1>f, <1>g, <2>1, <2>3, <3>1
    <2> QED
      BY <2>1, <2>2, <2>3
  <1>10. CASE CannotOpen(w) \/ CountQuery(w)
    <2>1. /\ my'[w].iteration = my[w].iteration /\ my'[w].file = my[w].file + 1
          /\ pc[w] \in {"file", "count"} /\ pc'[w] = "file" /\ my[w].file < config.sqlDir
      BY <1>0, <1>10 DEF CannotOpen, CountQuery, HasFile, FilesInv, Trying, Halfway, LocalTypes
    <2> QED
      BY <1>0, <1>1, <1>c, <1>f, <1>g, <2>1
  <1>11. CASE Sleep(w)
    <2>1. /\ my'[w].iteration = my[w].iteration /\ my'[w].file = my[w].file
          /\ pc[w] = "sleep" /\ my[w].sleep > 0
          /\ \/ pc'[w] = "count"
             \/ pc'[w] = "sleep" /\ my'[w].sleep = my[w].sleep - 1
      BY <1>0, <1>11 DEF Sleep, Pausing, LocalTypes
    <2>2. CASE pc'[w] = "count"
      BY <1>d, <1>f, <1>g, <2>1, <2>2 DEF Rank
    <2>3. CASE pc'[w] = "sleep" /\ my'[w].sleep = my[w].sleep - 1
      <3>1. Repeats(w) = my[w].sleep /\ Repeats(w)' = my'[w].sleep
        BY <2>1, <2>3 DEF Repeats
      <3> QED
        BY <1>1, <1>e, <1>f, <1>g, <2>1, <2>3, <3>1
    <2> QED
      BY <2>1, <2>2, <2>3
  <1>12. CASE Close(w)
    <2>1. CASE pc'[w] = "caught" /\ my' = my /\ pc[w] = "file"
      BY <1>d, <1>f, <1>g, <2>1 DEF Rank
    <2>2. CASE my'[w].iteration = my[w].iteration + 1
      BY <1>0, <1>1, <1>b, <1>h, <1>12, <2>2 DEF Close, Pausing
    <2> QED
      BY <1>0, <1>12, <2>1, <2>2 DEF Close, LocalTypes
  <1>13. CASE Caught(w)
    <2>1. my'[w].iteration = my[w].iteration + 1
      BY <1>0, <1>13 DEF Caught, LocalTypes
    <2> QED
      BY <1>0, <1>1, <1>b, <1>h, <1>13, <2>1 DEF Caught, Pausing
  <1> QED
    BY <1>2, <1>3, <1>4, <1>5, <1>6, <1>7, <1>8, <1>9, <1>10, <1>11, <1>12, <1>13 DEF Worker

\* A failed exchange costs a load: it leaves the iteration, the file and the place.
LEMMA ExchangeFailsKeeps ==
    ASSUME Types, NEW w \in Workers, ExchangeFails(w)
    PROVE  \A k \in 1..3 : Distance(w)'[k] = Distance(w)[k]
  <1>1. config' = config /\ pc' = pc /\ my' = [my EXCEPT ![w].seen = NoTime]
    BY DEF ExchangeFails, Local, Others
  <1>2. /\ my'[w].iteration = my[w].iteration /\ my'[w].file = my[w].file
    BY <1>1 DEF Types, LocalTypes
  <1>3. Ahead(w)' = Ahead(w)
    BY <1>1, <1>2 DEF Ahead
  <1>4. \A k \in 1..3 : k = 1 \/ k = 2 \/ k = 3
    OBVIOUS
  <1> QED
    BY <1>1, <1>2, <1>3, <1>4 DEF Distance

\* Every worker comes nearer to its end with each of its steps, for any files,
\* options, delays and failures: between two failed exchanges, and with -i
\* between two ends of an iteration, it takes finitely many (NearerEnds).
THEOREM RunnerAdvances == RunnerSpec => WorkersAdvance
  <1>1. Types /\ FilesInv /\ PausesInv /\ [RunnerNext]_runnerVars
          => [\A w \in Workers :
                main' # "crash" /\ (config.infinite => my'[w].iteration = my[w].iteration) =>
                  /\ Worker(w) => Nearer(Distance(w)', Distance(w))
                  /\ ExchangeFails(w) => \A k \in 1..3 : Distance(w)'[k] = Distance(w)[k]]_runnerVars
    BY WorkerNearer, ExchangeFailsKeeps DEF PausesInv
  <1>2. RunnerInv => Types
    BY DEF RunnerInv
  <1> QED
    BY <1>1, <1>2, RunnerInvariant, FilesInvariant, PausesInvariant, PTL DEF RunnerSpec, WorkersAdvance
=============================================================================
