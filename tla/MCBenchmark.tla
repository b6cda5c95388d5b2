---------------------------- MODULE MCBenchmark ----------------------------
(* Small instances of the benchmark for TLC. *)
EXTENDS Benchmark

Opt(name, val) == [name |-> name, val |-> val]
Flag(name)     == Opt(name, 0)
Connection     == Opt("-c", "server")

\* Reads, transactions and writes by two threads, with up to two attempts.
Two      == {<<Connection, Opt("-t", 2), mode>> : mode \in {Flag("-v"), Flag("-w")}} \cup
            {<<Connection, Opt("-n", 4), Opt("-t", 2), Flag("-x")>>}

\* A remainder, no attempts, no threads, nothing to do, too few queries.
Edges    == {<<Connection, Opt("-n", 3), Opt("-t", 2), Flag("-x")>>,
             <<Connection, Opt("-a", 0)>>, <<Connection, Opt("-a", 3), Flag("-w")>>,
             <<Connection, Opt("-t", 0)>>, <<Connection, Opt("-t", -1)>>,
             <<Connection, Opt("-n", 0)>>, <<Connection, Opt("-n", -2), Opt("-t", 2)>>}
Refused  == {<<>>, <<Connection, Opt("-c", "")>>, <<Flag("-h"), Connection>>} \cup
            {<<Connection, Opt(name, Malformed)>> : name \in {"-n", "-d", "-r"}}

AllArgs  == Two \cup Edges \cup Refused
WriteArgs == {<<Connection, Flag("-w")>>}
TwoThreads == 0..1
=============================================================================
