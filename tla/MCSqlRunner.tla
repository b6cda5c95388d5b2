---------------------------- MODULE MCSqlRunner ----------------------------
(* Small instances of the SQL runner for TLC. *)
EXTENDS SqlRunner

Opt(name, val) == [name |-> name, val |-> val]
Flag(name)     == Opt(name, 0)
Connection     == Opt("-c", "server")

\* Command lines that start the workers, and ones that do not get that far.
Racing   == {<<Connection, Opt("-t", 2)>>}
Files    == {<<Connection, Opt("-d", 2)>>}
Failing  == {<<Connection, Opt("-n", 3)>>, <<Connection, Flag("-i")>>}
Delaying == {<<Connection, Opt("-s", 2), Opt("-r", 5)>>}
Refused  == {<<>>, <<Opt("-c", "")>>, <<Flag("-h"), Connection>>,
             <<Connection, Opt("-r", Malformed)>>,
             <<Connection, Opt("-t", Malformed)>>, <<Connection, Opt("-s", Malformed)>>,
             <<Connection, Opt("-s", -1)>>, <<Connection, Opt("-s", MaxDelay + 1)>>,
             <<Opt("-d", Absent), Connection>>}
Empty    == {<<Connection, Opt("-t", n)>> : n \in {-1, 0}} \cup
            {<<Connection, Opt("-d", 0)>>, <<Connection, Opt("-d", NotDirectory), Flag("-v")>>}

AllArgs    == Racing \cup Files \cup Failing \cup Delaying \cup Refused \cup Empty

\* The README's example, a delay of 100ms being one chunk of the sleep.
ExampleArgs == {<<Connection, Opt("-t", 2), Opt("-n", 3), Opt("-s", 1), Flag("-v")>>}

TwoThreads == 0..1
=============================================================================
