-------------------------- MODULE GodbcPool_proofs --------------------------
(***************************************************************************)
(* The connection pool keeps its connections apart and accounted for, and  *)
(* within maxConns, for any number of callers, connections and retries.    *)
(***************************************************************************)
EXTENDS GodbcPool, TLAPS, FiniteSetTheorems, SequenceTheorems

-----------------------------------------------------------------------------
(* What pushing on and popping off a sequence do to its elements. *)

\* Appending a new element adds it, and repeats nothing.
LEMMA PushElements ==
    ASSUME NEW S, NEW s \in Seq(S), NEW e \in S
    PROVE  /\ Append(s, e) \in Seq(S)
           /\ Len(Append(s, e)) = Len(s) + 1
           /\ ToSet(Append(s, e)) = ToSet(s) \cup {e}
           /\ IsInjective(s) /\ e \notin ToSet(s) => IsInjective(Append(s, e))
  <1> DEFINE a == Append(s, e)
             n == Len(s)
  <1>1. n \in Nat /\ a \in Seq(S) /\ Len(a) = n + 1
    OBVIOUS
  <1>2. a[n + 1] = e /\ \A i \in 1..n : a[i] = s[i]
    OBVIOUS
  <1>3. DOMAIN s = 1..n /\ DOMAIN a = 1..(n + 1)
    BY <1>1
  <1>4. \A i \in 1..(n + 1) : i \in 1..n \/ i = n + 1
    BY <1>1
  <1> HIDE DEF a, n
  <1>5. ToSet(a) = ToSet(s) \cup {e}
    BY <1>1, <1>2, <1>3, <1>4 DEF ToSet
  <1>6. ASSUME IsInjective(s), e \notin ToSet(s)
        PROVE  IsInjective(a)
    <2>1. \A i \in 1..n : s[i] # e
      BY <1>3, <1>6 DEF ToSet
    <2> QED
      BY <1>2, <1>3, <1>4, <1>6, <2>1 DEF IsInjective
  <1> QED
    BY <1>1, <1>5, <1>6 DEF a, n

\* Popping removes the last element and no other.
LEMMA PopElements ==
    ASSUME NEW S, NEW s \in Seq(S), s # <<>>, IsInjective(s)
    PROVE  /\ Front(s) \in Seq(S)
           /\ Len(Front(s)) = Len(s) - 1
           /\ Last(s) \in ToSet(s)
           /\ ToSet(Front(s)) = ToSet(s) \ {Last(s)}
           /\ IsInjective(Front(s))
  <1> DEFINE f == Front(s)
             n == Len(s)
  <1>1. n \in Nat \ {0} /\ DOMAIN s = 1..n /\ \A i \in 1..n : s[i] \in S
    BY EmptySeq, LenProperties, ElementOfSeq
  <1>2. f \in Seq(S) /\ Len(f) = n - 1 /\ \A i \in 1..(n - 1) : f[i] = s[i]
    BY <1>1, SubSeqProperties DEF Front
  <1>3. DOMAIN f = 1..(n - 1)
    BY <1>2, LenProperties
  <1>4. Last(s) = s[n]
    BY DEF Last
  <1> HIDE DEF f, n
  <1>5. \A i \in 1..n : i \in 1..(n - 1) \/ i = n
    BY <1>1
  <1>6. \A i \in 1..(n - 1) : i \in 1..n /\ i # n
    BY <1>1
  <1>7. \A i \in 1..(n - 1) : s[i] # s[n]
    BY <1>1, <1>6 DEF IsInjective
  <1>8. ToSet(f) = ToSet(s) \ {Last(s)}
    BY <1>1, <1>2, <1>3, <1>4, <1>5, <1>6, <1>7 DEF ToSet
  <1>9. IsInjective(f)
    BY <1>1, <1>2, <1>3, <1>6 DEF IsInjective
  <1>10. Last(s) \in ToSet(s)
    BY <1>1, <1>4 DEF ToSet
  <1> QED
    BY <1>2, <1>8, <1>9, <1>10 DEF f, n

\* A sequence that repeats nothing is as long as its set of elements is large.
LEMMA InjectiveLength ==
    ASSUME NEW S, NEW s \in Seq(S), IsInjective(s)
    PROVE  IsFiniteSet(ToSet(s)) /\ Cardinality(ToSet(s)) = Len(s)
  <1>1. Len(s) \in Nat /\ s \in [1..Len(s) -> S] /\ DOMAIN s = 1..Len(s)
    BY LenProperties
  <1>2. s \in Bijection(1..Len(s), ToSet(s))
    BY <1>1 DEF IsInjective, ToSet, Bijection, Injection, Surjection
  <1> QED
    BY <1>1, <1>2, FS_CountingElements, FS_NatBijection DEF ExistsBijection

-----------------------------------------------------------------------------
(***************************************************************************)
(* Where the connections are.  Exclusive and Accounted are inductive only  *)
(* together: a dialled connection is new to the pool because everything    *)
(* the pool has is open and it was not, and what a step moves is missing   *)
(* from no other place because it was in one place before.                 *)
(***************************************************************************)
Placed ==
    /\ SqlTypeOK
    /\ connections \in Seq(Conns)
    /\ held \in [Threads -> Conns \cup {NoConn}]
    /\ out \in SUBSET Conns /\ orphaned \in SUBSET Conns
    /\ Exclusive
    /\ Accounted

\* A caller takes a connection nobody holds.
LEMMA TakeHeld ==
    ASSUME Placed, NEW t \in Threads, held[t] = NoConn,
           NEW c \in Conns, c \notin Held, Hold(t, c)
    PROVE  /\ held' \in [Threads -> Conns \cup {NoConn}]
           /\ Held' = Held \cup {c}
           /\ \A r, s \in Threads : held'[r] = held'[s] /\ held'[r] # NoConn => r = s
  <1> USE ConnsAssumption DEF Placed, Hold
  <1>1. held' \in [Threads -> Conns \cup {NoConn}] /\ c # NoConn
    OBVIOUS
  <1>2. held'[t] = c /\ \A s \in Threads \ {t} : held'[s] = held[s]
    OBVIOUS
  <1>3. Held' = Held \cup {c}
    BY <1>1, <1>2 DEF Held
  <1>4. \A s \in Threads : held[s] # c
    BY <1>1 DEF Held
  <1> QED
    BY <1>1, <1>2, <1>3, <1>4 DEF Exclusive

\* A caller parts with the connection it holds.
LEMMA DropHeld ==
    ASSUME Placed, NEW t \in Threads, held[t] # NoConn, Hold(t, NoConn)
    PROVE  /\ held' \in [Threads -> Conns \cup {NoConn}]
           /\ held[t] \in Held /\ held[t] \in Conns
           /\ Held' = Held \ {held[t]}
           /\ \A r, s \in Threads : held'[r] = held'[s] /\ held'[r] # NoConn => r = s
  <1> USE ConnsAssumption DEF Placed, Hold
  <1>1. held' \in [Threads -> Conns \cup {NoConn}]
    OBVIOUS
  <1>2. held'[t] = NoConn /\ \A s \in Threads \ {t} : held'[s] = held[s]
    OBVIOUS
  <1>3. held[t] \in Held /\ held[t] \in Conns
    BY DEF Held
  <1>4. \A s \in Threads \ {t} : held[s] # held[t]
    BY DEF Exclusive
  <1>5. Held' = Held \ {held[t]}
    BY <1>1, <1>2, <1>3, <1>4 DEF Held
  <1> QED
    BY <1>1, <1>2, <1>3, <1>5 DEF Exclusive

\* The rest of Exclusive and Accounted is about five sets: enough to show
\* what became of each.
LEMMA PlacedFromSets ==
    ASSUME SqlTypeOK', connections' \in Seq(Conns),
           held' \in [Threads -> Conns \cup {NoConn}],
           IsInjective(connections'),
           \A r, s \in Threads : held'[r] = held'[s] /\ held'[r] # NoConn => r = s,
           open' = Pooled' \cup free' \cup Held' \cup out' \cup orphaned',
           Pooled' \cap (free' \cup Held' \cup out' \cup orphaned') = {},
           free' \cap (Held' \cup out' \cup orphaned') = {},
           Held' \cap (out' \cup orphaned') = {},
           out' \cap orphaned' = {}
    PROVE  Placed'
  BY DEF Placed, Exclusive, Accounted, SqlTypeOK

\* Nothing moves.
LEMMA NothingMoves ==
    ASSUME Placed, UNCHANGED <<sqlVars, connections, held, out, orphaned>>
    PROVE  Placed'
  BY DEF Placed, sqlVars, SqlTypeOK, Exclusive, Accounted, Pooled, Held

\* A dialled connection is idle or new.
LEMMA Dialled ==
    ASSUME Placed, NEW c \in Conns, DialOk(c)
    PROVE  /\ SqlTypeOK'
           /\ open' = open \cup {c} /\ free' = free \ {c}
           /\ c \notin Pooled \cup Held \cup out \cup orphaned
           /\ c \in free \/ c \notin open
  BY DEF Placed, DialOk, SqlTypeOK, Exclusive, Accounted

\* It goes to the pool ...
LEMMA DialledToPool ==
    ASSUME Placed, NEW c \in Conns, DialOk(c), connections' = Append(connections, c),
           UNCHANGED <<held, out, orphaned>>
    PROVE  Placed'
  <1>1. /\ connections' \in Seq(Conns) /\ Pooled' = Pooled \cup {c}
        /\ IsInjective(connections')
    BY Dialled, PushElements DEF Pooled, Placed, Exclusive
  <1>2. Held' = Held
    BY DEF Held
  <1>3. Placed => Exclusive /\ Accounted
    BY DEF Placed
  <1> QED
    BY <1>1, <1>2, <1>3, Dialled, PlacedFromSets DEF Placed, Exclusive, Accounted

\* ... or to a caller.
LEMMA DialledToCaller ==
    ASSUME Placed, NEW c \in Conns, DialOk(c), NEW t \in Threads, held[t] = NoConn,
           Hold(t, c), UNCHANGED <<connections, out, orphaned>>
    PROVE  Placed'
  <1>1. Pooled' = Pooled
    BY DEF Pooled
  <1> QED
    BY <1>1, Dialled, TakeHeld, PlacedFromSets DEF Placed, Exclusive, Accounted

\* A failed dial at most closes a dead idle connection.
LEMMA DialFailsPlaced ==
    ASSUME Placed, DialFails, UNCHANGED <<connections, held, out, orphaned>>
    PROVE  Placed' /\ open' \subseteq open
  <1>1. Pooled' = Pooled /\ Held' = Held
    BY DEF Pooled, Held
  <1>2. CASE UNCHANGED sqlVars
    BY <1>2, NothingMoves DEF sqlVars
  <1>3. ASSUME faults < MaxFaults, faults' = faults + 1, UNCHANGED <<open, free, dbClosed, up, dead>>
        PROVE  Placed' /\ open' \subseteq open
    <2>1. faults' \in 0..MaxFaults
      BY <1>3, LimitsAssumption DEF Placed, SqlTypeOK
    <2>2. SqlTypeOK'
      BY <1>3, <2>1 DEF Placed, SqlTypeOK
    <2> QED
      BY <1>1, <1>3, <2>2, PlacedFromSets DEF Placed, Exclusive, Accounted
  <1>4. ASSUME NEW c \in free \cap dead,
               open' = open \ {c} /\ free' = free \ {c} /\ dead' = dead \ {c},
               UNCHANGED <<dbClosed, up, faults>>
        PROVE  Placed' /\ open' \subseteq open
    <2>1. SqlTypeOK'
      BY <1>4 DEF Placed, SqlTypeOK
    <2> QED
      BY <1>1, <1>4, <2>1, PlacedFromSets DEF Placed, Exclusive, Accounted
  <1> QED
    BY <1>2, <1>3, <1>4 DEF DialFails

\* The last pooled connection goes to a caller ...
LEMMA PoppedToCaller ==
    ASSUME Placed, connections # <<>>, connections' = Front(connections),
           NEW t \in Threads, held[t] = NoConn, Hold(t, Last(connections)),
           UNCHANGED <<sqlVars, out, orphaned>>
    PROVE  Placed'
  <1> DEFINE c == Last(connections)
  <1>1. /\ connections' \in Seq(Conns) /\ Pooled' = Pooled \ {c}
        /\ IsInjective(connections') /\ c \in Pooled
    BY PopElements DEF Pooled, Placed, Exclusive
  <1>2. c \in Conns /\ c \notin Held
    BY <1>1 DEF Placed, Exclusive, Accounted, SqlTypeOK
  <1>3. SqlTypeOK'
    BY DEF Placed, SqlTypeOK, sqlVars
  <1> HIDE DEF c
  <1>4. /\ held' \in [Threads -> Conns \cup {NoConn}] /\ Held' = Held \cup {c}
        /\ \A r, s \in Threads : held'[r] = held'[s] /\ held'[r] # NoConn => r = s
    BY <1>2, TakeHeld DEF c
  <1> QED
    BY <1>1, <1>3, <1>4, PlacedFromSets DEF Placed, Exclusive, Accounted, sqlVars

\* ... or is closed for good.
LEMMA PoppedAndDiscarded ==
    ASSUME Placed, connections # <<>>, connections' = Front(connections),
           Discard(Last(connections)), UNCHANGED <<held, out, orphaned>>
    PROVE  Placed' /\ open' \subseteq open
  <1> DEFINE c == Last(connections)
  <1>1. /\ connections' \in Seq(Conns) /\ Pooled' = Pooled \ {c}
        /\ IsInjective(connections') /\ c \in Pooled
    BY PopElements DEF Pooled, Placed, Exclusive
  <1>2. Held' = Held /\ c \notin free
    BY <1>1 DEF Held, Placed, Exclusive
  <1>3. SqlTypeOK' /\ open' = open \ {c} /\ free' = free
    BY <1>2 DEF Discard, Placed, SqlTypeOK
  <1> HIDE DEF c
  <1> QED
    BY <1>1, <1>2, <1>3, PlacedFromSets DEF Placed, Exclusive, Accounted

\* A caller's connection is closed: gone, or idle in sql.DB.
LEMMA HeldReleased ==
    ASSUME Placed, NEW t \in Threads, held[t] # NoConn,
           Discard(held[t]) \/ Release(held[t]),
           Hold(t, NoConn), UNCHANGED <<connections, out, orphaned>>
    PROVE  Placed' /\ open' \subseteq open
  <1> DEFINE c == held[t]
  <1>1. /\ held' \in [Threads -> Conns \cup {NoConn}]
        /\ c \in Held /\ c \in Conns /\ Held' = Held \ {c}
        /\ \A r, s \in Threads : held'[r] = held'[s] /\ held'[r] # NoConn => r = s
    BY DropHeld
  <1>2. Pooled' = Pooled
    BY DEF Pooled
  <1>3. c \in open /\ c \notin free
    BY <1>1 DEF Placed, Exclusive, Accounted
  <1>4. CASE Discard(c)
    <2>1. SqlTypeOK' /\ open' = open \ {c} /\ free' = free
      BY <1>3, <1>4 DEF Discard, Placed, SqlTypeOK
    <2> HIDE DEF c
    <2> QED
      BY <1>1, <1>2, <2>1, PlacedFromSets DEF Placed, Exclusive, Accounted
  <1>5. CASE Release(c) /\ KeepsIdle(c)
    <2>1. SqlTypeOK' /\ open' = open /\ free' = free \cup {c}
      BY <1>3, <1>5 DEF Release, Placed, SqlTypeOK
    <2> HIDE DEF c
    <2> QED
      BY <1>1, <1>2, <1>3, <2>1, PlacedFromSets DEF Placed, Exclusive, Accounted
  <1> QED
    BY <1>4, <1>5 DEF Release

\* It goes back to the pool.
LEMMA HeldToPool ==
    ASSUME Placed, NEW t \in Threads, held[t] # NoConn,
           connections' = Append(connections, held[t]),
           Hold(t, NoConn), UNCHANGED <<sqlVars, out, orphaned>>
    PROVE  Placed'
  <1> DEFINE c == held[t]
  <1>1. /\ held' \in [Threads -> Conns \cup {NoConn}]
        /\ c \in Held /\ c \in Conns /\ Held' = Held \ {c}
        /\ \A r, s \in Threads : held'[r] = held'[s] /\ held'[r] # NoConn => r = s
    BY DropHeld
  <1>2. c \notin Pooled
    BY <1>1 DEF Placed, Exclusive
  <1>3. /\ connections' \in Seq(Conns) /\ Pooled' = Pooled \cup {c}
        /\ IsInjective(connections')
    BY <1>1, <1>2, PushElements DEF Pooled, Placed, Exclusive
  <1>4. SqlTypeOK'
    BY DEF Placed, SqlTypeOK, sqlVars
  <1> HIDE DEF c
  <1> QED
    BY <1>1, <1>3, <1>4, PlacedFromSets DEF Placed, Exclusive, Accounted, sqlVars

\* It is left with a result, a transaction or a statement.
LEMMA HeldKept ==
    ASSUME Placed, NEW t \in Threads, held[t] # NoConn,
           \/ out' = out \cup {held[t]} /\ orphaned' = orphaned
           \/ orphaned' = orphaned \cup {held[t]} /\ out' = out,
           Hold(t, NoConn), UNCHANGED <<sqlVars, connections>>
    PROVE  Placed'
  <1> DEFINE c == held[t]
  <1>1. /\ held' \in [Threads -> Conns \cup {NoConn}]
        /\ c \in Held /\ c \in Conns /\ Held' = Held \ {c}
        /\ \A r, s \in Threads : held'[r] = held'[s] /\ held'[r] # NoConn => r = s
    BY DropHeld
  <1>2. Pooled' = Pooled
    BY DEF Pooled
  <1>3. SqlTypeOK'
    BY DEF Placed, SqlTypeOK, sqlVars
  <1> HIDE DEF c
  <1>4. out' \cup orphaned' = out \cup orphaned \cup {c}
    BY DEF c
  <1>5. out' \cap orphaned' = {}
    BY <1>1 DEF c, Placed, Exclusive
  <1> QED
    BY <1>1, <1>2, <1>3, <1>4, <1>5, PlacedFromSets DEF Placed, Exclusive, Accounted, sqlVars

\* A result gives it back to a caller.
LEMMA OutToCaller ==
    ASSUME Placed, NEW c \in out, out' = out \ {c}, NEW t \in Threads, held[t] = NoConn,
           Hold(t, c), UNCHANGED <<sqlVars, connections, orphaned>>
    PROVE  Placed'
  <1>1. c \in Conns /\ c \notin Held
    BY DEF Placed, Exclusive
  <1>2. Pooled' = Pooled
    BY DEF Pooled
  <1>3. SqlTypeOK'
    BY DEF Placed, SqlTypeOK, sqlVars
  <1> QED
    BY <1>1, <1>2, <1>3, TakeHeld, PlacedFromSets DEF Placed, Exclusive, Accounted, sqlVars

\* An orphaned connection is closed by sql.DB.
LEMMA OrphanReaped ==
    ASSUME Placed, NEW c \in orphaned, Discard(c), orphaned' = orphaned \ {c},
           UNCHANGED <<connections, held, out>>
    PROVE  Placed' /\ open' \subseteq open
  <1>1. Pooled' = Pooled /\ Held' = Held
    BY DEF Pooled, Held
  <1>2. SqlTypeOK' /\ open' = open \ {c} /\ free' = free
    BY DEF Discard, Placed, Exclusive, SqlTypeOK
  <1> QED
    BY <1>1, <1>2, PlacedFromSets DEF Placed, Exclusive, Accounted

\* The pool and its sql.DB are closed.
LEMMA TornDown ==
    ASSUME Placed, CloseDB(Pooled), connections' = <<>>, UNCHANGED <<held, out, orphaned>>
    PROVE  Placed' /\ open' \subseteq open
  <1>1. Pooled' = {} /\ Held' = Held /\ connections' \in Seq(Conns) /\ IsInjective(connections')
    BY DEF Pooled, Held, ToSet, IsInjective
  <1>2. SqlTypeOK' /\ open' = open \ (Pooled \cup free) /\ free' = {}
    BY DEF CloseDB, Placed, SqlTypeOK
  <1> QED
    BY <1>1, <1>2, PlacedFromSets DEF Placed, Exclusive, Accounted

\* Faults, recovery and expiry move nothing but idle connections.
LEMMA EnvironmentPlaced ==
    ASSUME Placed, Environment, UNCHANGED <<connections, held, out, orphaned>>
    PROVE  Placed' /\ open' \subseteq open
  <1>1. Pooled' = Pooled /\ Held' = Held
    BY DEF Pooled, Held
  <1>2. ASSUME ConnDies \/ ServerDown \/ ServerUp
        PROVE  Placed' /\ open' \subseteq open
    <2>1. open' = open /\ free' = free /\ dbClosed' = dbClosed
      BY <1>2 DEF ConnDies, ServerDown, ServerUp
    <2>2. dead' \subseteq open /\ up' \in BOOLEAN
      BY <1>2 DEF ConnDies, ServerDown, ServerUp, Placed, SqlTypeOK
    <2>3. faults' \in 0..MaxFaults
      BY <1>2, LimitsAssumption DEF ConnDies, ServerDown, ServerUp, Placed, SqlTypeOK
    <2>4. SqlTypeOK'
      BY <2>1, <2>2, <2>3 DEF Placed, SqlTypeOK
    <2> QED
      BY <1>1, <2>1, <2>4, PlacedFromSets DEF Placed, Exclusive, Accounted
  <1>3. CASE IdleExpires
    <2>1. PICK c \in free : /\ free' = free \ {c} /\ open' = open \ {c}
                            /\ dead' = dead \ {c} /\ UNCHANGED <<dbClosed, up, faults>>
      BY <1>3 DEF IdleExpires
    <2>2. SqlTypeOK'
      BY <2>1 DEF Placed, SqlTypeOK
    <2> QED
      BY <1>1, <2>1, <2>2, PlacedFromSets DEF Placed, Exclusive, Accounted
  <1> QED
    BY <1>2, <1>3 DEF Environment

-----------------------------------------------------------------------------
(***************************************************************************)
(* Where the callers are: the one that holds p.mu is the one inside a      *)
(* dialling loop, and a caller has a connection exactly where the code has *)
(* one in a local variable.                                                *)
(***************************************************************************)
Dialling == {"getDial", "retReplace", "retFill"}
Holding  == {"leased", "retLock"}

Control ==
    /\ pmu \in Threads \cup {"free", "replenisher"}
    /\ tries \in 0..RetryAttempts
    /\ spawned \in Nat
    /\ phase \in {"connecting", "open", "closed", "failed"}
    /\ pc \in [Threads -> CallPoints]
    /\ \A t \in Threads : pmu = t <=> pc[t] \in Dialling
    /\ \A t \in Threads : held[t] # NoConn <=> pc[t] \in Holding
    /\ pmu = "replenisher" => spawned > 0

\* A caller moves, and takes, keeps or releases p.mu as it should.
LEMMA CallerMoves ==
    ASSUME Control, NEW t \in Threads, NEW to \in CallPoints, Goto(t, to),
           tries' \in 0..RetryAttempts,
           spawned' \in Nat, spawned' >= spawned, phase' = phase \/ phase' = "closed",
           \/ to \in Dialling /\ pmu \in {"free", t} /\ pmu' = t
           \/ to \notin Dialling /\ pmu \in {"free", t} /\ pmu' = "free"
           \/ to \notin Dialling /\ pc[t] \notin Dialling /\ pmu' = pmu,
           \A s \in Threads \ {t} : held'[s] = held[s],
           held'[t] # NoConn <=> to \in Holding
    PROVE  Control'
  <1> USE ThreadsAssumption DEF Control, Goto
  <1>1. pc'[t] = to /\ pc' \in [Threads -> CallPoints] /\ \A s \in Threads \ {t} : pc'[s] = pc[s]
    OBVIOUS
  <1>2. pmu' \in Threads \cup {"free", "replenisher"} /\ "free" \notin Threads /\ "replenisher" \notin Threads
    OBVIOUS
  <1>3. \A s \in Threads : pmu' = s <=> pc'[s] \in Dialling
    BY <1>1, <1>2
  <1>4. \A s \in Threads : held'[s] # NoConn <=> pc'[s] \in Holding
    BY <1>1
  <1>5. pmu' = "replenisher" => spawned' > 0
    BY <1>2
  <1> QED
    BY <1>1, <1>2, <1>3, <1>4, <1>5

\* The replenisher moves, or only tries changes.
LEMMA OthersMove ==
    ASSUME Control, UNCHANGED <<pc, held>>,
           tries' \in 0..RetryAttempts, spawned' \in Nat,
           phase' \in {"connecting", "open", "closed", "failed"},
           \/ pmu' = pmu
           \/ pmu \in {"free", "replenisher"} /\ pmu' \in {"free", "replenisher"},
           pmu' = "replenisher" => spawned' > 0
    PROVE  Control'
  BY ThreadsAssumption DEF Control

\* Counting retries stays in range.
LEMMA TriesRange ==
    ASSUME tries \in 0..RetryAttempts
    PROVE  /\ 0 \in 0..RetryAttempts
           /\ tries < RetryAttempts => tries + 1 \in 0..RetryAttempts
           /\ tries < RetryAttempts => (tries + 1) % RetryAttempts \in 0..RetryAttempts
  <1>1. RetryAttempts \in Nat
    BY LimitsAssumption
  <1>2. ASSUME tries < RetryAttempts
        PROVE  (tries + 1) % RetryAttempts \in 0..(RetryAttempts - 1)
    BY <1>1, <1>2
  <1> QED
    BY <1>1, <1>2

\* What Hold leaves alone.
LEMMA HoldOthers ==
    ASSUME NEW t \in Threads, NEW c \in Conns \cup {NoConn}, Hold(t, c),
           held \in [Threads -> Conns \cup {NoConn}]
    PROVE  held'[t] = c /\ \A s \in Threads \ {t} : held'[s] = held[s]
  BY DEF Hold

\* The connection a pop returns is one of the pool's.
LEMMA LastInConns ==
    ASSUME Placed, connections # <<>>
    PROVE  Last(connections) \in Conns
  BY PopElements DEF Placed, Exclusive, Accounted, SqlTypeOK, Pooled

\* The filling loop goes on under p.mu or lets go of it.
LEMMA FillMoves ==
    ASSUME Control, NEW t \in Threads, NEW c \in Conns, FillDialOk(t, c)
    PROVE  Control'
  <1>1. tries' \in 0..RetryAttempts
    BY TriesRange DEF FillDialOk, Control
  <1>2. CASE UNCHANGED <<pmu, pc>>
    BY <1>1, <1>2, OthersMove DEF FillDialOk, Control
  <1>3. CASE Goto(t, "idle") /\ pmu' = "free"
    BY <1>1, <1>3, CallerMoves DEF FillDialOk, Control, CallPoints, Dialling, Holding
  <1> QED
    BY <1>2, <1>3 DEF FillDialOk

\* Every step keeps connections in their places and callers where they may be.
LEMMA PlacedStep == Placed /\ Control /\ [PoolNext]_poolState => Placed' /\ Control'
  <1> DEFINE Goal == Placed' /\ Control'
  <1> SUFFICES ASSUME Placed, Control, [PoolNext]_poolState
               PROVE  Goal
    OBVIOUS
  <1>1. ASSUME NEW c \in Conns, Preallocate(c)
        PROVE  Goal
    <2>1. Placed'
      BY <1>1, DialledToPool DEF Preallocate
    <2>2. Control'
      BY <1>1, OthersMove DEF Preallocate, Control
    <2> QED
      BY <2>1, <2>2
  <1>2. ASSUME PreallocateFails
        PROVE  Goal
    <2>1. Placed'
      BY <1>2, TornDown DEF PreallocateFails
    <2>2. Control'
      BY <1>2, OthersMove DEF PreallocateFails, Control
    <2> QED
      BY <2>1, <2>2
  <1>3. ASSUME Connected
        PROVE  Goal
    <2>1. Placed'
      BY <1>3, NothingMoves DEF Connected
    <2>2. Control'
      BY <1>3, OthersMove DEF Connected, Control
    <2> QED
      BY <2>1, <2>2
  <1>4. ASSUME NEW t \in Threads, BeginGet(t)
        PROVE  Goal
    <2>1. Placed'
      BY <1>4, NothingMoves DEF BeginGet
    <2>2. Control'
      BY <1>4, CallerMoves, TriesRange DEF BeginGet, Control, CallPoints, Dialling, Holding
    <2> QED
      BY <2>1, <2>2
  <1>5. ASSUME NEW t \in Threads, GetEmpty(t)
        PROVE  Goal
    <2>1. Placed'
      BY <1>5, NothingMoves DEF GetEmpty
    <2>2. Control'
      BY <1>5, CallerMoves, TriesRange DEF GetEmpty, Control, CallPoints, Dialling, Holding
    <2> QED
      BY <2>1, <2>2
  <1>6. ASSUME NEW t \in Threads, GetGivesUp(t)
        PROVE  Goal
    <2>1. Placed'
      BY <1>6, NothingMoves DEF GetGivesUp
    <2>2. Control'
      BY <1>6, CallerMoves, TriesRange DEF GetGivesUp, Control, CallPoints, Dialling, Holding
    <2> QED
      BY <2>1, <2>2
  <1>7. ASSUME NEW t \in Threads, ReportError(t)
        PROVE  Goal
    <2>1. Placed'
      BY <1>7, NothingMoves DEF ReportError
    <2>2. Control'
      BY <1>7, CallerMoves, TriesRange DEF ReportError, Control, CallPoints, Dialling, Holding
    <2> QED
      BY <2>1, <2>2
  <1>8. ASSUME NEW t \in Threads, BeginReturn(t)
        PROVE  Goal
    <2>1. Placed'
      BY <1>8, NothingMoves DEF BeginReturn
    <2>2. Control'
      BY <1>8, CallerMoves, TriesRange DEF BeginReturn, Control, CallPoints, Dialling, Holding
    <2> QED
      BY <2>1, <2>2
  <1>9. ASSUME NEW t \in Threads, ReplaceGivesUp(t)
        PROVE  Goal
    <2>1. Placed'
      BY <1>9, NothingMoves DEF ReplaceGivesUp
    <2>2. Control'
      BY <1>9, CallerMoves, TriesRange DEF ReplaceGivesUp, Control, CallPoints, Dialling, Holding
    <2> QED
      BY <2>1, <2>2
  <1>10. ASSUME NEW t \in Threads, BeginClose(t)
        PROVE  Goal
    <2>1. Placed'
      BY <1>10, NothingMoves DEF BeginClose
    <2>2. Control'
      BY <1>10, CallerMoves, TriesRange DEF BeginClose, Control, CallPoints, Dialling, Holding
    <2> QED
      BY <2>1, <2>2
  <1>11. ASSUME NEW t \in Threads, GetPooled(t)
        PROVE  Goal
    <2>1. Placed'
      BY <1>11, PoppedToCaller DEF GetPooled, Control, Holding
    <2>2. Control'
      BY <1>11, CallerMoves, LastInConns, HoldOthers, ConnsAssumption DEF GetPooled, Control, Placed,
         CallPoints, Dialling, Holding
    <2> QED
      BY <2>1, <2>2
  <1>12. ASSUME NEW t \in Threads, GetPooledDead(t)
        PROVE  Goal
    <2>1. Placed'
      BY <1>12, PoppedAndDiscarded DEF GetPooledDead
    <2>2. Control'
      BY <1>12, CallerMoves, TriesRange DEF GetPooledDead, Control, CallPoints, Dialling, Holding
    <2> QED
      BY <2>1, <2>2
  <1>13. ASSUME NEW t \in Threads, NEW c \in Conns, GetDialOk(t, c)
        PROVE  Goal
    <2>1. Placed'
      BY <1>13, DialledToCaller DEF GetDialOk, Control, Holding
    <2>2. Control'
      BY <1>13, CallerMoves, HoldOthers, ConnsAssumption DEF GetDialOk, Control, Placed, CallPoints,
         Dialling, Holding
    <2> QED
      BY <2>1, <2>2
  <1>14. ASSUME NEW t \in Threads, GetDialFails(t)
        PROVE  Goal
    <2>1. Placed'
      BY <1>14, DialFailsPlaced DEF GetDialFails
    <2>2. Control'
      BY <1>14, OthersMove, TriesRange DEF GetDialFails, Control
    <2> QED
      BY <2>1, <2>2
  <1>15. ASSUME NEW t \in Threads, ReplaceDialFails(t)
        PROVE  Goal
    <2>1. Placed'
      BY <1>15, DialFailsPlaced DEF ReplaceDialFails
    <2>2. Control'
      BY <1>15, OthersMove, TriesRange DEF ReplaceDialFails, Control
    <2> QED
      BY <2>1, <2>2
  <1>16. ASSUME NEW t \in Threads, FillDialFails(t)
        PROVE  Goal
    <2>1. Placed'
      BY <1>16, DialFailsPlaced DEF FillDialFails
    <2>2. Control'
      BY <1>16, OthersMove, TriesRange DEF FillDialFails, Control
    <2> QED
      BY <2>1, <2>2
  <1>17. ASSUME ReplenishLock
        PROVE  Goal
    <2>1. Placed'
      BY <1>17, NothingMoves DEF ReplenishLock
    <2>2. Control'
      BY <1>17, OthersMove, TriesRange DEF ReplenishLock, Control
    <2> QED
      BY <2>1, <2>2
  <1>18. ASSUME NEW c \in Conns, ReplenishDialOk(c)
        PROVE  Goal
    <2>1. Placed'
      BY <1>18, DialledToPool DEF ReplenishDialOk
    <2>2. Control'
      BY <1>18, OthersMove DEF ReplenishDialOk, Control
    <2> QED
      BY <2>1, <2>2
  <1>19. ASSUME ReplenishDialFails
        PROVE  Goal
    <2>1. Placed'
      BY <1>19, DialFailsPlaced DEF ReplenishDialFails
    <2>2. Control'
      BY <1>19, OthersMove, TriesRange DEF ReplenishDialFails, Control
    <2> QED
      BY <2>1, <2>2
  <1>20. ASSUME ReplenishGivesUp
        PROVE  Goal
    <2>1. Placed'
      BY <1>20, NothingMoves DEF ReplenishGivesUp
    <2>2. Control'
      BY <1>20, OthersMove DEF ReplenishGivesUp, Control
    <2> QED
      BY <2>1, <2>2
  <1>21. ASSUME NEW t \in Threads, ReturnDead(t)
        PROVE  Goal
    <2>1. Placed'
      BY <1>21, HeldReleased DEF ReturnDead, Control, Holding
    <2>2. Control'
      BY <1>21, CallerMoves, TriesRange, HoldOthers DEF ReturnDead, Control, Placed, CallPoints,
         Dialling, Holding
    <2> QED
      BY <2>1, <2>2
  <1>22. ASSUME NEW t \in Threads, NEW c \in Conns, ReplaceDialOk(t, c)
        PROVE  Goal
    <2>1. Placed'
      BY <1>22, DialledToPool DEF ReplaceDialOk
    <2>2. Control'
      BY <1>22, CallerMoves DEF ReplaceDialOk, Control, CallPoints, Dialling, Holding
    <2> QED
      BY <2>1, <2>2
  <1>23. ASSUME NEW t \in Threads, ReturnLive(t)
        PROVE  Goal
    <2>1. Placed'
      BY <1>23, HeldReleased, HeldToPool DEF ReturnLive, Control, Holding
    <2>2. Control'
      BY <1>23, CallerMoves, TriesRange, HoldOthers DEF ReturnLive, Control, Placed, CallPoints,
         Dialling, Holding
    <2> QED
      BY <2>1, <2>2
  <1>24. ASSUME NEW t \in Threads, NEW c \in Conns, FillDialOk(t, c)
        PROVE  Goal
    <2>1. Placed'
      BY <1>24, DialledToPool DEF FillDialOk
    <2>2. Control'
      BY <1>24, FillMoves
    <2> QED
      BY <2>1, <2>2
  <1>25. ASSUME NEW t \in Threads, Drop(t)
        PROVE  Goal
    <2>1. Placed'
      BY <1>25, HeldReleased DEF Drop, Control, Holding
    <2>2. Control'
      BY <1>25, CallerMoves, HoldOthers DEF Drop, Control, Placed, CallPoints, Dialling, Holding
    <2> QED
      BY <2>1, <2>2
  <1>26. ASSUME NEW t \in Threads, Handoff(t)
        PROVE  Goal
    <2>1. Placed'
      BY <1>26, HeldKept DEF Handoff, Control, Holding
    <2>2. Control'
      BY <1>26, CallerMoves, HoldOthers DEF Handoff, Control, Placed, CallPoints, Dialling, Holding
    <2> QED
      BY <2>1, <2>2
  <1>27. ASSUME NEW t \in Threads, Orphan(t)
        PROVE  Goal
    <2>1. Placed'
      BY <1>27, HeldKept DEF Orphan, Control, Holding
    <2>2. Control'
      BY <1>27, CallerMoves, HoldOthers DEF Orphan, Control, Placed, CallPoints, Dialling, Holding
    <2> QED
      BY <2>1, <2>2
  <1>28. ASSUME NEW t \in Threads, NEW c \in Conns, Collect(t, c)
        PROVE  Goal
    <2>1. Placed'
      BY <1>28, OutToCaller DEF Collect, Control, Holding
    <2>2. Control'
      BY <1>28, CallerMoves, HoldOthers, ConnsAssumption DEF Collect, Control, Placed, CallPoints,
         Dialling, Holding
    <2> QED
      BY <2>1, <2>2
  <1>29. ASSUME Reap
        PROVE  Goal
    <2>1. Placed'
      BY <1>29, OrphanReaped DEF Reap
    <2>2. Control'
      BY <1>29, OthersMove DEF Reap, Control
    <2> QED
      BY <2>1, <2>2
  <1>30. ASSUME NEW t \in Threads, ClosePool(t)
        PROVE  Goal
    <2>1. Placed'
      BY <1>30, TornDown DEF ClosePool
    <2>2. Control'
      BY <1>30, CallerMoves DEF ClosePool, Control, CallPoints, Dialling, Holding
    <2> QED
      BY <2>1, <2>2
  <1>31. ASSUME PoolEnvironment
        PROVE  Goal
    <2>1. Placed'
      BY <1>31, EnvironmentPlaced DEF PoolEnvironment, poolVars
    <2>2. Control'
      BY <1>31, OthersMove DEF PoolEnvironment, poolVars, Control
    <2> QED
      BY <2>1, <2>2
  <1>32. ASSUME UNCHANGED poolState
        PROVE  Goal
    <2>1. Placed'
      BY <1>32, NothingMoves DEF poolState, sqlVars, poolVars
    <2>2. Control'
      BY <1>32, OthersMove DEF poolState, poolVars, Control
    <2> QED
      BY <2>1, <2>2
  <1> QED
    BY <1>1, <1>2, <1>3, <1>4, <1>5, <1>6, <1>7, <1>8, <1>9, <1>10, <1>11, <1>12, <1>13, <1>14, <1>15,
       <1>16, <1>17, <1>18, <1>19, <1>20, <1>21, <1>22, <1>23, <1>24, <1>25, <1>26, <1>27, <1>28, <1>29,
       <1>30, <1>31, <1>32
    DEF PoolNext, Connecting, Start, Acquire, Continue, GetDial, ReplaceDial, FillDial,
        LeaseEnds, ReplenishStep

-----------------------------------------------------------------------------
(* The limit. *)

WithinMax == Limited => Cardinality(open) <= MaxConns

\* Only db.Conn opens a connection, and it looks at the limit.
LEMMA WithinStep == Placed /\ WithinMax /\ [PoolNext]_poolState => WithinMax'
  <1> SUFFICES ASSUME Placed, WithinMax, [PoolNext]_poolState, Limited
               PROVE  Cardinality(open') <= MaxConns
    BY DEF WithinMax, Limited
  <1>1. IsFiniteSet(open) /\ Cardinality(open) \in Nat /\ MaxConns \in Nat
    BY ConnsAssumption, LimitsAssumption, FS_Subset, FS_CardinalityType DEF Placed, SqlTypeOK
  <1>2. ASSUME NEW c \in Conns, DialOk(c)
        PROVE  Cardinality(open') <= MaxConns
    <2>1. CASE open' = open
      BY <2>1 DEF WithinMax
    <2>2. CASE c \notin open /\ open' = open \cup {c} /\ ~AtLimit
      BY <1>1, <2>2, FS_AddElement DEF AtLimit
    <2> QED
      BY <1>2, <2>1, <2>2 DEF DialOk
  <1>3. ASSUME open' \subseteq open
        PROVE  Cardinality(open') <= MaxConns
    BY <1>1, <1>3, FS_Subset, FS_CardinalityType DEF WithinMax
  <1>4. CASE \E t \in Threads : Start(t) \/ Acquire(t) \/ Continue(t)
    <2> PICK t \in Threads : Start(t) \/ Acquire(t) \/ Continue(t)
      BY <1>4
    <2>1. CASE Start(t)
      BY <1>3, <2>1 DEF Start, BeginGet, BeginClose, Collect, sqlVars
    <2>2. CASE Acquire(t)
      BY <1>3, <2>2 DEF Acquire, GetPooled, GetPooledDead, GetEmpty, ReturnDead, ReturnLive,
         ClosePool, Discard, Release, CloseDB, sqlVars
    <2>3. CASE GetDial(t) \/ ReplaceDial(t) \/ FillDial(t)
      BY <1>2, <1>3, <2>3 DEF GetDial, GetDialOk, GetDialFails, GetGivesUp, ReplaceDial,
         ReplaceDialOk, ReplaceDialFails, ReplaceGivesUp, FillDial, FillDialOk, FillDialFails,
         DialFails, sqlVars
    <2>4. CASE ReportError(t) \/ LeaseEnds(t)
      BY <1>3, <2>4 DEF ReportError, LeaseEnds, BeginReturn, Drop, Handoff, Orphan, Release,
         Discard, sqlVars
    <2> QED
      BY <2>1, <2>2, <2>3, <2>4 DEF Continue
  <1>5. CASE Connecting \/ ReplenishLock \/ ReplenishStep
    BY <1>2, <1>3, <1>5 DEF Connecting, Preallocate, PreallocateFails, Connected, ReplenishLock,
       ReplenishStep, ReplenishDialOk, ReplenishDialFails, ReplenishGivesUp, DialFails, CloseDB,
       sqlVars
  <1>6. CASE Reap \/ PoolEnvironment \/ UNCHANGED poolState
    BY <1>3, <1>6 DEF Reap, PoolEnvironment, Environment, ConnDies, ServerDown, ServerUp,
       IdleExpires, Discard, poolState, sqlVars
  <1> QED
    BY <1>4, <1>5, <1>6 DEF PoolNext

-----------------------------------------------------------------------------
(***************************************************************************)
(* The minimum.  While nothing fails, a pop below minConns starts a        *)
(* replenisher, and a replenisher ends only by appending: its first dial   *)
(* succeeds, so it never uses up its attempts.                             *)
(***************************************************************************)
Ready ==
    /\ faults = 0 => up /\ dead = {}
    /\ phase \in {"connecting", "open"} => ~dbClosed
    /\ faults = 0 /\ phase \in {"connecting", "open"} /\ pmu = "replenisher" => tries = 0
    /\ MinimumKept

\* A step that takes nothing off the pool without a replenisher for it.
LEMMA Quiet ==
    ASSUME Placed, Placed', Control, Control', Ready,
           dead' \subseteq dead,
           UNCHANGED <<up, faults, dbClosed, phase>>,
           \/ Len(connections') >= Len(connections) /\ spawned' >= spawned
           \/ Len(connections') = Len(connections) - 1 /\ spawned' = spawned + 1
           \/ Len(connections') = Len(connections) + 1 /\ spawned' = spawned - 1
           \/ Len(connections') >= MinConns,
           pmu' = "replenisher" => tries' = 0 \/ (pmu = "replenisher" /\ tries' = tries)
    PROVE  Ready'
  <1>1. /\ Len(connections) \in Nat /\ Len(connections') \in Nat
        /\ spawned \in Nat /\ spawned' \in Nat /\ MinConns \in Nat
    BY LenProperties, LimitsAssumption DEF Placed, Control
  <1>2. MinimumKept'
    BY <1>1 DEF Ready, MinimumKept
  <1>3. faults' = 0 => up' /\ dead' = {}
    BY DEF Ready
  <1> QED
    BY <1>2, <1>3 DEF Ready

\* Popping leaves one element less.
LEMMA PopLength ==
    ASSUME Placed, connections # <<>>, connections' = Front(connections)
    PROVE  Len(connections') = Len(connections) - 1 /\ Len(connections') \in Nat
  BY PopElements, LenProperties DEF Placed, Exclusive

\* A pop that leaves too few starts a replenisher.
LEMMA PopReplenishes ==
    ASSUME Placed, Placed', Control, Control', Ready, NEW t \in Threads, GetPooled(t)
    PROVE  Ready'
  <1>1. Len(connections') = Len(connections) - 1 /\ Len(connections') \in Nat
    BY PopLength DEF GetPooled
  <1>2. MinConns \in Nat /\ spawned \in Nat
    BY LimitsAssumption DEF Control
  <1>3. CASE Len(connections') < MinConns
    <2>1. spawned' = spawned + 1
      BY <1>3 DEF GetPooled
    <2> QED
      BY <1>1, <2>1, Quiet DEF GetPooled, sqlVars
  <1>4. CASE Len(connections') >= MinConns
    BY <1>4, Quiet DEF GetPooled, sqlVars
  <1> QED
    BY <1>1, <1>2, <1>3, <1>4

\* Appending adds one.
LEMMA PushLength ==
    ASSUME Placed, NEW c \in Conns, connections' = Append(connections, c)
    PROVE  Len(connections') = Len(connections) + 1 /\ Len(connections) \in Nat
  BY PushElements, LenProperties DEF Placed

\* So does giving back the connection a caller holds.
LEMMA PushHeldLength ==
    ASSUME Placed, NEW t \in Threads, held[t] # NoConn,
           connections' = Append(connections, held[t])
    PROVE  Len(connections') = Len(connections) + 1 /\ Len(connections) \in Nat
  <1>1. held[t] \in Conns
    BY DEF Placed
  <1> QED
    BY <1>1, PushLength

\* A caller in a dialling loop, and no replenisher, has p.mu.
LEMMA HeldNotReplenisher ==
    ASSUME Control, NEW t \in Threads, pc[t] \in Dialling
    PROVE  pmu = t /\ pmu # "replenisher"
  BY ThreadsAssumption DEF Control

\* The numbers Ready counts with.
LEMMA SpawnedNat == Placed /\ Control =>
    spawned \in Nat /\ Len(connections) \in Nat /\ MinConns \in Nat
  BY LenProperties, LimitsAssumption DEF Placed, Control

\* A pool opens with its minimum.
LEMMA ConnectedReady ==
    ASSUME Placed, Control, Ready, Connected
    PROVE  Ready'
  <1>1. Len(connections) + spawned >= MinConns
    BY SpawnedNat DEF Connected
  <1>2. MinimumKept'
    BY <1>1 DEF Connected, MinimumKept
  <1> QED
    BY <1>2 DEF Connected, Ready, sqlVars

\* Faults are counted in Nat.
LEMMA FaultsNat == Placed => faults \in Nat
  BY LimitsAssumption DEF Placed, SqlTypeOK

\* Once something failed the minimum is not promised.
LEMMA FaultInjected ==
    ASSUME Placed, Ready, faults' = faults + 1, UNCHANGED <<dbClosed, phase>>
    PROVE  Ready'
  BY FaultsNat DEF Ready, MinimumKept

\* A failed dial of a caller takes nothing off the pool.
LEMMA DialFailsReady ==
    ASSUME Placed, Placed', Control, Control', Ready, DialFails,
           UNCHANGED <<connections, spawned, phase, pmu>>, pmu # "replenisher"
    PROVE  Ready'
  <1>1. CASE faults' = faults + 1
    BY <1>1, FaultInjected DEF DialFails, sqlVars
  <1>2. CASE faults' # faults + 1
    <2>1. dead' \subseteq dead /\ UNCHANGED <<up, faults, dbClosed>>
      BY <1>2 DEF DialFails, sqlVars
    <2> QED
      BY <2>1, SpawnedNat, Quiet
  <1> QED
    BY <1>1, <1>2

\* Every step keeps the pool ready.
LEMMA ReadyStep ==
    Placed /\ Placed' /\ Control /\ Control' /\ Ready /\ [PoolNext]_poolState => Ready'
  <1> SUFFICES ASSUME Placed, Placed', Control, Control', Ready, [PoolNext]_poolState
               PROVE  Ready'
    OBVIOUS
  <1>1. ASSUME NEW t \in Threads, BeginGet(t)
        PROVE  Ready'
    BY <1>1, Quiet DEF BeginGet, sqlVars, Control
  <1>2. ASSUME NEW t \in Threads, GetEmpty(t)
        PROVE  Ready'
    BY <1>2, Quiet DEF GetEmpty, sqlVars, Control
  <1>3. ASSUME NEW t \in Threads, GetGivesUp(t)
        PROVE  Ready'
    BY <1>3, Quiet DEF GetGivesUp, sqlVars, Control
  <1>4. ASSUME NEW t \in Threads, ReportError(t)
        PROVE  Ready'
    BY <1>4, Quiet DEF ReportError, sqlVars, Control
  <1>5. ASSUME NEW t \in Threads, BeginReturn(t)
        PROVE  Ready'
    BY <1>5, Quiet DEF BeginReturn, sqlVars, Control
  <1>6. ASSUME NEW t \in Threads, ReplaceGivesUp(t)
        PROVE  Ready'
    BY <1>6, Quiet DEF ReplaceGivesUp, sqlVars, Control
  <1>7. ASSUME NEW t \in Threads, BeginClose(t)
        PROVE  Ready'
    BY <1>7, Quiet DEF BeginClose, sqlVars, Control
  <1>8. ASSUME NEW t \in Threads, Handoff(t)
        PROVE  Ready'
    BY <1>8, Quiet DEF Handoff, sqlVars, Control
  <1>9. ASSUME NEW t \in Threads, Orphan(t)
        PROVE  Ready'
    BY <1>9, Quiet DEF Orphan, sqlVars, Control
  <1>10. ASSUME NEW t \in Threads, NEW c \in Conns, Collect(t, c)
        PROVE  Ready'
    BY <1>10, Quiet DEF Collect, sqlVars, Control
  <1>11. ASSUME NEW t \in Threads, Drop(t)
        PROVE  Ready'
    BY <1>11, Quiet DEF Drop, Release, Discard, Control
  <1>12. ASSUME NEW t \in Threads, NEW c \in Conns, GetDialOk(t, c)
        PROVE  Ready'
    BY <1>12, Quiet DEF GetDialOk, DialOk, Control
  <1>13. ASSUME Reap
        PROVE  Ready'
    BY <1>13, Quiet DEF Reap, Discard, Control
  <1>14. ASSUME NEW t \in Threads, GetPooled(t)
        PROVE  Ready'
    BY <1>14, PopReplenishes
  <1>15. ASSUME NEW t \in Threads, ReturnDead(t)
        PROVE  Ready'
    BY <1>15, Quiet DEF ReturnDead, Discard, Control
  <1>16. ASSUME NEW t \in Threads, NEW c \in Conns, ReplaceDialOk(t, c)
        PROVE  Ready'
    BY <1>16, PushLength, Quiet DEF ReplaceDialOk, DialOk, Control
  <1>17. ASSUME NEW t \in Threads, NEW c \in Conns, FillDialOk(t, c)
        PROVE  Ready'
    BY <1>17, PushLength, HeldNotReplenisher, Quiet DEF FillDialOk, DialOk, Control, Dialling
  <1>18. ASSUME NEW t \in Threads, GetDialFails(t)
        PROVE  Ready'
    BY <1>18, HeldNotReplenisher, DialFailsReady DEF GetDialFails, Dialling
  <1>19. ASSUME NEW t \in Threads, ReplaceDialFails(t)
        PROVE  Ready'
    BY <1>19, HeldNotReplenisher, DialFailsReady DEF ReplaceDialFails, Dialling
  <1>20. ASSUME NEW t \in Threads, FillDialFails(t)
        PROVE  Ready'
    BY <1>20, HeldNotReplenisher, DialFailsReady DEF FillDialFails, Dialling
  <1>21. ASSUME NEW t \in Threads, ReturnLive(t)
        PROVE  Ready'
    BY <1>21, PushHeldLength, Quiet DEF ReturnLive, Release, Discard, sqlVars, Control, Holding
  <1>22. ASSUME NEW c \in Conns, ReplenishDialOk(c)
        PROVE  Ready'
    BY <1>22, PushLength, Quiet DEF ReplenishDialOk, DialOk, Control
  <1>23. ASSUME ReplenishLock
        PROVE  Ready'
    BY <1>23, Quiet DEF ReplenishLock, sqlVars, Control
  <1>24. ASSUME NEW t \in Threads, GetPooledDead(t)
        PROVE  Ready'
    BY <1>24 DEF GetPooledDead, Discard, Ready, Control, MinimumKept
  <1>25. ASSUME ReplenishDialFails
        PROVE  Ready'
    <2>1. CASE faults' = faults + 1
      BY <1>25, <2>1, FaultInjected DEF ReplenishDialFails, DialFails, sqlVars
    <2>2. CASE faults' # faults + 1
      BY <1>25, <2>2, FaultsNat DEF ReplenishDialFails, DialFails, sqlVars, Ready, MinimumKept
    <2> QED
      BY <2>1, <2>2
  <1>26. ASSUME ReplenishGivesUp
        PROVE  Ready'
    BY <1>26, LimitsAssumption DEF ReplenishGivesUp, sqlVars, Ready, MinimumKept
  <1>27. ASSUME NEW c \in Conns, Preallocate(c)
        PROVE  Ready'
    BY <1>27 DEF Preallocate, DialOk, Ready, MinimumKept
  <1>28. ASSUME PreallocateFails
        PROVE  Ready'
    BY <1>28 DEF PreallocateFails, CloseDB, Ready, MinimumKept
  <1>29. ASSUME Connected
        PROVE  Ready'
    BY <1>29, ConnectedReady
  <1>30. ASSUME NEW t \in Threads, ClosePool(t)
        PROVE  Ready'
    BY <1>30 DEF ClosePool, CloseDB, Ready, MinimumKept
  <1>31. ASSUME PoolEnvironment
        PROVE  Ready'
    BY <1>31, FaultsNat DEF PoolEnvironment, Environment, poolVars, ConnDies, ServerDown, ServerUp,
       IdleExpires, Ready, MinimumKept
  <1>32. ASSUME UNCHANGED poolState
        PROVE  Ready'
    BY <1>32, Quiet DEF poolState, sqlVars, poolVars, Control
  <1> QED
    BY <1>1, <1>2, <1>3, <1>4, <1>5, <1>6, <1>7, <1>8, <1>9, <1>10, <1>11, <1>12, <1>13, <1>14, <1>15,
       <1>16, <1>17, <1>18, <1>19, <1>20, <1>21, <1>22, <1>23, <1>24, <1>25, <1>26, <1>27, <1>28, <1>29,
       <1>30, <1>31, <1>32
    DEF PoolNext, Connecting, Start, Acquire, Continue, GetDial, ReplaceDial, FillDial,
        LeaseEnds, ReplenishStep

-----------------------------------------------------------------------------
(* The theorems. *)

PoolInv == Placed /\ Control /\ WithinMax /\ Ready

\* A pool that is being connected has nothing in any place.
LEMMA PoolInitInv == PoolInit => PoolInv
  <1> SUFFICES ASSUME PoolInit
               PROVE  PoolInv
    OBVIOUS
  <1> USE ConnsAssumption, LimitsAssumption, ThreadsAssumption DEF PoolInit, SqlInit
  <1>1. Pooled = {} /\ Held = {} /\ connections \in Seq(Conns) /\ IsInjective(connections)
    BY DEF Pooled, Held, ToSet, IsInjective
  <1>f. faults \in 0..MaxFaults
    <2>1. 0 \in 0..MaxFaults
      BY LimitsAssumption
    <2> QED
      BY <2>1
  <1>a. SqlTypeOK
    BY <1>f DEF SqlTypeOK
  <1>h. held \in [Threads -> Conns \cup {NoConn}]
    OBVIOUS
  <1>b. Exclusive /\ Accounted
    BY <1>1 DEF Exclusive, Accounted
  <1>2. Placed
    BY <1>1, <1>a, <1>h, <1>b DEF Placed
  <1>3. Control
    BY DEF Control, CallPoints, Dialling, Holding
  <1>4. WithinMax
    BY FS_EmptySet DEF WithinMax, Limited
  <1>5. Ready
    BY DEF Ready, MinimumKept
  <1> QED
    BY <1>2, <1>3, <1>4, <1>5 DEF PoolInv

\* The inductive invariant.
THEOREM PoolInvariant == PoolSpec => []PoolInv
  <1>1. PoolInv /\ [PoolNext]_poolState => PoolInv'
    BY PlacedStep, WithinStep, ReadyStep DEF PoolInv
  <1> QED
    BY <1>1, PoolInitInv, PTL DEF PoolSpec

\* The pool's variables keep their types.
THEOREM PoolTypes == PoolSpec => []PoolTypeOK
  <1>1. PoolInv => PoolTypeOK
    BY DEF PoolInv, Placed, Control, PoolTypeOK
  <1> QED
    BY <1>1, PoolInvariant, PTL

\* A connection never has two owners.
THEOREM PoolOwnership == PoolSpec => []Exclusive
  <1>1. PoolInv => Exclusive
    BY DEF PoolInv, Placed
  <1> QED
    BY <1>1, PoolInvariant, PTL

\* The bridge forgets none that sql.DB counts, and uses none that it does not.
THEOREM PoolAccounting == PoolSpec => []Accounted
  <1>1. PoolInv => Accounted
    BY DEF PoolInv, Placed
  <1> QED
    BY <1>1, PoolInvariant, PTL

\* The slice never outgrows maxConns: its connections are distinct and open,
\* and sql.DB opens no more.
THEOREM PoolLimit == PoolSpec => []PoolWithinMax
  <1>1. PoolInv => PoolWithinMax
    <2> SUFFICES ASSUME PoolInv, Limited
                 PROVE  Len(connections) <= MaxConns
      BY DEF PoolWithinMax
    <2>1. Pooled \subseteq open /\ IsFiniteSet(open) /\ Cardinality(open) <= MaxConns
      BY ConnsAssumption, FS_Subset DEF PoolInv, Placed, SqlTypeOK, Accounted, WithinMax
    <2>2. Cardinality(Pooled) = Len(connections)
      BY InjectiveLength DEF PoolInv, Placed, Exclusive, Pooled
    <2>3. Cardinality(Pooled) <= Cardinality(open)
      BY <2>1, FS_Subset
    <2>4. Len(connections) \in Nat /\ Cardinality(open) \in Nat /\ MaxConns \in Nat
      BY <2>1, LenProperties, FS_CardinalityType, LimitsAssumption DEF PoolInv, Placed
    <2> QED
      BY <2>1, <2>2, <2>3, <2>4
  <1> QED
    BY <1>1, PoolInvariant, PTL

\* An open pool that met no fault has its minimum, or is getting it.
THEOREM PoolMinimum == PoolSpec => []MinimumKept
  <1>1. PoolInv => MinimumKept
    BY DEF PoolInv, Ready
  <1> QED
    BY <1>1, PoolInvariant, PTL

-----------------------------------------------------------------------------
\* Only dialling opens a connection.
LEMMA OpensByDialling ==
    /\ \A t \in Threads : Start(t) \/ LeaseEnds(t) \/ ReportError(t) \/ Acquire(t)
                              => open' \subseteq open
    /\ PoolEnvironment \/ Reap => open' \subseteq open
    /\ PreallocateFails \/ Connected \/ ReplenishLock => open' \subseteq open
  <1>1. \A t \in Threads : Start(t) \/ ReportError(t) => open' = open
    BY DEF Start, BeginGet, BeginClose, Collect, ReportError, sqlVars
  <1>2. \A t \in Threads : LeaseEnds(t) => open' \subseteq open
    BY DEF LeaseEnds, BeginReturn, Drop, Handoff, Orphan, Release, Discard, sqlVars
  <1>3. \A t \in Threads : Acquire(t) => open' \subseteq open
    BY DEF Acquire, GetPooled, GetPooledDead, GetEmpty, ReturnDead, ReturnLive, ClosePool,
       Release, Discard, CloseDB, sqlVars
  <1>4. PoolEnvironment \/ Reap => open' \subseteq open
    BY DEF PoolEnvironment, Reap, Environment, ConnDies, ServerDown, ServerUp, IdleExpires, Discard
  <1>5. PreallocateFails \/ Connected \/ ReplenishLock => open' \subseteq open
    BY DEF PreallocateFails, Connected, ReplenishLock, CloseDB, sqlVars
  <1> QED
    BY <1>1, <1>2, <1>3, <1>4, <1>5

-----------------------------------------------------------------------------
(***************************************************************************)
(* The end of a pool.  Once its sql.DB is closed nothing is dialled and no *)
(* connection is kept idle; and a pool that GodbcConnect gives up was in   *)
(* nobody else's hands, so that closing its slice closes everything.       *)
(***************************************************************************)
Private ==
    phase = "connecting" =>
        out = {} /\ orphaned = {} /\ \A t \in Threads : pc[t] = "idle"

Shut ==
    /\ phase \in {"closed", "failed"} => dbClosed /\ free = {}
    /\ phase = "failed" => open = {}

\* No caller has the pool before it is open.
LEMMA PrivateStep ==
    ASSUME Private, [PoolNext]_poolState
    PROVE  Private'
  <1> SUFFICES ASSUME phase' = "connecting"
               PROVE  out' = {} /\ orphaned' = {} /\ \A t \in Threads : pc'[t] = "idle"
    BY DEF Private
  <1>1. CASE Connecting
    BY <1>1 DEF Connecting, Preallocate, PreallocateFails, Connected, Private
  <1>2. ASSUME NEW t \in Threads, Start(t)
        PROVE  FALSE
    BY <1>2 DEF Start, BeginGet, BeginClose, Collect, Private
  <1>3. ASSUME NEW t \in Threads, Acquire(t)
        PROVE  FALSE
    BY <1>3 DEF Acquire, GetPooled, GetPooledDead, GetEmpty, ReturnDead, ReturnLive, ClosePool, Private
  <1>4. ASSUME NEW t \in Threads, Continue(t)
        PROVE  FALSE
    BY <1>4 DEF Continue, GetDial, GetDialOk, GetDialFails, GetGivesUp, ReportError,
       ReplaceDial, ReplaceDialOk, ReplaceDialFails, ReplaceGivesUp,
       FillDial, FillDialOk, FillDialFails, LeaseEnds, BeginReturn, Drop, Handoff, Orphan, Private
  <1>5. CASE ReplenishLock \/ ReplenishStep
    BY <1>5 DEF ReplenishLock, ReplenishStep, ReplenishDialOk, ReplenishDialFails,
       ReplenishGivesUp, Private
  <1>6. CASE Reap \/ PoolEnvironment \/ UNCHANGED poolState
    BY <1>6 DEF Reap, PoolEnvironment, poolState, poolVars, Private
  <1> QED
    BY <1>1, <1>2, <1>3, <1>4, <1>5, <1>6 DEF PoolNext

\* What every step but the ends of a pool does.
LEMMA ShutKept ==
    ASSUME Shut, UNCHANGED <<phase, dbClosed>>,
           dbClosed => free' \subseteq free /\ open' \subseteq open
    PROVE  Shut'
  BY DEF Shut

\* What sql.DB does once it is closed.
LEMMA ClosedDB ==
    ASSUME dbClosed
    PROVE  /\ \A c \in Conns : ~DialOk(c)
           /\ DialFails => UNCHANGED dbClosed /\ free' \subseteq free /\ open' \subseteq open
           /\ \A c : Release(c) \/ Discard(c) =>
                 UNCHANGED dbClosed /\ free' \subseteq free /\ open' \subseteq open
           /\ Environment => UNCHANGED dbClosed /\ free' \subseteq free /\ open' \subseteq open
  BY DEF DialOk, DialFails, Release, KeepsIdle, Discard, Environment, ConnDies, ServerDown,
     ServerUp, IdleExpires, sqlVars

\* No step leaves a connection in a pool that is gone.
LEMMA ShutStep ==
    ASSUME Placed, Control, Private, Shut, [PoolNext]_poolState
    PROVE  Shut'
  <1>a. (\E c \in Conns : DialOk(c)) \/ DialFails \/ Environment
           \/ (\E c : Release(c) \/ Discard(c)) => dbClosed' = dbClosed
    BY DEF DialOk, DialFails, Release, Discard, Environment, ConnDies, ServerDown, ServerUp,
       IdleExpires, sqlVars
  <1>1. ASSUME NEW c \in Conns, Preallocate(c)
        PROVE  Shut'
    BY <1>1 DEF Preallocate, Shut
  <1>2. CASE PreallocateFails
    <2>1. Held = {} /\ out = {} /\ orphaned = {}
      BY <1>2 DEF PreallocateFails, Private, Control, Holding, Held
    <2>2. open' = {} /\ free' = {} /\ dbClosed'
      BY <1>2, <2>1 DEF PreallocateFails, CloseDB, Placed, Accounted
    <2> QED
      BY <2>2 DEF Shut
  <1>3. CASE Connected
    BY <1>3 DEF Connected, Shut
  <1>4. ASSUME NEW t \in Threads, ClosePool(t)
        PROVE  Shut'
    BY <1>4 DEF ClosePool, CloseDB, Shut
  <1>5. ASSUME NEW t \in Threads,
               \/ Start(t) \/ GetPooled(t) \/ GetEmpty(t) \/ GetGivesUp(t) \/ ReportError(t)
               \/ ReplaceGivesUp(t) \/ BeginReturn(t) \/ Handoff(t) \/ Orphan(t)
        PROVE  Shut'
    BY <1>5, ShutKept DEF Start, BeginGet, BeginClose, Collect, GetPooled, GetEmpty, GetGivesUp,
       ReportError, ReplaceGivesUp, BeginReturn, Handoff, Orphan, sqlVars
  <1>6. ASSUME NEW t \in Threads,
               GetPooledDead(t) \/ ReturnDead(t) \/ ReturnLive(t) \/ Drop(t)
        PROVE  Shut'
    <2>1. UNCHANGED phase /\ (UNCHANGED sqlVars \/ \E c : Release(c) \/ Discard(c))
      BY <1>6 DEF GetPooledDead, ReturnDead, ReturnLive, Drop
    <2> QED
      BY <1>a, <2>1, ClosedDB, ShutKept DEF sqlVars
  <1>7. ASSUME NEW t \in Threads, NEW c \in Conns,
               GetDialOk(t, c) \/ ReplaceDialOk(t, c) \/ FillDialOk(t, c)
        PROVE  Shut'
    BY <1>7, <1>a, ClosedDB, ShutKept DEF GetDialOk, ReplaceDialOk, FillDialOk
  <1>8. ASSUME NEW t \in Threads, GetDialFails(t) \/ ReplaceDialFails(t) \/ FillDialFails(t)
        PROVE  Shut'
    BY <1>8, <1>a, ClosedDB, ShutKept DEF GetDialFails, ReplaceDialFails, FillDialFails
  <1>9. CASE ReplenishLock \/ ReplenishStep
    BY <1>9, <1>a, ClosedDB, ShutKept DEF ReplenishLock, ReplenishStep, ReplenishDialOk,
       ReplenishDialFails, ReplenishGivesUp, sqlVars
  <1>10. CASE Reap \/ PoolEnvironment \/ UNCHANGED poolState
    BY <1>10, <1>a, ClosedDB, ShutKept DEF Reap, PoolEnvironment, poolState, poolVars, sqlVars
  <1> QED
    BY <1>1, <1>2, <1>3, <1>4, <1>5, <1>6, <1>7, <1>8, <1>9, <1>10
    DEF PoolNext, Connecting, Acquire, Continue, GetDial, ReplaceDial, FillDial, LeaseEnds

\* The end of a pool, as an invariant.
LEMMA PoolEnds == PoolSpec => [](Private /\ Shut)
  <1>1. PoolInit => Private /\ Shut
    BY DEF PoolInit, SqlInit, Private, Shut
  <1>2. /\ Private /\ [PoolNext]_poolState => Private'
        /\ PoolInv /\ Private /\ Shut /\ [PoolNext]_poolState => Shut'
    BY PrivateStep, ShutStep DEF PoolInv
  <1> QED
    BY <1>1, <1>2, PoolInvariant, PTL DEF PoolSpec

\* A GodbcConnect that fails leaves nothing open, at whichever of its dials.
THEOREM PoolFailsClean == PoolSpec => []FailedConnectDrains
  <1>1. Shut => FailedConnectDrains
    BY DEF Shut, FailedConnectDrains
  <1> QED
    BY <1>1, PoolEnds, PTL

-----------------------------------------------------------------------------
\* Without attempts, nothing dials once the pool is open.
THEOREM PoolPreallocated == PoolSpec => OnlyPreallocated
  <1>1. ASSUME PoolInv, [PoolNext]_poolState, RetryAttempts = 0, phase # "connecting"
        PROVE  open' \subseteq open
    <2>1. ~(tries < RetryAttempts)
      BY <1>1 DEF PoolInv, Control
    <2>2. ASSUME NEW t \in Threads, GetDial(t) \/ ReplaceDial(t) \/ FillDial(t)
          PROVE  open' \subseteq open
      BY <2>1, <2>2 DEF GetDial, GetDialOk, GetDialFails, GetGivesUp, ReplaceDial, ReplaceDialOk,
         ReplaceDialFails, ReplaceGivesUp, FillDial, FillDialOk, FillDialFails, sqlVars
    <2>3. CASE ReplenishStep
      BY <2>1, <2>3 DEF ReplenishStep, ReplenishDialOk, ReplenishDialFails, ReplenishGivesUp, sqlVars
    <2>4. CASE Connecting
      BY <1>1, <2>4 DEF Connecting, Preallocate, PreallocateFails, Connected
    <2>5. CASE UNCHANGED poolState
      BY <2>5 DEF poolState, sqlVars
    <2> QED
      BY <1>1, <2>2, <2>3, <2>4, <2>5, OpensByDialling DEF PoolNext, Continue
  <1>2. PoolInv /\ [PoolNext]_poolState =>
           [RetryAttempts = 0 /\ phase # "connecting" => open' \subseteq open]_poolState
    BY <1>1
  <1> QED
    BY <1>2, PoolInvariant, PTL DEF PoolSpec, OnlyPreallocated
=============================================================================
