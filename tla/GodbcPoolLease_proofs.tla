----------------------- MODULE GodbcPoolLease_proofs -----------------------
(***************************************************************************)
(* The pool implements ConnLease, for any callers, connections and limits: *)
(* every step moves one connection between owners in a promised way, or    *)
(* retires idle ones, or moves none.                                       *)
(***************************************************************************)
EXTENDS GodbcPoolLease, GodbcPool_proofs

Idle == Pooled \cup free

\* Where a connection is decides its owner, because it is in one place.
LEMMA OwnerIs ==
    ASSUME Placed, NEW c \in Conns
    PROVE  /\ c \in Idle => Owner[c] = "idle"
           /\ c \in out => Owner[c] = "result"
           /\ c \in orphaned => Owner[c] = "orphan"
           /\ \A t \in Threads : held[t] = c => Owner[c] = t
           /\ c \notin open => Owner[c] = "none"
           /\ Owner[c] = "none" => c \notin open
  <1> USE ConnsAssumption DEF Idle, Owner, OwnerOf, Placed, Exclusive, Accounted
  <1>1. \A t \in Threads : held[t] = c => c \in Held
    BY DEF Held
  <1>2. c \in Held => \E t \in Threads : held[t] = c
    BY DEF Held
  <1>3. ASSUME NEW t \in Threads, held[t] = c
        PROVE  Owner[c] = t
    <2>1. c \notin Pooled \cup free /\ c \notin out /\ c \notin orphaned /\ c \in Held
      BY <1>1, <1>3
    <2>2. (CHOOSE s \in Threads : held[s] = c) = t
      BY <1>3
    <2> QED
      BY <2>1, <2>2
  <1>4. Owner[c] = "none" => c \notin open
    BY <1>2, <1>3, LeaseAssumption
  <1> QED
    BY <1>1, <1>2, <1>3, <1>4

\* The same of the next state.
LEMMA OwnerNext ==
    ASSUME Placed', NEW c \in Conns
    PROVE  /\ c \in Idle' => Owner'[c] = "idle"
           /\ c \in out' => Owner'[c] = "result"
           /\ c \in orphaned' => Owner'[c] = "orphan"
           /\ \A t \in Threads : held'[t] = c => Owner'[c] = t
           /\ c \notin open' => Owner'[c] = "none"
  <1> USE ConnsAssumption DEF Idle, Owner, OwnerOf, Placed, Exclusive, Accounted
  <1>1. \A t \in Threads : held'[t] = c => c \in Held'
    BY DEF Held
  <1>2. ASSUME NEW t \in Threads, held'[t] = c
        PROVE  Owner'[c] = t
    <2>1. c \notin Pooled' \cup free' /\ c \notin out' /\ c \notin orphaned' /\ c \in Held'
      BY <1>1, <1>2
    <2>2. (CHOOSE s \in Threads : held'[s] = c) = t
      BY <1>2
    <2> QED
      BY <2>1, <2>2
  <1>3. c \in Held' => \E t \in Threads : held'[t] = c
    BY DEF Held
  <1> QED
    BY <1>1, <1>2, <1>3

\* A connection stays where it is.
Stays(d) ==
    /\ d \in Idle <=> d \in Idle'
    /\ d \in out <=> d \in out'
    /\ d \in orphaned <=> d \in orphaned'
    /\ \A t \in Threads : held[t] = d <=> held'[t] = d

\* A connection that stays where it is keeps its owner.
LEMMA OwnerStays ==
    ASSUME Placed, Placed', NEW d \in Conns, Stays(d)
    PROVE  Owner'[d] = Owner[d]
  <1>1. CASE d \in Idle \cup out \cup orphaned
    BY <1>1, OwnerIs, OwnerNext DEF Stays
  <1>2. CASE \E t \in Threads : held[t] = d
    BY <1>2, OwnerIs, OwnerNext DEF Stays
  <1>3. CASE d \notin Idle \cup out \cup orphaned /\ ~ \E t \in Threads : held[t] = d
    <2>1. d \notin Held /\ d \notin Held'
      BY <1>3 DEF Stays, Held
    <2>2. d \notin open /\ d \notin open'
      BY <1>3, <2>1 DEF Stays, Idle, Placed, Accounted
    <2> QED
      BY <2>2, OwnerIs, OwnerNext
  <1> QED
    BY <1>1, <1>2, <1>3

\* Nothing changes hands.
LEMMA NoneMoves ==
    ASSUME Placed, Placed', \A d \in Conns : Stays(d)
    PROVE  Owner' = Owner
  <1>1. \A d \in Conns : Owner'[d] = Owner[d]
    BY OwnerStays
  <1> QED
    BY <1>1 DEF Owner

\* One connection does.
LEMMA OneMoves ==
    ASSUME Placed, Placed', NEW c \in Conns, \A d \in Conns \ {c} : Stays(d)
    PROVE  Owner' = [Owner EXCEPT ![c] = Owner'[c]]
  <1>1. \A d \in Conns \ {c} : Owner'[d] = Owner[d]
    BY OwnerStays
  <1> QED
    BY <1>1 DEF Owner

\* Idle ones are closed.
LEMMA IdleRetire ==
    ASSUME Placed, Placed', NEW S \in SUBSET Conns, S \subseteq Idle, S \cap open' = {},
           \A d \in Conns \ S : Stays(d)
    PROVE  Lease!Retire
  <1>1. \A d \in Conns \ S : Owner'[d] = Owner[d]
    BY OwnerStays
  <1>2. \A d \in S : Owner[d] = "idle" /\ Owner'[d] = "none"
    BY OwnerIs, OwnerNext
  <1>3. Owner' = [c \in Conns |-> IF c \in S THEN "none" ELSE Owner[c]]
    BY <1>1, <1>2 DEF Owner
  <1> QED
    BY <1>2, <1>3 DEF Lease!Retire

\* sql.DB opens a connection only below the limit.
LEMMA OpensBelowLimit ==
    ASSUME Placed, ~AtLimit
    PROVE  Lease!MayOpen
  <1>1. Lease!Opened = open
    BY OwnerIs DEF Lease!Opened, Placed, SqlTypeOK
  <1>2. IsFiniteSet(open) /\ Cardinality(open) \in Nat
    BY ConnsAssumption, FS_Subset, FS_CardinalityType DEF Placed, SqlTypeOK
  <1>3. Lease!Cardinality(Lease!Opened) = Cardinality(open)
    BY <1>1 DEF Cardinality, Lease!Cardinality
  <1> QED
    BY <1>2, <1>3, LimitsAssumption DEF Lease!MayOpen, AtLimit, Limited

-----------------------------------------------------------------------------
Promised == Lease!LeaseNext \/ Owner' = Owner

\* Sequences aside, nothing moves.
LEMMA LeaseStutters ==
    ASSUME Placed, Placed', UNCHANGED <<connections, free, held, out, orphaned>>
    PROVE  Promised
  <1>1. \A d \in Conns : Stays(d)
    BY DEF Stays, Idle, Pooled
  <1> QED
    BY <1>1, NoneMoves DEF Promised

\* A dialled connection goes to the pool ...
LEMMA LeaseDialledToPool ==
    ASSUME Placed, Placed', NEW c \in Conns, DialOk(c), connections' = Append(connections, c),
           UNCHANGED <<held, out, orphaned>>
    PROVE  Promised
  <1>1. Pooled' = Pooled \cup {c}
    BY Dialled, PushElements DEF Pooled, Placed, Exclusive
  <1>2. \A d \in Conns \ {c} : Stays(d)
    BY <1>1, Dialled DEF Stays, Idle
  <1>3. CASE c \in free
    <2>1. Stays(c)
      BY <1>1, <1>3, Dialled DEF Stays, Idle
    <2> QED
      BY <1>2, <2>1, NoneMoves DEF Promised
  <1>4. CASE c \notin free
    <2>1. Owner[c] = "none" /\ Owner'[c] = "idle"
      BY <1>1, <1>4, Dialled, OwnerIs, OwnerNext DEF Idle
    <2>2. Lease!MayOpen
      BY <1>4, OpensBelowLimit DEF DialOk
    <2>3. Lease!Open(c)
      BY <1>2, <2>1, <2>2, OneMoves DEF Lease!Open, Lease!Moves
    <2> QED
      BY <2>3 DEF Promised, Lease!LeaseNext
  <1> QED
    BY <1>3, <1>4

\* ... or to a caller.
LEMMA LeaseDialledToCaller ==
    ASSUME Placed, Placed', NEW c \in Conns, DialOk(c), NEW t \in Threads, held[t] = NoConn,
           Hold(t, c), UNCHANGED <<connections, out, orphaned>>
    PROVE  Promised
  <1>1. Pooled' = Pooled /\ held'[t] = c /\ \A s \in Threads \ {t} : held'[s] = held[s]
    BY DEF Pooled, Hold, Placed
  <1>2. \A d \in Conns \ {c} : Stays(d)
    BY <1>1, Dialled, ConnsAssumption DEF Stays, Idle
  <1>3. Owner'[c] = t
    BY <1>1, OwnerNext
  <1>4. CASE c \in free
    <2>1. Lease!Lend(c, t)
      BY <1>2, <1>3, <1>4, OneMoves, OwnerIs DEF Idle, Lease!Lend, Lease!Moves
    <2> QED
      BY <2>1 DEF Promised, Lease!LeaseNext
  <1>5. CASE c \notin free
    <2>1. Lease!MayOpen /\ Owner[c] = "none"
      BY <1>5, Dialled, OpensBelowLimit, OwnerIs DEF DialOk
    <2>2. Lease!OpenFor(c, t)
      BY <1>2, <1>3, <2>1, OneMoves DEF Lease!OpenFor, Lease!Moves
    <2> QED
      BY <2>2 DEF Promised, Lease!LeaseNext
  <1> QED
    BY <1>4, <1>5

\* Idle connections are closed, in sql.DB or in the pool.
LEMMA LeaseRetires ==
    ASSUME Placed, Placed', NEW S, S \subseteq Idle, Idle' = Idle \ S,
           UNCHANGED <<held, out, orphaned>>
    PROVE  Promised
  <1>1. S \subseteq Conns /\ S \cap (Held \cup out \cup orphaned) = {}
    BY DEF Idle, Placed, Exclusive, Accounted, SqlTypeOK
  <1>2. Held' = Held
    BY DEF Held
  <1>3. S \cap open' = {}
    BY <1>1, <1>2 DEF Idle, Placed, Accounted
  <1>4. \A d \in Conns \ S : Stays(d)
    BY DEF Stays
  <1>5. Lease!Retire
    BY <1>1, <1>3, <1>4, IdleRetire
  <1> QED
    BY <1>5 DEF Promised, Lease!LeaseNext

\* A failed dial closes one idle connection or none.
LEMMA LeaseDialFails ==
    ASSUME Placed, Placed', DialFails, UNCHANGED <<connections, held, out, orphaned>>
    PROVE  Promised
  <1>1. CASE UNCHANGED free
    BY <1>1, LeaseStutters
  <1>2. ASSUME NEW c \in free \cap dead, free' = free \ {c}
        PROVE  Promised
    <2>1. c \notin Pooled /\ Pooled' = Pooled
      BY <1>2 DEF Placed, Exclusive, Pooled
    <2>2. {c} \subseteq Idle /\ Idle' = Idle \ {c}
      BY <1>2, <2>1 DEF Idle
    <2> QED
      BY <2>2, LeaseRetires
  <1> QED
    BY <1>1, <1>2 DEF DialFails, sqlVars

\* The last pooled connection goes to a caller ...
LEMMA LeasePopped ==
    ASSUME Placed, Placed', connections # <<>>, connections' = Front(connections),
           NEW t \in Threads, held[t] = NoConn, Hold(t, Last(connections)),
           UNCHANGED <<sqlVars, out, orphaned>>
    PROVE  Promised
  <1> DEFINE c == Last(connections)
  <1>1. Pooled' = Pooled \ {c} /\ c \in Pooled /\ c \in Conns /\ c \notin free
    BY PopElements, LastInConns DEF Pooled, Placed, Exclusive
  <1>2. held'[t] = c /\ \A s \in Threads \ {t} : held'[s] = held[s]
    BY DEF Hold, Placed
  <1> HIDE DEF c
  <1>3. \A d \in Conns \ {c} : Stays(d)
    BY <1>1, <1>2, ConnsAssumption DEF Stays, Idle, sqlVars
  <1>4. Owner[c] = "idle" /\ Owner'[c] = t
    BY <1>1, <1>2, OwnerIs, OwnerNext DEF Idle
  <1>5. Lease!Lend(c, t)
    BY <1>1, <1>3, <1>4, OneMoves DEF Lease!Lend, Lease!Moves
  <1> QED
    BY <1>1, <1>5 DEF Promised, Lease!LeaseNext

\* ... or is closed.
LEMMA LeaseDiscarded ==
    ASSUME Placed, Placed', connections # <<>>, connections' = Front(connections),
           Discard(Last(connections)), UNCHANGED <<held, out, orphaned>>
    PROVE  Promised
  <1>1. Pooled' = Pooled \ {Last(connections)} /\ Last(connections) \in Pooled
    BY PopElements DEF Pooled, Placed, Exclusive
  <1>2. free' = free /\ Last(connections) \notin free
    BY <1>1 DEF Discard, Placed, Exclusive
  <1>3. Idle' = Idle \ {Last(connections)}
    BY <1>1, <1>2 DEF Idle
  <1> QED
    BY <1>1, <1>3, LeaseRetires DEF Idle

\* A caller parts with its connection: where it goes decides what happened.
LEMMA LeaseEnded ==
    ASSUME Placed, Placed', NEW t \in Threads, held[t] # NoConn, Hold(t, NoConn),
           Idle' \ {held[t]} = Idle, out' \ {held[t]} = out, orphaned' \ {held[t]} = orphaned
    PROVE  Promised
  <1> DEFINE c == held[t]
  <1>1. c \in Conns /\ held'[t] = NoConn /\ \A s \in Threads \ {t} : held'[s] = held[s]
    BY DEF Hold, Placed
  <1>2. \A s \in Threads : held'[s] # c
    BY <1>1, DropHeld, ConnsAssumption DEF Placed, Exclusive
  <1>3. Owner[c] = t
    BY <1>1, OwnerIs
  <1> HIDE DEF c
  <1>4. \A d \in Conns \ {c} : Stays(d)
    BY <1>1, ConnsAssumption DEF Stays, c
  <1>5. Owner' = [Owner EXCEPT ![c] = Owner'[c]]
    BY <1>1, <1>4, OneMoves
  <1>6. Owner'[c] \in {"idle", "result", "orphan", "none"}
    <2>1. c \in Idle' \/ c \in out' \/ c \in orphaned' \/ c \notin open'
      BY <1>2 DEF Idle, Placed, Accounted, Held
    <2> QED
      BY <1>1, <2>1, OwnerNext
  <1>7. \/ Lease!GiveBack(c, t) \/ Lease!Keep(c, t)
        \/ Lease!Abandon(c, t) \/ Lease!Close(c, t)
    BY <1>3, <1>5, <1>6 DEF Lease!GiveBack, Lease!Keep, Lease!Abandon, Lease!Close, Lease!Moves
  <1> QED
    BY <1>1, <1>7 DEF Promised, Lease!LeaseNext

\* What a released connection changes.
LEMMA LeaseReleased ==
    ASSUME Placed, Placed', NEW t \in Threads, held[t] # NoConn, Hold(t, NoConn),
           Discard(held[t]) \/ Release(held[t]), UNCHANGED <<connections, out, orphaned>>
    PROVE  Promised
  <1>1. held[t] \in Held /\ held[t] \notin Idle \cup out \cup orphaned
    BY DropHeld DEF Idle, Placed, Exclusive
  <1>2. Pooled' = Pooled /\ (free' = free \/ free' = free \cup {held[t]})
    BY DEF Pooled, Discard, Release
  <1>3. Idle' \ {held[t]} = Idle
    BY <1>1, <1>2 DEF Idle
  <1> QED
    BY <1>1, <1>3, LeaseEnded

\* A connection put back on the slice.
LEMMA LeasePushed ==
    ASSUME Placed, Placed', NEW t \in Threads, held[t] # NoConn, Hold(t, NoConn),
           connections' = Append(connections, held[t]), UNCHANGED <<sqlVars, out, orphaned>>
    PROVE  Promised
  <1>1. /\ held[t] \in Held /\ held[t] \in Conns
        /\ held[t] \notin Idle \cup out \cup orphaned
    BY DropHeld DEF Idle, Placed, Exclusive
  <1>2. Pooled' = Pooled \cup {held[t]}
    BY <1>1, PushElements DEF Pooled, Idle, Placed, Exclusive
  <1>3. Idle' \ {held[t]} = Idle
    BY <1>1, <1>2 DEF Idle, sqlVars
  <1> QED
    BY <1>1, <1>3, LeaseEnded

\* A connection left with a result, a transaction or a statement.
LEMMA LeaseLeft ==
    ASSUME Placed, Placed', NEW t \in Threads, held[t] # NoConn, Hold(t, NoConn),
           \/ out' = out \cup {held[t]} /\ orphaned' = orphaned
           \/ orphaned' = orphaned \cup {held[t]} /\ out' = out,
           UNCHANGED <<sqlVars, connections>>
    PROVE  Promised
  <1>1. held[t] \in Held /\ held[t] \notin Idle \cup out \cup orphaned
    BY DropHeld DEF Idle, Placed, Exclusive
  <1>2. Idle' = Idle
    BY DEF Idle, Pooled, sqlVars
  <1> QED
    BY <1>1, <1>2, LeaseEnded

\* A result's connection is collected.
LEMMA LeaseCollected ==
    ASSUME Placed, Placed', NEW t \in Threads, held[t] = NoConn, NEW c \in Conns, c \in out,
           Hold(t, c), out' = out \ {c}, UNCHANGED <<sqlVars, connections, orphaned>>
    PROVE  Promised
  <1>1. held'[t] = c /\ \A s \in Threads \ {t} : held'[s] = held[s]
    BY DEF Hold, Placed
  <1>2. Idle' = Idle
    BY DEF Idle, Pooled, sqlVars
  <1>3. \A d \in Conns \ {c} : Stays(d)
    BY <1>1, <1>2, ConnsAssumption DEF Stays
  <1>4. Owner[c] = "result" /\ Owner'[c] = t
    BY <1>1, OwnerIs, OwnerNext
  <1>5. Lease!Collect(c, t)
    BY <1>3, <1>4, OneMoves DEF Lease!Collect, Lease!Moves
  <1> QED
    BY <1>5 DEF Promised, Lease!LeaseNext

\* An orphaned connection is closed.
LEMMA LeaseReaped ==
    ASSUME Placed, Placed', NEW c \in orphaned, Discard(c), orphaned' = orphaned \ {c},
           UNCHANGED <<connections, held, out>>
    PROVE  Promised
  <1>1. c \in Conns /\ c \notin open'
    BY DEF Placed, Discard
  <1>2. Idle' = Idle
    BY DEF Idle, Pooled, Discard
  <1>3. \A d \in Conns \ {c} : Stays(d)
    BY <1>2 DEF Stays
  <1>4. Owner[c] = "orphan" /\ Owner'[c] = "none"
    BY <1>1, OwnerIs, OwnerNext
  <1>5. Lease!Reap(c)
    BY <1>1, <1>3, <1>4, OneMoves DEF Lease!Reap, Lease!Moves
  <1> QED
    BY <1>1, <1>5 DEF Promised, Lease!LeaseNext

\* The pool is torn down: all that was idle is closed.
LEMMA LeaseTornDown ==
    ASSUME Placed, Placed', CloseDB(Pooled), connections' = <<>>, UNCHANGED <<held, out, orphaned>>
    PROVE  Promised
  <1>1. Idle' = {}
    BY DEF Idle, Pooled, ToSet, CloseDB
  <1> QED
    BY <1>1, LeaseRetires

-----------------------------------------------------------------------------
\* Every step keeps the promises.
LEMMA LeaseStep ==
    ASSUME PoolInv, PoolInv', [PoolNext]_poolState
    PROVE  Promised
  <1>a. Placed /\ Placed' /\ Control
    BY DEF PoolInv
  <1>b. \A t \in Threads : /\ pc[t] \in {"leased", "retLock"} => held[t] # NoConn
                           /\ pc[t] \notin {"leased", "retLock"} => held[t] = NoConn
    BY <1>a DEF Control, Holding
  <1> USE <1>a
  <1>1. CASE UNCHANGED poolState
    BY <1>1, LeaseStutters DEF poolState, sqlVars, poolVars
  <1>2. CASE Connecting
    BY <1>2, LeaseDialledToPool, LeaseTornDown, LeaseStutters
    DEF Connecting, Preallocate, PreallocateFails, Connected, sqlVars
  <1>3. ASSUME NEW t \in Threads, Start(t)
        PROVE  Promised
    <2>1. CASE BeginGet(t) \/ BeginClose(t)
      BY <2>1, LeaseStutters DEF BeginGet, BeginClose, sqlVars
    <2>2. ASSUME NEW c \in Conns, Collect(t, c)
          PROVE  Promised
      BY <1>b, <2>2, LeaseCollected DEF Collect
    <2> QED
      BY <1>3, <2>1, <2>2 DEF Start
  <1>4. ASSUME NEW t \in Threads, Acquire(t)
        PROVE  Promised
    <2>1. CASE GetPooled(t)
      BY <1>b, <2>1, LeasePopped DEF GetPooled
    <2>2. CASE GetPooledDead(t)
      BY <2>2, LeaseDiscarded DEF GetPooledDead
    <2>3. CASE GetEmpty(t)
      BY <2>3, LeaseStutters DEF GetEmpty, sqlVars
    <2>4. CASE ReturnDead(t)
      BY <1>b, <2>4, LeaseReleased DEF ReturnDead
    <2>5. CASE ReturnLive(t)
      BY <1>b, <2>5, LeasePushed, LeaseReleased DEF ReturnLive
    <2>6. CASE ClosePool(t)
      BY <2>6, LeaseTornDown DEF ClosePool
    <2> QED
      BY <1>4, <2>1, <2>2, <2>3, <2>4, <2>5, <2>6 DEF Acquire
  <1>5. ASSUME NEW t \in Threads, GetDial(t) \/ ReplaceDial(t) \/ FillDial(t) \/ ReportError(t)
        PROVE  Promised
    <2>1. ASSUME NEW c \in Conns, GetDialOk(t, c)
          PROVE  Promised
      BY <1>b, <2>1, LeaseDialledToCaller DEF GetDialOk
    <2>2. ASSUME NEW c \in Conns, ReplaceDialOk(t, c) \/ FillDialOk(t, c)
          PROVE  Promised
      BY <2>2, LeaseDialledToPool DEF ReplaceDialOk, FillDialOk
    <2>3. ASSUME GetDialFails(t) \/ ReplaceDialFails(t) \/ FillDialFails(t)
          PROVE  Promised
      BY <2>3, LeaseDialFails DEF GetDialFails, ReplaceDialFails, FillDialFails
    <2>4. ASSUME GetGivesUp(t) \/ ReplaceGivesUp(t) \/ ReportError(t)
          PROVE  Promised
      BY <2>4, LeaseStutters DEF GetGivesUp, ReplaceGivesUp, ReportError, sqlVars
    <2> QED
      BY <1>5, <2>1, <2>2, <2>3, <2>4 DEF GetDial, ReplaceDial, FillDial
  <1>6. ASSUME NEW t \in Threads, LeaseEnds(t)
        PROVE  Promised
    <2>1. CASE BeginReturn(t)
      BY <2>1, LeaseStutters DEF BeginReturn, sqlVars
    <2>2. CASE Drop(t)
      BY <1>b, <2>2, LeaseReleased DEF Drop
    <2>3. CASE Handoff(t) \/ Orphan(t)
      BY <1>b, <2>3, LeaseLeft DEF Handoff, Orphan
    <2> QED
      BY <1>6, <2>1, <2>2, <2>3 DEF LeaseEnds
  <1>7. CASE ReplenishLock \/ ReplenishStep
    BY <1>7, LeaseDialledToPool, LeaseDialFails, LeaseStutters
    DEF ReplenishLock, ReplenishStep, ReplenishDialOk, ReplenishDialFails, ReplenishGivesUp, sqlVars
  <1>8. CASE Reap
    BY <1>8, LeaseReaped DEF Reap
  <1>9. CASE PoolEnvironment
    <2>1. CASE ConnDies \/ ServerDown \/ ServerUp
      BY <1>9, <2>1, LeaseStutters DEF PoolEnvironment, poolVars, ConnDies, ServerDown, ServerUp
    <2>2. CASE IdleExpires
      <3>1. PICK c \in free : free' = free \ {c}
        BY <2>2 DEF IdleExpires
      <3>2. {c} \subseteq Idle /\ Idle' = Idle \ {c}
        BY <1>9, <3>1 DEF Idle, Pooled, PoolEnvironment, poolVars, Placed, Exclusive
      <3> QED
        BY <1>9, <3>2, LeaseRetires DEF PoolEnvironment, poolVars
    <2> QED
      BY <1>9, <2>1, <2>2 DEF PoolEnvironment, Environment
  <1> QED
    BY <1>1, <1>2, <1>3, <1>4, <1>5, <1>6, <1>7, <1>8, <1>9 DEF PoolNext, Continue

\* The pool keeps what ConnLease promises of every connection.
THEOREM PoolKeepsLease == PoolSpec => ImplementsLease
  <1>1. PoolInit => Lease!LeaseInit
    <2> SUFFICES ASSUME PoolInit
                 PROVE  Lease!LeaseInit
      OBVIOUS
    <2>1. Placed /\ open = {}
      BY PoolInitInv DEF PoolInv, PoolInit, SqlInit
    <2>2. \A c \in Conns : Owner[c] = "none"
      BY <2>1, OwnerIs
    <2> QED
      BY <2>2 DEF Owner, Lease!LeaseInit
  <1>2. PoolInv /\ PoolInv' /\ [PoolNext]_poolState => [Lease!LeaseNext]_Owner
    BY LeaseStep DEF Promised
  <1> QED
    BY <1>1, <1>2, PoolInvariant, PTL DEF PoolSpec, ImplementsLease, Lease!LeaseSpec
=============================================================================
