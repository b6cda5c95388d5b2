------------------------------- MODULE SqlDB -------------------------------
(***************************************************************************)
(* What the bridge relies on below it: Go's database/sql handle (sql.DB)   *)
(* that one bridge Pool owns, the driver, and the server.  None of it is   *)
(* in the repository; it is modelled from the calls the bridge makes:      *)
(* db.Conn, conn.PingContext, conn.Close, db.Close and the three Set* calls*)
(* of GodbcConnect.  The operators are joined to the bridge's actions by   *)
(* the modules that extend this one; only Environment runs by itself.      *)
(***************************************************************************)
EXTENDS Integers, FiniteSets

CONSTANTS Conns,          \* names for the physical connections
          NoConn,         \* "no connection", for an empty slot
          MinConns,       \* GodbcConnect's minConns, also SetMaxIdleConns
          MaxConns,       \* GodbcConnect's maxConns, 0 is "no limit" to sql.DB
          RetryAttempts,  \* GodbcConnect's retryAttempts
          MaxFaults       \* bound: how many faults the environment injects

ASSUME ConnsAssumption  == IsFiniteSet(Conns) /\ NoConn \notin Conns
ASSUME LimitsAssumption == /\ MinConns \in Nat
                           /\ MaxConns \in Nat
                           /\ RetryAttempts \in Nat
                           /\ MaxFaults \in Nat

VARIABLES open,      \* connections sql.DB counts as open, idle ones included
          free,      \* open connections idle inside sql.DB
          dbClosed,  \* db.Close was called
          up,        \* the server accepts connections
          dead,      \* open connections whose next ping fails
          faults     \* faults injected so far

sqlVars == <<open, free, dbClosed, up, dead, faults>>

SqlTypeOK ==
    /\ open \subseteq Conns
    /\ free \subseteq open
    /\ dead \subseteq open
    /\ dbClosed \in BOOLEAN
    /\ up \in BOOLEAN
    /\ faults \in 0..MaxFaults

SqlInit ==
    /\ open = {} /\ free = {} /\ dead = {}
    /\ dbClosed = FALSE
    /\ up = TRUE
    /\ faults = 0

(***************************************************************************)
(* The settings GodbcConnect makes.  SetMaxIdleConns(0) keeps no idle      *)
(* connection, and sql.DB never keeps more idle ones than it may open.     *)
(***************************************************************************)
Limited == MaxConns > 0
MaxIdle == IF Limited /\ MaxConns < MinConns THEN MaxConns ELSE MinConns

\* Mutant of AtLimit: the limit is noticed one connection late.
AtLimitLate == Limited /\ Cardinality(open) > MaxConns

AtLimit == Limited /\ Cardinality(open) >= MaxConns

-----------------------------------------------------------------------------
(***************************************************************************)
(* db.Conn(context.Background()) followed by a ping.  db.Conn prefers an   *)
(* idle connection, dials a new one below the limit, and otherwise WAITS,  *)
(* without a timeout, until a connection is released: then neither DialOk  *)
(* nor DialFails is enabled.                                               *)
(***************************************************************************)
DialOk(c) ==
    /\ ~dbClosed /\ up
    /\ \/ /\ c \in free \ dead
          /\ free' = free \ {c}
          /\ UNCHANGED open
       \/ /\ free = {} /\ ~AtLimit
          /\ c \in Conns \ open
          /\ open' = open \cup {c}
          /\ UNCHANGED free
    /\ UNCHANGED <<dbClosed, up, dead, faults>>

\* The call fails: the handle is closed, the server is down, this one login or
\* ping fails although the server is up, or the idle connection it handed out
\* does not answer the ping and is closed for it.
DialFails ==
    \/ /\ dbClosed \/ (~up /\ free = {} /\ ~AtLimit)
       /\ UNCHANGED sqlVars
    \/ /\ ~dbClosed /\ up /\ free = {} /\ ~AtLimit
       /\ faults < MaxFaults
       /\ faults' = faults + 1
       /\ UNCHANGED <<open, free, dbClosed, up, dead>>
    \/ \E c \in free \cap dead :
          /\ ~dbClosed
          /\ open' = open \ {c}
          /\ free' = free \ {c}
          /\ dead' = dead \ {c}
          /\ UNCHANGED <<dbClosed, up, faults>>

\* conn.Close() of a connection that failed: it is gone.
Discard(c) ==
    /\ open' = open \ {c}
    /\ dead' = dead \ {c}
    /\ UNCHANGED <<free, dbClosed, up, faults>>

\* conn.Close() of a healthy connection: sql.DB keeps it idle if it may.
KeepsIdle(c) == c \notin dead /\ ~dbClosed /\ Cardinality(free) < MaxIdle

Release(c) ==
    \/ /\ KeepsIdle(c)
       /\ free' = free \cup {c}
       /\ UNCHANGED <<open, dead, dbClosed, up, faults>>
    \/ ~KeepsIdle(c) /\ Discard(c)

\* conn.Close() on every connection of S, then db.Close(): the idle ones go
\* too, the connections in use stay until their users close them.
CloseDB(S) ==
    /\ open' = open \ (S \cup free)
    /\ dead' = dead \ (S \cup free)
    /\ free' = {}
    /\ dbClosed' = TRUE
    /\ UNCHANGED <<up, faults>>

-----------------------------------------------------------------------------
(* The environment: faults, recovery, and SetConnMaxLifetime. *)

ConnDies ==
    /\ faults < MaxFaults
    /\ \E c \in open \ dead : dead' = dead \cup {c}
    /\ faults' = faults + 1
    /\ UNCHANGED <<open, free, dbClosed, up>>

ServerDown ==
    /\ faults < MaxFaults
    /\ up /\ up' = FALSE
    /\ dead' = open
    /\ faults' = faults + 1
    /\ UNCHANGED <<open, free, dbClosed>>

ServerUp ==
    /\ ~up /\ up' = TRUE
    /\ UNCHANGED <<open, free, dbClosed, dead, faults>>

IdleExpires ==
    /\ \E c \in free : /\ free' = free \ {c}
                       /\ open' = open \ {c}
                       /\ dead' = dead \ {c}
    /\ UNCHANGED <<dbClosed, up, faults>>

Environment == ConnDies \/ ServerDown \/ ServerUp \/ IdleExpires
=============================================================================
