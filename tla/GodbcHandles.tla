---------------------------- MODULE GodbcHandles ----------------------------
(***************************************************************************)
(* The handle table of bridge/bridge.go: the globals mu, handles and       *)
(* nextID, and every way the exported functions reach them.                *)
(*                                                                         *)
(* A section under mu that does nothing else is one action.  GodbcQuery,   *)
(* GodbcExecuteWithParams, GodbcCloseRows and GodbcClose keep mu over their*)
(* work on the pool: Lock, the work, then an access and Unlock.  Two kinds *)
(* of access use no lock, and are split at each access to shared memory:   *)
(* the insertion of GodbcQueryWithParams (h := nextID; nextID++;           *)
(* handles[h] = ...) and the lookup of GodbcExecuteInTransaction[WithParams].*)
(*                                                                         *)
(* claims is what the callers believe: a pair <<h, obj>> from the moment a *)
(* function returns h for obj until some caller removes h.                 *)
(***************************************************************************)
EXTENDS Callers, Integers

CONSTANTS Objects,     \* pools, results, transactions and statements
          RawThreads,  \* threads that call the functions without a lock
          MaxID        \* bound: the largest handle a run gives out

ASSUME HandlesAssumption == RawThreads \subseteq Threads /\ MaxID \in Nat

VARIABLES mu,       \* who holds mu for writing, a thread or "free"
          handles,  \* the map from handles to objects
          nextID,   \* the next handle
          hpc,      \* where a thread is in an access to the table
          reg,      \* the copy of nextID in GodbcQueryWithParams
          claims,   \* what callers were told and may still use
          retired   \* handles that were removed

tableVars == <<mu, handles, nextID, hpc, reg, claims, retired>>

\* Mutant: the first handle is 0, which callers take for "no handle".
HandlesInitZero ==
    /\ mu = "free"
    /\ handles = [h \in {} |-> h]
    /\ nextID = 0
    /\ hpc = [t \in Threads |-> "none"]
    /\ reg = [t \in Threads |-> 0]
    /\ claims = {} /\ retired = {}

HandlesInit ==
    /\ mu = "free"
    /\ handles = [h \in {} |-> h]
    /\ nextID = 1
    /\ hpc = [t \in Threads |-> "none"]
    /\ reg = [t \in Threads |-> 0]
    /\ claims = {} /\ retired = {}

Live == DOMAIN handles

\* handles[h] = obj, on a new key or over an old value.
Put(h, obj) == handles' = [k \in Live \cup {h} |-> IF k = h THEN obj ELSE handles[k]]

\* Mutant: handles are recycled.
DeleteRecycling(h) ==
    /\ handles' = [k \in Live \ {h} |-> handles[k]]
    /\ claims' = {cl \in claims : cl[1] # h}
    /\ retired' = IF h \in Live THEN retired \cup {h} ELSE retired
    /\ nextID' = h
    /\ UNCHANGED reg

\* delete(handles, h); the caller that asked gives its claim up.
Delete(h) ==
    /\ handles' = [k \in Live \ {h} |-> handles[k]]
    /\ claims' = {cl \in claims : cl[1] # h}
    /\ retired' = IF h \in Live THEN retired \cup {h} ELSE retired
    /\ UNCHANGED <<nextID, reg>>

\* h := nextID; nextID++; handles[h] = obj; return h
Insert(obj) ==
    /\ Put(nextID, obj)
    /\ nextID' = nextID + 1
    /\ claims' = claims \cup {<<nextID, obj>>}
    /\ UNCHANGED <<reg, retired>>

HGoto(t, to) == hpc' = [hpc EXCEPT ![t] = to]
Fresh(obj)   == \A cl \in claims : cl[2] # obj

-----------------------------------------------------------------------------
(* Accesses under mu. *)

\* GodbcQuery and the other long holders.
Lock(t) ==
    /\ mu = "free" /\ hpc[t] = "none"
    /\ mu' = t
    /\ HGoto(t, "locked")
    /\ UNCHANGED <<handles, nextID, reg, claims, retired>>

ReleaseMu(t) ==
    /\ mu = t /\ hpc[t] = "locked"
    /\ mu' = "free"
    /\ HGoto(t, "none")

\* GodbcCloseRows deletes the entry as soon as it has mu.
LockRemoving(t, h) ==
    /\ mu = "free" /\ hpc[t] = "none"
    /\ h \in Live
    /\ mu' = t
    /\ HGoto(t, "locked")
    /\ Delete(h)

\* An error, or a function that changes nothing: unlock.
Unlock(t) == ReleaseMu(t) /\ UNCHANGED <<handles, nextID, reg, claims, retired>>

\* GodbcQuery's result is inserted before mu is released.
UnlockInserting(t, obj) ==
    /\ nextID <= MaxID /\ Fresh(obj)
    /\ ReleaseMu(t)
    /\ Insert(obj)

\* GodbcClose deletes the entry last.
UnlockRemoving(t, h) == h \in Live /\ ReleaseMu(t) /\ Delete(h)

\* GodbcBeginTransaction's insertion, and storeHandle for a new object.
Store(t, obj) ==
    /\ mu = "free" /\ hpc[t] = "none"
    /\ nextID <= MaxID /\ Fresh(obj)
    /\ Insert(obj)
    /\ UNCHANGED <<mu, hpc>>

\* storeHandle for an object the table already has: a handle of it is returned.
StoreAgain(t, h) ==
    /\ mu = "free" /\ hpc[t] = "none"
    /\ h \in Live
    /\ claims' = claims \cup {<<h, handles[h]>>}
    /\ UNCHANGED <<mu, handles, nextID, hpc, reg, retired>>

\* removeHandle and GodbcReturnConnection: delete, present or not.
RemoveHandle(t, h) ==
    /\ mu = "free" /\ hpc[t] = "none"
    /\ Delete(h)
    /\ UNCHANGED <<mu, hpc>>

-----------------------------------------------------------------------------
(* Accesses without mu. *)

RawReadID(t) ==
    /\ t \in RawThreads /\ hpc[t] = "none"
    /\ nextID <= MaxID /\ \E obj \in Objects : Fresh(obj)
    /\ reg' = [reg EXCEPT ![t] = nextID]
    /\ HGoto(t, "bumpID")
    /\ UNCHANGED <<mu, handles, nextID, claims, retired>>

\* Mutant: nextID++ is missing.
RawBumpIDSkipped(t) ==
    /\ hpc[t] = "bumpID"
    /\ HGoto(t, "rawWrite")
    /\ UNCHANGED <<mu, handles, nextID, reg, claims, retired>>

\* nextID++ loads nextID again, or the compiler kept the value it read.
RawBumpID(t) ==
    /\ hpc[t] = "bumpID"
    /\ nextID' \in {nextID + 1, reg[t] + 1}
    /\ HGoto(t, "rawWrite")
    /\ UNCHANGED <<mu, handles, reg, claims, retired>>

RawWrite(t, obj) ==
    /\ hpc[t] = "rawWrite" /\ Fresh(obj)
    /\ Put(reg[t], obj)
    /\ claims' = claims \cup {<<reg[t], obj>>}
    /\ HGoto(t, "none")
    /\ UNCHANGED <<mu, nextID, reg, retired>>

\* The map lookup of GodbcExecuteInTransaction, from its start to its end.
RawLookupBegins(t) ==
    /\ t \in RawThreads /\ hpc[t] = "none"
    /\ HGoto(t, "rawRead")
    /\ UNCHANGED <<mu, handles, nextID, reg, claims, retired>>

RawLookupEnds(t) ==
    /\ hpc[t] = "rawRead"
    /\ HGoto(t, "none")
    /\ UNCHANGED <<mu, handles, nextID, reg, claims, retired>>

-----------------------------------------------------------------------------
LockedAccess(t) ==
    \/ Lock(t) \/ Unlock(t)
    \/ \E obj \in Objects : UnlockInserting(t, obj) \/ Store(t, obj)
    \/ \E h \in Live : LockRemoving(t, h) \/ UnlockRemoving(t, h) \/ StoreAgain(t, h)
    \/ \E h \in Live \cup retired : RemoveHandle(t, h)

RawAccess(t) ==
    \/ RawReadID(t) \/ RawBumpID(t)
    \/ \E obj \in Objects : RawWrite(t, obj)
    \/ RawLookupBegins(t) \/ RawLookupEnds(t)

HandlesNext == \E t \in Threads : LockedAccess(t) \/ RawAccess(t)

HandlesSpec == HandlesInit /\ [][HandlesNext]_tableVars

\* The use of the bridge under which the table is sound: the functions that
\* reach it without mu are not called, or there is one thread.
SafeUse == RawThreads = {} \/ \A s, t \in Threads : s = t

-----------------------------------------------------------------------------
(* Properties. *)

\* Type invariant.
HandlesTypeOK ==
    /\ mu \in Threads \cup {"free"}
    /\ nextID \in Nat \ {0}
    /\ Live \subseteq Nat
    /\ \A h \in Live : handles[h] \in Objects
    /\ hpc \in [Threads -> {"none", "locked", "bumpID", "rawWrite", "rawRead"}]
    /\ reg \in [Threads -> Nat]
    /\ claims \subseteq Nat \X Objects
    /\ retired \subseteq Nat

\* A handle a function returned denotes the object it was returned for until
\* a caller removes it: no insertion ever lands on another one's entry.
ClaimsHonoured == \A cl \in claims : cl[1] \in Live /\ handles[cl[1]] = cl[2]

\* A removed handle stays invalid: a stale handle that a caller kept never
\* reaches an object created later.
StaleStaysInvalid == retired \cap Live = {}

\* The table as its users see it.
Table == INSTANCE Registry WITH
            Handle <- 1..MaxID,
            Entry <- Objects,
            entries <- handles,
            given <- Live \cup retired

\* Every access, under mu or not, gives out a handle that was never used
\* before, removes one, or leaves the table alone.
ImplementsRegistry == Table!RegistrySpec

Accessing(t) == hpc[t] \in {"bumpID", "rawWrite", "rawRead"}

\* Between the start of an unlocked access and its end, no other thread
\* writes the map or nextID: the Go runtime aborts the process when it sees a
\* concurrent map write, and the outcome is undefined when it does not.
NoDataRace ==
    [][ \A s \in Threads : Accessing(s) /\ hpc'[s] = hpc[s] =>
          UNCHANGED <<handles, nextID>> ]_tableVars
=============================================================================
