------------------------ MODULE GodbcHandles_proofs ------------------------
(***************************************************************************)
(* Under safe use, the handle table keeps its promises for any number of   *)
(* threads, objects and handles.                                           *)
(***************************************************************************)
EXTENDS GodbcHandles, TLAPS

(***************************************************************************)
(* The strengthening.  ClaimsHonoured alone says nothing of nextID: it is  *)
(* kept because every handle given out or removed is below nextID, and     *)
(* because a thread between h := nextID and handles[h] = obj is the only   *)
(* one, so that the number it read is still unused.                        *)
(***************************************************************************)
Given == Live \cup retired

Unused(t) ==
    /\ hpc[t] = "bumpID"   => reg[t] = nextID
    /\ hpc[t] = "rawWrite" => reg[t] \in Nat /\ reg[t] + 1 = nextID /\ reg[t] \notin Given

TableInv ==
    /\ HandlesTypeOK
    /\ \A h \in Given : h < nextID
    /\ StaleStaysInvalid
    /\ ClaimsHonoured
    /\ \A t \in Threads : Unused(t)
    /\ \A t \in Threads : hpc[t] \in {"bumpID", "rawWrite", "rawRead"} => t \in RawThreads

\* Under safe use a thread inside an unlocked access is alone.
LEMMA Alone ==
    ASSUME SafeUse, TableInv, NEW s \in Threads, hpc[s] \in {"bumpID", "rawWrite", "rawRead"},
           NEW t \in Threads
    PROVE  s = t
  BY DEF SafeUse, TableInv

\* The table starts empty.
LEMMA TableInit == HandlesInit => TableInv
  BY HandlesAssumption DEF HandlesInit, TableInv, HandlesTypeOK, Given, Live, Unused,
     StaleStaysInvalid, ClaimsHonoured

\* Deleting an entry drops the claims on it and makes it stale.
LEMMA DeleteKeeps ==
    ASSUME TableInv, NEW h \in Nat, h \in Given, Delete(h),
           mu' \in Threads \cup {"free"},
           hpc' \in [Threads -> {"none", "locked", "bumpID", "rawWrite", "rawRead"}],
           \A t \in Threads : hpc'[t] = hpc[t] \/ hpc'[t] \in {"none", "locked"}
    PROVE  TableInv'
  <1> USE DEF TableInv, HandlesTypeOK, Given, Live, Delete
  <1>1. DOMAIN handles' = DOMAIN handles \ {h}
    OBVIOUS
  <1>2. \A k \in DOMAIN handles' : handles'[k] = handles[k]
    OBVIOUS
  <1>3. Given' \subseteq Given
    BY <1>1
  <1>4. HandlesTypeOK'
    BY <1>1, <1>2
  <1>5. StaleStaysInvalid' /\ ClaimsHonoured'
    BY <1>1, <1>2 DEF StaleStaysInvalid, ClaimsHonoured
  <1>6. \A t \in Threads : Unused(t)'
    BY <1>3 DEF Unused
  <1>7. \A t \in Threads : hpc'[t] \in {"bumpID", "rawWrite", "rawRead"} => t \in RawThreads
    OBVIOUS
  <1> QED
    BY <1>3, <1>4, <1>5, <1>6, <1>7

\* Inserting at nextID lands on an entry that was never given out.
LEMMA InsertKeeps ==
    ASSUME SafeUse, TableInv, NEW obj \in Objects, Insert(obj),
           mu' \in Threads \cup {"free"},
           NEW t \in Threads, hpc[t] \in {"none", "locked"},
           hpc' = [hpc EXCEPT ![t] = "none"]
    PROVE  TableInv'
  <1> USE DEF TableInv, HandlesTypeOK, Given, Live, Insert, Put
  <1>1. DOMAIN handles' = DOMAIN handles \cup {nextID}
    OBVIOUS
  <1>2. \A k \in DOMAIN handles : k # nextID /\ handles'[k] = handles[k]
    OBVIOUS
  <1>3. handles'[nextID] = obj /\ nextID' = nextID + 1
    OBVIOUS
  <1>a. nextID \in Nat /\ \A h \in Given : h \in Nat /\ h < nextID
    OBVIOUS
  <1>4. HandlesTypeOK'
    BY <1>1, <1>2, <1>3
  <1>5. \A h \in Given' : h < nextID'
    <2>1. \A h \in Given' : h \in Given \/ h = nextID
      BY <1>1
    <2> QED
      BY <2>1, <1>3, <1>a
  <1>6. StaleStaysInvalid'
    BY <1>1 DEF StaleStaysInvalid
  <1>7. ClaimsHonoured'
    BY <1>1, <1>2, <1>3 DEF ClaimsHonoured
  <1>8. \A s \in Threads : hpc'[s] \notin {"bumpID", "rawWrite", "rawRead"}
    BY Alone
  <1> QED
    BY <1>4, <1>5, <1>6, <1>7, <1>8 DEF Unused

\* Every step keeps the invariant.
LEMMA TableStep == SafeUse /\ TableInv /\ [HandlesNext]_tableVars => TableInv'
  <1> SUFFICES ASSUME SafeUse, TableInv, [HandlesNext]_tableVars
               PROVE  TableInv'
    OBVIOUS
  <1> USE DEF HandlesTypeOK, HGoto
  <1>0. CASE UNCHANGED tableVars
    BY <1>0 DEF tableVars, TableInv, Given, Live, Unused, StaleStaysInvalid, ClaimsHonoured
  <1>1. ASSUME NEW t \in Threads, Lock(t) \/ Unlock(t) \/ RawLookupBegins(t) \/ RawLookupEnds(t)
        PROVE  TableInv'
    BY <1>1 DEF Lock, Unlock, ReleaseMu, RawLookupBegins, RawLookupEnds, TableInv, Given, Live,
       Unused, StaleStaysInvalid, ClaimsHonoured
  <1>2. ASSUME NEW t \in Threads, NEW obj \in Objects, UnlockInserting(t, obj) \/ Store(t, obj)
        PROVE  TableInv'
    <2>1. Insert(obj) /\ mu' \in Threads \cup {"free"} /\ hpc[t] \in {"none", "locked"}
      BY <1>2 DEF UnlockInserting, Store, ReleaseMu, TableInv
    <2>2. hpc' = [hpc EXCEPT ![t] = "none"]
      BY <1>2 DEF UnlockInserting, Store, ReleaseMu, TableInv
    <2> QED
      BY <2>1, <2>2, InsertKeeps
  <1>3. ASSUME NEW t \in Threads, NEW h \in Live \cup retired,
               LockRemoving(t, h) \/ UnlockRemoving(t, h) \/ RemoveHandle(t, h)
        PROVE  TableInv'
    <2>1. Delete(h) /\ h \in Given /\ h \in Nat /\ mu' \in Threads \cup {"free"}
      BY <1>3 DEF LockRemoving, UnlockRemoving, ReleaseMu, RemoveHandle, TableInv, Given
    <2>2. /\ hpc' \in [Threads -> {"none", "locked", "bumpID", "rawWrite", "rawRead"}]
          /\ \A s \in Threads : hpc'[s] = hpc[s] \/ hpc'[s] \in {"none", "locked"}
      BY <1>3 DEF LockRemoving, UnlockRemoving, ReleaseMu, RemoveHandle, TableInv
    <2> QED
      BY <2>1, <2>2, DeleteKeeps
  <1>4. ASSUME NEW t \in Threads, NEW h \in Live, StoreAgain(t, h)
        PROVE  TableInv'
    BY <1>4 DEF StoreAgain, TableInv, Given, Live, Unused, StaleStaysInvalid, ClaimsHonoured
  <1>5. ASSUME NEW t \in Threads, RawReadID(t)
        PROVE  TableInv'
    BY <1>5 DEF RawReadID, TableInv, Given, Live, Unused, StaleStaysInvalid, ClaimsHonoured
  <1>6. ASSUME NEW t \in Threads, RawBumpID(t)
        PROVE  TableInv'
    <2>1. \A s \in Threads : s = t
      BY <1>6, Alone DEF RawBumpID
    <2>2. nextID' = nextID + 1 /\ reg[t] = nextID
      BY <1>6 DEF RawBumpID, TableInv, Unused
    <2>a. nextID \in Nat /\ (\A h \in Given : h \in Nat /\ h < nextID) /\ t \in RawThreads
      BY <1>6 DEF RawBumpID, TableInv, Given, Live
    <2>3. reg[t] \notin Given /\ \A h \in Given : h < nextID'
      BY <2>2, <2>a
    <2>4. hpc' = [hpc EXCEPT ![t] = "rawWrite"]
      BY <1>6 DEF RawBumpID
    <2>5. UNCHANGED <<mu, handles, reg, claims, retired>>
      BY <1>6 DEF RawBumpID
    <2>6. \A s \in Threads : Unused(s)'
      BY <2>1, <2>2, <2>3, <2>4, <2>5 DEF TableInv, Unused, Given, Live
    <2>7. HandlesTypeOK' /\ StaleStaysInvalid' /\ ClaimsHonoured'
      BY <2>2, <2>3, <2>4, <2>5 DEF TableInv, Live, StaleStaysInvalid, ClaimsHonoured
    <2>8. \A h \in Given' : h < nextID'
      BY <2>3, <2>5 DEF Given, Live
    <2>9. \A s \in Threads : s \in RawThreads
      BY <2>1, <2>a
    <2> QED
      BY <2>6, <2>7, <2>8, <2>9 DEF TableInv
  <1>7. ASSUME NEW t \in Threads, NEW obj \in Objects, RawWrite(t, obj)
        PROVE  TableInv'
    <2> USE <1>7 DEF RawWrite, Put, Live
    <2>1. \A s \in Threads : s = t
      BY Alone
    <2>2. reg[t] \in Nat /\ reg[t] + 1 = nextID /\ reg[t] \notin Given
      BY DEF TableInv, Unused
    <2>3. /\ DOMAIN handles' = DOMAIN handles \cup {reg[t]}
          /\ handles'[reg[t]] = obj
          /\ \A k \in DOMAIN handles : k # reg[t] /\ handles'[k] = handles[k]
      BY <2>2 DEF Given
    <2>4. HandlesTypeOK'
      BY <2>2, <2>3 DEF TableInv
    <2>5. StaleStaysInvalid' /\ ClaimsHonoured'
      BY <2>2, <2>3 DEF TableInv, Given, StaleStaysInvalid, ClaimsHonoured
    <2>6. \A h \in Given' : h < nextID'
      BY <2>2, <2>3 DEF TableInv, Given
    <2> QED
      BY <2>1, <2>4, <2>5, <2>6 DEF TableInv, Unused
  <1> QED
    BY <1>0, <1>1, <1>2, <1>3, <1>4, <1>5, <1>6, <1>7
    DEF HandlesNext, LockedAccess, RawAccess

\* Under safe use, the strengthening is an invariant.
THEOREM TableInvariant ==
    ASSUME SafeUse
    PROVE  HandlesSpec => []TableInv
  <1>1. TableInv /\ [HandlesNext]_tableVars => TableInv'
    BY TableStep
  <1> QED
    BY <1>1, TableInit, PTL DEF HandlesSpec

\* Under safe use every handle a caller holds denotes the object it was
\* returned for.
THEOREM HandlesSound ==
    ASSUME SafeUse
    PROVE  HandlesSpec => []ClaimsHonoured
  <1>1. TableInv => ClaimsHonoured
    BY DEF TableInv
  <1> QED
    BY <1>1, TableInvariant, PTL

\* Under safe use no removed handle comes back to life.
THEOREM HandlesRetired ==
    ASSUME SafeUse
    PROVE  HandlesSpec => []StaleStaysInvalid
  <1>1. TableInv => StaleStaysInvalid
    BY DEF TableInv
  <1> QED
    BY <1>1, TableInvariant, PTL

-----------------------------------------------------------------------------
(***************************************************************************)
(* The refinement of Registry.  A step that inserts gives out nextID, or   *)
(* the copy of it that a thread alone in GodbcQueryWithParams made; either *)
(* was never given out before and is within the handles there are.         *)
(***************************************************************************)
Tabled ==
    /\ handles = [h \in Live |-> handles[h]]
    /\ Live \subseteq 1..MaxID
    /\ \A t \in Threads : hpc[t] \in {"bumpID", "rawWrite"} => reg[t] \in 1..MaxID

\* A copied counter and every handle in use stay within the bound.
LEMMA TabledStep == TableInv /\ Tabled /\ [HandlesNext]_tableVars => Tabled'
  <1> SUFFICES ASSUME TableInv, Tabled, [HandlesNext]_tableVars
               PROVE  Tabled'
    OBVIOUS
  <1> DEFINE Map == handles' = [h \in Live' |-> handles'[h]]
             Within == Live' \subseteq 1..MaxID
             Same == UNCHANGED reg /\ \A t \in Threads : hpc'[t] = hpc[t] \/ hpc'[t] \in {"none", "locked", "rawRead"}
  <1>a. Same => \A t \in Threads : hpc'[t] \in {"bumpID", "rawWrite"} => reg'[t] \in 1..MaxID
    BY DEF Tabled
  <1>b. \A h : Delete(h) => Map /\ Within
    BY DEF Delete, Live, Tabled
  <1>c. \A h \in 1..MaxID, obj \in Objects : Put(h, obj) => Map /\ Within
    BY DEF Put, Live, Tabled
  <1>d. UNCHANGED handles => Map /\ Within
    BY DEF Tabled, Live
  <1>e. hpc \in [Threads -> {"none", "locked", "bumpID", "rawWrite", "rawRead"}]
        /\ reg \in [Threads -> Nat] /\ nextID \in Nat \ {0}
    BY DEF TableInv, HandlesTypeOK
  <1> HIDE DEF Map, Within
  <1>0. CASE UNCHANGED tableVars
    BY <1>0, <1>a, <1>d DEF tableVars, Tabled, Map, Within
  <1>1. ASSUME NEW t \in Threads,
               Lock(t) \/ Unlock(t) \/ RawLookupBegins(t) \/ RawLookupEnds(t)
               \/ \E h \in Live : StoreAgain(t, h)
        PROVE  Tabled'
    <2>1. Same /\ UNCHANGED handles
      BY <1>1, <1>e DEF Lock, Unlock, ReleaseMu, RawLookupBegins, RawLookupEnds, StoreAgain, HGoto
    <2> QED
      BY <2>1, <1>a, <1>d DEF Tabled, Map, Within
  <1>2. ASSUME NEW t \in Threads, NEW obj \in Objects, UnlockInserting(t, obj) \/ Store(t, obj)
        PROVE  Tabled'
    <2>1. Same /\ Put(nextID, obj) /\ nextID \in 1..MaxID
      BY <1>2, <1>e, HandlesAssumption DEF UnlockInserting, Store, ReleaseMu, Insert, HGoto
    <2> QED
      BY <2>1, <1>a, <1>c DEF Tabled, Map, Within
  <1>3. ASSUME NEW t \in Threads, NEW h \in Live \cup retired,
               LockRemoving(t, h) \/ UnlockRemoving(t, h) \/ RemoveHandle(t, h)
        PROVE  Tabled'
    <2>1. Same /\ Delete(h)
      BY <1>3, <1>e DEF LockRemoving, UnlockRemoving, RemoveHandle, ReleaseMu, Delete, HGoto
    <2> QED
      BY <2>1, <1>a, <1>b DEF Tabled, Map, Within
  <1>4. ASSUME NEW t \in Threads, RawReadID(t)
        PROVE  Tabled'
    <2>1. UNCHANGED handles /\ reg' = [reg EXCEPT ![t] = nextID] /\ nextID \in 1..MaxID
          /\ hpc' = [hpc EXCEPT ![t] = "bumpID"]
      BY <1>4, <1>e, HandlesAssumption DEF RawReadID, HGoto
    <2> QED
      BY <2>1, <1>d, <1>e DEF Tabled, Map, Within
  <1>5. ASSUME NEW t \in Threads, RawBumpID(t)
        PROVE  Tabled'
    <2>1. UNCHANGED <<handles, reg>> /\ hpc[t] = "bumpID" /\ hpc' = [hpc EXCEPT ![t] = "rawWrite"]
      BY <1>5 DEF RawBumpID, HGoto
    <2> QED
      BY <2>1, <1>d, <1>e DEF Tabled, Map, Within
  <1>6. ASSUME NEW t \in Threads, NEW obj \in Objects, RawWrite(t, obj)
        PROVE  Tabled'
    <2>1. Same /\ Put(reg[t], obj) /\ reg[t] \in 1..MaxID
      BY <1>6, <1>e DEF RawWrite, HGoto, Tabled
    <2> QED
      BY <2>1, <1>a, <1>c DEF Tabled, Map, Within
  <1> QED
    BY <1>0, <1>1, <1>2, <1>3, <1>4, <1>5, <1>6 DEF HandlesNext, LockedAccess, RawAccess

\* So they are in every state, under safe use.
LEMMA TabledInvariant ==
    ASSUME SafeUse
    PROVE  HandlesSpec => [](TableInv /\ Tabled)
  <1>1. HandlesInit => Tabled
    BY DEF HandlesInit, Tabled, Live
  <1>2. TableInv /\ Tabled /\ [HandlesNext]_tableVars => Tabled'
    BY TabledStep
  <1> QED
    BY <1>1, <1>2, TableInvariant, PTL DEF HandlesSpec

\* An insertion at a handle that was never used.
LEMMA PutGives ==
    ASSUME NEW h \in 1..MaxID, h \notin Given, NEW obj \in Objects, Put(h, obj), UNCHANGED retired
    PROVE  Table!RegistryNext
  <1>1. DOMAIN handles' = DOMAIN handles \cup {h}
    BY DEF Put, Live
  <1>2. (Live \cup retired)' = (Live \cup retired) \cup {h}
    BY <1>1 DEF Live
  <1>3. Table!Give(h, obj)
    BY <1>2 DEF Table!Give, Put, Live, Given
  <1> QED
    BY <1>3 DEF Table!RegistryNext

\* A deletion removes a handle, or finds none.
LEMMA DeleteForgets ==
    ASSUME TableInv, Tabled, NEW h \in Given, Delete(h)
    PROVE  Table!RegistryNext \/ UNCHANGED <<handles, Live \cup retired>>
  <1>1. DOMAIN handles' = DOMAIN handles \ {h} /\ handles' = [k \in Live \ {h} |-> handles[k]]
    BY DEF Delete, Live
  <1>2. CASE h \in Live
    <2>1. (Live \cup retired)' = Live \cup retired
      BY <1>1, <1>2 DEF Delete, Live
    <2> QED
      BY <1>1, <1>2, <2>1 DEF Table!RegistryNext, Table!Forget, Live, Tabled
  <1>3. CASE h \notin Live
    BY <1>1, <1>3 DEF Live, Tabled, Delete
  <1> QED
    BY <1>2, <1>3

\* Under safe use the table is a registry: whatever the locks and the counter
\* do, a handle is given out once and means one object until it is removed.
THEOREM HandlesRefineRegistry ==
    ASSUME SafeUse
    PROVE  HandlesSpec => ImplementsRegistry
  <1>1. HandlesInit => Table!RegistryInit
    BY DEF HandlesInit, Table!RegistryInit, Live
  <1>2. ASSUME TableInv, Tabled, [HandlesNext]_tableVars
        PROVE  [Table!RegistryNext]_(Table!registryVars)
    <2> DEFINE Goal == Table!RegistryNext \/ UNCHANGED <<handles, Live \cup retired>>
    <2> SUFFICES Goal
      BY DEF Table!registryVars
    <2>0. CASE UNCHANGED tableVars
      BY <2>0 DEF tableVars, Live
    <2>1. ASSUME NEW t \in Threads,
                 \/ Lock(t) \/ Unlock(t) \/ RawLookupBegins(t) \/ RawLookupEnds(t)
                 \/ RawReadID(t) \/ RawBumpID(t) \/ \E h \in Live : StoreAgain(t, h)
          PROVE  Goal
      BY <2>1 DEF Lock, Unlock, RawLookupBegins, RawLookupEnds, RawReadID, RawBumpID,
         StoreAgain, Live
    <2>2. ASSUME NEW t \in Threads, NEW obj \in Objects, UnlockInserting(t, obj) \/ Store(t, obj)
          PROVE  Goal
      <3>1. Put(nextID, obj) /\ UNCHANGED retired /\ nextID \in 1..MaxID
        BY <2>2, <1>2, HandlesAssumption
        DEF UnlockInserting, Store, Insert, TableInv, HandlesTypeOK
      <3>2. nextID \notin Given
        BY <1>2 DEF TableInv, HandlesTypeOK
      <3> QED
        BY <3>1, <3>2, PutGives
    <2>3. ASSUME NEW t \in Threads, NEW h \in Live \cup retired,
                 LockRemoving(t, h) \/ UnlockRemoving(t, h) \/ RemoveHandle(t, h)
          PROVE  Goal
      <3>1. Delete(h) /\ h \in Given
        BY <2>3 DEF LockRemoving, UnlockRemoving, RemoveHandle, Given
      <3> QED
        BY <3>1, <1>2, DeleteForgets
    <2>4. ASSUME NEW t \in Threads, NEW obj \in Objects, RawWrite(t, obj)
          PROVE  Goal
      <3>1. Put(reg[t], obj) /\ UNCHANGED retired /\ reg[t] \in 1..MaxID /\ reg[t] \notin Given
        BY <2>4, <1>2 DEF RawWrite, TableInv, Unused, Tabled
      <3> QED
        BY <3>1, PutGives
    <2> QED
      BY <1>2, <2>0, <2>1, <2>2, <2>3, <2>4 DEF HandlesNext, LockedAccess, RawAccess
  <1> QED
    BY <1>1, <1>2, TabledInvariant, PTL DEF HandlesSpec, ImplementsRegistry, Table!RegistrySpec

=============================================================================
