-------------------------- MODULE CppWrappers_proofs --------------------------
(***************************************************************************)
(* Proofs about CppWrappers, for any number of objects and handles.        *)
(*                                                                         *)
(* The inductive core: a handle that was given out is either held          *)
(* by one open object, never ended, and in the table as what the object is *)
(* (Owned), or was ended once and has no holder (Over).  What happened to  *)
(* a transaction is part of both: while it is owned nobody asked for its   *)
(* commit, and once it is over what was asked for is what was done.        *)
(***************************************************************************)
EXTENDS CppWrappers, TLAPS

HeldBy(h, w) == Open(w) /\ obj[w].handle = h

Results == {"begun", "row", "failed", "over", "changed", "committed", "undone"}

AsAsked(h) == /\ progress[h] # "changed"
              /\ commitOf[h] = "done" => progress[h] = "committed"
              /\ progress[h] = "committed" => commitOf[h] # "no"

Owned(h) == /\ ends[h] = 0
            /\ commitOf[h] = "no"
            /\ progress[h] \in {"begun", "row", "failed", "changed"}
            /\ progress[h] = "changed" => table[h] = "tx"
            /\ \E w \in Wrappers : /\ HeldBy(h, w)
                                   /\ table[h] = obj[w].cls
                                   /\ \A v \in Wrappers : HeldBy(h, v) => v = w
Over(h)  == /\ ends[h] = 1
            /\ table[h] \in {"none", "tx"}
            /\ AsAsked(h)
            /\ \A w \in Wrappers : ~HeldBy(h, w)

NoObjects == \A w \in Wrappers : ~Exists(w) => obj[w] = NoObject

WrapperInv ==
    /\ WrapperTypeOK
    /\ NoObjects
    /\ \A w \in Wrappers : Open(w) => obj[w].handle \in Created
    /\ \A h \in Created : Owned(h) \/ Over(h)
    /\ \A h \in Handles \ Created : /\ table[h] = "none" /\ ends[h] = 0
                                   /\ progress[h] = "begun" /\ commitOf[h] = "no"

\* No object, no handle.
LEMMA WrapperInitInv == WrapperInit => WrapperInv
  BY WrappersAssumption DEF WrapperInit, WrapperInv, WrapperTypeOK, NoObjects, NoObject, Open,
     Exists, Created, Handles, Owned, Over, Classes

\* An open object's handle is its own, and the closing call is made with it.
LEMMA OpenOwns ==
    ASSUME WrapperInv, NEW w \in Wrappers, Open(w)
    PROVE  /\ obj[w].handle \in Created
           /\ obj[w].handle # 0
           /\ ends[obj[w].handle] = 0
           /\ table[obj[w].handle] = obj[w].cls
           /\ commitOf[obj[w].handle] = "no"
           /\ progress[obj[w].handle] \in {"begun", "row", "failed", "changed"}
           /\ progress[obj[w].handle] = "changed" => table[obj[w].handle] = "tx"
           /\ \A v \in Wrappers : HeldBy(obj[w].handle, v) => v = w
  <1>1. obj[w].handle \in Created
    BY DEF WrapperInv
  <1>2. Owned(obj[w].handle)
    BY <1>1 DEF WrapperInv, Over, HeldBy
  <1>3. obj[w].handle # 0
    BY <1>1 DEF Created, Handles
  <1> QED
    BY <1>1, <1>2, <1>3 DEF Owned, HeldBy

\* What ending an open object's handle does to the bridge.
LEMMA EndedOpen ==
    ASSUME WrapperInv, NEW w \in Wrappers, NEW how \in {"committed", "undone"},
           Open(w), Ended(w, how)
    PROVE  LET h == obj[w].handle
           IN  /\ ends' = [ends EXCEPT ![h] = 1]
               /\ table' \in [Handles -> Classes \cup {"none"}]
               /\ table'[h] \in {"none", "tx"}
               /\ \A g \in Handles : g # h => table'[g] = table[g]
               /\ progress' \in [Handles -> Results]
               /\ progress'[h] # "changed"
               /\ progress'[h] = "committed" => how = "committed"
               /\ obj[w].cls = "tx" /\ table'[h] = "none" => progress'[h] = how
               /\ \A g \in Handles : g # h => progress'[g] = progress[g]
  <1> DEFINE h == obj[w].handle
  <1>1. /\ h \in Handles /\ h # 0 /\ ends[h] = 0 /\ table[h] = obj[w].cls
        /\ progress[h] \in {"begun", "row", "failed", "changed"}
        /\ progress[h] = "changed" => table[h] = "tx"
    BY OpenOwns DEF Created
  <1>2. ClosingCall(obj[w].cls, h, how)
    BY <1>1 DEF Ended
  <1>3. /\ table \in [Handles -> Classes \cup {"none"}]
        /\ progress \in [Handles -> Results]
    BY DEF WrapperInv, WrapperTypeOK, Results
  <1>4. /\ \/ Deleted(h)
           \/ table[h] = "tx" /\ UNCHANGED table
        /\ ends' = [ends EXCEPT ![h] = 1]
    BY <1>1, <1>2 DEF ClosingCall, CloseRows, ReturnConnection, ClosePrepared, EndTransaction
  <1>5. \/ table[h] # "tx" /\ (Becomes(h, "over") \/ UNCHANGED progress)
        \/ Deleted(h) /\ Becomes(h, how)
        \/ UNCHANGED table /\ \E result \in {how, "undone"} : Becomes(h, result)
    BY <1>1, <1>2 DEF ClosingCall, CloseRows, ReturnConnection, ClosePrepared, EndTransaction
  <1>6. /\ table' \in [Handles -> Classes \cup {"none"}]
        /\ table'[h] \in {"none", "tx"}
        /\ \A g \in Handles : g # h => table'[g] = table[g]
    BY <1>1, <1>3, <1>4 DEF Deleted
  <1>7. /\ progress' \in [Handles -> Results]
        /\ \A g \in Handles : g # h => progress'[g] = progress[g]
    BY <1>1, <1>3, <1>5 DEF Becomes, Results
  <1>8. /\ progress'[h] # "changed"
        /\ progress'[h] = "committed" => how = "committed"
    BY <1>1, <1>3, <1>5 DEF Becomes
  <1>9. obj[w].cls = "tx" /\ table'[h] = "none" => progress'[h] = how
    BY <1>1, <1>3, <1>5 DEF Becomes
  <1> QED
    BY <1>4, <1>6, <1>7, <1>8, <1>9

\* A closed object ends nothing.
LEMMA EndedClosed ==
    ASSUME NEW w \in Wrappers, NEW how, ~Open(w), Ended(w, how)
    PROVE  UNCHANGED <<table, ends, progress>>
  BY DEF Ended

\* Every step keeps WrapperInv.  <1>1 is the creation of an object; <1>2 is
\* the common shape of close, the destructor and the moves: w loses its handle
\* if it has one, and may take over v's.  There f maps an object that is open
\* after the step to the one that had its handle before.
LEMMA WrapperStep == WrapperInv /\ [WrapperNext]_wrapperVars => WrapperInv'
  <1> SUFFICES ASSUME WrapperInv, [WrapperNext]_wrapperVars
               PROVE  WrapperInv'
    OBVIOUS
  <1> USE WrappersAssumption
  <1>t. /\ obj \in [Wrappers -> [cls : Classes \cup {"none"}, handle : 0..MaxHandle,
                                 closed : BOOLEAN]]
        /\ \A w \in Wrappers : obj[w].closed <=> obj[w].handle = 0
        /\ table \in [Handles -> Classes \cup {"none"}]
        /\ nextHandle \in 1..(MaxHandle + 1)
        /\ ends \in [Handles -> Nat]
        /\ progress \in [Handles -> Results]
        /\ commitOf \in [Handles -> {"no", "asked", "done"}]
        /\ NoObjects
    BY DEF WrapperInv, WrapperTypeOK, Results
  <1>1. ASSUME NEW w \in Wrappers, NEW cls \in Classes, Gets(w, cls)
        PROVE  WrapperInv'
    <2> PICK n \in Nat : n = nextHandle   \* a name that a prime leaves alone
      BY <1>t
    <2>1. n \in Handles /\ n \notin Created /\ Created' = Created \cup {n}
      BY <1>1, <1>t DEF Gets, Created, Handles
    <2>2. /\ obj' = [obj EXCEPT ![w] = Opened(cls, n)]
          /\ table' = [table EXCEPT ![n] = cls]
          /\ ends' = ends /\ ~Exists(w)
          /\ progress' = progress /\ commitOf' = commitOf
      BY <1>1 DEF Gets
    <2>3. WrapperTypeOK' /\ NoObjects'
      <3>1. /\ Opened(cls, n) \in [cls : Classes \cup {"none"}, handle : 0..MaxHandle,
                                   closed : BOOLEAN]
            /\ Opened(cls, n).handle # 0 /\ Opened(cls, n).closed = FALSE
            /\ Opened(cls, n).cls # "none"
        BY <2>1 DEF Opened, Handles, Classes
      <3>2. nextHandle' \in 1..(MaxHandle + 1)
        BY <1>1, <1>t DEF Gets
      <3>3. /\ \A v \in Wrappers : v # w => obj'[v] = obj[v]
            /\ obj'[w] = Opened(cls, n)
        BY <1>t, <2>2
      <3>4. /\ obj' \in [Wrappers -> [cls : Classes \cup {"none"}, handle : 0..MaxHandle,
                                      closed : BOOLEAN]]
            /\ \A v \in Wrappers : obj'[v].closed <=> obj'[v].handle = 0
        BY <1>t, <2>2, <3>1, <3>3
      <3>5. NoObjects'
        BY <1>t, <3>1, <3>3 DEF NoObjects, Exists
      <3>6. table' \in [Handles -> Classes \cup {"none"}] /\ ends' \in [Handles -> Nat]
        BY <1>t, <2>1, <2>2
      <3> QED
        BY <1>t, <2>2, <3>2, <3>4, <3>5, <3>6 DEF WrapperTypeOK, Results
    <2>4. \A v \in Wrappers : v # w => obj'[v] = obj[v]
      BY <1>t, <2>2
    <2>5. obj'[w] = Opened(cls, n)
      BY <1>t, <2>2
    <2>6. \A v \in Wrappers : Open(v)' => obj'[v].handle \in Created'
      BY <2>1, <2>4, <2>5 DEF WrapperInv, Open, Exists, Opened
    <2>7. \A v \in Wrappers : HeldBy(n, v)' <=> v = w
      BY <2>1, <2>4, <2>5 DEF WrapperInv, HeldBy, Open, Exists, Opened, Classes
    <2>8. Owned(n)'
      BY <1>t, <2>1, <2>2, <2>5, <2>7 DEF Owned, WrapperInv, Opened
    <2>9. ASSUME NEW h \in Created PROVE Owned(h)' \/ Over(h)'
      <3>1. h # n /\ table'[h] = table[h] /\ ends'[h] = ends[h]
        BY <1>t, <2>1, <2>2 DEF Created
      <3>2. \A v \in Wrappers : HeldBy(h, v)' <=> HeldBy(h, v)
        BY <2>2, <2>4, <2>5, <3>1 DEF HeldBy, Open, Exists, Opened
      <3>3. \A v \in Wrappers : HeldBy(h, v) => obj'[v].cls = obj[v].cls
        BY <2>2, <2>4 DEF HeldBy, Open
      <3> QED
        BY <2>2, <2>9, <3>1, <3>2, <3>3 DEF WrapperInv, Owned, Over, AsAsked
    <2>10. \A h \in Handles \ Created' : /\ table'[h] = "none" /\ ends'[h] = 0
                                         /\ progress'[h] = "begun" /\ commitOf'[h] = "no"
      BY <1>t, <2>1, <2>2 DEF WrapperInv
    <2> QED
      BY <2>1, <2>3, <2>6, <2>8, <2>9, <2>10 DEF WrapperInv
  <1>2. ASSUME NEW w \in Wrappers, NEW how \in {"committed", "undone"},
               Ended(w, how), UNCHANGED nextHandle,
               \/ how = "undone" /\ UNCHANGED commitOf
               \/ /\ Open(w) /\ obj[w].cls = "tx" /\ how = "committed"
                  /\ commitOf' = [commitOf EXCEPT ![obj[w].handle] =
                                    IF table'[obj[w].handle] = "none" THEN "done" ELSE "asked"],
               \/ /\ Exists(w)
                  /\ \/ obj' = [obj EXCEPT ![w] = Shut(obj[w].cls)]
                     \/ obj' = [obj EXCEPT ![w] = NoObject]
               \/ \E v \in Wrappers :
                    /\ v # w /\ Exists(v)
                    /\ obj' = [obj EXCEPT ![w] = obj[v], ![v] = Shut(obj[v].cls)]
        PROVE  WrapperInv'
    <2>1. Created' = Created
      BY <1>2 DEF Created
    <2>2. /\ table' \in [Handles -> Classes \cup {"none"}]
          /\ ends' \in [Handles -> Nat]
          /\ progress' \in [Handles -> Results]
          /\ commitOf' \in [Handles -> {"no", "asked", "done"}]
          /\ \A h \in Handles : ~HeldBy(h, w) =>
                /\ table'[h] = table[h] /\ ends'[h] = ends[h]
                /\ progress'[h] = progress[h] /\ commitOf'[h] = commitOf[h]
          /\ \A h \in Handles : HeldBy(h, w) =>
                table'[h] \in {"none", "tx"} /\ ends'[h] = 1 /\ AsAsked(h)'
      <3>1. CASE Open(w)
        <4>1. obj[w].handle \in Handles /\ commitOf[obj[w].handle] = "no"
          BY <3>1, OpenOwns DEF Created
        <4>2. /\ table' \in [Handles -> Classes \cup {"none"}]
              /\ ends' \in [Handles -> Nat]
              /\ progress' \in [Handles -> Results]
              /\ \A h \in Handles : ~HeldBy(h, w) =>
                    table'[h] = table[h] /\ ends'[h] = ends[h] /\ progress'[h] = progress[h]
              /\ \A h \in Handles : HeldBy(h, w) => table'[h] \in {"none", "tx"} /\ ends'[h] = 1
          BY <1>2, <1>t, <3>1, <4>1, EndedOpen DEF HeldBy
        <4>3. /\ commitOf' \in [Handles -> {"no", "asked", "done"}]
              /\ \A h \in Handles : ~HeldBy(h, w) => commitOf'[h] = commitOf[h]
          BY <1>2, <1>t, <3>1, <4>1 DEF HeldBy
        <4> PICK n \in Handles : n = obj[w].handle   \* a name that a prime leaves alone
          BY <4>1
        <4>4. AsAsked(n)'
          <5>1. /\ progress'[n] # "changed"
                /\ progress'[n] = "committed" => how = "committed"
                /\ obj[w].cls = "tx" /\ table'[n] = "none" => progress'[n] = how
            BY <1>2, <3>1, EndedOpen
          <5>2. CASE how = "undone" /\ UNCHANGED commitOf
            <6>1. commitOf'[n] = "no" /\ progress'[n] # "committed"
              BY <4>1, <5>1, <5>2
            <6> QED
              BY <5>1, <6>1 DEF AsAsked
          <5>3. CASE /\ obj[w].cls = "tx" /\ how = "committed"
                     /\ commitOf' = [commitOf EXCEPT ![n] =
                                       IF table'[n] = "none" THEN "done" ELSE "asked"]
            <6>1. commitOf'[n] = IF table'[n] = "none" THEN "done" ELSE "asked"
              BY <1>t, <4>1, <5>3
            <6> QED
              BY <5>1, <5>3, <6>1 DEF AsAsked
          <5> QED
            BY <1>2, <5>2, <5>3
        <4>5. \A h \in Handles : HeldBy(h, w) => h = n
          BY DEF HeldBy
        <4> QED
          BY <4>2, <4>3, <4>4, <4>5
      <3>2. CASE ~Open(w)
        BY <1>2, <1>t, <3>2, EndedClosed DEF HeldBy
      <3> QED
        BY <3>1, <3>2
    <2>3. WrapperTypeOK' /\ NoObjects'
      <3>1. \A v \in Wrappers : \/ obj'[v] = NoObject
                                \/ \E u \in Wrappers : Exists(u) /\ obj'[v] = Shut(obj[u].cls)
                                \/ \E u \in Wrappers : obj'[v] = obj[u]
        BY <1>2, <1>t
      <3>2. DOMAIN obj' = Wrappers /\ obj' = [v \in Wrappers |-> obj'[v]]
        BY <1>2, <1>t
      <3>3. /\ \A v \in Wrappers : obj'[v] \in [cls : Classes \cup {"none"},
                                               handle : 0..MaxHandle, closed : BOOLEAN]
            /\ \A v \in Wrappers : obj'[v].closed <=> obj'[v].handle = 0
        <4> DEFINE T == [cls : Classes \cup {"none"}, handle : 0..MaxHandle, closed : BOOLEAN]
                   Good(r) == r \in T /\ (r.closed <=> r.handle = 0)
        <4>1. Good(NoObject)
          BY DEF NoObject
        <4>2. \A cls \in Classes \cup {"none"} : Good(Shut(cls))
          BY DEF Shut
        <4>3. \A u \in Wrappers : Good(obj[u]) /\ obj[u].cls \in Classes \cup {"none"}
          BY <1>t
        <4> HIDE DEF Good
        <4>4. \A v \in Wrappers : Good(obj'[v])
          BY <3>1, <4>1, <4>2, <4>3
        <4> QED
          BY <4>4 DEF Good
      <3>4. ASSUME NEW v \in Wrappers, obj'[v].cls = "none" PROVE obj'[v] = NoObject
        <4>1. ASSUME NEW u \in Wrappers, Exists(u), obj'[v] = Shut(obj[u].cls) PROVE FALSE
          <5>1. Shut(obj[u].cls).cls = obj[u].cls
            BY DEF Shut
          <5> QED
            BY <3>4, <4>1, <5>1 DEF Exists
        <4>2. ASSUME NEW u \in Wrappers, obj'[v] = obj[u] PROVE obj'[v] = NoObject
          BY <1>t, <3>4, <4>2 DEF NoObjects, Exists
        <4> QED
          BY <3>1, <4>1, <4>2
      <3>5. NoObjects'
        BY <3>4 DEF NoObjects, Exists, NoObject
      <3>6. obj' \in [Wrappers -> [cls : Classes \cup {"none"}, handle : 0..MaxHandle,
                                  closed : BOOLEAN]]
        BY <3>2, <3>3
      <3> QED
        BY <1>2, <1>t, <2>2, <3>3, <3>5, <3>6 DEF WrapperTypeOK, Results
    <2>4. \E f \in [Wrappers -> Wrappers] :
            /\ \A v \in Wrappers : Open(v)' => obj'[v] = obj[f[v]] /\ Open(f[v]) /\ f[v] # w
            /\ \A v \in Wrappers : Open(v) /\ v # w =>
                 \E u \in Wrappers : f[u] = v /\ Open(u)'
            /\ \A u, v \in Wrappers : Open(u)' /\ Open(v)' /\ f[u] = f[v] => u = v
      <3>1. CASE \E v \in Wrappers :
                    /\ v # w /\ Exists(v)
                    /\ obj' = [obj EXCEPT ![w] = obj[v], ![v] = Shut(obj[v].cls)]
        <4>1. PICK v \in Wrappers :
                    /\ v # w /\ Exists(v)
                    /\ obj' = [obj EXCEPT ![w] = obj[v], ![v] = Shut(obj[v].cls)]
          BY <3>1
        <4> DEFINE f == [u \in Wrappers |-> IF u = w THEN v ELSE IF u = v THEN w ELSE u]
        <4>2. f \in [Wrappers -> Wrappers]
          OBVIOUS
        <4>3. /\ obj'[w] = obj[v] /\ obj'[v].closed = TRUE
              /\ \A u \in Wrappers : u # w /\ u # v => obj'[u] = obj[u]
          BY <1>t, <4>1 DEF Shut
        <4>4. \A u \in Wrappers : Open(u)' => obj'[u] = obj[f[u]] /\ Open(f[u]) /\ f[u] # w
          BY <4>1, <4>3 DEF Open, Exists
        <4>5. \A u \in Wrappers : Open(u) /\ u # w => f[f[u]] = u /\ Open(f[u])'
          BY <4>1, <4>3 DEF Open, Exists
        <4>6. \A u, x \in Wrappers : f[u] = f[x] => u = x
          BY <4>1
        <4> QED
          BY <4>2, <4>4, <4>5, <4>6
      <3>2. CASE \/ obj' = [obj EXCEPT ![w] = Shut(obj[w].cls)]
                 \/ obj' = [obj EXCEPT ![w] = NoObject]
        <4> DEFINE f == [u \in Wrappers |-> u]
        <4>1. f \in [Wrappers -> Wrappers] /\ \A u \in Wrappers : f[u] = u
          OBVIOUS
        <4>2. obj'[w].closed = TRUE /\ \A u \in Wrappers : u # w => obj'[u] = obj[u]
          BY <1>t, <3>2 DEF Shut, NoObject
        <4>3. \A u \in Wrappers : Open(u)' => obj'[u] = obj[u] /\ Open(u) /\ u # w
          BY <4>2 DEF Open, Exists
        <4>4. \A u \in Wrappers : Open(u) /\ u # w => Open(u)'
          BY <4>2 DEF Open, Exists
        <4> QED
          BY <4>1, <4>3, <4>4
      <3> QED
        BY <1>2, <3>1, <3>2
    <2>5. PICK f \in [Wrappers -> Wrappers] :
            /\ \A v \in Wrappers : Open(v)' => obj'[v] = obj[f[v]] /\ Open(f[v]) /\ f[v] # w
            /\ \A v \in Wrappers : Open(v) /\ v # w =>
                 \E u \in Wrappers : f[u] = v /\ Open(u)'
            /\ \A u, v \in Wrappers : Open(u)' /\ Open(v)' /\ f[u] = f[v] => u = v
      BY <2>4
    <2>6. \A v \in Wrappers : Open(v)' => obj'[v].handle \in Created'
      BY <2>1, <2>5 DEF WrapperInv
    <2>7. ASSUME NEW h \in Created PROVE Owned(h)' \/ Over(h)'
      <3>1. h \in Handles
        BY DEF Created
      <3>2. CASE HeldBy(h, w)
        <4>1. ends'[h] = 1 /\ table'[h] \in {"none", "tx"} /\ AsAsked(h)'
          BY <2>2, <3>1, <3>2
        <4>2. \A v \in Wrappers : HeldBy(h, v) => v = w
          BY <3>2, OpenOwns DEF HeldBy
        <4>3. \A v \in Wrappers : ~HeldBy(h, v)'
          BY <2>5, <4>2 DEF HeldBy
        <4> QED
          BY <4>1, <4>3 DEF Over
      <3>3. CASE ~HeldBy(h, w) /\ Over(h)
        <4>1. \A v \in Wrappers : ~HeldBy(h, v)'
          BY <2>5, <3>3 DEF Over, HeldBy
        <4> QED
          BY <2>2, <3>1, <3>3, <4>1 DEF Over, AsAsked
      <3>4. CASE ~HeldBy(h, w) /\ Owned(h)
        <4>1. PICK v \in Wrappers : /\ HeldBy(h, v) /\ table[h] = obj[v].cls
                                    /\ \A x \in Wrappers : HeldBy(h, x) => x = v
          BY <3>4 DEF Owned
        <4>2. v # w
          BY <3>4, <4>1
        <4>3. PICK u \in Wrappers : f[u] = v /\ Open(u)'
          BY <2>5, <4>1, <4>2 DEF HeldBy
        <4>4. obj'[u] = obj[v] /\ HeldBy(h, u)'
          BY <2>5, <4>1, <4>3 DEF HeldBy
        <4>5. \A x \in Wrappers : HeldBy(h, x)' => x = u
          BY <2>5, <4>1, <4>3 DEF HeldBy
        <4> QED
          BY <2>2, <3>1, <3>4, <4>1, <4>4, <4>5 DEF Owned
      <3> QED
        BY <3>2, <3>3, <3>4 DEF WrapperInv
    <2>8. \A h \in Handles \ Created' : /\ table'[h] = "none" /\ ends'[h] = 0
                                        /\ progress'[h] = "begun" /\ commitOf'[h] = "no"
      <3>1. \A h \in Handles \ Created : ~HeldBy(h, w)
        BY DEF WrapperInv, HeldBy
      <3> QED
        BY <2>1, <2>2, <3>1 DEF WrapperInv
    <2> QED
      BY <2>1, <2>3, <2>6, <2>7, <2>8 DEF WrapperInv
  <1>3. ASSUME NEW w \in Wrappers, Close(w) \/ Commit(w) \/ Destroy(w) \/ NextEnds(w)
        PROVE  WrapperInv'
    <2>1. CASE Commit(w)
      BY <1>2, <2>1 DEF Commit, Open
    <2>2. CASE Close(w) \/ Destroy(w)
      BY <1>2, <2>2 DEF Close, Destroy, Open, Ends
    <2>3. CASE NextEnds(w)
      BY <1>2, <2>3 DEF NextEnds, Open, Ends
    <2> QED
      BY <1>3, <2>1, <2>2, <2>3
  <1>4. ASSUME NEW w \in Wrappers, NEW v \in Wrappers,
               MoveConstruct(w, v) \/ MoveAssign(w, v)
        PROVE  WrapperInv'
    <2>1. MoveConstruct(w, v) => Ends(w) /\ v # w
      BY DEF MoveConstruct, Ends, Ended, Open
    <2> QED
      BY <1>2, <1>4, <2>1 DEF MoveConstruct, MoveAssign, Ends
  <1>5. ASSUME UNCHANGED wrapperVars
        PROVE  WrapperInv'
    BY <1>5 DEF wrapperVars, WrapperInv, WrapperTypeOK, NoObjects, Open, Exists, Created,
       Owned, Over, AsAsked, HeldBy
  <1>6. ASSUME NEW w \in Wrappers, NEW how \in {"row", "failed", "changed"},
               NEW cls \in {"rows", "tx"}, how = "changed" => cls = "tx", Uses(w, cls, how)
        PROVE  WrapperInv'
    <2> PICK n \in Created : n = obj[w].handle   \* a name that a prime leaves alone
      BY <1>6, OpenOwns DEF Uses
    <2>1. n \in Created /\ n \in Handles /\ table[n] = cls /\ Owned(n)
      BY <1>6, OpenOwns DEF Uses, Created, WrapperInv, Over, HeldBy
    <2>2. /\ UNCHANGED <<obj, table, nextHandle, ends, commitOf>>
          /\ progress' = [progress EXCEPT ![n] = how]
      BY <1>6 DEF Uses, Becomes
    <2>3. /\ progress' \in [Handles -> Results] /\ progress'[n] = how
          /\ \A h \in Handles : h # n => progress'[h] = progress[h]
      BY <1>t, <2>1, <2>2 DEF Results
    <2>4. WrapperTypeOK' /\ NoObjects'
      BY <1>t, <2>2, <2>3 DEF WrapperTypeOK, NoObjects, Exists, Results
    <2>5. Created' = Created
      BY <2>2 DEF Created
    <2>6. \A h \in Handles, v \in Wrappers : HeldBy(h, v)' <=> HeldBy(h, v)
      BY <2>2 DEF HeldBy, Open, Exists
    <2>7. Owned(n)'
      BY <1>6, <2>1, <2>2, <2>3, <2>6 DEF Owned
    <2>8. \A h \in Created : h # n => Owned(h)' \/ Over(h)'
      BY <2>2, <2>3, <2>6 DEF WrapperInv, Owned, Over, AsAsked, Created
    <2>9. \A v \in Wrappers : Open(v)' => obj'[v].handle \in Created'
      BY <2>2, <2>5 DEF WrapperInv, Open, Exists
    <2>10. \A h \in Handles \ Created' : /\ table'[h] = "none" /\ ends'[h] = 0
                                         /\ progress'[h] = "begun" /\ commitOf'[h] = "no"
      BY <2>1, <2>2, <2>3, <2>5 DEF WrapperInv
    <2> QED
      BY <2>4, <2>5, <2>7, <2>8, <2>9, <2>10 DEF WrapperInv
  <1>7. CASE WrapperNext
    <2>1. PICK w \in Wrappers :
            \/ Connect(w) \/ Close(w) \/ Commit(w) \/ Destroy(w)
            \/ Execute(w) \/ Next(w) \/ NextEnds(w)
            \/ \E v \in Wrappers : \/ Query(w, v) \/ Prepare(w, v) \/ BeginTransaction(w, v)
                                   \/ MoveConstruct(w, v) \/ MoveAssign(w, v)
      BY <1>7 DEF WrapperNext
    <2>2. CASE Connect(w) \/ \E v \in Wrappers : Query(w, v) \/ Prepare(w, v) \/ BeginTransaction(w, v)
      BY <1>1, <2>2 DEF Connect, Query, Prepare, BeginTransaction, Make, Classes
    <2>3. CASE Execute(w) \/ Next(w)
      BY <1>6, <2>3 DEF Execute, Next
    <2> QED
      BY <1>3, <1>4, <2>1, <2>2, <2>3
  <1> QED
    BY <1>5, <1>7

\* WrapperInv is invariant.
THEOREM WrapperInvariant == WrapperSpec => []WrapperInv
  <1> QED
    BY WrapperInitInv, WrapperStep, PTL DEF WrapperSpec

\* closed_ and handle_ agree in every object, for any program over the wrappers.
THEOREM WrapperTypes == WrapperSpec => []WrapperTypeOK
  <1>1. WrapperInv => WrapperTypeOK
    BY DEF WrapperInv
  <1> QED
    BY <1>1, WrapperInvariant, PTL

\* However objects are made, moved, closed and destroyed, none calls the bridge
\* with a stale handle.
THEOREM WrapperCalls == WrapperSpec => []OpenIsLive
  <1>1. WrapperInv => OpenIsLive
    BY OpenOwns DEF OpenIsLive
  <1> QED
    BY <1>1, WrapperInvariant, PTL

\* Each handle has one owner until it is ended, and is ended once.
THEOREM WrapperOwnership == WrapperSpec => []EndedOnce
  <1>1. WrapperInv => EndedOnce
    BY DEF WrapperInv, EndedOnce, Owned, Over, Holders, HeldBy
  <1> QED
    BY <1>1, WrapperInvariant, PTL

\* Only a transaction's handle can be left behind.
THEOREM WrapperLosses == WrapperSpec => []LostOnlyTransactions
  <1>1. WrapperInv => LostOnlyTransactions
    <2> SUFFICES ASSUME WrapperInv, NEW h \in Handles, table[h] # "none", Holders(h) = {}
                 PROVE  table[h] = "tx"
      BY DEF LostOnlyTransactions
    <2>1. h \in Created
      BY DEF WrapperInv
    <2>2. ~Owned(h)
      BY DEF Owned, HeldBy, Holders
    <2> QED
      BY <2>1, <2>2 DEF WrapperInv, Over
  <1> QED
    BY <1>1, WrapperInvariant, PTL

\* A transaction is committed as it was asked, and never left undecided.
THEOREM WrapperCommits == WrapperSpec => []CommitsAsAsked
  <1>1. WrapperInv => CommitsAsAsked
    <2> SUFFICES ASSUME WrapperInv, NEW h \in Created
                 PROVE  /\ commitOf[h] = "done" => progress[h] = "committed"
                        /\ progress[h] = "committed" => commitOf[h] # "no"
                        /\ progress[h] = "changed" => Holders(h) # {}
      BY DEF CommitsAsAsked
    <2>1. CASE Owned(h)
      BY <2>1 DEF Owned, HeldBy, Holders
    <2>2. CASE Over(h)
      BY <2>2 DEF Over, AsAsked
    <2> QED
      BY <2>1, <2>2 DEF WrapperInv
  <1> QED
    BY <1>1, WrapperInvariant, PTL

\* Rows that were read to the end are closed.
THEOREM WrapperRows == WrapperSpec => []ReadRowsClosed
  <1>1. WrapperInv => ReadRowsClosed
    BY OpenOwns DEF ReadRowsClosed
  <1> QED
    BY <1>1, WrapperInvariant, PTL
=============================================================================
