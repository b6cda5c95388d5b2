------------------------------ MODULE Registry ------------------------------
(***************************************************************************)
(* What a user of the bridge relies on about its handles, whatever locks   *)
(* and counters make it true: a new object gets a handle that no object    *)
(* ever had, the handle denotes this object and no other until the object  *)
(* is removed, and nothing else changes the table.                         *)
(***************************************************************************)
CONSTANTS Handle,  \* the handles, 0 is none of them
          Entry    \* what a handle can denote

VARIABLES entries,  \* what each handle in use denotes
          given     \* the handles given out so far, in use or not

registryVars == <<entries, given>>

RegistryInit == entries = [h \in {} |-> h] /\ given = {}

Give(h, e) ==
    /\ h \notin given
    /\ given' = given \cup {h}
    /\ entries' = [g \in DOMAIN entries \cup {h} |-> IF g = h THEN e ELSE entries[g]]

Forget(h) ==
    /\ h \in DOMAIN entries
    /\ entries' = [g \in DOMAIN entries \ {h} |-> entries[g]]
    /\ UNCHANGED given

RegistryNext == \E h \in Handle : Forget(h) \/ \E e \in Entry : Give(h, e)

RegistrySpec == RegistryInit /\ [][RegistryNext]_registryVars
=============================================================================
