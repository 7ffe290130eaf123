-------------------------- MODULE AtomicCatalogue --------------------------
(***************************************************************************)
(* What the metadata service promises to those who call it: one map of     *)
(* keys, on which every call acts at most once and at one moment.  A call  *)
(* answered with success has acted between its start and its answer; a     *)
(* call that was refused never acts; of a call answered with an error      *)
(* nothing is known: it has acted, will still act, or never does.          *)
(***************************************************************************)
EXTENDS Naturals

CONSTANTS
  Keys, Absent,
  Calls,     \* the calls clients make
  Request    \* the command each call asks for

Catalog == INSTANCE CatalogFSM

VARIABLES
  keys,    \* the map
  pc,      \* where each call is
  acted    \* the calls that have acted

vars == <<keys, pc, acted>>

Init ==
  /\ keys = [k \in Keys |-> Absent]
  /\ pc = [c \in Calls |-> "idle"]
  /\ acted = {}

Invoke(c) ==
  /\ pc[c] = "idle"
  /\ pc' = [pc EXCEPT ![c] = "wait"]
  /\ UNCHANGED <<keys, acted>>

Refuse(c) ==
  /\ pc[c] = "idle"
  /\ pc' = [pc EXCEPT ![c] = "refused"]
  /\ UNCHANGED <<keys, acted>>

Act(c) ==
  /\ pc[c] \in {"wait", "error"}
  /\ c \notin acted
  /\ keys' = Catalog!ApplyToKeys(keys, Request[c])
  /\ acted' = acted \cup {c}
  /\ UNCHANGED pc

Succeed(c) ==
  /\ pc[c] = "wait" /\ c \in acted
  /\ pc' = [pc EXCEPT ![c] = "ok"]
  /\ UNCHANGED <<keys, acted>>

(* A server that dies or steps down fails all the calls it has.            *)
Fail(failed) ==
  /\ \A c \in failed : pc[c] = "wait"
  /\ pc' = [c \in Calls |-> IF c \in failed THEN "error" ELSE pc[c]]
  /\ UNCHANGED <<keys, acted>>

Next ==
  \/ \E c \in Calls : Invoke(c) \/ Refuse(c) \/ Act(c) \/ Succeed(c)
  \/ \E failed \in SUBSET Calls : Fail(failed)

Spec == Init /\ [][Next]_vars
=============================================================================
