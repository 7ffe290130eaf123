------------------------------ MODULE MetaRaft ------------------------------
(***************************************************************************)
(* The metadata service on several nodes: store.go and fsm.go around       *)
(* hashicorp/raft, with the HTTP handlers and the storage processes that   *)
(* call it.  Raft itself is external and is modelled by what the store     *)
(* relies on: one log, of which the committed part never changes; leaders  *)
(* that come and go, and that may not know yet that they have gone; every  *)
(* node applies the committed commands in order; snapshots.                *)
(*                                                                         *)
(* Every storage process has one metadata address for its life, MetaAddr   *)
(* (meta_addr in its yaml), and follows no redirect; a client may call any *)
(* metadata node.  Time is left out: a leader may suspect a storage node   *)
(* whose heartbeats do not reach it.                                       *)
(* Bounds: MaxElections, MaxSnapshots, and MaxFaults restarts of metadata  *)
(* nodes, crashes of storage nodes and false alarms together; each call of *)
(* a client happens once.                                                  *)
(***************************************************************************)
EXTENDS Integers, Sequences, FiniteSets

CONSTANTS
  Metas,      \* metadata nodes
  MetaAddr,   \* the one the storage processes call
  NoMeta,     \* no leader
  Nodes,      \* storage nodes
  Keys, Absent,
  Calls,      \* calls of clients and of the leader's workers, once each
  Request,    \* the command of each call
  SnapshotThreshold,   \* raft takes a snapshot after this many commands
  MaxElections, MaxSnapshots, MaxFaults

Callers == Calls \cup Nodes \cup Metas

ASSUME MetaAssumption ==
  /\ MetaAddr \in Metas /\ NoMeta \notin Metas
  /\ Calls \cap Nodes = {} /\ Calls \cap Metas = {} /\ Nodes \cap Metas = {}
  /\ SnapshotThreshold \in Nat \ {0}
  /\ MaxElections \in Nat /\ MaxSnapshots \in Nat /\ MaxFaults \in Nat

Catalog == INSTANCE CatalogFSM

VARIABLES
  log,        \* the leader's log: who asked for which command
  history,    \* history[i + 1] is the catalogue after the first i commands of
              \* the log, for those that are committed
  leader,     \* the leader of the current term
  leads,      \* the nodes whose raft.State() is Leader: perhaps deposed ones too
  fsm,        \* fsm[m]: the catalogue of node m
  applied,    \* applied[m]: how many commands its FSM has applied
  taken,      \* what fsm.Snapshot has marshalled and Persist has not written
  snapshot,   \* the latest snapshot on the disk of m
  call,       \* call[c]: what each caller waits for
  alive,      \* storage processes that run
  joining,    \* those whose registerNode loop has not ended
  elections, snapshots, faults

raftVars    == <<log, history, leader, leads>>
fsmVars     == <<fsm, applied>>
diskVars    == <<taken, snapshot>>
storageVars == <<alive, joining>>
bounds      == <<elections, snapshots, faults>>
vars == <<raftVars, fsmVars, diskVars, call, storageVars, bounds>>

committed == Len(history) - 1

(* newState: no keys, no nodes.                                            *)
Empty == [keys |-> [k \in Keys |-> Absent], nodes |-> [n \in Nodes |-> "none"]]

NoSnapshot == [index |-> 0, state |-> Empty]
Idle == [pc |-> "idle", op |-> "", at |-> NoMeta, index |-> 0]

Init ==
  /\ log = << >> /\ history = <<Empty>>
  /\ leader \in Metas /\ leads = {leader}
  /\ fsm = [m \in Metas |-> Empty]
  /\ applied = [m \in Metas |-> 0]
  /\ taken = [m \in Metas |-> NoSnapshot]
  /\ snapshot = [m \in Metas |-> NoSnapshot]
  /\ call = [c \in Callers |-> Idle]
  /\ alive = Nodes /\ joining = Nodes
  /\ elections = 0 /\ snapshots = 0 /\ faults = 0

Fault == faults < MaxFaults /\ faults' = faults + 1

(***************************************************************************)
(* Store.apply                                                             *)
(***************************************************************************)

(* What becomes of a caller that is answered: a storage process and a      *)
(* detector go on with their loops.                                        *)
Answered(c, outcome) ==
  [Idle EXCEPT !.pc = IF c \in Calls THEN outcome ELSE "idle"]

Waiting(m) == {c \in Callers : call[c].pc = "wait" /\ call[c].at = m}

\* Mutant: apply does not look at f.Error().
FailWaitingUnseen(m) ==
  call' = [c \in Callers |-> IF c \in Waiting(m) THEN Answered(c, "ok") ELSE call[c]]

(* The calls that wait at a node which ceases to lead get an error.        *)
FailWaiting(m) ==
  call' = [c \in Callers |-> IF c \in Waiting(m) THEN Answered(c, "error") ELSE call[c]]

(* IsLeader, then raft.Apply: the command is appended to the leader's log. *)
(* A leader that has been deposed accepts commands too; they come to       *)
(* nothing (index 0).                                                      *)
Submit(c, m, cmd) ==
  /\ call[c].pc = "idle" /\ m \in leads
  /\ log' = IF m = leader THEN Append(log, [by |-> c, cmd |-> cmd]) ELSE log
  /\ call' = [call EXCEPT ![c] =
       [pc |-> "wait", op |-> cmd.op, at |-> m,
        index |-> IF m = leader THEN Len(log) + 1 ELSE 0]]
  /\ UNCHANGED <<history, leader, leads, fsmVars, diskVars>>

LiveNodes(m) == {n \in Nodes : fsm[m].nodes[n] = "up"}

(* PrepareKey needs a node that is up in this node's own catalogue.        *)
Possible(c, m) == Request[c].op = "put_key" => LiveNodes(m) # {}

Call(c, m) ==
  /\ Possible(c, m)
  /\ Submit(c, m, Request[c])
  /\ UNCHANGED <<storageVars, bounds>>

(* The handler answers 421 (not the leader) or 500 (no live node).         *)
Refuse(c, m) ==
  /\ call[c].pc = "idle"
  /\ m \notin leads \/ ~ Possible(c, m)
  /\ call' = [call EXCEPT ![c] = Answered(c, "refused")]
  /\ UNCHANGED <<raftVars, fsmVars, diskVars, storageVars, bounds>>

(***************************************************************************)
(* Raft                                                                    *)
(***************************************************************************)

(* The next command of the log is on a majority.                           *)
Commit ==
  /\ leader # NoMeta /\ committed < Len(log)
  /\ history' = Append(history, Catalog!Apply(history[Len(history)],
                                              log[committed + 1].cmd))
  /\ UNCHANGED <<log, leader, leads, fsmVars, diskVars, call, storageVars, bounds>>

(* fsm.Apply at node m; where a call waits for it, f.Error() returns nil   *)
(* and the handler answers 2xx.  A deposed leader learns of no commit      *)
(* before it learns that it has been deposed.                              *)
Apply(m) ==
  LET i == applied[m] + 1
      done == {c \in Waiting(m) : call[c].index = i}
  IN  /\ i <= committed
      /\ m \in leads => m = leader
      /\ fsm' = [fsm EXCEPT ![m] = Catalog!Apply(@, log[i].cmd)]
      /\ applied' = [applied EXCEPT ![m] = i]
      /\ call' = [c \in Callers |-> IF c \in done THEN Answered(c, "ok") ELSE call[c]]
      /\ joining' = joining \ {n \in done \cap Nodes : call[n].op = "register_node"}
      /\ UNCHANGED <<raftVars, diskVars, alive, bounds>>

(* A new leader has every committed command, and perhaps some of the rest. *)
Elect(m) ==
  /\ elections < MaxElections /\ elections' = elections + 1
  /\ m \notin leads
  /\ leader' = m /\ leads' = leads \cup {m}
  /\ \E n \in committed..Len(log) : log' = SubSeq(log, 1, n)
  /\ UNCHANGED <<history, fsmVars, diskVars, call, storageVars,
                 snapshots, faults>>

(* A deposed leader hears of it.                                           *)
StepDown(m) ==
  /\ m \in leads /\ m # leader
  /\ leads' = leads \ {m}
  /\ FailWaiting(m)
  /\ UNCHANGED <<log, history, leader, fsmVars, diskVars, storageVars, bounds>>

(***************************************************************************)
(* Snapshots, restart                                                      *)
(***************************************************************************)

(* fsm.Snapshot marshals the maps under the lock, between two commands.    *)
TakeSnapshot(m) ==
  /\ snapshots < MaxSnapshots /\ snapshots' = snapshots + 1
  /\ taken[m] = NoSnapshot
  /\ applied[m] >= snapshot[m].index + SnapshotThreshold
  /\ taken' = [taken EXCEPT ![m] = [index |-> applied[m], state |-> fsm[m]]]
  /\ UNCHANGED <<raftVars, fsmVars, snapshot, call, storageVars,
                 elections, faults>>

\* Mutant: Persist marshals the maps, when the FSM has gone on.
PersistLive(m) ==
  /\ taken[m] # NoSnapshot
  /\ snapshot' = [snapshot EXCEPT ![m] = [index |-> taken[m].index, state |-> fsm[m]]]
  /\ taken' = [taken EXCEPT ![m] = NoSnapshot]
  /\ UNCHANGED <<raftVars, fsmVars, call, storageVars, bounds>>

(* fsmSnapshot.Persist writes it while the FSM goes on, or is cancelled.   *)
Persist(m) ==
  /\ taken[m] # NoSnapshot
  /\ \/ snapshot' = snapshot
     \/ /\ taken[m].index > snapshot[m].index
        /\ snapshot' = [snapshot EXCEPT ![m] = taken[m]]
  /\ taken' = [taken EXCEPT ![m] = NoSnapshot]
  /\ UNCHANGED <<raftVars, fsmVars, call, storageVars, bounds>>

(* fsm.Restore: the decoded snapshot replaces the maps.                    *)
Restored(m, s) ==
  /\ fsm' = [fsm EXCEPT ![m] = s.state]
  /\ applied' = [applied EXCEPT ![m] = s.index]

(* A follower that is far behind is sent the leader's snapshot.            *)
Install(m) ==
  /\ leader # NoMeta /\ m \notin leads
  /\ snapshot[leader].index > applied[m]
  /\ Restored(m, snapshot[leader])
  /\ snapshot' = [snapshot EXCEPT ![m] = snapshot[leader]]
  /\ UNCHANGED <<raftVars, taken, call, storageVars, bounds>>

(* The process dies and Open runs again: an empty FSM, then the snapshot,  *)
(* then, once there is a leader, the log.  It answers reads meanwhile.     *)
Restart(m) ==
  /\ Fault
  /\ Restored(m, snapshot[m])
  /\ taken' = [taken EXCEPT ![m] = NoSnapshot]
  /\ leader' = IF leader = m THEN NoMeta ELSE leader
  /\ leads' = leads \ {m}
  /\ FailWaiting(m)
  /\ UNCHANGED <<log, history, snapshot, storageVars,
                 elections, snapshots>>

(***************************************************************************)
(* Storage processes and the failure detector                              *)
(***************************************************************************)

\* Mutant: one attempt.
RegisterOnce(n) ==
  /\ n \in alive \cap joining
  /\ Submit(n, MetaAddr, [op |-> "register_node", node |-> n])
  /\ joining' = joining \ {n}
  /\ UNCHANGED <<alive, bounds>>

(* registerNode: until it is answered with 201.                            *)
Register(n) ==
  /\ n \in alive \cap joining
  /\ Submit(n, MetaAddr, [op |-> "register_node", node |-> n])
  /\ UNCHANGED <<storageVars, bounds>>

(* heartbeatLoop.  Only the heartbeats that change the status are of       *)
(* interest; what the answer is does not matter to the loop.               *)
Heartbeat(n) ==
  /\ n \in alive
  /\ fsm[MetaAddr].nodes[n] = "down"
  /\ Submit(n, MetaAddr, [op |-> "heartbeat", node |-> n])
  /\ UNCHANGED <<storageVars, bounds>>

(* No heartbeat of n reaches leader m: n is down, or calls another node.   *)
Silent(n, m) == n \notin alive \/ m # MetaAddr

(* failureDetectorLoop at a node that takes itself for the leader.         *)
MarkNodeDown(m, n) ==
  /\ n \in LiveNodes(m) /\ Silent(n, m)
  /\ Submit(m, m, [op |-> "mark_node_down", node |-> n])
  /\ UNCHANGED <<storageVars, bounds>>

(* Heartbeats were late, or lost, or refused while there was no leader.    *)
FalseAlarm(m, n) ==
  /\ Fault
  /\ n \in LiveNodes(m) /\ ~ Silent(n, m)
  /\ Submit(m, m, [op |-> "mark_node_down", node |-> n])
  /\ UNCHANGED <<storageVars, elections, snapshots>>

Crash(n) ==
  /\ Fault
  /\ n \in alive
  /\ alive' = alive \ {n} /\ joining' = joining \ {n}
  /\ call' = [call EXCEPT ![n] = Idle]
  /\ UNCHANGED <<raftVars, fsmVars, diskVars, elections, snapshots>>

Start(n) ==
  /\ n \notin alive
  /\ alive' = alive \cup {n} /\ joining' = joining \cup {n}
  /\ UNCHANGED <<raftVars, fsmVars, diskVars, call, bounds>>

Next ==
  \/ \E c \in Calls, m \in Metas : Call(c, m) \/ Refuse(c, m)
  \/ Commit
  \/ \E m \in Metas :
       \/ Apply(m) \/ Elect(m) \/ StepDown(m)
       \/ TakeSnapshot(m) \/ Persist(m) \/ Install(m) \/ Restart(m)
  \/ \E n \in Nodes :
       \/ Register(n) \/ Heartbeat(n) \/ Crash(n) \/ Start(n)
       \/ \E m \in Metas : MarkNodeDown(m, n) \/ FalseAlarm(m, n)

Spec == Init /\ [][Next]_vars
=============================================================================
