--------------------------- MODULE MetaProperties ---------------------------
(***************************************************************************)
(* What MetaRaft should guarantee.                                         *)
(***************************************************************************)
EXTENDS MetaRaft

Commands ==
  {Request[c] : c \in Calls} \cup
  [op : {"register_node", "heartbeat", "mark_node_down"}, node : Nodes]

LogEntry == [by : Callers, cmd : Commands]

Ops == {cmd.op : cmd \in Commands}

CallState ==
  [pc : {"idle", "wait", "ok", "error", "refused"}, op : {""} \cup Ops,
   at : Metas \cup {NoMeta}, index : Nat]

TypeOK ==
  /\ log \in Seq(LogEntry)
  /\ Len(history) \in 1..(Len(log) + 1)
  /\ leader \in Metas \cup {NoMeta}
  /\ leads \subseteq Metas
  /\ \A m \in Metas : fsm[m].nodes \in [Nodes -> Catalog!NodeStatus]
  /\ applied \in [Metas -> 0..committed]
  /\ call \in [Callers -> CallState]
  /\ alive \subseteq Nodes /\ joining \subseteq alive

-----------------------------------------------------------------------------
(* What getKey, listKeys, getNode and listNodes copy from, at any node;    *)
(* none of them looks at Committed.                                        *)
Shown(m) == fsm[m]

(* state is the catalogue after the first i committed commands.            *)
IsPast(i, state) == i \in 0..committed /\ state = history[i + 1]

(* What a metadata node answers reads from, what it has marshalled for a   *)
(* snapshot and what it has on disk, is each the catalogue as it was after *)
(* some number of commands, the number raft goes on from: so a node that   *)
(* lags, was restarted or was sent a snapshot shows an old catalogue but   *)
(* never a mixture (fsm.Snapshot, Persist, Restore, Apply, getKey).        *)
NodesShowThePast ==
  \A m \in Metas :
    /\ IsPast(applied[m], Shown(m))
    /\ IsPast(snapshot[m].index, snapshot[m].state)
    /\ IsPast(taken[m].index, taken[m].state)

(***************************************************************************)
(* The abstract view of the clients' calls: the catalogue is the one after *)
(* the committed commands, and a call has acted when its command is among  *)
(* them.                                                                   *)
(***************************************************************************)
acted == {log[i].by : i \in 1..committed} \cap Calls

Atomic == INSTANCE AtomicCatalogue WITH
            keys <- history[Len(history)].keys,
            pc <- [c \in Calls |-> call[c].pc],
            acted <- acted

(* Over leader changes, restarts and snapshots the calls of clients act at *)
(* most once, between their start and a 2xx answer; a 421 means they never *)
(* will, an error says nothing (Store.apply and the handlers).             *)
CallsAreAtomic == Atomic!Spec

-----------------------------------------------------------------------------
(* Raft commits, applies and tells a deposed leader; a process that runs   *)
(* retries its registration and sends heartbeats; the detectors tick.      *)
(* Nothing makes an election, a restart, a snapshot or a call happen.      *)
Fairness ==
  /\ WF_vars(Commit)
  /\ \A m \in Metas :
       /\ WF_vars(Apply(m)) /\ WF_vars(StepDown(m))
       /\ \A n \in Nodes : WF_vars(MarkNodeDown(m, n))
  /\ \A n \in Nodes : WF_vars(Register(n)) /\ WF_vars(Heartbeat(n))

FairSpec == Spec /\ Fairness

(* Once the node that the storage processes call leads for good, every     *)
(* metadata node ends up with exactly the running storage nodes as up,     *)
(* whatever other leaders have marked, lost or refused before              *)
(* (registerNode, heartbeatLoop, failureDetectorLoop).  With another       *)
(* leader for good it fails: all running nodes stay down there, since the  *)
(* heartbeats still go to the follower and are refused.                    *)
MembershipConverges ==
  <>[](leader = MetaAddr) =>
    <>[](\A m \in Metas, n \in Nodes : fsm[m].nodes[n] = "up" <=> n \in alive)
=============================================================================
