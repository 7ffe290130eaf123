--------------------------- MODULE MetaRaftProofs ---------------------------
(***************************************************************************)
(* For any number of metadata nodes, storage nodes, keys, calls and        *)
(* faults: MetaRaft is type correct, every node shows a past state of the  *)
(* catalogue, and the calls of clients are those of AtomicCatalogue.       *)
(***************************************************************************)
EXTENDS MetaProperties, SequenceTheorems, TLAPS

NodeOps == {"register_node", "heartbeat", "mark_node_down"}

-----------------------------------------------------------------------------
(* The inductive invariant                                                 *)

LogInv ==
  /\ log \in Seq(LogEntry)
  /\ leader \in Metas \cup {NoMeta}
  /\ leads \subseteq Metas

(* Each state of the history is the one before it with one command of the  *)
(* log applied.                                                            *)
HistoryInv ==
  /\ \E S : history \in Seq(S)
  /\ Len(history) \in 1..(Len(log) + 1)
  /\ history[1] = Empty
  /\ \A i \in 1..Len(history) : history[i].nodes \in [Nodes -> Catalog!NodeStatus]
  /\ \A i \in 1..committed : history[i + 1] = Catalog!Apply(history[i], log[i].cmd)

MetaInv ==
  /\ fsm = [m \in Metas |-> fsm[m]]
  /\ taken = [m \in Metas |-> taken[m]]
  /\ snapshot = [m \in Metas |-> snapshot[m]]
  /\ applied \in [Metas -> 0..committed]
  /\ NodesShowThePast

(* A command of a client in the log is the one it asked for, and the       *)
(* client waits for it or has been answered.                               *)
Logged ==
  \A i \in 1..Len(log) :
    IF log[i].by \in Calls
    THEN /\ log[i].cmd = Request[log[i].by]
         /\ call[log[i].by].pc \in {"wait", "ok", "error"}
    ELSE log[i].cmd.op \in NodeOps

Once ==
  \A i, j \in 1..Len(log) : log[i].by \in Calls /\ log[i].by = log[j].by => i = j

InCommitted(c) == \E i \in 1..committed : log[i].by = c

OkIsCommitted == \A c \in Calls : call[c].pc = "ok" => InCommitted(c)

(* Who waits, waits at a node that takes itself for the leader; at the     *)
(* real one the log has the command where the call looks for it.           *)
Waits ==
  \A c \in Calls : call[c].pc = "wait" =>
    /\ call[c].at \in leads
    /\ call[c].at = leader /\ call[c].index > 0 =>
         call[c].index \in 1..Len(log) /\ log[call[c].index].by = c

CallInv ==
  /\ call \in [Callers -> CallState]
  /\ Logged /\ Once /\ OkIsCommitted /\ Waits

StorageInv == alive \subseteq Nodes /\ joining \subseteq alive

Inv == LogInv /\ HistoryInv /\ MetaInv /\ CallInv /\ StorageInv

(* One step of the abstract specification, or none.                        *)
AtomicStep == [Atomic!Next]_Atomic!vars

-----------------------------------------------------------------------------
(* The catalogue's commands                                                *)

(* The commands of storage nodes and detectors leave the keys alone        *)
(* (fsm.Apply).                                                            *)
LEMMA NodeCommandKeepsKeys ==
  ASSUME NEW s, NEW cmd, cmd.op \in NodeOps
  PROVE  Catalog!Apply(s, cmd).keys = s.keys
  <1>1. cmd.op \notin {"put_key", "commit_key", "delete_key", "update_fragment"}
    BY DEF NodeOps
  <1>2. Catalog!ApplyToKeys(s.keys, cmd) = s.keys
    BY <1>1, Zenon DEF Catalog!ApplyToKeys
  <1>3. QED BY <1>2 DEF Catalog!Apply

(* The two specifications mean the same command (fsm.Apply).               *)
LEMMA SameCommand ==
  ASSUME NEW s, NEW cmd
  PROVE  Catalog!Apply(s, cmd).keys = Atomic!Catalog!ApplyToKeys(s.keys, cmd)
  <1>1. Catalog!ApplyToKeys(s.keys, cmd) = Atomic!Catalog!ApplyToKeys(s.keys, cmd)
    BY Zenon DEF Catalog!ApplyToKeys, Atomic!Catalog!ApplyToKeys,
      Catalog!PutKey, Atomic!Catalog!PutKey, Catalog!CommitKey, Atomic!Catalog!CommitKey,
      Catalog!DeleteKey, Atomic!Catalog!DeleteKey,
      Catalog!UpdateFragment, Atomic!Catalog!UpdateFragment
  <1>2. QED BY <1>1 DEF Catalog!Apply

(* Every command leaves the storage nodes with a status (fsm.Apply).       *)
LEMMA StatusKept ==
  ASSUME NEW s, s.nodes \in [Nodes -> Catalog!NodeStatus], NEW cmd
  PROVE  Catalog!Apply(s, cmd).nodes \in [Nodes -> Catalog!NodeStatus]
  <1> DEFINE nodes == s.nodes
             nodes2 == Catalog!ApplyToNodes(nodes, cmd)
  <1>1. nodes \in [Nodes -> Catalog!NodeStatus]
    OBVIOUS
  <1> HIDE DEF nodes
  <1>2. Catalog!RegisterNode(nodes, cmd.node) \in [Nodes -> Catalog!NodeStatus]
    BY <1>1 DEF Catalog!RegisterNode, Catalog!NodeStatus
  <1>3. Catalog!Heartbeat(nodes, cmd.node) \in [Nodes -> Catalog!NodeStatus]
    BY <1>1 DEF Catalog!Heartbeat, Catalog!NodeStatus
  <1>4. Catalog!MarkNodeDown(nodes, cmd.node) \in [Nodes -> Catalog!NodeStatus]
    BY <1>1 DEF Catalog!MarkNodeDown, Catalog!NodeStatus
  <1>5. nodes2 \in {nodes, Catalog!RegisterNode(nodes, cmd.node),
                    Catalog!Heartbeat(nodes, cmd.node), Catalog!MarkNodeDown(nodes, cmd.node)}
    <2>1. CASE cmd.op = "register_node"
      BY <2>1, Zenon DEF Catalog!ApplyToNodes
    <2>2. CASE cmd.op = "heartbeat"
      <3>1. cmd.op # "register_node" /\ cmd.op # "mark_node_down"
        BY <2>2
      <3>2. QED BY <2>2, <3>1, Zenon DEF Catalog!ApplyToNodes
    <2>3. CASE cmd.op = "mark_node_down"
      <3>1. cmd.op # "register_node" /\ cmd.op # "heartbeat"
        BY <2>3
      <3>2. QED BY <2>3, <3>1, Zenon DEF Catalog!ApplyToNodes
    <2>4. CASE cmd.op \notin NodeOps
      <3>1. cmd.op # "register_node" /\ cmd.op # "heartbeat" /\ cmd.op # "mark_node_down"
        BY <2>4 DEF NodeOps
      <3>2. QED BY <3>1, Zenon DEF Catalog!ApplyToNodes
    <2>5. QED BY <2>1, <2>2, <2>3, <2>4 DEF NodeOps
  <1>6. nodes2 \in [Nodes -> Catalog!NodeStatus]
    BY <1>1, <1>2, <1>3, <1>4, <1>5
  <1>7. QED BY <1>6 DEF Catalog!Apply, nodes
-----------------------------------------------------------------------------
(* Sequences                                                               *)

(* The history stays a sequence when a state is added (Commit).            *)
LEMMA AppendIsSequence ==
  ASSUME NEW S, NEW s \in Seq(S), NEW x
  PROVE  \E T : Append(s, x) \in Seq(T)
  <1>1. s \in Seq(S \cup {x})
    BY SeqDef
  <1>2. Append(s, x) \in Seq(S \cup {x})
    BY <1>1, AppendProperties
  <1>3. QED BY <1>2

(* The committed part of the log, as long as it stays as it is, says the   *)
(* same (raft.Apply, elections).                                           *)
LEMMA CommittedKept ==
  ASSUME Inv, UNCHANGED history,
         Len(log') \in Nat, Len(log') >= committed,
         \A i \in 1..committed : log'[i] = log[i]
  PROVE  /\ HistoryInv'
         /\ acted' = acted
         /\ \A c : InCommitted(c) <=> InCommitted(c)'
  <1>1. committed' = committed /\ committed \in Nat /\ Len(history) = committed + 1
    BY DEF Inv, HistoryInv, LogInv, committed
  <1>2. HistoryInv'
    BY <1>1 DEF Inv, HistoryInv
  <1>3. \A c : InCommitted(c) <=> InCommitted(c)'
    BY <1>1 DEF InCommitted
  <1>4. acted' = acted
    BY <1>1 DEF acted
  <1>5. QED BY <1>2, <1>3, <1>4

(* The nodes show the past as long as they and the history stay.           *)
LEMMA MetaInvKept ==
  ASSUME MetaInv, UNCHANGED <<history, fsmVars, diskVars>>
  PROVE  MetaInv'
  BY DEF MetaInv, NodesShowThePast, IsPast, Shown, committed, fsmVars, diskVars

-----------------------------------------------------------------------------
(* One lemma per action                                                    *)

(* Store.apply: a client's command goes into the log of the leader or to   *)
(* nowhere.                                                                *)
LEMMA SubmitStep ==
  ASSUME Inv,
         NEW c \in Callers, NEW m \in Metas, NEW cmd \in Commands,
         IF c \in Calls THEN cmd = Request[c] ELSE cmd.op \in NodeOps,
         Submit(c, m, cmd)
  PROVE  LogInv' /\ HistoryInv' /\ MetaInv' /\ CallInv' /\ AtomicStep
  <1> DEFINE new == [by |-> c, cmd |-> cmd]
  <1>1. new \in LogEntry
    BY DEF LogEntry
  <1>2. log \in Seq(LogEntry)
    BY DEF Inv, LogInv
  <1>3. /\ log' \in Seq(LogEntry)
        /\ Len(log) \in Nat /\ Len(log') \in {Len(log), Len(log) + 1}
        /\ \A i \in 1..Len(log) : log'[i] = log[i]
        /\ Len(log') = Len(log) + 1 => m = leader /\ log'[Len(log) + 1] = new
        /\ m = leader => Len(log') = Len(log) + 1
    <2>1. Len(log) \in Nat
      BY <1>2
    <2>2. CASE m = leader
      <3>1. log' = Append(log, new)
        BY <2>2 DEF Submit
      <3>2. QED BY <1>1, <1>2, <2>1, <2>2, <3>1, AppendProperties
    <2>3. CASE m # leader
      <3>1. log' = log
        BY <2>3 DEF Submit
      <3>2. QED BY <1>2, <2>1, <2>3, <3>1
    <2>4. QED BY <2>2, <2>3
  <1>4. LogInv'
    BY <1>3 DEF Submit, Inv, LogInv
  <1>5. HistoryInv' /\ acted' = acted /\ \A d : InCommitted(d) <=> InCommitted(d)'
    <2>1. Len(log') \in Nat /\ Len(log') >= committed /\ \A i \in 1..committed : log'[i] = log[i]
      <3>1. committed \in Nat /\ committed <= Len(log)
        BY <1>3 DEF Inv, HistoryInv, committed
      <3>2. Len(log') \in Nat /\ Len(log') >= Len(log)
        BY <1>3
      <3>3. QED BY <1>3, <3>1, <3>2
    <2>2. QED BY <2>1, CommittedKept DEF Submit
  <1>6. MetaInv'
    BY MetaInvKept DEF Inv, Submit
  <1>7. /\ call \in [Callers -> CallState] /\ call[c].pc = "idle"
        /\ call'[c].pc = "wait" /\ call'[c].at = m
        /\ call'[c].index = IF m = leader THEN Len(log) + 1 ELSE 0
        /\ \A d \in Callers \ {c} : call'[d] = call[d]
    BY DEF Submit, Inv, CallInv
  <1>8. CallInv'
    <2>1. call' \in [Callers -> CallState]
      <3>1. [pc |-> "wait", op |-> cmd.op, at |-> m,
             index |-> IF m = leader THEN Len(log) + 1 ELSE 0] \in CallState
        <4>1. cmd.op \in Ops
          BY DEF Ops
        <4>2. (IF m = leader THEN Len(log) + 1 ELSE 0) \in Nat
          BY <1>3
        <4>3. QED BY <4>1, <4>2 DEF CallState
      <3>2. QED BY <3>1, <1>7 DEF Submit
    <2>2. Logged'
      <3> SUFFICES ASSUME NEW i \in 1..Len(log')
                   PROVE  IF log'[i].by \in Calls
                          THEN /\ log'[i].cmd = Request[log'[i].by]
                               /\ call'[log'[i].by].pc \in {"wait", "ok", "error"}
                          ELSE log'[i].cmd.op \in NodeOps
        BY DEF Logged
      <3>1. CASE i \in 1..Len(log)
        <4>1. log'[i] = log[i] /\ log[i] \in LogEntry
          BY <3>1, <1>2, <1>3
        <4>2. log[i].by \in Callers
          BY <4>1 DEF LogEntry
        <4>3. QED BY <3>1, <4>1, <4>2, <1>7 DEF Inv, CallInv, Logged
      <3>2. CASE i = Len(log) + 1
        <4>1. log'[i] = new
          BY <3>2, <1>3
        <4>2. QED BY <4>1, <1>7
      <3>3. QED BY <3>1, <3>2, <1>3
    <2>3. c \in Calls => \A i \in 1..Len(log) : log[i].by # c
      BY <1>7 DEF Inv, CallInv, Logged
    <2>4. Once'
      BY <1>3, <2>3 DEF Inv, CallInv, Once
    <2>5. OkIsCommitted'
      BY <1>5, <1>7 DEF Inv, CallInv, OkIsCommitted, Callers
    <2>6. Waits'
      <3> SUFFICES ASSUME NEW d \in Calls, call'[d].pc = "wait"
                   PROVE  /\ call'[d].at \in leads
                          /\ call'[d].at = leader /\ call'[d].index > 0 =>
                               call'[d].index \in 1..Len(log') /\ log'[call'[d].index].by = d
        BY DEF Waits, Submit
      <3>1. CASE d = c
        BY <3>1, <1>3, <1>7 DEF Submit
      <3>2. CASE d # c
        <4>1. call'[d] = call[d]
          BY <3>2, <1>7 DEF Callers
        <4>2. QED BY <4>1, <1>3 DEF Inv, CallInv, Waits
      <3>3. QED BY <3>1, <3>2
    <2>7. QED BY <2>1, <2>2, <2>4, <2>5, <2>6 DEF CallInv
  <1>9. AtomicStep
    <2>1. CASE c \in Calls
      <3>1. Atomic!Invoke(c)
        BY <1>5, <1>7, <2>1 DEF Atomic!Invoke, Submit, Callers
      <3>2. QED BY <3>1, <2>1 DEF AtomicStep, Atomic!Next
    <2>2. CASE c \notin Calls
      BY <1>5, <1>7, <2>2 DEF AtomicStep, Atomic!vars, Submit, Callers
    <2>3. QED BY <2>1, <2>2
  <1>10. QED BY <1>4, <1>5, <1>6, <1>8, <1>9
(* What neither the log nor a client notices is no step of the abstract    *)
(* specification.                                                          *)
LEMMA Unnoticed ==
  ASSUME Inv, UNCHANGED <<log, history>>, \A c \in Calls : call'[c] = call[c]
  PROVE  AtomicStep
  BY DEF AtomicStep, Atomic!vars, acted, committed

(* ... and leaves the invariants of the log and the calls as they are.     *)
LEMMA RaftKept ==
  ASSUME Inv, UNCHANGED raftVars,
         call' \in [Callers -> CallState], \A c \in Calls : call'[c] = call[c]
  PROVE  LogInv' /\ HistoryInv' /\ CallInv'
  <1>1. LogInv' /\ HistoryInv'
    BY DEF raftVars, Inv, LogInv, HistoryInv, committed
  <1>2. Logged' /\ Once' /\ OkIsCommitted' /\ Waits'
    BY DEF raftVars, Inv, CallInv, Logged, Once, OkIsCommitted, InCommitted, Waits, committed
  <1>3. QED BY <1>1, <1>2 DEF CallInv

(* The handlers' 421 and 500: the command does not reach raft.             *)
LEMMA RefuseStep ==
  ASSUME Inv, NEW c \in Calls, NEW m \in Metas, Refuse(c, m)
  PROVE  Inv' /\ AtomicStep
  <1>1. /\ call' \in [Callers -> CallState] /\ call[c].pc = "idle"
        /\ call'[c].pc = "refused" /\ c \in Callers
        /\ \A d \in Callers \ {c} : call'[d] = call[d]
    <2>1. Answered(c, "refused") \in CallState /\ Answered(c, "refused").pc = "refused"
      BY DEF Answered, Idle, CallState
    <2>2. QED BY <2>1 DEF Refuse, Inv, CallInv, Callers
  <1>2. UNCHANGED <<raftVars, fsmVars, diskVars, storageVars>>
    BY DEF Refuse
  <1>3. LogInv' /\ HistoryInv' /\ StorageInv'
    BY <1>2 DEF raftVars, storageVars, Inv, LogInv, HistoryInv, StorageInv, committed
  <1>4. MetaInv'
    BY <1>2, MetaInvKept DEF Inv, raftVars
  <1>5. CallInv'
    <2>1. \A i \in 1..Len(log) : log[i].by # c
      BY <1>1 DEF Inv, CallInv, Logged
    <2>2. Logged'
      <3>1. \A i \in 1..Len(log) : log[i].by \in Calls => log[i].by \in Callers \ {c}
        BY <2>1 DEF Callers
      <3>2. QED BY <3>1, <1>1, <1>2 DEF raftVars, Inv, CallInv, Logged
    <2>3. Once' /\ OkIsCommitted'
      BY <1>1, <1>2 DEF raftVars, Inv, CallInv, Once, OkIsCommitted, InCommitted, committed, Callers
    <2>4. Waits'
      BY <1>1, <1>2 DEF raftVars, Inv, CallInv, Waits, Callers
    <2>5. QED BY <1>1, <2>2, <2>3, <2>4 DEF CallInv
  <1>6. Atomic!Refuse(c)
    <2>1. acted' = acted
      BY <1>2 DEF raftVars, acted, committed
    <2>2. QED BY <1>1, <1>2, <2>1 DEF Atomic!Refuse, raftVars, Callers
  <1>7. QED BY <1>3, <1>4, <1>5, <1>6 DEF Inv, AtomicStep, Atomic!Next

(* The calls that wait at a node which dies or steps down get an error.    *)
LEMMA FailStep ==
  ASSUME Inv, NEW m \in Metas, FailWaiting(m), UNCHANGED <<log, history>>,
         leads' = leads \ {m}, leader' = IF leader = m THEN NoMeta ELSE leader
  PROVE  LogInv' /\ HistoryInv' /\ CallInv' /\ AtomicStep
  <1>1. LogInv' /\ HistoryInv' /\ acted' = acted
    BY DEF Inv, LogInv, HistoryInv, acted, committed
  <1>2. \A c \in Callers :
          /\ call'[c] = IF c \in Waiting(m) THEN Answered(c, "error") ELSE call[c]
          /\ Answered(c, "error") \in CallState
          /\ c \in Calls => Answered(c, "error").pc = "error"
    BY DEF FailWaiting, Answered, Idle, CallState
  <1>3. call' \in [Callers -> CallState]
    <2>1. \A c \in Callers : call[c] \in CallState
      BY DEF Inv, CallInv
    <2>2. QED BY <1>2, <2>1 DEF FailWaiting
  <1>4. \A c \in Calls :
          /\ c \in Waiting(m) => call[c].pc = "wait" /\ call'[c].pc = "error"
          /\ c \notin Waiting(m) => call'[c] = call[c]
    BY <1>2 DEF Waiting, Callers
  <1>5. Logged'
    BY <1>4 DEF Inv, CallInv, Logged
  <1>6. Once' /\ OkIsCommitted'
    BY <1>4 DEF Inv, CallInv, Once, OkIsCommitted, InCommitted, committed
  <1>7. Waits'
    <2> SUFFICES ASSUME NEW c \in Calls, call'[c].pc = "wait"
                 PROVE  /\ call'[c].at \in leads'
                        /\ call'[c].at = leader' /\ call'[c].index > 0 =>
                             call'[c].index \in 1..Len(log) /\ log[call'[c].index].by = c
      BY DEF Waits
    <2>1. call'[c] = call[c] /\ c \notin Waiting(m)
      BY <1>4
    <2>2. call[c].at \in leads \ {m}
      BY <2>1 DEF Waiting, Callers, Inv, CallInv, Waits
    <2>3. call[c].at = leader' => call[c].at = leader
      BY <2>2, MetaAssumption DEF Inv, LogInv
    <2>4. QED BY <2>1, <2>2, <2>3 DEF Inv, CallInv, Waits
  <1>8. PICK failed \in SUBSET Calls : failed = Waiting(m) \cap Calls
    OBVIOUS
  <1>9. AtomicStep
    <2>1. [c \in Calls |-> call'[c].pc] =
            [c \in Calls |-> IF c \in failed THEN "error"
                             ELSE [d \in Calls |-> call[d].pc][c]]
      BY <1>4, <1>8
    <2>2. \A c \in failed : [d \in Calls |-> call[d].pc][c] = "wait"
      BY <1>4, <1>8
    <2>3. Atomic!Fail(failed)
      BY <1>1, <2>1, <2>2 DEF Atomic!Fail
    <2>4. Atomic!Next
      BY <2>3, Zenon DEF Atomic!Next
    <2>5. QED BY <2>4, Zenon DEF AtomicStep
  <1>10. QED BY <1>1, <1>3, <1>5, <1>6, <1>7, <1>9 DEF CallInv
(* A majority has the next command (raft).                                 *)
LEMMA CommitStep ==
  ASSUME Inv, Commit
  PROVE  Inv' /\ AtomicStep
  <1> DEFINE e == log[committed + 1]
             last == history[Len(history)]
             next == Catalog!Apply(last, e.cmd)
  <1>1. /\ UNCHANGED <<log, leader, leads, fsmVars, diskVars, call, storageVars>>
        /\ history' = Append(history, next)
        /\ committed < Len(log)
    BY DEF Commit
  <1>2. /\ Len(log) \in Nat /\ committed \in Nat /\ Len(history) = committed + 1
        /\ committed + 1 \in 1..Len(log)
    BY <1>1 DEF Inv, LogInv, HistoryInv, committed
  <1>3. /\ \E T : history' \in Seq(T)
        /\ Len(history') = Len(history) + 1 /\ committed' = committed + 1
        /\ \A i \in 1..Len(history) : history'[i] = history[i]
        /\ history'[Len(history) + 1] = next
    <2>1. PICK S : history \in Seq(S)
      BY DEF Inv, HistoryInv
    <2>2. \E T : history' \in Seq(T)
      BY <1>1, <2>1, AppendIsSequence
    <2>3. /\ Len(history') = Len(history) + 1
          /\ \A i \in 1..Len(history) : history'[i] = history[i]
          /\ history'[Len(history) + 1] = next
      <3> HIDE DEF next
      <3>1. history \in Seq(S \cup {next})
        BY <2>1, SeqDef
      <3>2. QED BY <3>1, <1>1, AppendProperties
    <2>4. QED BY <1>2, <2>2, <2>3 DEF committed
  <1>4. e \in LogEntry
    BY <1>2 DEF Inv, LogInv
  <1>5. LogInv' /\ StorageInv'
    BY <1>1 DEF Inv, LogInv, StorageInv, storageVars
  <1>6. HistoryInv'
    <2>1. next.nodes \in [Nodes -> Catalog!NodeStatus]
      <3>1. last.nodes \in [Nodes -> Catalog!NodeStatus]
        BY <1>2 DEF Inv, HistoryInv
      <3> HIDE DEF last, e
      <3>2. QED BY <3>1, StatusKept, Zenon
    <2> HIDE DEF next
    <2>2. \A i \in 1..Len(history') : history'[i].nodes \in [Nodes -> Catalog!NodeStatus]
      BY <1>2, <1>3, <2>1 DEF Inv, HistoryInv
    <2>3. \A i \in 1..committed' : history'[i + 1] = Catalog!Apply(history'[i], log'[i].cmd)
      <3> SUFFICES ASSUME NEW i \in 1..committed'
                   PROVE  history'[i + 1] = Catalog!Apply(history'[i], log[i].cmd)
        BY <1>1
      <3>1. CASE i = committed + 1
        BY <3>1, <1>2, <1>3 DEF next
      <3>2. CASE i \in 1..committed
        <4>1. history'[i] = history[i] /\ history'[i + 1] = history[i + 1]
          BY <3>2, <1>2, <1>3
        <4>2. QED BY <4>1, <3>2 DEF Inv, HistoryInv
      <3>3. QED BY <3>1, <3>2, <1>2, <1>3
    <2>4. Len(history') \in 1..(Len(log') + 1) /\ history'[1] = Empty
      BY <1>1, <1>2, <1>3 DEF Inv, HistoryInv
    <2>5. QED BY <1>3, <2>2, <2>3, <2>4 DEF HistoryInv
  <1>7. MetaInv'
    <2>1. \A i, s : IsPast(i, s) => IsPast(i, s)'
      BY <1>2, <1>3 DEF IsPast
    <2>2. applied' \in [Metas -> 0..committed']
      <3>1. 0..committed \subseteq 0..committed'
        BY <1>2, <1>3
      <3>2. QED BY <3>1, <1>1 DEF Inv, MetaInv, fsmVars
    <2>3. NodesShowThePast'
      BY <2>1, <1>1 DEF Inv, MetaInv, NodesShowThePast, Shown, fsmVars, diskVars
    <2>4. QED BY <1>1, <2>2, <2>3 DEF Inv, MetaInv, fsmVars, diskVars
  <1>8. \A c : InCommitted(c)' <=> InCommitted(c) \/ c = e.by
    <2>1. 1..committed' = 1..committed \cup {committed + 1} /\ log' = log
      BY <1>1, <1>2, <1>3
    <2>2. QED BY <2>1, Zenon DEF InCommitted
  <1>9. CallInv'
    BY <1>1, <1>8 DEF Inv, CallInv, Logged, Once, OkIsCommitted, Waits
  <1>10. acted' = acted \cup ({e.by} \cap Calls)
    BY <1>1, <1>2, <1>3 DEF acted
  <1>11. history'[Len(history')].keys = next.keys
    BY <1>3
  <1>12. CASE e.by \in Calls
    <2>1. e.cmd = Request[e.by] /\ call[e.by].pc \in {"wait", "ok", "error"}
      BY <1>2, <1>12 DEF Inv, CallInv, Logged
    <2>2. ~ InCommitted(e.by)
      BY <1>2, <1>12 DEF Inv, CallInv, Once, InCommitted
    <2>3. call[e.by].pc \in {"wait", "error"} /\ e.by \notin acted
      BY <1>12, <2>1, <2>2 DEF Inv, CallInv, OkIsCommitted, acted, InCommitted
    <2>4. history'[Len(history')].keys = Atomic!Catalog!ApplyToKeys(last.keys, Request[e.by])
      BY <1>11, <2>1, SameCommand
    <2>5. acted' = acted \cup {e.by}
      BY <1>10, <1>12
    <2>6. Atomic!Act(e.by)
      BY <1>1, <1>12, <2>3, <2>4, <2>5 DEF Atomic!Act
    <2>7. AtomicStep
      BY <1>12, <2>6, Zenon DEF AtomicStep, Atomic!Next
    <2>8. QED BY <2>7, <1>5, <1>6, <1>7, <1>9 DEF Inv
  <1>13. CASE e.by \notin Calls
    <2>1. next.keys = last.keys
      <3>1. e.cmd.op \in NodeOps
        BY <1>2, <1>13 DEF Inv, CallInv, Logged
      <3>2. QED BY <3>1, NodeCommandKeepsKeys
    <2>2. acted' = acted
      BY <1>10, <1>13
    <2>3. AtomicStep
      BY <1>1, <1>11, <2>1, <2>2 DEF AtomicStep, Atomic!vars
    <2>4. QED BY <2>3, <1>5, <1>6, <1>7, <1>9 DEF Inv
  <1>14. QED BY <1>12, <1>13
(* fsm.Apply at node m, and the answer of the call that waits for it.      *)
LEMMA ApplyStep ==
  ASSUME Inv, NEW m \in Metas, Apply(m)
  PROVE  Inv' /\ AtomicStep
  <1> DEFINE i == applied[m] + 1
             done == {c \in Waiting(m) : call[c].index = i}
  <1>1. /\ i <= committed /\ (m \in leads => m = leader)
        /\ fsm' = [fsm EXCEPT ![m] = Catalog!Apply(fsm[m], log[i].cmd)]
        /\ applied' = [applied EXCEPT ![m] = i]
        /\ call' = [c \in Callers |-> IF c \in done THEN Answered(c, "ok") ELSE call[c]]
        /\ joining' = joining \ {n \in done \cap Nodes : call[n].op = "register_node"}
        /\ UNCHANGED <<raftVars, diskVars, alive>>
    BY DEF Apply
  <1>2. /\ Len(log) \in Nat /\ committed \in Nat /\ committed <= Len(log)
        /\ i \in 1..committed /\ applied[m] \in 0..committed
    BY <1>1 DEF Inv, LogInv, HistoryInv, MetaInv, committed
  <1>3. LogInv' /\ HistoryInv' /\ StorageInv'
    BY <1>1 DEF raftVars, Inv, LogInv, HistoryInv, StorageInv, committed
  <1>4. MetaInv'
    <2>1. fsm' = [n \in Metas |-> fsm'[n]] /\ applied' \in [Metas -> 0..committed']
      <3>1. fsm = [n \in Metas |-> fsm[n]] /\ applied \in [Metas -> 0..committed]
        BY DEF Inv, MetaInv
      <3>2. committed' = committed /\ i \in 0..committed
        BY <1>1, <1>2 DEF raftVars, committed
      <3>3. fsm' = [n \in Metas |-> fsm'[n]]
        BY <3>1, <1>1, Zenon
      <3>4. QED BY <1>1, <3>1, <3>2, <3>3
    <2>2. fsm'[m] = history[i + 1]
      <3>1. fsm'[m] = Catalog!Apply(fsm[m], log[i].cmd)
        BY <1>1 DEF Inv, MetaInv
      <3>2. fsm[m] = history[i]
        BY <1>2 DEF Inv, MetaInv, NodesShowThePast, IsPast, Shown
      <3>3. QED BY <1>2, <3>1, <3>2 DEF Inv, HistoryInv
    <2>3. IsPast(applied[m], Shown(m))'
      BY <1>1, <1>2, <2>2 DEF IsPast, Shown, raftVars, committed, Inv, MetaInv
    <2>4. \A n \in Metas \ {m} : IsPast(applied[n], Shown(n))'
      BY <1>1 DEF IsPast, Shown, raftVars, committed, Inv, MetaInv, NodesShowThePast
    <2>5. \A n \in Metas : IsPast(snapshot[n].index, snapshot[n].state)'
                         /\ IsPast(taken[n].index, taken[n].state)'
      BY <1>1 DEF IsPast, raftVars, diskVars, committed, Inv, MetaInv, NodesShowThePast
    <2>6. QED BY <1>1, <2>1, <2>3, <2>4, <2>5 DEF MetaInv, NodesShowThePast, Inv, diskVars
  <1>5. /\ \A c \in Callers :
             call'[c] = IF c \in done THEN Answered(c, "ok") ELSE call[c]
        /\ \A c \in Callers : Answered(c, "ok") \in CallState
        /\ \A c \in Calls : Answered(c, "ok").pc = "ok"
    BY <1>1 DEF Answered, Idle, CallState
  <1>6. call' \in [Callers -> CallState]
    <2>1. \A c \in Callers : call[c] \in CallState
      BY DEF Inv, CallInv
    <2>2. QED BY <1>1, <1>5, <2>1
  <1>7. \A c \in Calls : c \in done =>
          call[c].pc = "wait" /\ call[c].at = leader /\ log[i].by = c
    <2> SUFFICES ASSUME NEW c \in Calls, c \in done
                 PROVE  call[c].pc = "wait" /\ call[c].at = leader /\ log[i].by = c
      OBVIOUS
    <2>1. call[c].pc = "wait" /\ call[c].at = m /\ call[c].index = i
      BY DEF Waiting
    <2>2. m \in leads /\ m = leader
      BY <1>1, <2>1 DEF Inv, CallInv, Waits
    <2>3. QED BY <1>2, <2>1, <2>2 DEF Inv, CallInv, Waits
  <1>8. \A c \in Calls :
          /\ c \in done => call[c].pc = "wait" /\ call'[c].pc = "ok" /\ InCommitted(c)
          /\ c \notin done => call'[c] = call[c]
    BY <1>2, <1>5, <1>7 DEF Callers, InCommitted
  <1> HIDE DEF i, done
  <1>9. UNCHANGED <<log, history, leader, leads>> /\ committed' = committed
    BY <1>1 DEF raftVars, committed
  <1>10. CallInv'
    <2>1. Logged'
      BY <1>8, <1>9 DEF Inv, CallInv, Logged
    <2>2. Once' /\ OkIsCommitted'
      BY <1>8, <1>9 DEF Inv, CallInv, Once, OkIsCommitted, InCommitted
    <2>3. Waits'
      BY <1>8, <1>9 DEF Inv, CallInv, Waits
    <2>4. QED BY <1>6, <2>1, <2>2, <2>3 DEF CallInv
  <1>11. acted' = acted
    BY <1>9 DEF acted
  <1>12. AtomicStep
    <2>1. CASE \E c \in Calls : c \in done
      <3>1. PICK c \in Calls : c \in done
        BY <2>1
      <3>2. \A d \in Calls \ {c} : call'[d] = call[d]
        BY <1>7, <1>8, <3>1
      <3>3. c \in acted
        BY <1>8, <3>1 DEF acted, InCommitted
      <3>4. Atomic!Succeed(c)
        BY <1>8, <1>9, <1>11, <3>1, <3>2, <3>3 DEF Atomic!Succeed
      <3>5. Atomic!Next
        BY <3>4, Zenon DEF Atomic!Next
      <3>6. QED BY <3>5, Zenon DEF AtomicStep
    <2>2. CASE \A c \in Calls : c \notin done
      BY <1>8, <1>9, <2>2, Unnoticed
    <2>3. QED BY <2>1, <2>2
  <1>13. QED BY <1>3, <1>4, <1>10, <1>12 DEF Inv

(* A new leader has the committed part of the log.                         *)
LEMMA ElectStep ==
  ASSUME Inv, NEW m \in Metas, Elect(m)
  PROVE  Inv' /\ AtomicStep
  <1>1. /\ m \notin leads /\ leader' = m /\ leads' = leads \cup {m}
        /\ UNCHANGED <<history, fsmVars, diskVars, call, storageVars>>
    BY DEF Elect
  <1>2. PICK n \in committed..Len(log) : log' = SubSeq(log, 1, n)
    BY DEF Elect
  <1>3. /\ Len(log) \in Nat /\ committed \in Nat /\ committed <= n /\ n <= Len(log)
        /\ n \in Nat /\ log \in Seq(LogEntry)
    BY DEF Inv, LogInv, HistoryInv, committed
  <1>4. /\ log' \in Seq(LogEntry) /\ Len(log') = n
        /\ \A i \in 1..n : log'[i] = log[i]
    <2>1. \A i \in 1..n : i \in 1..Len(log)
      BY <1>3
    <2>2. \A i \in 1..n : log[i] \in LogEntry
      BY <1>3, <2>1
    <2>3. QED BY <1>2, <1>3, <2>1, <2>2, SubSeqProperties
  <1>5. LogInv' /\ StorageInv'
    BY <1>1, <1>4 DEF Inv, LogInv, StorageInv, storageVars
  <1>6. HistoryInv' /\ acted' = acted /\ \A c : InCommitted(c) <=> InCommitted(c)'
    <2>1. UNCHANGED history /\ Len(log') \in Nat /\ Len(log') >= committed
          /\ \A i \in 1..committed : log'[i] = log[i]
      BY <1>1, <1>3, <1>4
    <2>2. QED BY <2>1, CommittedKept
  <1>7. MetaInv'
    BY <1>1, MetaInvKept DEF Inv
  <1>8. CallInv'
    <2>1. 1..Len(log') \subseteq 1..Len(log)
      BY <1>3, <1>4
    <2>2. Logged' /\ Once'
      BY <1>1, <1>4, <2>1 DEF Inv, CallInv, Logged, Once
    <2>3. OkIsCommitted'
      BY <1>1, <1>6 DEF Inv, CallInv, OkIsCommitted
    <2>4. Waits'
      BY <1>1 DEF Inv, CallInv, Waits
    <2>5. QED BY <1>1, <2>2, <2>3, <2>4 DEF Inv, CallInv
  <1>9. AtomicStep
    BY <1>1, <1>6 DEF AtomicStep, Atomic!vars
  <1>10. QED BY <1>5, <1>6, <1>7, <1>8, <1>9 DEF Inv
(* The empty catalogue, which a node without a snapshot starts from, is    *)
(* the past before the first command.                                      *)
LEMMA EmptyIsPast ==
  ASSUME Inv
  PROVE  IsPast(NoSnapshot.index, NoSnapshot.state)
  BY DEF Inv, LogInv, HistoryInv, IsPast, NoSnapshot, committed

(* fsm.Snapshot and Persist write down what the node shows or has shown.   *)
LEMMA SnapshotStep ==
  ASSUME Inv, NEW m \in Metas, TakeSnapshot(m) \/ Persist(m)
  PROVE  Inv' /\ AtomicStep
  <1>1. UNCHANGED <<raftVars, fsmVars, call, storageVars>>
    BY DEF TakeSnapshot, Persist
  <1>2. UNCHANGED <<log, history, fsm, applied>> /\ committed' = committed
    BY <1>1 DEF raftVars, fsmVars, committed
  <1>3. AtomicStep
    BY <1>1, <1>2, Unnoticed
  <1>4. LogInv' /\ HistoryInv' /\ CallInv' /\ StorageInv'
    <2>1. call' \in [Callers -> CallState]
      BY <1>1 DEF Inv, CallInv
    <2>2. QED BY <1>1, <2>1, RaftKept DEF Inv, StorageInv, storageVars
  <1>5. \A i, s : IsPast(i, s)' <=> IsPast(i, s)
    BY <1>2 DEF IsPast
  <1>6. /\ taken' = [n \in Metas |-> taken'[n]]
        /\ snapshot' = [n \in Metas |-> snapshot'[n]]
        /\ \A n \in Metas : taken'[n] \in {taken[n], NoSnapshot,
                                           [index |-> applied[n], state |-> fsm[n]]}
        /\ \A n \in Metas : snapshot'[n] \in {snapshot[n], taken[n]}
    <2>1. CASE TakeSnapshot(m)
      BY <2>1 DEF TakeSnapshot, Inv, MetaInv
    <2>2. CASE Persist(m)
      BY <2>2 DEF Persist, Inv, MetaInv
    <2>3. QED BY <2>1, <2>2
  <1>7. \A n \in Metas : IsPast(taken'[n].index, taken'[n].state)
    <2> SUFFICES ASSUME NEW n \in Metas
                 PROVE  IsPast(taken'[n].index, taken'[n].state)
      OBVIOUS
    <2>1. IsPast(taken[n].index, taken[n].state) /\ IsPast(applied[n], fsm[n])
      BY DEF Inv, MetaInv, NodesShowThePast, Shown
    <2>2. QED BY <1>6, <2>1, EmptyIsPast
  <1>8. \A n \in Metas : IsPast(snapshot'[n].index, snapshot'[n].state)
    BY <1>6 DEF Inv, MetaInv, NodesShowThePast
  <1>9. MetaInv'
    <2>1. NodesShowThePast'
      BY <1>2, <1>5, <1>7, <1>8 DEF NodesShowThePast, Shown, Inv, MetaInv
    <2>2. QED BY <1>2, <1>6, <2>1 DEF Inv, MetaInv
  <1>10. QED BY <1>3, <1>4, <1>9 DEF Inv

(* fsm.Restore: a node that takes over a snapshot shows that past.         *)
LEMMA RestoredPast ==
  ASSUME Inv, NEW m \in Metas, NEW s, IsPast(s.index, s.state), Restored(m, s),
         UNCHANGED history
  PROVE  /\ fsm' = [n \in Metas |-> fsm'[n]]
         /\ applied' \in [Metas -> 0..committed']
         /\ \A n \in Metas : IsPast(applied[n], Shown(n))'
         /\ \A i, t : IsPast(i, t)' <=> IsPast(i, t)
  <1>1. /\ fsm = [n \in Metas |-> fsm[n]] /\ applied \in [Metas -> 0..committed]
        /\ s.index \in 0..committed
        /\ fsm' = [fsm EXCEPT ![m] = s.state] /\ applied' = [applied EXCEPT ![m] = s.index]
    BY DEF Inv, MetaInv, IsPast, Restored
  <1>2. committed' = committed
    BY DEF committed
  <1>3. fsm' = [n \in Metas |-> fsm'[n]]
    BY <1>1, Zenon
  <1>4. applied' \in [Metas -> 0..committed']
    BY <1>1, <1>2
  <1>5. \A i, t : IsPast(i, t)' <=> IsPast(i, t)
    BY <1>2 DEF IsPast
  <1>6. \A n \in Metas : IsPast(applied[n], Shown(n))'
    <2> SUFFICES ASSUME NEW n \in Metas PROVE IsPast(applied'[n], fsm'[n])
      BY <1>5 DEF Shown, IsPast
    <2>1. CASE n = m
      BY <1>1, <2>1
    <2>2. CASE n # m
      BY <1>1, <2>2 DEF Inv, MetaInv, NodesShowThePast, Shown
    <2>3. QED BY <2>1, <2>2
  <1>7. QED BY <1>3, <1>4, <1>5, <1>6

(* The leader's snapshot, sent to a follower.                              *)
LEMMA InstallStep ==
  ASSUME Inv, NEW m \in Metas, Install(m)
  PROVE  Inv' /\ AtomicStep
  <1>1. /\ leader \in Metas
        /\ Restored(m, snapshot[leader])
        /\ snapshot' = [snapshot EXCEPT ![m] = snapshot[leader]]
        /\ UNCHANGED <<raftVars, taken, call, storageVars>>
    BY DEF Install, Inv, LogInv
  <1>2. UNCHANGED <<log, history>>
    BY <1>1 DEF raftVars
  <1>3. AtomicStep
    BY <1>1, <1>2, Unnoticed
  <1>4. LogInv' /\ HistoryInv' /\ CallInv' /\ StorageInv'
    <2>1. call' \in [Callers -> CallState]
      BY <1>1 DEF Inv, CallInv
    <2>2. QED BY <1>1, <2>1, RaftKept DEF Inv, StorageInv, storageVars
  <1>5. IsPast(snapshot[leader].index, snapshot[leader].state)
    BY <1>1 DEF Inv, MetaInv, NodesShowThePast
  <1>6. /\ fsm' = [n \in Metas |-> fsm'[n]]
        /\ applied' \in [Metas -> 0..committed']
        /\ \A n \in Metas : IsPast(applied[n], Shown(n))'
        /\ \A i, t : IsPast(i, t)' <=> IsPast(i, t)
    BY <1>1, <1>2, <1>5, RestoredPast
  <1>7. /\ snapshot' = [n \in Metas |-> snapshot'[n]]
        /\ \A n \in Metas : snapshot'[n] \in {snapshot[n], snapshot[leader]}
    BY <1>1 DEF Inv, MetaInv
  <1>8. NodesShowThePast'
    BY <1>1, <1>5, <1>6, <1>7 DEF Inv, MetaInv, NodesShowThePast
  <1>9. MetaInv'
    BY <1>1, <1>6, <1>7, <1>8 DEF Inv, MetaInv
  <1>10. QED BY <1>3, <1>4, <1>9 DEF Inv

(* The process of a metadata node dies and starts again.                   *)
LEMMA RestartStep ==
  ASSUME Inv, NEW m \in Metas, Restart(m)
  PROVE  Inv' /\ AtomicStep
  <1>1. /\ Restored(m, snapshot[m])
        /\ taken' = [taken EXCEPT ![m] = NoSnapshot]
        /\ leader' = IF leader = m THEN NoMeta ELSE leader
        /\ leads' = leads \ {m} /\ FailWaiting(m)
        /\ UNCHANGED <<log, history, snapshot, storageVars>>
    BY DEF Restart
  <1>2. LogInv' /\ HistoryInv' /\ CallInv' /\ AtomicStep
    BY <1>1, FailStep
  <1>3. IsPast(snapshot[m].index, snapshot[m].state)
    BY DEF Inv, MetaInv, NodesShowThePast
  <1>4. /\ fsm' = [n \in Metas |-> fsm'[n]]
        /\ applied' \in [Metas -> 0..committed']
        /\ \A n \in Metas : IsPast(applied[n], Shown(n))'
        /\ \A i, t : IsPast(i, t)' <=> IsPast(i, t)
    BY <1>1, <1>3, RestoredPast
  <1>5. /\ taken' = [n \in Metas |-> taken'[n]]
        /\ \A n \in Metas : taken'[n] \in {taken[n], NoSnapshot}
    BY <1>1 DEF Inv, MetaInv
  <1>6. NodesShowThePast'
    BY <1>1, <1>4, <1>5, EmptyIsPast DEF Inv, MetaInv, NodesShowThePast
  <1>7. MetaInv' /\ StorageInv'
    BY <1>1, <1>4, <1>5, <1>6 DEF Inv, MetaInv, StorageInv, storageVars
  <1>8. QED BY <1>2, <1>7 DEF Inv

(* A deposed leader hears of it.                                           *)
LEMMA StepDownStep ==
  ASSUME Inv, NEW m \in Metas, StepDown(m)
  PROVE  Inv' /\ AtomicStep
  <1>1. /\ m # leader /\ leads' = leads \ {m} /\ FailWaiting(m)
        /\ UNCHANGED <<log, history, leader, fsmVars, diskVars, storageVars>>
    BY DEF StepDown
  <1>2. LogInv' /\ HistoryInv' /\ CallInv' /\ AtomicStep
    BY <1>1, FailStep
  <1>3. MetaInv' /\ StorageInv'
    BY <1>1, MetaInvKept DEF Inv, StorageInv, storageVars
  <1>4. QED BY <1>2, <1>3 DEF Inv
(* The commands of clients, storage processes and detectors all go through *)
(* Store.apply.                                                            *)
LEMMA CommandStep ==
  ASSUME Inv,
         \/ \E c \in Calls, m \in Metas : Call(c, m)
         \/ \E n \in Nodes : Register(n) \/ Heartbeat(n)
         \/ \E n \in Nodes, m \in Metas : MarkNodeDown(m, n) \/ FalseAlarm(m, n)
  PROVE  Inv' /\ AtomicStep
  <1>1. UNCHANGED storageVars
    BY DEF Call, Register, Heartbeat, MarkNodeDown, FalseAlarm
  <1>2. StorageInv'
    BY <1>1 DEF Inv, StorageInv, storageVars
  <1>3. ASSUME NEW c \in Calls, NEW m \in Metas, Call(c, m)
        PROVE  Inv' /\ AtomicStep
    <2>1. Request[c] \in Commands /\ c \in Callers /\ Submit(c, m, Request[c])
      BY <1>3 DEF Call, Commands, Callers
    <2>2. QED BY <2>1, <1>2, SubmitStep DEF Inv
  <1>4. ASSUME NEW c \in Nodes \cup Metas, NEW m \in Metas, NEW n \in Nodes,
               NEW op \in NodeOps, Submit(c, m, [op |-> op, node |-> n])
        PROVE  Inv' /\ AtomicStep
    <2> DEFINE cmd == [op |-> op, node |-> n]
    <2>1. cmd \in Commands /\ cmd.op \in NodeOps
      BY DEF Commands, NodeOps
    <2>2. c \in Callers /\ c \notin Calls
      BY MetaAssumption DEF Callers
    <2>3. Submit(c, m, cmd)
      BY <1>4
    <2> HIDE DEF cmd
    <2>4. LogInv' /\ HistoryInv' /\ MetaInv' /\ CallInv' /\ AtomicStep
      BY <2>1, <2>2, <2>3, SubmitStep
    <2>5. QED BY <2>4, <1>2 DEF Inv
  <1>5. ASSUME NEW n \in Nodes, Register(n) PROVE Inv' /\ AtomicStep
    BY <1>4, <1>5, MetaAssumption DEF Register, NodeOps
  <1>6. ASSUME NEW n \in Nodes, Heartbeat(n) PROVE Inv' /\ AtomicStep
    BY <1>4, <1>6, MetaAssumption DEF Heartbeat, NodeOps
  <1>7. ASSUME NEW n \in Nodes, NEW m \in Metas, MarkNodeDown(m, n) \/ FalseAlarm(m, n)
        PROVE  Inv' /\ AtomicStep
    BY <1>4, <1>7 DEF MarkNodeDown, FalseAlarm, NodeOps
  <1>8. QED BY <1>3, <1>5, <1>6, <1>7

(* A storage process dies or starts again: no client notices.              *)
LEMMA StorageStep ==
  ASSUME Inv, NEW n \in Nodes, Crash(n) \/ Start(n)
  PROVE  Inv' /\ AtomicStep
  <1>1. UNCHANGED <<raftVars, fsmVars, diskVars>>
    BY DEF Crash, Start
  <1>2. call' \in [Callers -> CallState] /\ \A c \in Calls : call'[c] = call[c]
    <2>1. call \in [Callers -> CallState] /\ Idle \in CallState
      BY DEF Inv, CallInv, Idle, CallState
    <2>2. call' = [call EXCEPT ![n] = Idle] \/ call' = call
      BY DEF Crash, Start
    <2>3. n \notin Calls /\ Calls \subseteq Callers
      BY MetaAssumption DEF Callers
    <2>4. QED BY <2>1, <2>2, <2>3
  <1>3. UNCHANGED <<log, history>>
    BY <1>1 DEF raftVars
  <1>4. LogInv' /\ HistoryInv' /\ CallInv' /\ AtomicStep
    BY <1>1, <1>2, <1>3, RaftKept, Unnoticed
  <1>5. MetaInv'
    BY <1>1, <1>3, MetaInvKept DEF Inv
  <1>6. StorageInv'
    BY DEF Crash, Start, Inv, StorageInv
  <1>7. QED BY <1>4, <1>5, <1>6 DEF Inv

-----------------------------------------------------------------------------
(* The theorems                                                            *)

(* Nothing is logged, known or asked for at the start.                     *)
LEMMA InitInv ==
  ASSUME Init
  PROVE  Inv /\ Atomic!Init
  <1>1. /\ log = << >> /\ Len(log) = 0 /\ log \in Seq(LogEntry)
        /\ history = <<Empty>> /\ Len(history) = 1 /\ history[1] = Empty
        /\ history \in Seq({Empty}) /\ committed = 0
    BY DEF Init, committed
  <1>2. LogInv
    BY <1>1 DEF Init, LogInv
  <1>3. HistoryInv
    <2>1. Empty.nodes \in [Nodes -> Catalog!NodeStatus]
      BY DEF Empty, Catalog!NodeStatus
    <2>2. \E S : history \in Seq(S)
      BY <1>1
    <2>3. QED BY <1>1, <2>1, <2>2 DEF HistoryInv
  <1>4. MetaInv
    BY <1>1 DEF Init, MetaInv, NodesShowThePast, IsPast, Shown, NoSnapshot
  <1>5. CallInv
    <2>1. Idle \in CallState /\ Idle.pc = "idle"
      BY DEF Idle, CallState
    <2>2. call = [c \in Callers |-> Idle]
      BY DEF Init
    <2>3. call \in [Callers -> CallState] /\ \A c \in Calls : call[c].pc = "idle"
      BY <2>1, <2>2 DEF Callers
    <2>4. Logged /\ Once /\ OkIsCommitted /\ Waits
      BY <1>1, <2>3 DEF Logged, Once, OkIsCommitted, Waits
    <2>5. QED BY <2>3, <2>4 DEF CallInv
  <1>6. StorageInv
    BY DEF Init, StorageInv
  <1>7. Atomic!Init
    <2>1. history[Len(history)].keys = [k \in Keys |-> Absent]
      BY <1>1 DEF Empty
    <2>2. [c \in Calls |-> call[c].pc] = [c \in Calls |-> "idle"]
      BY DEF Init, Idle, Callers
    <2>3. acted = {}
      BY <1>1 DEF acted
    <2>4. QED BY <2>1, <2>2, <2>3 DEF Atomic!Init
  <1>8. QED BY <1>2, <1>3, <1>4, <1>5, <1>6, <1>7 DEF Inv

(* Every step of MetaRaft keeps the invariant and is a step of             *)
(* AtomicCatalogue or none.                                                *)
LEMMA NextStep ==
  ASSUME Inv, [Next]_vars
  PROVE  Inv' /\ AtomicStep
  <1>1. ASSUME NEW c \in Calls, NEW m \in Metas, Call(c, m) \/ Refuse(c, m)
        PROVE  Inv' /\ AtomicStep
    BY <1>1, CommandStep, RefuseStep
  <1>2. ASSUME NEW m \in Metas,
               \/ Apply(m) \/ Elect(m) \/ StepDown(m)
               \/ TakeSnapshot(m) \/ Persist(m) \/ Install(m) \/ Restart(m)
        PROVE  Inv' /\ AtomicStep
    BY <1>2, ApplyStep, ElectStep, StepDownStep, SnapshotStep, InstallStep, RestartStep
  <1>3. ASSUME NEW n \in Nodes,
               \/ Register(n) \/ Heartbeat(n) \/ Crash(n) \/ Start(n)
               \/ \E m \in Metas : MarkNodeDown(m, n) \/ FalseAlarm(m, n)
        PROVE  Inv' /\ AtomicStep
    BY <1>3, CommandStep, StorageStep
  <1>4. CASE UNCHANGED vars
    <2>1. /\ UNCHANGED <<raftVars, fsmVars, diskVars, call, storageVars>>
          /\ UNCHANGED <<log, history>>
      BY <1>4 DEF vars, raftVars
    <2>2. call' \in [Callers -> CallState]
      BY <2>1 DEF Inv, CallInv
    <2>3. LogInv' /\ HistoryInv' /\ CallInv' /\ AtomicStep
      BY <2>1, <2>2, RaftKept, Unnoticed
    <2>4. MetaInv' /\ StorageInv'
      BY <2>1, MetaInvKept DEF Inv, StorageInv, storageVars
    <2>5. QED BY <2>3, <2>4 DEF Inv
  <1>5. QED BY <1>1, <1>2, <1>3, <1>4, CommitStep DEF Next

(* The types, and that every catalogue has a status for every storage node *)
(* (fsm.Apply).                                                            *)
THEOREM MetaTypesCorrect == Spec => []TypeOK
  <1>1. Inv => TypeOK
    <2> SUFFICES ASSUME Inv PROVE TypeOK
      OBVIOUS
    <2>1. \A m \in Metas : fsm[m].nodes \in [Nodes -> Catalog!NodeStatus]
      <3> SUFFICES ASSUME NEW m \in Metas
                   PROVE  fsm[m].nodes \in [Nodes -> Catalog!NodeStatus]
        OBVIOUS
      <3>1. applied[m] \in 0..committed /\ fsm[m] = history[applied[m] + 1]
        BY DEF Inv, MetaInv, NodesShowThePast, IsPast, Shown
      <3>2. Len(log) \in Nat /\ Len(history) \in 1..(Len(log) + 1)
        BY DEF Inv, LogInv, HistoryInv
      <3>3. applied[m] + 1 \in 1..Len(history)
        BY <3>1, <3>2 DEF committed
      <3>4. QED BY <3>1, <3>3 DEF Inv, HistoryInv
    <2>2. QED BY <2>1 DEF TypeOK, Inv, LogInv, HistoryInv, MetaInv, CallInv, StorageInv
  <1>2. QED BY <1>1, InitInv, NextStep, PTL DEF Spec

(* A node that lags, was restarted or took over a snapshot shows an old    *)
(* catalogue, never a mixture (fsm.Snapshot, Restore, Apply, getKey).      *)
THEOREM NodesAlwaysShowThePast == Spec => []NodesShowThePast
  <1>1. Inv => NodesShowThePast
    BY DEF Inv, MetaInv
  <1>2. QED BY <1>1, InitInv, NextStep, PTL DEF Spec

(* The metadata service implements one map on which every call acts at     *)
(* most once and before it is answered (Store.apply, the handlers).        *)
THEOREM ServiceIsAtomic == Spec => CallsAreAtomic
  <1>1. Init => Inv /\ Atomic!Init
    BY InitInv
  <1>2. Inv /\ [Next]_vars => Inv' /\ [Atomic!Next]_Atomic!vars
    BY NextStep DEF AtomicStep
  <1>3. QED BY <1>1, <1>2, PTL DEF Spec, CallsAreAtomic, Atomic!Spec
=============================================================================
