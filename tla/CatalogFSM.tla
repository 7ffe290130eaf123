----------------------------- MODULE CatalogFSM -----------------------------
(***************************************************************************)
(* internal/metadata/fsm.go: the state machine that raft drives on every   *)
(* metadata node, one operator per command.  The state is the map of keys  *)
(* (a total function with Absent for a missing key) and the map of storage *)
(* nodes (their status, "none" for an unknown node).                       *)
(*                                                                         *)
(* An entry is [put, ids, addrs, committed].  "put" names the PrepareKey   *)
(* that created it and stands for CreatedAt; ids and addrs are, for each   *)
(* fragment index, the NodeIDs and the owners of the NodeAddrs.  Sizes,    *)
(* time stamps and byte counts are left out.  A fragment id is             *)
(* "<key>/<index>" and keys hold no "/" (the server splits the path there),*)
(* so the pair (key, index) identifies a fragment.                         *)
(***************************************************************************)
EXTENDS Naturals

CONSTANT Absent    \* the value of keys[k] for a key that is not in the map

NodeStatus == {"none", "up", "down", "draining"}

(* put_key: the new entry replaces whatever the key had.                   *)
PutKey(keys, k, entry) == [keys EXCEPT ![k] = entry]

(* commit_key: by name, whichever entry the key has now.                   *)
CommitKey(keys, k) ==
  IF keys[k] = Absent THEN keys
  ELSE [keys EXCEPT ![k].committed = TRUE]

(* delete_key *)
DeleteKey(keys, k) == [keys EXCEPT ![k] = Absent]

(* update_fragment: NodeIDs of the fragment, NodeAddrs untouched.          *)
UpdateFragment(keys, k, f, ids) ==
  IF keys[k] = Absent THEN keys
  ELSE [keys EXCEPT ![k].ids[f] = ids]

\* Mutant: stores the status as it was sent, without the default.
RegisterNodeAsSent(nodes, n) == [nodes EXCEPT ![n] = ""]

(* register_node: a new NodeInfo, always announced as up by storaged.      *)
RegisterNode(nodes, n) == [nodes EXCEPT ![n] = "up"]

(* heartbeat: only a known node, and whatever it was it becomes up.        *)
Heartbeat(nodes, n) ==
  IF nodes[n] = "none" THEN nodes ELSE [nodes EXCEPT ![n] = "up"]

(* mark_node_down: only a known node, unconditionally.                     *)
MarkNodeDown(nodes, n) ==
  IF nodes[n] = "none" THEN nodes ELSE [nodes EXCEPT ![n] = "down"]

(* Apply: one command of the raft log on the two maps.                     *)
ApplyToKeys(keys, cmd) ==
  CASE cmd.op = "put_key"    -> PutKey(keys, cmd.key, cmd.entry)
    [] cmd.op = "commit_key" -> CommitKey(keys, cmd.key)
    [] cmd.op = "delete_key" -> DeleteKey(keys, cmd.key)
    [] cmd.op = "update_fragment" -> UpdateFragment(keys, cmd.key, cmd.frag, cmd.ids)
    [] OTHER -> keys

ApplyToNodes(nodes, cmd) ==
  CASE cmd.op = "register_node"  -> RegisterNode(nodes, cmd.node)
    [] cmd.op = "heartbeat"      -> Heartbeat(nodes, cmd.node)
    [] cmd.op = "mark_node_down" -> MarkNodeDown(nodes, cmd.node)
    [] OTHER -> nodes

Apply(state, cmd) ==
  [keys |-> ApplyToKeys(state.keys, cmd), nodes |-> ApplyToNodes(state.nodes, cmd)]
=============================================================================
