------------------------------ MODULE Cluster -------------------------------
(***************************************************************************)
(* The fragmented store as a whole: the catalogue on the metadata leader,  *)
(* the storage nodes and the fragments they hold, clients that put and     *)
(* delete keys, and the leader's goroutines that suspect nodes, re-copy    *)
(* fragments (recovery) and move them to new nodes (rebalance).            *)
(*                                                                         *)
(* What is abstracted:                                                     *)
(*  - one metadata leader that does not change; the catalogue is its FSM   *)
(*    (a follower's copy lags behind it and only serves reads);            *)
(*  - a put is a number, and the bytes it writes are that number: disk     *)
(*    holds for each fragment the put whose bytes the node has, 0 if none; *)
(*    storing over an older file is two steps, the file being torn between *)
(*    them; a first store is one, since nothing finds the file before it   *)
(*    is indexed.  Stores of one fragment on one node are taken one after  *)
(*    the other, and a copy is fetched whole (ChunkStore has the blocks);  *)
(*  - a node and its HTTP address are one thing: a node keeps its address; *)
(*  - time: a node is suspected when it is down, or by mistake.            *)
(* Bounds: MaxPuts puts; MaxRebalances rebalance goroutines at once (one   *)
(* that is started while so many run never gets to run); MaxFaults faults  *)
(* (crashes, lost replies, failed calls, false alarms).                    *)
(***************************************************************************)
EXTENDS ReplicaLists, Integers, FiniteSets

CONSTANTS
  Keys,              \* key names
  NumFrags,          \* fragments per key
  Nodes,             \* storage nodes
  NoNode,            \* no storage node chosen
  Absent,            \* no catalogue entry
  NoJob,             \* a worker that handles no fragment
  ReplicationFactor, \* catalogue: replicas per fragment
  WriteQuorum,       \* kvctl --w: copies before a fragment is acknowledged
  Rankings,          \* for each fragment, the orders of all nodes the placer may use
  InitialNodes,      \* nodes registered before the first put
  MaxPuts, MaxRebalances, MaxFaults

Frags == 1..NumFrags
Fragments == Keys \X Frags
Puts == 1..MaxPuts
Recovery == 0
Rebalances == 1..MaxRebalances
Workers == {Recovery} \cup Rebalances

ASSUME SizesAssumption ==
  /\ NumFrags \in Nat \ {0}
  /\ ReplicationFactor \in Nat \ {0}
  /\ WriteQuorum \in Nat \ {0}
  /\ MaxPuts \in Nat /\ MaxRebalances \in Nat /\ MaxFaults \in Nat

ASSUME NodesAssumption ==
  /\ IsFiniteSet(Nodes)
  /\ InitialNodes \subseteq Nodes
  /\ NoNode \notin Nodes

ASSUME RankingAssumption ==
  /\ Rankings \in [Fragments -> SUBSET Seq(Nodes)]
  /\ \A kf \in Fragments : \A ranking \in Rankings[kf] :
       IsInjective(ranking) /\ Range(ranking) = Nodes

Catalog == INSTANCE CatalogFSM

VARIABLES
  keys,     \* FSM: the catalogue entry of each key
  nodes,    \* FSM: the status of each storage node
  alive,    \* storage processes that run
  joining,  \* running processes whose registerNode loop has not succeeded
  disk,     \* disk[n][k,f]: the put whose bytes node n has for the fragment,
            \* 0 for none in the index, Torn when its file is not whole
  put,      \* each client put
  upload,   \* upload[p][f]: the primary's handling of fragment f of put p
  wpc,      \* where each worker goroutine is
  wlive,    \* its snapshot of the live nodes
  wheld,    \* its copies of the entries (allEntries)
  wtodo,    \* the fragments it has still to look at
  wjob,     \* the fragment it is working on
  faults    \* faults so far

catalogVars == <<keys, nodes>>
storageVars == <<alive, joining, disk>>
clientVars  == <<put, upload>>
workerVars  == <<wpc, wlive, wheld, wtodo, wjob>>
vars == <<catalogVars, storageVars, clientVars, workerVars, faults>>

(***************************************************************************)
(* Types and initial state                                                 *)
(***************************************************************************)
Torn == -1
Disks == [Nodes -> [Fragments -> Nat \cup {Torn}]]
Lists == [Frags -> Seq(Nodes)]
Entry == [put: Puts, ids: Lists, addrs: Lists, committed: BOOLEAN]
Copy  == [put: Puts, ids: Lists]

NoPlan == [f \in Frags |-> << >>]
PutState == [pc: {"new", "planned", "upload", "acked", "failed", "aborted"},
             key: Keys, plan: Lists]
UploadState == [pc: {"new", "fanout", "ok", "error"},
                sends: SUBSET Nodes, copies: Nat]
Job == [key: Keys, frag: Frags, list: Seq(Nodes), source: Nodes \cup {NoNode},
        desired: Seq(Nodes), targets: SUBSET Nodes, left: Nat,
        target: Nodes \cup {NoNode}, data: Nat]

TypeOK ==
  /\ keys \in [Keys -> Entry \cup {Absent}]
  /\ nodes \in [Nodes -> Catalog!NodeStatus]
  /\ alive \subseteq Nodes
  /\ joining \subseteq Nodes
  /\ disk \in Disks
  /\ put \in [Puts -> PutState]
  /\ upload \in [Puts -> [Frags -> UploadState]]
  /\ wpc \in [Workers -> {"idle", "start", "read", "scan", "copy", "store"}]
  /\ wlive \in [Workers -> SUBSET Nodes]
  /\ wheld \in [Workers -> [Keys -> Copy \cup {Absent}]]
  /\ wtodo \in [Workers -> SUBSET Fragments]
  /\ wjob \in [Workers -> Job \cup {NoJob}]
  /\ faults \in Nat

Init ==
  /\ keys = [k \in Keys |-> Absent]
  /\ nodes = [n \in Nodes |-> IF n \in InitialNodes THEN "up" ELSE "none"]
  /\ alive = InitialNodes
  /\ joining = {}
  /\ disk = [n \in Nodes |-> [kf \in Fragments |-> 0]]
  /\ put \in [Puts -> {[pc |-> "new", key |-> k, plan |-> NoPlan] : k \in Keys}]
  /\ upload = [p \in Puts |-> [f \in Frags |->
                 [pc |-> "new", sends |-> {}, copies |-> 0]]]
  /\ wpc = [w \in Workers |-> "idle"]
  /\ wlive = [w \in Workers |-> {}]
  /\ wheld = [w \in Workers |-> [k \in Keys |-> Absent]]
  /\ wtodo = [w \in Workers |-> {}]
  /\ wjob = [w \in Workers |-> NoJob]
  /\ faults = 0

Up == {n \in Nodes : nodes[n] = "up"}

(* A fault happens, within the bound.                                      *)
Fault == faults < MaxFaults /\ faults' = faults + 1

(* The end of store.Put at node n: the bytes are those of put p and the    *)
(* fragment is in the index.                                               *)
Stored(n, k, f, p) == [disk EXCEPT ![n][<<k, f>>] = p]

(* store.Put at node n fails: os.Create did, or the file is cut or removed, *)
(* or whole and the index write fails.  Without an older index record      *)
(* nothing finds what it left.                                             *)
NotStored(n, k, f, p) ==
  {disk} \cup (IF disk[n][<<k, f>>] = 0 THEN {}
              ELSE {Stored(n, k, f, p), Stored(n, k, f, Torn)})

(* The caller gets no answer or an error: the call did not come through,   *)
(* or the store succeeded, or it failed.                                   *)
StoredOrNot(n, k, f, p) == {Stored(n, k, f, p)} \cup NotStored(n, k, f, p)

(* The node can send the whole fragment.                                   *)
Holds(n, k, f) == disk[n][<<k, f>>] > 0

(* A store at node n may end: os.Create has cut the file there was.        *)
Writable(n, k, f) == ~ Holds(n, k, f)

(***************************************************************************)
(* placer.Place: consistent_hash and rendezvous have one order for each    *)
(* fragment; weighted follows the free space in the latest heartbeats, and *)
(* any order may come.                                                     *)
(***************************************************************************)
Placements(k, f, present) ==
  {Place(ranking, present, ReplicationFactor) : ranking \in Rankings[<<k, f>>]}

(***************************************************************************)
(* kvctl put: prepare, upload every fragment through its primary, commit.  *)
(***************************************************************************)

(* PrepareKey up to its raft write: no live node is an error.  The nodes   *)
(* are read here and the entry is written in a later step.                 *)
Prepare(p) ==
  /\ put[p].pc = "new"
  /\ \A q \in Puts : q < p => put[q].pc # "new"
  /\ Up # {}
  /\ \E plan \in [Frags -> UNION {Placements(put[p].key, f, Up) : f \in Frags}] :
       /\ \A f \in Frags : plan[f] \in Placements(put[p].key, f, Up)
       /\ put' = [put EXCEPT ![p].pc = "planned", ![p].plan = plan]
  /\ UNCHANGED <<catalogVars, storageVars, upload, workerVars, faults>>

NewEntry(p) == [put |-> p, ids |-> put[p].plan, addrs |-> put[p].plan,
                committed |-> FALSE]

(* The put_key command is applied and the plan returned to the client.     *)
Plan(p) ==
  /\ put[p].pc = "planned"
  /\ keys' = Catalog!PutKey(keys, put[p].key, NewEntry(p))
  /\ put' = [put EXCEPT ![p].pc = "upload"]
  /\ UNCHANGED <<nodes, storageVars, upload, workerVars, faults>>

(* raft.Apply fails: the client gives up.  An error such as a lost         *)
(* leadership does not tell whether the command takes effect.              *)
PlanError(p) ==
  /\ put[p].pc = "planned"
  /\ Fault
  /\ keys' \in {keys, Catalog!PutKey(keys, put[p].key, NewEntry(p))}
  /\ put' = [put EXCEPT ![p].pc = "failed"]
  /\ UNCHANGED <<nodes, storageVars, upload, workerVars>>

Primary(p, f) == put[p].plan[f][1]
Replicas(p, f) == {put[p].plan[f][i] : i \in 2..Len(put[p].plan[f])}

(* putFragment at the primary: store the bytes, then fan out.  A client    *)
(* that has given up on another fragment may have left this request behind.*)
StorePrimary(p, f) ==
  LET n == Primary(p, f) IN
  /\ put[p].pc \in {"upload", "aborted"}
  /\ upload[p][f].pc = "new"
  /\ n \in alive /\ Writable(n, put[p].key, f)
  /\ disk' = Stored(n, put[p].key, f, p)
  /\ upload' = [upload EXCEPT ![p][f] =
                  [pc |-> "fanout", sends |-> Replicas(p, f), copies |-> 1]]
  /\ UNCHANGED <<catalogVars, alive, joining, put, workerVars, faults>>

(* Its own store fails: an error, and no fan-out.                          *)
StoreError(p, f) ==
  LET n == Primary(p, f) IN
  /\ put[p].pc \in {"upload", "aborted"}
  /\ upload[p][f].pc = "new"
  /\ n \in alive
  /\ Fault
  /\ disk' \in NotStored(n, put[p].key, f, p)
  /\ upload' = [upload EXCEPT ![p][f].pc = "error"]
  /\ UNCHANGED <<catalogVars, alive, joining, put, workerVars>>

(* The primary does not answer.  There is no failover to a replica.        *)
PrimaryError(p, f) ==
  /\ put[p].pc \in {"upload", "aborted"}
  /\ upload[p][f].pc = "new"
  /\ Primary(p, f) \notin alive
  /\ upload' = [upload EXCEPT ![p][f].pc = "error"]
  /\ UNCHANGED <<catalogVars, storageVars, put, workerVars, faults>>

(* sendFragment to one replica, and its putFragment without a fan-out.     *)
SendReplica(p, f, n) ==
  /\ upload[p][f].pc = "fanout"
  /\ n \in upload[p][f].sends /\ n \in alive /\ Writable(n, put[p].key, f)
  /\ disk' = Stored(n, put[p].key, f, p)
  /\ upload' = [upload EXCEPT ![p][f].sends = @ \ {n}, ![p][f].copies = @ + 1]
  /\ UNCHANGED <<catalogVars, alive, joining, put, workerVars, faults>>

(* The replica is down.                                                    *)
SendError(p, f, n) ==
  /\ upload[p][f].pc = "fanout"
  /\ n \in upload[p][f].sends \ alive
  /\ upload' = [upload EXCEPT ![p][f].sends = @ \ {n}]
  /\ UNCHANGED <<catalogVars, storageVars, put, workerVars, faults>>

(* The call or its answer is lost, or the replica fails to store.          *)
SendLost(p, f, n) ==
  /\ upload[p][f].pc = "fanout"
  /\ n \in upload[p][f].sends \cap alive
  /\ Fault
  /\ disk' \in StoredOrNot(n, put[p].key, f, p)
  /\ upload' = [upload EXCEPT ![p][f].sends = @ \ {n}]
  /\ UNCHANGED <<catalogVars, alive, joining, put, workerVars>>

(* All sends have ended.  The quorum is compared only when the request     *)
(* named replicas.                                                         *)
\* Mutant: the primary's own copy is enough.
QuorumIgnored(p, f) == TRUE

QuorumReached(p, f) ==
  Replicas(p, f) = {} \/ upload[p][f].copies >= WriteQuorum

Answer(p, f) ==
  /\ upload[p][f].pc = "fanout"
  /\ upload[p][f].sends = {}
  /\ upload' = [upload EXCEPT ![p][f].pc =
                  IF QuorumReached(p, f) THEN "ok" ELSE "error"]
  /\ UNCHANGED <<catalogVars, storageVars, put, workerVars, faults>>

(* The primary has done its work but the client does not get the answer.   *)
AnswerLost(p, f) ==
  /\ upload[p][f].pc = "fanout"
  /\ upload[p][f].sends = {}
  /\ Fault
  /\ upload' = [upload EXCEPT ![p][f].pc = "error"]
  /\ UNCHANGED <<catalogVars, storageVars, put, workerVars>>

(* cmdPut returns at the first fragment that failed.                       *)
Abort(p) ==
  /\ put[p].pc = "upload"
  /\ \E f \in Frags : upload[p][f].pc = "error"
  /\ put' = [put EXCEPT ![p].pc = "aborted"]
  /\ UNCHANGED <<catalogVars, storageVars, upload, workerVars, faults>>

(* commitKey: the commit names the key, not the entry that was planned.    *)
Commit(p) ==
  /\ put[p].pc = "upload"
  /\ \A f \in Frags : upload[p][f].pc = "ok"
  /\ keys' = Catalog!CommitKey(keys, put[p].key)
  /\ put' = [put EXCEPT ![p].pc = "acked"]
  /\ UNCHANGED <<nodes, storageVars, upload, workerVars, faults>>

CommitError(p) ==
  /\ put[p].pc = "upload"
  /\ \A f \in Frags : upload[p][f].pc = "ok"
  /\ Fault
  /\ keys' \in {keys, Catalog!CommitKey(keys, put[p].key)}
  /\ put' = [put EXCEPT ![p].pc = "failed"]
  /\ UNCHANGED <<nodes, storageVars, upload, workerVars>>

(* kvctl delete: the catalogue forgets the key, the nodes are not told.    *)
Delete(k) ==
  /\ keys[k] # Absent
  /\ keys' = Catalog!DeleteKey(keys, k)
  /\ UNCHANGED <<nodes, storageVars, clientVars, workerVars, faults>>


(***************************************************************************)
(* Storage processes and their membership.                                 *)
(***************************************************************************)

(* Node n may be in the middle of storing the fragment.                    *)
Storing(n, k, f) ==
  \/ \E p \in Puts : put[p].key = k /\
       \/ /\ put[p].pc \in {"upload", "aborted"} /\ upload[p][f].pc = "new"
          /\ n = Primary(p, f)
       \/ upload[p][f].pc = "fanout" /\ n \in upload[p][f].sends
  \/ \E w \in Workers :
       wpc[w] = "store" /\ wjob[w].key = k /\ wjob[w].frag = f /\ wjob[w].target = n

(* os.Create in store.Put cuts the older file before a byte is written.    *)
CutFile(n, k, f) ==
  /\ n \in alive
  /\ Storing(n, k, f) /\ Holds(n, k, f)
  /\ disk' = Stored(n, k, f, Torn)
  /\ UNCHANGED <<catalogVars, alive, joining, clientVars, workerVars, faults>>

(* A process dies; requests it was handling die with it.  Its disk stays,  *)
(* with the files it was writing cut short.                                *)
Crash(n) ==
  /\ n \in alive
  /\ Fault
  /\ alive' = alive \ {n}
  /\ joining' = joining \ {n}
  /\ upload' = [p \in Puts |-> [f \in Frags |->
       IF upload[p][f].pc = "fanout" /\ Primary(p, f) = n
       THEN [upload[p][f] EXCEPT !.pc = "error"] ELSE upload[p][f]]]
  /\ wjob' = [w \in Workers |->
       IF wpc[w] = "store" /\ wjob[w].target = n
       THEN [wjob[w] EXCEPT !.target = NoNode] ELSE wjob[w]]
  /\ UNCHANGED <<catalogVars, disk, put, wpc, wlive, wheld, wtodo>>

(* main: a process starts, the first time or again, and begins to register.*)
Start(n) ==
  /\ n \notin alive
  /\ alive' = alive \cup {n}
  /\ joining' = joining \cup {n}
  /\ UNCHANGED <<catalogVars, disk, clientVars, workerVars, faults>>

(* One more rebalance goroutine, within the bound; nobody waits for it.    *)
TriggerRebalance ==
  \/ \E r \in Rebalances :
       /\ wpc[r] = "idle" /\ \A s \in Rebalances : s < r => wpc[s] # "idle"
       /\ wpc' = [wpc EXCEPT ![r] = "start"]
  \/ (\A r \in Rebalances : wpc[r] # "idle") /\ wpc' = wpc

(* handleNodes: register the node, then start a rebalance.                 *)
Register(n) ==
  /\ n \in joining
  /\ nodes' = Catalog!RegisterNode(nodes, n)
  /\ joining' = joining \ {n}
  /\ TriggerRebalance
  /\ UNCHANGED <<keys, alive, disk, clientVars, wlive, wheld, wtodo, wjob, faults>>

(* The registration is applied and the node sees an error and tries again: *)
(* raft reported one, and no rebalance starts, or the answer was lost.     *)
RegisterError(n) ==
  /\ n \in joining
  /\ Fault
  /\ nodes' = Catalog!RegisterNode(nodes, n)
  /\ wpc' = wpc \/ TriggerRebalance
  /\ UNCHANGED <<keys, storageVars, clientVars, wlive, wheld, wtodo, wjob>>

(* heartbeatLoop: the node is alive, so the catalogue takes it for up.     *)
Heartbeat(n) ==
  /\ n \in alive /\ nodes[n] = "down"
  /\ nodes' = Catalog!Heartbeat(nodes, n)
  /\ UNCHANGED <<keys, storageVars, clientVars, workerVars, faults>>

(* failureDetectorLoop: a node that is up and silent is marked down.       *)
MarkNodeDown(n) ==
  /\ nodes[n] = "up" /\ n \notin alive
  /\ nodes' = Catalog!MarkNodeDown(nodes, n)
  /\ UNCHANGED <<keys, storageVars, clientVars, workerVars, faults>>

(* The same for a node that runs, its heartbeats being late or lost.       *)
FalseAlarm(n) ==
  /\ nodes[n] = "up" /\ n \in alive
  /\ Fault
  /\ nodes' = Catalog!MarkNodeDown(nodes, n)
  /\ UNCHANGED <<keys, storageVars, clientVars, workerVars>>

(***************************************************************************)
(* The leader's workers.  Worker 0 is the recovery loop, the others are    *)
(* the goroutines that TriggerRebalance spawns.                            *)
(***************************************************************************)

(* A tick of recoveryLoop: the snapshot of the live nodes.                 *)
RecoveryTick ==
  /\ wpc[Recovery] = "idle"
  /\ wlive' = [wlive EXCEPT ![Recovery] = Up]
  /\ wpc' = [wpc EXCEPT ![Recovery] = "read"]
  /\ UNCHANGED <<catalogVars, storageVars, clientVars, wheld, wtodo, wjob, faults>>

(* rebalance starts: with no live node it has nothing to do.               *)
RebalanceStart(r) ==
  /\ wpc[r] = "start"
  /\ wlive' = [wlive EXCEPT ![r] = Up]
  /\ wpc' = [wpc EXCEPT ![r] = IF Up = {} THEN "idle" ELSE "read"]
  /\ UNCHANGED <<catalogVars, storageVars, clientVars, wheld, wtodo, wjob, faults>>

(* allEntries: copies of the entries, which share their Fragments array    *)
(* with the catalogue.                                                     *)
ReadEntries(w) ==
  /\ wpc[w] = "read"
  /\ wpc' = [wpc EXCEPT ![w] = "scan"]
  /\ wheld' = [wheld EXCEPT ![w] = [k \in Keys |->
       IF keys[k] = Absent THEN Absent
       ELSE [put |-> keys[k].put, ids |-> keys[k].ids]]]
  /\ wtodo' = [wtodo EXCEPT ![w] = {kf \in Fragments : keys[kf[1]] # Absent}]
  /\ UNCHANGED <<catalogVars, storageVars, clientVars, wlive, wjob, faults>>

ScanDone(w) ==
  /\ wpc[w] = "scan" /\ wtodo[w] = {}
  /\ wpc' = [wpc EXCEPT ![w] = "idle"]
  /\ wlive' = [wlive EXCEPT ![w] = {}]
  /\ wheld' = [wheld EXCEPT ![w] = [k \in Keys |-> Absent]]
  /\ UNCHANGED <<catalogVars, storageVars, clientVars, wtodo, wjob, faults>>

(* The loop order: keys in any order, the fragments of a key by index.     *)
IsNext(w, k, f) ==
  /\ <<k, f>> \in wtodo[w]
  /\ \A g \in Frags : <<k, g>> \in wtodo[w] => f <= g
  /\ \A kg \in wtodo[w] : <<kg[1], 1>> \notin wtodo[w] => kg[1] = k

(* A copy still shares its array with the catalogue while the key has the  *)
(* entry it was taken from.                                                *)
Shares(copy, entry) ==
  copy # Absent /\ entry # Absent /\ copy.put = entry.put

(* UpdateFragmentNodes of worker v for this fragment may be under way.     *)
Updating(v, k, f) ==
  wpc[v] = "copy" /\ wjob[v].left = 0 /\ wjob[v].key = k /\ wjob[v].frag = f

(* The node list worker v sends to the catalogue: what recovery has        *)
(* gathered, or the desired nodes that hold the fragment, in their order.  *)
\* Mutant: the source falls out of the list.
NewListTail(v) ==
  IF v = Recovery THEN Tail(wjob[v].list)
  ELSE FilterLive(wjob[v].desired, Range(wjob[v].list))

NewList(v) ==
  IF v = Recovery THEN wjob[v].list
  ELSE FilterLive(wjob[v].desired, Range(wjob[v].list))

(* What a worker may read as NodeIDs: no lock is held, so the list may be  *)
(* torn by the update another worker is about to have applied.             *)
ReadLists(w, k, f) ==
  LET current == wheld[w][k].ids[f] IN
  {current} \cup
  UNION {TornReads(current, NewList(v)) :
           v \in {u \in Workers : Updating(u, k, f) /\ Shares(wheld[w][k], keys[k])}}

Begin(w, k, f, list, source, desired, targets, left) ==
  /\ wpc' = [wpc EXCEPT ![w] = "copy"]
  /\ wjob' = [wjob EXCEPT ![w] =
       [key |-> k, frag |-> f, list |-> list, source |-> source,
        desired |-> desired, targets |-> targets, left |-> left, target |-> NoNode, data |-> 0]]
  /\ UNCHANGED <<catalogVars, storageVars, clientVars, wlive, wheld, wtodo, faults>>

(* recoverUnderReplicated: how many replicas are missing, which live nodes *)
(* could take one, and whether anything is needed and possible.            *)
\* Mutant: aims at one replica less.
NeededButOne(replicas) == ReplicationFactor - 1 - Len(replicas)

Needed(replicas) == ReplicationFactor - Len(replicas)

\* Mutant: forgets that a live replica is no candidate.
CandidatesAll(replicas, live) == live

Candidates(replicas, live) == live \ Range(replicas)

Recoverable(replicas, live) ==
  /\ Needed(replicas) > 0
  /\ Candidates(replicas, live) # {}
  /\ replicas # << >>

Recover(k, f, replicas) ==
  LET candidates == Candidates(replicas, wlive[Recovery])
      count == Cardinality(candidates)
  IN  /\ Recoverable(replicas, wlive[Recovery])
      /\ Begin(Recovery, k, f, replicas, replicas[1], << >>, candidates,
               IF Needed(replicas) < count THEN Needed(replicas) ELSE count)

Skip(k, f, replicas) ==
  /\ ~ Recoverable(replicas, wlive[Recovery])
  /\ wtodo' = [wtodo EXCEPT ![Recovery] = @ \ {<<k, f>>}]
  /\ UNCHANGED <<catalogVars, storageVars, clientVars,
                 wpc, wlive, wheld, wjob, faults>>

RecoverFragment(k, f) ==
  /\ wpc[Recovery] = "scan" /\ IsNext(Recovery, k, f)
  /\ \E current \in ReadLists(Recovery, k, f) :
       LET replicas == FilterLive(current, wlive[Recovery])
       IN  Recover(k, f, replicas) \/ Skip(k, f, replicas)

(* rebalance, one fragment: the desired nodes that lack it and can get it. *)
RebalanceFragment(r, k, f) ==
  /\ wpc[r] = "scan" /\ IsNext(r, k, f)
  /\ \E current \in ReadLists(r, k, f), desired \in Placements(k, f, wlive[r]) :
       LET sources == FilterLive(current, Up)
           missing == (Range(desired) \ Range(current)) \cap Up
           targets == IF sources = << >> THEN {} ELSE missing
       IN  Begin(r, k, f, current,
                 IF sources = << >> THEN NoNode ELSE sources[1],
                 desired, targets, Cardinality(targets))

(* The next node to copy to: candidates come in map order, the desired     *)
(* nodes in the placer's order.                                            *)
NextTargets(w) ==
  IF w = Recovery THEN wjob[w].targets
  ELSE {FilterLive(wjob[w].desired, wjob[w].targets)[1]}

\* Mutant: lists the target before the copy has succeeded.
TriedAndListed(w, t) == [wjob[w] EXCEPT !.targets = @ \ {t}, !.left = @ - 1,
                                        !.list = Append(@, t)]

Tried(w, t) == [wjob[w] EXCEPT !.targets = @ \ {t}, !.left = @ - 1]

(* Both nodes answer and the source has the whole fragment.                *)
CanCopy(job, t) ==
  t \in alive /\ job.source \in alive /\ Holds(job.source, job.key, job.frag)

(* replicateFrom at the target, first half: GET from the source succeeds.  *)
CopyFetch(w, t) ==
  LET job == wjob[w] IN
  /\ wpc[w] = "copy" /\ job.left > 0 /\ t \in NextTargets(w)
  /\ CanCopy(job, t)
  /\ wpc' = [wpc EXCEPT ![w] = "store"]
  /\ wjob' = [wjob EXCEPT ![w] = [Tried(w, t) EXCEPT
                !.target = t, !.data = disk[job.source][<<job.key, job.frag>>]]]
  /\ UNCHANGED <<catalogVars, storageVars, clientVars, wlive, wheld, wtodo, faults>>

(* It fails, and the worker goes on with the next target: it does not try  *)
(* another source.                                                         *)
CopyError(w, t) ==
  /\ wpc[w] = "copy" /\ wjob[w].left > 0 /\ t \in NextTargets(w)
  /\ ~ CanCopy(wjob[w], t)
  /\ wjob' = [wjob EXCEPT ![w] = Tried(w, t)]
  /\ UNCHANGED <<catalogVars, storageVars, clientVars, wpc, wlive, wheld, wtodo, faults>>

(* Second half: the target stores what it fetched and answers 201.         *)
CopyStore(w) ==
  LET job == wjob[w] IN
  /\ wpc[w] = "store" /\ job.target # NoNode
  /\ Writable(job.target, job.key, job.frag)
  /\ disk' = Stored(job.target, job.key, job.frag, job.data)
  /\ wpc' = [wpc EXCEPT ![w] = "copy"]
  /\ wjob' = [wjob EXCEPT ![w].list = Append(@, job.target),
                          ![w].target = NoNode, ![w].data = 0]
  /\ UNCHANGED <<catalogVars, alive, joining, clientVars, wlive, wheld, wtodo, faults>>

(* The answer is lost, or the store fails: the worker sees an error.       *)
CopyLost(w) ==
  LET job == wjob[w] IN
  /\ wpc[w] = "store" /\ job.target # NoNode
  /\ Fault
  /\ disk' \in StoredOrNot(job.target, job.key, job.frag, job.data)
  /\ wpc' = [wpc EXCEPT ![w] = "copy"]
  /\ wjob' = [wjob EXCEPT ![w].target = NoNode, ![w].data = 0]
  /\ UNCHANGED <<catalogVars, alive, joining, clientVars, wlive, wheld, wtodo>>

(* The target died with the request.                                       *)
CopyBroken(w) ==
  /\ wpc[w] = "store" /\ wjob[w].target = NoNode
  /\ wpc' = [wpc EXCEPT ![w] = "copy"]
  /\ wjob' = [wjob EXCEPT ![w].data = 0]
  /\ UNCHANGED <<catalogVars, storageVars, clientVars, wlive, wheld, wtodo, faults>>

(* The copies of every worker that share the array see the new list.       *)
SeeUpdate(k, f, ids) ==
  wheld' = [w \in Workers |->
    IF Shares(wheld[w][k], keys[k])
    THEN [wheld[w] EXCEPT ![k].ids[f] = ids]
    ELSE wheld[w]]

FragmentDone(w, k, f) ==
  /\ wpc' = [wpc EXCEPT ![w] = "scan"]
  /\ wjob' = [wjob EXCEPT ![w] = NoJob]
  /\ wtodo' = [wtodo EXCEPT ![w] = @ \ {<<k, f>>}]

(* UpdateFragmentNodes: the list replaces the catalogue's, whatever entry  *)
(* the key has by now.                                                     *)
\* Mutant: the worker saves its copy of the entry instead of the list.
SaveHeldEntry(w) ==
  LET k == wjob[w].key  f == wjob[w].frag
      held == wheld[w][k]
  IN
  /\ wpc[w] = "copy" /\ wjob[w].left = 0
  /\ keys' = [keys EXCEPT ![k] = [put |-> held.put, addrs |-> put[held.put].plan,
                                 ids |-> [held.ids EXCEPT ![f] = NewList(w)],
                                 committed |-> FALSE]]
  /\ SeeUpdate(k, f, NewList(w))
  /\ FragmentDone(w, k, f)
  /\ UNCHANGED <<nodes, storageVars, clientVars, wlive, faults>>

UpdateFragmentNodes(w) ==
  LET k == wjob[w].key  f == wjob[w].frag IN
  /\ wpc[w] = "copy" /\ wjob[w].left = 0
  /\ keys' = Catalog!UpdateFragment(keys, k, f, NewList(w))
  /\ SeeUpdate(k, f, NewList(w))
  /\ FragmentDone(w, k, f)
  /\ UNCHANGED <<nodes, storageVars, clientVars, wlive, faults>>

(* The update is not applied; the worker logs it and goes on.              *)
UpdateLost(w) ==
  /\ wpc[w] = "copy" /\ wjob[w].left = 0
  /\ Fault
  /\ FragmentDone(w, wjob[w].key, wjob[w].frag)
  /\ UNCHANGED <<catalogVars, storageVars, clientVars, wlive, wheld>>

(***************************************************************************)
(* The next-state relation.                                                *)
(***************************************************************************)
ClientStep(p) ==
  \/ Prepare(p) \/ Plan(p) \/ PlanError(p)
  \/ \E f \in Frags :
       \/ StorePrimary(p, f) \/ StoreError(p, f) \/ PrimaryError(p, f)
       \/ Answer(p, f) \/ AnswerLost(p, f)
       \/ \E n \in Nodes : SendReplica(p, f, n) \/ SendError(p, f, n) \/ SendLost(p, f, n)
  \/ Abort(p) \/ Commit(p) \/ CommitError(p)

MemberStep(n) ==
  \/ Crash(n) \/ Start(n) \/ Register(n) \/ RegisterError(n)
  \/ \E k \in Keys, f \in Frags : CutFile(n, k, f)
  \/ Heartbeat(n) \/ MarkNodeDown(n) \/ FalseAlarm(n)

CopyStep(w) ==
  \/ \E t \in Nodes : CopyFetch(w, t) \/ CopyError(w, t)
  \/ CopyStore(w) \/ CopyLost(w) \/ CopyBroken(w)

WorkerStep(w) ==
  \/ ReadEntries(w) \/ ScanDone(w)
  \/ CopyStep(w)
  \/ UpdateFragmentNodes(w) \/ UpdateLost(w)

RecoveryStep ==
  \/ RecoveryTick
  \/ \E k \in Keys, f \in Frags : RecoverFragment(k, f)
  \/ WorkerStep(Recovery)

RebalanceStep(r) ==
  \/ RebalanceStart(r)
  \/ \E k \in Keys, f \in Frags : RebalanceFragment(r, k, f)
  \/ WorkerStep(r)

Next ==
  \/ \E p \in Puts : ClientStep(p)
  \/ \E k \in Keys : Delete(k)
  \/ \E n \in Nodes : MemberStep(n)
  \/ RecoveryStep
  \/ \E r \in Rebalances : RebalanceStep(r)

Spec == Init /\ [][Next]_vars
=============================================================================
