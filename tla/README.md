# fragkv: a TLA+ verification of the fragmented key-value store

The store cuts a value into fragments and keeps each on several storage nodes.
This project models the parts of it that run concurrently and can fail, checks
them with TLC on small instances, and proves what matters most with TLAPS for
every value of the constants.

## 1. Inventory

| Component | Source | State | Operations |
|---|---|---|---|
| metadata FSM | `internal/metadata/fsm.go`, `types.go` | `Keys` (entries with fragment lists), `Nodes` (status, last heartbeat) | `Apply` of seven commands, `Snapshot`, `Restore`, reads that copy |
| metadata store | `store.go` | raft node, configuration | `PrepareKey`, `CommitKey`, `DeleteKey`, `GetKey`, `RegisterNode`, `Heartbeat`, `MarkNodeDown`, `UpdateFragmentNodes` |
| workers | `workers.go` | local variables of three kinds of goroutine | failure detector (5 s), recovery (10 s), one rebalance per registration |
| metadata HTTP server | `server.go` | none | routes requests to the store |
| storage engine | `internal/storage/storage.go` | chunk files, bbolt index | `Put`, `Get`, `GetStream`, `Delete`, `Meta`, `List`, `DiskUsage` |
| storage HTTP server | `internal/transport/storaged_server.go` | none | put with fan-out and quorum, get, delete, replicate |
| storage process | `cmd/storaged/main.go` | none | register until accepted, heartbeat every 5 s |
| client | `cmd/kvctl/main.go` | one command | put, get, delete, list, status |
| placement | `internal/placement/placement.go` | none | consistent hash, rendezvous, weighted (the default of `metad`) |
| fragments | `internal/fragment/fragment.go` | none | `Split`, `Assemble` (not called) |
| raft | `hashicorp/raft` with `fsm.go`, `store.go` | log, snapshots, leader | library |
| harness | `experiments/harness/harness.go`, `main/chaos.go` | a second client, the set of stopped nodes | `PutValue`, `GetValue`, `runChaos` |
| metrics, experiment driver, deployment | `internal/metrics`, `experiments`, `deploy` | none the system reads | not part of the program's logic |

**How they interact.** A put asks the metadata leader for a plan (`prepare`):
the leader places every fragment on live nodes, and a `put_key` command replaces
the key's entry. The client then sends each fragment, all in parallel, to the
first address of its list, and that primary stores it, sends it on to the others
and answers 201 when W copies exist. When all fragments are answered the client
sends `commit`, which names only the key. A get takes the entry from any metadata
node and tries the addresses of each fragment in order, all fragments in parallel. Meanwhile storage processes register and
send heartbeats; the leader marks silent nodes down; recovery copies fragments
with too few live replicas (`replicate` at the target, which pulls from the
source) and a rebalance per registration moves fragments to where the placer
wants them now. Both write the node list of the fragment back with
`update_fragment`.

**What is hard.**

* Recovery and rebalances read a list, spend seconds in HTTP calls, and write
  the whole list back; puts, deletes and each other run in between.
* `allEntries` copies entries but not their `Fragments` array, so workers read
  slice headers that `Apply` replaces, without a lock.
* Commands are matched by key name or fragment id, not by entry: a late commit or
  update reaches whatever entry has that name by then.
* Quorum writes leave listed nodes without data; every call may fail before or
  after its effect; a failed store destroys the older file.
* In the engine, file and index change in two steps, the file is rewritten in
  place under open readers, and nothing is synced but the index.
* A metadata node that has been deposed goes on as leader for a while: it accepts
  commands that are lost and runs a detector; every node answers reads, however old
  its catalogue is; storage processes call one metadata node for life and ignore 421.
* Snapshots are marshalled under the lock and written while commands go on.
* The plan, `kvctl` and the harness compute the fragments of a file each by itself,
  and the two clients treat errors differently: `kvctl` leaves at the first error
  with uploads in flight, the harness waits but does not look at the commit's status.
* Time: suspicion may be wrong, and a node may come back at any moment.

**What makes each component correct.**

* catalogue: a replica list has no duplicates and at most `ReplicationFactor`
  entries; only a prepare creates an entry; a committed entry is fully written;
  the addresses clients use follow the node list;
* workers: only nodes that have stored a fragment are added; only nodes seen down
  are dropped; repairs do not write over listed replicas; missing replicas are restored
  in the end;
* put: a committed key survives fewer failures than its write quorum;
* engine: an answered read is the version it began with, whole, unless it is being
  overwritten; an acknowledged put stays readable over crashes and failures of others' requests;
* metadata service: together its nodes are one catalogue on which every call acts
  at most once and before its answer; no node ever shows a state that never was;
* transfers: a successful get returns the bytes of one put; an acknowledged put can
  be read back;
* storage process: a running node is known to the leader in the end.

## 2. Modules

| Module | Models | Remarks |
|---|---|---|
| `CatalogFSM` | `fsm.Apply` | one operator per command, no state of its own |
| `ReplicaLists` | list computations of workers and placer | `FilterLive`, `Place`, torn reads |
| `Cluster` | client, storage processes, fan-out, detector, recovery, rebalance over the catalogue | the composition; `Catalog == INSTANCE CatalogFSM` |
| `ClusterProperties` | properties of `Cluster` and its fairness | |
| `ChunkStore` | the engine of one node, one fragment id, block by block | |
| `AtomicCatalogue` | what the metadata service promises its callers | abstract specification |
| `MetaRaft` | several metadata nodes over one raft log, storage processes, detectors | drives `CatalogFSM!Apply`; raft is external |
| `MetaProperties` | properties of `MetaRaft`, its fairness, the refinement mapping | `Atomic == INSTANCE AtomicCatalogue WITH ...` |
| `Transfers` | `kvctl` and harness puts and gets, byte by byte, with chaos | uses `Place` of `ReplicaLists` |
| `TransferProperties` | properties of `Transfers` | |
| `MCCluster`, `MCChunkStore`, `MCMetaRaft`, `MCTransfers` | instances for TLC | orders of nodes, values, calls, sizes |
| `ReplicaListsTheorems` | lemmas on the list operators | |
| `ClusterProofs` | type correctness of `Cluster` | |
| `ClusterListsProofs` | replica lists, deleted keys | |
| `ClusterReplicasProofs` | who gets into a replica list | |
| `ClusterReadsProofs` | committed keys can be read; what recovery drops and where it writes; when commits are of written entries and lists not empty | |
| `ChunkStoreProofs` | type correctness, acknowledged puts, what gets return in `ChunkStore` | |
| `TransferProofs` | every property of `Transfers`, with the arithmetic of plans | |
| `MetaRaftProofs` | type correctness, past states and the refinement of `MetaRaft` | |

Three state machines look at the same system from three sides. `Cluster` has the
replicas and their repair under one metadata leader; `MetaRaft` has the metadata
nodes and says why one catalogue (the `keys` and `nodes` of `Cluster`) is a fair view
of them; `Transfers` has the bytes of a value, which `Cluster` takes as one. `Cluster`
and `MetaRaft` share the FSM (`CatalogFSM`), `Cluster` and `Transfers` the placement
(`ReplicaLists`).

### `Cluster`: state and actions

* `keys`, `nodes` are the FSM's maps. An entry has `put` (which prepare made it,
  for `CreatedAt`), `ids` (`NodeIDs`), `addrs` (`NodeAddrs`) and `committed`.
* `alive`, `joining`, `disk` are the storage processes: which run, which have
  still to register, and whose bytes each node has for each fragment (0 for none,
  `Torn` when a store under way has cut the older file, or a failed or interrupted one
  has spoilt it). A store over an older file is two steps: `CutFile` is `os.Create`, and
  only then can the store end (`Writable`), fail (`NotStored`) or die with its process.
  A first store is one step: until it is indexed nothing finds its file.
* `Register` is a registration and the goroutine it starts (`TriggerRebalance`); nobody
  waits for that goroutine.
* `put`, `upload` are the clients and the requests at the primaries: `Prepare`
  reads the live nodes, `Plan` applies the entry, `StorePrimary`, `SendReplica`
  and `Answer` are `putFragment`, `Commit` is the commit. `PlanError`,
  `StoreError`, `PrimaryError`, `SendError`, `SendLost`, `AnswerLost`, `Abort` and
  `CommitError` are the ways they fail; a command or a call whose error does not
  tell whether it took effect is modelled both ways.
* `wpc`, `wlive`, `wheld`, `wtodo`, `wjob` are the worker goroutines; worker 0 is
  the recovery loop, the others are rebalances. `wlive` is the live map they took
  at the start, `wheld` their copies of the entries, `wjob` the fragment at hand.
  `ReadEntries` is `allEntries`; `RecoverFragment` and `RebalanceFragment` read the
  fragment's list and decide on source and targets; `CopyFetch` and `CopyStore`
  are the two halves of `replicateFrom`; `UpdateFragmentNodes` writes the list.
* A copy of an entry shares its array with the catalogue while the key still has
  the entry it was taken from: `SeeUpdate` changes those copies together with the
  catalogue, and `ReadLists` returns what an unlocked read may see while an
  update is about to be applied (`TornReads`).

Abstractions: there is one leader, which does not change, and clients reach it.
A node keeps its address. A put is a number and writes that number. Every key has
`NumFrags` fragments. The placer is any set of orders of the nodes per fragment
(`Rankings`): one for consistent hashing and rendezvous, several for weighted.
Time is gone: `MarkNodeDown` is enabled when the node is down, `FalseAlarm` is the
mistaken suspicion. A raft command that errs takes effect at once or never; one
that takes effect later than the client's next step is not modelled. Files are
whole or torn in `Cluster`: the blocks are in `ChunkStore`. Stores of one fragment on
one node are taken one after the other, and a copy is fetched whole. A fan-out ends
with its primary, though a send that has left may still arrive in the code; a call whose
answer is lost has ended at the other side when its caller sees the error.
Orphaned fragments of deleted keys, sizes and time stamps, disk usage, listing and
metrics are left out.

### `ChunkStore`: state and actions

`name` is the inode of the chunk file, `data` the blocks of each inode, `index` the
size in the bbolt record, `thread` the program counter and locals of each request.
`os.Create` cuts the inode in place (`PutCreate`), each block is a step
(`PutWrite`), then come the close, the removal on failure (by name, whatever the
name stands for by then) or the index transaction. A get is `Meta`, `os.Open`, and
block reads through the handle; the answer carries the indexed size as
`Content-Length`, so the receiver gets that many blocks or an error. `Crash` ends
all requests, `PowerLoss` may also cut the unsynced file anywhere.

Three variables are history, which no guard reads. `latest` follows the last put or delete
to begin, as long as it is alone. `version` is the value that all puts agree on since one
was last alone and succeeded (0 after a delete that was): puts that have failed count,
for they may have left bytes; two values make it `Mixed`. `due` keeps for each get the
version it began with and merges in the puts that begin before it ends.

### `MetaRaft`: state and actions

* `log`, `history`, `leader`, `leads` are raft as the store sees it: the log of the
  current leader, the catalogue after each committed command, the leader, and the
  nodes whose `raft.State()` is Leader, deposed ones included. `history` is more than
  a program has: it keeps what the committed prefix of the log means, once.
* `fsm`, `applied` are the catalogues of the nodes; `taken`, `snapshot` what
  `fsm.Snapshot` has marshalled and what is on disk.
* `call` is what each caller (client, storage process, detector) waits for.
* `Call`, `Register`, `Heartbeat`, `MarkNodeDown` and `FalseAlarm` go through `Submit`,
  which is `IsLeader` and `raft.Apply`; `Refuse` is the 421 or 500. `Apply` applies a
  command and answers the call that waits for it at that node; `StepDown` and
  `Restart` fail all calls that wait at a node. A command that was submitted to a
  leader may be committed after its caller has got the error, or be lost.
* `TakeSnapshot`, `Persist`, `Install`, `Restart` are the life of snapshots.

Abstractions: raft is external. Its log is one sequence of which an election may cut
the uncommitted end; a deposed leader's commands go nowhere; an election needs no votes
and a commit no messages. Calls are commands chosen by the instance, each made once
(a client that repeats a call makes another). Repair workers are calls as well: their
commands come from `Cluster`. `lastHeartbeat` and the ten seconds are `Silent` and
`FalseAlarm`. Heartbeats that change nothing are left out.

### `Transfers`: state and actions

* `entry` is the put whose plan the key has; `put` has the progress of each put: its
  plan, the file's size at planning and length at reading, each fragment's upload;
  `alone` and `missed` are history variables for the properties. `get` has the
  entry read, the fragments got so far and the node each came from. `stored` is
  the bytes on each node, `alive` the nodes that run.
* `Prepare` is `PrepareKey` with its arithmetic (`NumFragments`, `PlannedSize`);
  `SendKvctl` is `cmdPut` from `Split` to the start of the uploads, `SendHarness` the
  same in `PutValue` (`Cut`); `StoreAtPrimary` and `FanOut` are the two halves of
  `putFragment`; `PutFails`, `Commit`, `CommitFails` are the end, each client its way.
  `GetEntry`, `Download`, `DownloadFails` are both clients' gets; `KvctlFile` and
  `HarnessFile` the two ways to put the file together. `Kill` and `Restore` are chaos.

Abstractions: one key. The catalogue changes at once, and `Views` are the sets of
nodes it may have as up. There are no repairs: a node keeps a fragment until an upload
overwrites it. `Committed` is left out, since neither client looks at it. An upload
that does not reach a primary is one to a node that was stopped for a moment (`Kill`,
`Restore`), an answer that is lost one of a primary that is stopped. A get asks the
addresses of a fragment at one instant, the first that has it giving the answer. A file may be read
by `kvctl` when it has another length than when it was planned (`length`).

## 3. Runs

All instances stop at their bounds, so `CHECK_DEADLOCK FALSE`.

| Run | Instance | Checks |
|---|---|---|
| `repair` | 3 nodes of which one joins, RF 2, W 2, 1 put, 1 rebalance, 1 fault | `TypeOK`, `AddedReplicasHoldData` |
| `survive` | 3 nodes, RF 2, W 2, 1 put, 3 faults | `CommittedReadable`, `RepairsSpareReplicas` |
| `rewrite` | 3 nodes of which one joins, RF 2, 2 puts of one key, deletes, 1 rebalance beside recovery | `ReplicaListsWellFormed`, `OnlyPutsCreate` |
| `heal` | 4 nodes, RF 3, W 2, 1 put, 2 faults, no rebalances, fair | `RecoveryDropsOnlySuspects`, `Heals` |
| `chunks` | 3 threads, 5 requests, two values of 2 blocks and one of 1, 1 writer at a time | `TypeOK`, `ReadsReturnVersion`, `AckedPutIsReadable` |
| `metadata` | 2 metadata nodes, 1 storage node, a prepare, 2 elections, 1 snapshot, 1 fault, fair | `TypeOK`, `NodesShowThePast`, `CallsAreAtomic`, `MembershipConverges` |
| `clients` | 3 nodes, RF 3, W 2, chunks of 2 bytes, a `kvctl` put of 0 or 3 bytes, a harness put of 0 or 2, 1 get, 1 node down at a time, 2 faults | `TypeOK`, `PlanFitsFile`, `AckedIsReadable`, `FirstPutIsReadWhole`, `AckedPutIsReadBack` |
| `unrepaired` | 4 nodes, RF 3, W 2, 2 faults, fair | refutes `AckedHeals` |
| `erased` | 4 nodes of which two join, RF 2, no fault | refutes `AckedFragmentsListed` |
| `foreign_commit` | 2 puts of one key | refutes `CommittedIsWritten` |
| `moved` | RF 1, a node joins, 1 fault | refutes `LiveReplicaIsRead` |
| `mixed_read` | 2 threads, two values of the same size | refutes `ReadsAreWhole` |

Bounds. `MaxPuts` puts, `MaxRebalances` rebalances at once (one that
is started while so many run never gets to run, as a goroutine that is not scheduled),
`MaxFaults` faults of all kinds together. One joining node that comes first in the
order is the case in which a rebalance changes every list; the runs give the placer one
order per fragment, the theorems any set of orders. Two puts are what a late commit or
update needs.
`repair` has the join and one fault; `survive` has no join but three faults, enough
for a node to be dropped, return, and have its copy torn in a second copy while
another node is down. In `chunks`, two blocks distinguish a start, a middle and an
end of a file.

`heal` has as many faults as leave one of three replicas: the second may be a copy that
fails, an update that is lost or another false alarm while recovery repairs the first, or
a second crash. With three, every copy can be lost. It has no rebalances, although a
registration starts one: nodes that return do register, and the goroutine is not
scheduled. The property is one of recovery. With rebalances `Heals` is false: for
example, with replication factor 2, a joining node that comes first in the order and one
false alarm, recovery drops one node from the list of a put that is under way, the
rebalance of the joining node writes back a list without the other, and recovery skips
the empty list for ever, as in `erased`.

In `metadata`, two nodes are what a deposed leader and its successor need; one
election in the wrong place loses a command or delays it past its error answer; with the
second the leadership comes back to the node that storage processes call, after the
other has led and marked nodes down that it did not hear, which is what
`MembershipConverges` is about; the
snapshot threshold of three lets a restart or an installation fall back behind what
the node had shown. `CallsAreAtomic` is the refinement of `AtomicCatalogue`: `keys`
is the catalogue after the last committed command, `acted` the calls whose commands
are committed. The instance has one call of a client, for liveness is checked with it: a second
multiplies its half a million states by twenty. Its commands share the log with those of
storage processes and detectors, and the theorems of section 5 have the same safety
properties for any number of calls.

In `clients`, the sizes 0, 2, 3 with chunks of 2 give no chunk, a whole one, and one with
a remainder; two fragments have different primaries. Two puts and a get are enough
for a get to read parts of both; two faults for a replica to be stopped during an
overwrite and to answer afterwards.

The properties of `Transfers` have hypotheses, and each of them is needed: the run
fails when one is dropped. `FileKept`: the file did not change between the size that
`kvctl` planned for and its reading. `alone`: no other put was under way when this one
began, for uploads that a failed `kvctl` leaves behind may land later and overwrite it.
`missed`: no fragment was read from a replica that the overwrite did not reach. A
first put needs neither of the last two. `PlanFitsFile` says that `kvctl` panics only for
an empty or shrunken file (`chunks[i]` past the end, `main.go:89`); it does so then.

`ReadsReturnVersion` is what is left of a read's promise when a key is overwritten: a safe
register, whose gets return the current version when no put of another value comes in
between, and an older or a mixed one at no other time. `ReadsAreWhole`, that any get without
an error has one whole value, is refuted (`mixed_read`) by a get that a put of another value
overlaps. Both fail when two puts of a fragment overlap, even of the same bytes
(`MaxWriters = 2`): the second truncation leaves a hole before the first writer's
offset. That needs two uploads of one key, or a copy during an upload, and the code
promises nothing there. Two values of two blocks each let the
blocks of both meet in one file and one answer under the right length, the third, of one
block, a size and a file that do not belong together; three requests at
once are a get, a put and a delete, and five in all let these follow an earlier put.

### Disagreements between the code and its own words

* `unrepaired`: recovery's only source is the first live node of the list
  (`workers.go:86`), which a quorum write may have missed; the fragment then stays
  under-replicated although two live nodes hold it.
* `erased`: a rebalance between prepare and upload can leave an empty list
  (`workers.go:172`), which recovery skips for ever. No fault is involved.
* `foreign_commit`: `commit_key` marks another put's unwritten entry (`fsm.go:37`).
* `moved`: `update_fragment` leaves `NodeAddrs`, the only thing a get looks at
  (`fsm.go:66`).
* `mixed_read`: a read over an overwrite returns parts of both (`storage.go:71`).

## 4. Fairness

`FairSpec` assumes weak fairness of the recovery loop's and the rebalances' steps
(a ticker that runs for ever; goroutines that are scheduled; HTTP calls to a
dead process fail and others end), of the detector and of heartbeats (tickers), of
registration (a retry loop), and of the fan-out requests in flight. Nothing makes a
client begin or go on with a put, a dead process start again, a delete happen, or
a fault occur. Two assumptions go past the code and are therefore stated here: HTTP
calls have no time limit in the code (`http.Post`, `http.DefaultClient`), so a peer
that accepts and never answers would block recovery for ever; and raft always
ends a command.

`MetaProperties!FairSpec` assumes weak fairness of committing and applying (raft's
loops), of a deposed leader's stepping down (it hears of a higher term), of the detectors
(tickers), and of a running process's registration and heartbeats. Nothing makes an
election, a restart, a snapshot, a call or a start happen. `MembershipConverges` has
the hypothesis that the node which storage processes call, `MetaAddr`, is leader for good.
It is needed: with another leader for good, heartbeats go to a follower, which answers
421, and that leader sees all nodes down for ever.

`Heals` is stated for puts all of whose nodes have stored them; without that
hypothesis it is the refuted `AckedHeals`.

## 5. Proofs

| Theorem | Statement |
|---|---|
| `ClusterProofs!TypeCorrect` | `Spec => []TypeOK` |
| `ClusterProofs!TypesAndJobs` | `Spec => []TypeInv` |
| `ClusterListsProofs!ReplicaListsStayWellFormed` | `Spec => []ReplicaListsWellFormed` |
| `ClusterListsProofs!DeletedStaysDeleted` | `Spec => OnlyPutsCreate` |
| `ClusterReplicasProofs!AddedReplicasAlwaysHoldData` | `Spec => []AddedReplicasHoldData` |
| `ClusterReadsProofs!CommittedStaysReadable` | `Spec => []CommittedReadable` |
| `ClusterReadsProofs!RecoveryKeepsReplicas` | `Spec => RecoveryDropsOnlySuspects`, if `MaxRebalances = 0` |
| `ClusterReadsProofs!RepairsAlwaysSpareReplicas` | `Spec => []RepairsSpareReplicas`, if `MaxRebalances = 0` |
| `ClusterReadsProofs!CommitsNameTheirEntry` | `Spec => []CommittedIsWritten` while every key is put once |
| `ClusterReadsProofs!RecoveryErasesNoList` | `Spec => []AckedFragmentsListed`, if `MaxRebalances = 0` |
| `ChunkStoreProofs!EngineTypesCorrect` | `Spec => []TypeOK` |
| `ChunkStoreProofs!AckedPutStaysReadable` | `Spec => []AckedPutIsReadable` |
| `ChunkStoreProofs!GetsReturnTheVersion` | `Spec => []ReadsReturnVersion`, if `MaxWriters = 1` |
| `ChunkStoreProofs!SameBytesAreReadWhole` | `Spec => []ReadsAreWhole`, if `OneVersion` |
| `TransferProofs!TransferTypesCorrect` | `Spec => []TypeOK` |
| `TransferProofs!PlansFitFiles` | `Spec => []PlanFitsFile` |
| `TransferProofs!AckedStaysReadable` | `Spec => []AckedIsReadable` |
| `TransferProofs!FirstPutsAreReadWhole` | `Spec => FirstPutIsReadWhole` |
| `TransferProofs!AckedPutsAreReadBack` | `Spec => AckedPutIsReadBack` |
| `MetaRaftProofs!MetaTypesCorrect` | `Spec => []TypeOK` |
| `MetaRaftProofs!NodesAlwaysShowThePast` | `Spec => []NodesShowThePast` |
| `MetaRaftProofs!ServiceIsAtomic` | `Spec => CallsAreAtomic`, that is `Spec => Atomic!Spec` |
| `ReplicaListsTheorems!...` | what `FilterLive`, `Place`, `Truncate`, torn reads and `Append` return |

They hold for all keys, fragments, nodes, metadata nodes, calls, puts, rebalances and
faults, from assumptions on the constants. Those on `MetaRaft` use that clients, storage
nodes and metadata nodes are distinct and `NoMeta` is none of them (`MetaAssumption`);
those on `Cluster` use three: the sizes are natural numbers and not zero
where the code makes them so (`SizesAssumption`), there are finitely many nodes
(`NodesAssumption`), and a ranking lists every node once (`RankingAssumption`). Those on
`ChunkStore` use that a value has at least one block and that there are finitely many
requests at once (`ValuesAssumption`); those on `Transfers`, that the chunk size, the
replication factor and the quorum are positive, nodes and file lengths finite in number,
and every ranking an order of all nodes (`TransfersAssumption`).

Some theorems have a hypothesis of their own. Those of `RecoveryKeepsReplicas`,
`RepairsAlwaysSpareReplicas` and `GetsReturnTheVersion` are the ones under which the runs check the properties:
`MaxRebalances = 0`, for a rebalance writes the placer's list and drops live nodes as
it is meant to, and `MaxWriters = 1`, one put of a fragment at a time. The other three
belong to properties that a run refutes, and say that the cause it shows is the only one.
`CommitsNameTheirEntry`: every key is put at most once (`WriteOnce`), against
`foreign_commit`. `RecoveryErasesNoList`: no rebalances, against `erased`.
`SameBytesAreReadWhole`: all puts of a fragment store the same value and no two overlap
(`OneVersion`), as it is while a key is not overwritten, against `mixed_read`.

**Types.** `TypeOK` is not inductive: a worker that copies dereferences its job. The
invariant `TypeInv` adds `WorkersBusy`: a worker in `copy` or `store` has a job, and
each fragment it has still to look at belongs to an entry it has a copy of. One
lemma per process shows that its steps keep `TypeInv`.

**Replica lists.** That no list has duplicates or more than RF nodes is not inductive
either, for the lists come from reads that are long past. `ListInv` says it of
every place a list can be: the catalogue, the plans of puts (`PlanLists`), the copies
workers hold (`HeldLists`), and their jobs (`JobsInv`). For a recovery job it says that
the list so far, the targets left and the target being copied to are disjoint, and
that the list and the copies still to make together do not exceed RF; for a rebalance
job, that the desired list is well formed, since what it writes is a filter of that.
A torn read is a well-formed list cut short (`TornReadsWellFormed`). The hardest step
is `UpdateFragmentNodes`, which writes to whatever entry the key has now, and to all
copies that share the array.

**Deleted keys.** From `TypeInv`: commit, delete and update keep an absent key absent,
so only the two actions that apply a prepare create one.

**Added replicas.** A node is `Reached` for a fragment once it has had a file of it or a put
has planned it there, and no step undoes that (`ReachedStays`): nothing empties a file, a
crash or a failed store leaves it torn, and a plan is never taken back. `BackedInv` says
that every list names only reached nodes: the catalogue's, the copies workers hold, the
lists their jobs gather. It needs two facts more, that what a copy is about to store is
a fragment (`CopiesWhole`, from the GET that answered) and that a put which has not begun
has no plan (`NewUnplanned`). A torn read or a filter names a part of the lists it is made of
(`ReadListsBacked`, `NewListRange`), and `CopyStore` appends the target in the step in
which its disk has received the bytes.

**Committed keys.** That enough nodes answer is a count made by the primary long ago.
`ReadsInv` ties it to the disks: a disk has only bytes of puts of the key, or torn ones
(`DisksFromPuts`, which covers what a copy is carrying); the primary's `copies` is never
more than the planned nodes that it does not wait for and that have something
(`UploadsCounted`), which a step preserves because a disk never becomes empty again
(`NothingLost`); the entry is that of its put, with the addresses of its plan
(`EntriesPlanned`); and only a commit by the key's only put marks it
(`CommittedUploaded`). Of the copies counted fewer than the quorum are down or torn, so
one is left (`QuorumIsRead`), and whoever answers has the same bytes. A copy is torn from
the moment a store cuts it, so a node that a repair is writing to counts among the lost
ones until the repair has ended: a repair may run over a good copy of a node that has
been dropped from the list and that gets still ask.

**What recovery drops.** The list that recovery writes is a filter of a list read earlier,
so the invariant has to say that nothing worth keeping came in between. `PassInv` says
that a copy of the pass, as long as the key has the entry it was taken from, shows the
catalogue's lists as they are (`CopiesCurrent`: they share one array, and a new entry has a
put that was not planned before), and that the list of the job at hand has every node of
the current list that the snapshot has up (`JobKeepsReplicas`). The property speaks of
entries the pass has read: a key that is deleted and put again between the pass and the
update gets a list computed for its older entry, which may name none of its nodes.

**Where repairs go.** `JobAimsElsewhere` says that neither the candidates left nor the target
of the copy under way are replicas of the entry, as long as the key has the one the pass
has read. The candidates are live nodes that the list lacked; `AimStays` carries that
through every step that leaves lists as they are, and only recovery's own update, with
which the job ends, does not.

**Causes of what is refuted.** That a committed entry is written follows from
`ReadsInv`, whose `CommittedUploaded` speaks of keys put once; the theorem asks it of all
keys. That no list is empty is not inductive, for recovery writes lists it has gathered:
`ListsFilled` says it of every entry and of the list of the job at hand, which
begins with a live replica and only grows. The plans it starts from are not empty because
the placer has found a live node (`PlansNonEmpty`), and an entry that goes on keeps its
lists unless recovery writes (`NextPass`). A read is not torn when nobody else writes
lists (`OneWorker`).

**Storage engine.** `AckedPutIsReadable` is about a moment when nothing runs. `LatestInv`
follows the put there: while it is alone, the file under its name is the prefix it has
written (`FileIsPrefix`), and once it is acknowledged nobody else is putting or deleting.
For the delete in the same place it says that no name is left.

`VersionInv` is what makes the fragment a register. While `version` is a value, the record
is absent or has that value's size, the file has no block of another, and the
one writer is writing it; while it is 0 there is neither file nor record
(`VersionKept`). The value and the record are set in different steps, and
`LatestInv` supplies the one in which the version changes back from `Mixed`: the put that ends
alone has made the file all its own. `GetsKept` says of each get whose `due` is a value that
the size it has read, the file it has open (under the name or not) and the blocks it has
got are of that value; and `OneWriter`, that the writer is never past the end of its file,
so that no write leaves a hole: a power loss, which cuts the file, could break it
if it did not stop the put as well. With one value for all puts no version is ever `Mixed`
(`NeverMixed`), and every read is whole.

**Transfers.** `TransferInv` has eight parts. `PutsGood` keeps each put's plan, sizes and
uploads in agreement. `StoredFromPuts` says that what a node has for a fragment is what
some put has sent, which is all that a get of a first put needs. For overwrites,
`OthersOver` says that while the key's entry is of a put that began `alone` every other put
is over, uploads left behind included; so nothing overwrites what that put has stored,
and `UploadsStored` can say that its primaries that fan out, and after a success the
addresses it has `Reached`, have its bytes. `GotFromPuts` and `GetsFollowEntries` say the
same of what a get has fetched; `EntryKnown` and `Environment` cover the rest. The quorum
is then a cardinality over the addresses less the missed ones. The two ways to cut and to
join a file agree by integer arithmetic (`Quotient`, `MultiplesApart`,
`NumFragmentsBounds`).

All these invariants were checked with TLC on the instances of section 3, or smaller ones,
before they were proved.

**Metadata service.** `MetaRaftProofs!Inv` has five parts. `HistoryInv`: each state of
`history` is the one before with the log's next command applied, which ties the
ghost to the log. `MetaInv`: every catalogue, marshalled or stored, is the
state of `history` that its index names; from this `Apply`, which changes one catalogue,
lands again in `history`. `CallInv` is what the refinement needs: a client's command is in
the log at most once (`Once`) and unchanged, its caller waits or has been answered
(`Logged`); who was answered 2xx has a committed command (`OkIsCommitted`); and a call
that waits at the real leader finds its own command at its index (`Waits`). The last is
why an answer never goes to the wrong caller: a deposed leader, whose log may differ
there, applies nothing until it has failed its calls. One lemma per action shows that it
keeps `Inv` and is a step of `AtomicCatalogue` or none: `Commit` of a client's command is
`Act`, `Apply` is `Succeed` when a client waits for it, `StepDown` and `Restart` are
`Fail`. Steps of storage processes and detectors are none, since their commands leave
the keys alone (`NodeCommandKeepsKeys`).

`FilterLive` is a recursive function; facts about it are proved from the least index
at which they would fail (`LeastNatural`, `KeptExists`), since the library's
induction rules cannot be instantiated.

**Only model-checked.** `Heals` and `MembershipConverges`, because liveness under
fairness and ENABLED are out of the prover's reach. Every other property of a passing
run is a theorem. The runs keep their worth: their mutants show that the properties
depend on the code, and they show that the properties of section 3 which the code does not have
really fail.

## 6. Not modelled

* Raft's own protocol (votes, replication, its files, changes of its configuration):
  a library, of which the store uses only what `MetaRaft` assumes.
* A get beside repairs: `Transfers` has gets without repairs, `Cluster` repairs without a
  get process. `moved` shows one consequence on the level of lists. Repairs that bring an
  overwritten fragment back (`storaged_server.go:187`) are in `Cluster` as
  interleavings, without a property: nothing in the code orders the two writes.
* Ring positions, hashes and weights of the placer: any order of the nodes stands
  for them, so what they balance is not stated.
* `Assemble`, which nothing calls; `list`, `status`, `Get`, `List`, `DiskUsage`, health
  pages, which read and print; malformed requests and routing.
* Two rebalances at once, and several keys, in the runs (the proofs have them).
* The bookkeeping of `runChaos` (its map of stopped nodes, its counters, the CSV
  files), the other experiments, Prometheus metrics, compose files.

## 7. Plan

Done: sections 2 to 5, with a theorem for every safety property of the passing runs.
What is left, in this order:

1. A get process in `Cluster`, to state what a reader sees while repairs move lists and
   copy old bytes.
2. `Placement`: the ring walk and the scores as functions, checked against `Place`
   (minimal movement when a node joins).
