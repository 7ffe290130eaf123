---------------------------- MODULE ClusterProofs ----------------------------
(***************************************************************************)
(* Type correctness of Cluster for any number of keys, fragments, nodes,   *)
(* puts and rebalance goroutines and any bound on the faults.              *)
(***************************************************************************)
EXTENDS ClusterProperties, ReplicaListsTheorems, FiniteSetTheorems

(* A worker in the middle of a fragment has a job, and the fragments it    *)
(* has still to look at belong to entries it has a copy of.                *)
WorkersBusy ==
  \A w \in Workers :
    /\ wpc[w] \in {"copy", "store"} => wjob[w] \in Job
    /\ \A kf \in wtodo[w] : wheld[w][kf[1]] \in Copy

TypeInv == TypeOK /\ WorkersBusy

KeysType == [Keys -> Entry \cup {Absent}]

(***************************************************************************)
(* Types of the operators the actions are built from.                      *)
(***************************************************************************)

(* Commands of the catalogue keep the type of the map of keys.             *)
LEMMA CatalogKeysType ==
  ASSUME NEW m \in KeysType, NEW k \in Keys
  PROVE  /\ \A e \in Entry : Catalog!PutKey(m, k, e) \in KeysType
         /\ Catalog!CommitKey(m, k) \in KeysType
         /\ Catalog!DeleteKey(m, k) \in KeysType
         /\ \A f \in Frags, ids \in Seq(Nodes) :
              Catalog!UpdateFragment(m, k, f, ids) \in KeysType
<1>1. \A e \in Entry : Catalog!PutKey(m, k, e) \in KeysType
  BY DEF Catalog!PutKey, KeysType
<1>2. Catalog!DeleteKey(m, k) \in KeysType
  BY DEF Catalog!DeleteKey, KeysType
<1>3. Catalog!CommitKey(m, k) \in KeysType
  <2>1. CASE m[k] = Absent
    BY <2>1 DEF Catalog!CommitKey
  <2>2. CASE m[k] # Absent
    <3>1. m[k] \in Entry
      BY <2>2 DEF KeysType
    <3>2. [m[k] EXCEPT !.committed = TRUE] \in Entry
      BY <3>1 DEF Entry
    <3> QED BY <2>2, <3>2 DEF Catalog!CommitKey, KeysType
  <2> QED BY <2>1, <2>2
<1>4. ASSUME NEW f \in Frags, NEW ids \in Seq(Nodes)
      PROVE  Catalog!UpdateFragment(m, k, f, ids) \in KeysType
  <2>1. CASE m[k] = Absent
    BY <2>1 DEF Catalog!UpdateFragment
  <2>2. CASE m[k] # Absent
    <3>1. m[k] \in Entry
      BY <2>2 DEF KeysType
    <3>2. [m[k].ids EXCEPT ![f] = ids] \in Lists
      BY <3>1 DEF Entry, Lists
    <3>3. \A l \in Lists : [m[k] EXCEPT !.ids = l] \in Entry
      BY <3>1 DEF Entry
    <3> QED BY <2>2, <3>2, <3>3 DEF Catalog!UpdateFragment, KeysType
  <2> QED BY <2>1, <2>2
<1> QED BY <1>1, <1>2, <1>3, <1>4

(* Commands of the catalogue keep the type of the map of nodes.            *)
LEMMA CatalogNodesType ==
  ASSUME NEW m \in [Nodes -> Catalog!NodeStatus], NEW n \in Nodes
  PROVE  /\ Catalog!RegisterNode(m, n) \in [Nodes -> Catalog!NodeStatus]
         /\ Catalog!Heartbeat(m, n) \in [Nodes -> Catalog!NodeStatus]
         /\ Catalog!MarkNodeDown(m, n) \in [Nodes -> Catalog!NodeStatus]
BY DEF Catalog!RegisterNode, Catalog!Heartbeat, Catalog!MarkNodeDown, Catalog!NodeStatus

(* What the placer returns for a fragment.                                 *)
LEMMA PlacementsWellFormed ==
  ASSUME NEW k \in Keys, NEW f \in Frags, NEW present,
         NEW ids \in Placements(k, f, present)
  PROVE  ids \in Seq(Nodes) /\ WellFormed(ids, ReplicationFactor)
<1>1. PICK ranking \in Rankings[<<k, f>>] : ids = Place(ranking, present, ReplicationFactor)
  BY DEF Placements
<1>2. <<k, f>> \in Fragments
  BY DEF Fragments
<1>3. ranking \in Seq(Nodes) /\ IsInjective(ranking)
  BY <1>1, <1>2, RankingAssumption
<1>4. ReplicationFactor \in Nat
  BY SizesAssumption
<1> QED BY <1>1, <1>3, <1>4, PlaceWellFormed

(* A worker's new list for the fragment of its job.                        *)
LEMMA NewListType ==
  ASSUME NEW w \in Workers, wjob[w] \in Job
  PROVE  NewList(w) \in Seq(Nodes)
<1>1. wjob[w].list \in Seq(Nodes) /\ wjob[w].desired \in Seq(Nodes)
  BY DEF Job
<1> QED BY <1>1, FilterLiveProperties DEF NewList

(* A write to one node's disk.                                             *)
LEMMA StoredType ==
  ASSUME disk \in Disks,
         NEW n \in Nodes, NEW k \in Keys, NEW f \in Frags, NEW d \in Nat
  PROVE  /\ Stored(n, k, f, d) \in Disks
         /\ Stored(n, k, f, Torn) \in Disks
         /\ NotStored(n, k, f, d) \subseteq Disks
         /\ StoredOrNot(n, k, f, d) \subseteq Disks
<1>1. <<k, f>> \in Fragments
  BY DEF Fragments
<1>2. ASSUME NEW e \in Nat \cup {Torn} PROVE Stored(n, k, f, e) \in Disks
  <2>1. [disk[n] EXCEPT ![<<k, f>>] = e] \in [Fragments -> Nat \cup {Torn}]
    BY <1>1 DEF Disks
  <2> QED BY <2>1 DEF Stored, Disks
<1>3. Stored(n, k, f, d) \in Disks /\ Stored(n, k, f, Torn) \in Disks
  BY <1>2
<1> QED BY <1>3 DEF NotStored, StoredOrNot

(***************************************************************************)
(* Type correctness                                                        *)
(***************************************************************************)
LEMMA InitType == Init => TypeInv
<1> SUFFICES ASSUME Init PROVE TypeInv
  OBVIOUS
<1>1. NoPlan \in Lists
  BY DEF NoPlan, Lists
<1>2. put \in [Puts -> PutState]
  BY <1>1 DEF Init, PutState
<1>3. upload \in [Puts -> [Frags -> UploadState]]
  BY DEF Init, UploadState
<1>4. nodes \in [Nodes -> Catalog!NodeStatus]
  BY DEF Init, Catalog!NodeStatus
<1>5. keys \in [Keys -> Entry \cup {Absent}] /\ wheld \in [Workers -> [Keys -> Copy \cup {Absent}]]
  BY DEF Init
<1>6. alive \subseteq Nodes /\ joining \subseteq Nodes /\ faults \in Nat
  BY NodesAssumption DEF Init
<1>7. disk \in Disks
  BY DEF Init, Disks
<1>8. /\ wpc \in [Workers -> {"idle", "start", "read", "scan", "copy", "store"}]
      /\ wlive \in [Workers -> SUBSET Nodes]
      /\ wtodo \in [Workers -> SUBSET Fragments]
      /\ wjob \in [Workers -> Job \cup {NoJob}]
  BY DEF Init
<1>9. WorkersBusy
  BY DEF Init, WorkersBusy
<1> QED BY <1>2, <1>3, <1>4, <1>5, <1>6, <1>7, <1>8, <1>9 DEF TypeInv, TypeOK

(* Steps of a client leave the workers alone, so only the catalogue, the   *)
(* disks and the client's own records have to be looked at.                *)
LEMMA ClientType ==
  ASSUME TypeInv, NEW p \in Puts, ClientStep(p)
  PROVE  TypeInv'
<1> USE DEF TypeInv
<1>0. /\ p \in Nat /\ put[p] \in PutState /\ put[p].key \in Keys /\ put[p].plan \in Lists
      /\ keys \in KeysType
  BY DEF TypeOK, Puts, PutState, KeysType
<1>1. NewEntry(p) \in Entry
  BY <1>0 DEF NewEntry, Entry
<1>2. CASE Prepare(p)
  <2>1. PICK plan \in [Frags -> UNION {Placements(put[p].key, f, Up) : f \in Frags}] :
          /\ \A f \in Frags : plan[f] \in Placements(put[p].key, f, Up)
          /\ put' = [put EXCEPT ![p].pc = "planned", ![p].plan = plan]
    BY <1>2 DEF Prepare
  <2>2. plan \in Lists
    BY <2>1, <1>0, PlacementsWellFormed DEF Lists
  <2>3. put' \in [Puts -> PutState]
    BY <2>1, <2>2, <1>0 DEF TypeOK, PutState
  <2> QED BY <1>2, <2>3 DEF Prepare, TypeOK, WorkersBusy, catalogVars, storageVars, workerVars
<1>3. CASE Plan(p)
  <2>1. keys' \in KeysType
    BY <1>3, <1>0, <1>1, CatalogKeysType DEF Plan
  <2>2. put' \in [Puts -> PutState]
    BY <1>3, <1>0 DEF Plan, TypeOK, PutState
  <2> QED BY <1>3, <2>1, <2>2 DEF Plan, TypeOK, WorkersBusy, KeysType, storageVars, workerVars
<1>4. CASE PlanError(p)
  <2>1. keys' \in KeysType
    BY <1>4, <1>0, <1>1, CatalogKeysType DEF PlanError
  <2>2. put' \in [Puts -> PutState]
    BY <1>4, <1>0 DEF PlanError, TypeOK, PutState
  <2>3. faults' \in Nat
    BY <1>4 DEF PlanError, Fault, TypeOK
  <2> QED BY <1>4, <2>1, <2>2, <2>3 DEF PlanError, TypeOK, WorkersBusy, KeysType, storageVars, workerVars
<1>5. ASSUME NEW f \in Frags, StorePrimary(p, f) PROVE TypeInv'
  <2>1. Primary(p, f) \in Nodes
    BY <1>5 DEF StorePrimary, TypeOK
  <2>2. disk' \in Disks
    BY <1>5, <1>0, <2>1, StoredType DEF StorePrimary, TypeOK
  <2>3. Replicas(p, f) \subseteq Nodes
    BY <1>0 DEF Replicas, Lists
  <2>4. upload' \in [Puts -> [Frags -> UploadState]]
    BY <1>5, <2>3 DEF StorePrimary, TypeOK, UploadState
  <2> QED BY <1>5, <2>2, <2>4 DEF StorePrimary, TypeOK, WorkersBusy, catalogVars, workerVars
<1>14. ASSUME NEW f \in Frags, StoreError(p, f) PROVE TypeInv'
  <2>1. Primary(p, f) \in Nodes
    BY <1>14 DEF StoreError, TypeOK
  <2>2. disk' \in Disks
    BY <1>14, <1>0, <2>1, StoredType DEF StoreError, TypeOK
  <2>3. upload' \in [Puts -> [Frags -> UploadState]]
    <3>1. upload[p] \in [Frags -> UploadState] /\ upload[p][f] \in UploadState
      BY DEF TypeOK
    <3>2. upload'[p][f] \in UploadState /\ upload'[p] \in [Frags -> UploadState]
      BY <1>14, <3>1 DEF StoreError, TypeOK, UploadState
    <3> QED BY <1>14, <3>2 DEF StoreError, TypeOK
  <2>4. faults' \in Nat
    BY <1>14 DEF StoreError, Fault, TypeOK
  <2> QED BY <1>14, <2>2, <2>3, <2>4 DEF StoreError, TypeOK, WorkersBusy, catalogVars, workerVars
<1>6. ASSUME NEW f \in Frags, PrimaryError(p, f) PROVE TypeInv'
  <2>1. upload' \in [Puts -> [Frags -> UploadState]]
    <3>1. upload[p] \in [Frags -> UploadState] /\ upload[p][f] \in UploadState
      BY DEF TypeOK
    <3>2. upload'[p][f] \in UploadState /\ upload'[p] \in [Frags -> UploadState]
      BY <1>6, <3>1 DEF PrimaryError, TypeOK, UploadState
    <3> QED BY <1>6, <3>2 DEF PrimaryError, TypeOK
  <2> QED BY <1>6, <2>1 DEF PrimaryError, TypeOK, WorkersBusy, catalogVars, storageVars, workerVars
<1>7. ASSUME NEW f \in Frags, Answer(p, f) PROVE TypeInv'
  <2>1. upload' \in [Puts -> [Frags -> UploadState]]
    <3>1. upload[p] \in [Frags -> UploadState] /\ upload[p][f] \in UploadState
      BY DEF TypeOK
    <3>2. upload'[p][f] \in UploadState /\ upload'[p] \in [Frags -> UploadState]
      BY <1>7, <3>1 DEF Answer, TypeOK, UploadState
    <3> QED BY <1>7, <3>2 DEF Answer, TypeOK
  <2> QED BY <1>7, <2>1 DEF Answer, TypeOK, WorkersBusy, catalogVars, storageVars, workerVars
<1>15. ASSUME NEW f \in Frags, AnswerLost(p, f) PROVE TypeInv'
  <2>1. upload' \in [Puts -> [Frags -> UploadState]]
    <3>1. upload[p] \in [Frags -> UploadState] /\ upload[p][f] \in UploadState
      BY DEF TypeOK
    <3>2. upload'[p][f] \in UploadState /\ upload'[p] \in [Frags -> UploadState]
      BY <1>15, <3>1 DEF AnswerLost, TypeOK, UploadState
    <3> QED BY <1>15, <3>2 DEF AnswerLost, TypeOK
  <2>2. faults' \in Nat
    BY <1>15 DEF AnswerLost, Fault, TypeOK
  <2> QED BY <1>15, <2>1, <2>2 DEF AnswerLost, TypeOK, WorkersBusy, catalogVars, storageVars, workerVars
<1>8. ASSUME NEW f \in Frags, NEW n \in Nodes, SendReplica(p, f, n) PROVE TypeInv'
  <2>1. disk' \in Disks
    BY <1>8, <1>0, StoredType DEF SendReplica, TypeOK
  <2>2. upload' \in [Puts -> [Frags -> UploadState]]
    <3>1. upload[p] \in [Frags -> UploadState] /\ upload[p][f] \in UploadState
      BY DEF TypeOK
    <3> DEFINE u == [upload[p][f] EXCEPT !.sends = @ \ {n}, !.copies = @ + 1]
    <3>2. u \in UploadState
      <4> DEFINE v == [upload[p][f] EXCEPT !.sends = @ \ {n}]
      <4>1. v \in UploadState /\ u = [v EXCEPT !.copies = @ + 1]
        BY <3>1 DEF UploadState
      <4> HIDE DEF u, v
      <4> QED BY <4>1 DEF UploadState
    <3>3. upload' = [upload EXCEPT ![p] = [upload[p] EXCEPT ![f] = u]]
      BY <1>8 DEF SendReplica
    <3> HIDE DEF u
    <3> QED BY <3>1, <3>2, <3>3 DEF TypeOK
  <2> QED BY <1>8, <2>1, <2>2 DEF SendReplica, TypeOK, WorkersBusy, catalogVars, workerVars
<1>9. ASSUME NEW f \in Frags, NEW n \in Nodes, SendError(p, f, n) PROVE TypeInv'
  <2>1. upload' \in [Puts -> [Frags -> UploadState]]
    <3>1. upload[p] \in [Frags -> UploadState] /\ upload[p][f] \in UploadState
      BY DEF TypeOK
    <3>2. upload'[p][f] \in UploadState /\ upload'[p] \in [Frags -> UploadState]
      BY <1>9, <3>1 DEF SendError, TypeOK, UploadState
    <3> QED BY <1>9, <3>2 DEF SendError, TypeOK
  <2> QED BY <1>9, <2>1 DEF SendError, TypeOK, WorkersBusy, catalogVars, storageVars, workerVars
<1>10. ASSUME NEW f \in Frags, NEW n \in Nodes, SendLost(p, f, n) PROVE TypeInv'
  <2>1. disk' \in Disks
    BY <1>10, <1>0, StoredType DEF SendLost, TypeOK
  <2>2. upload' \in [Puts -> [Frags -> UploadState]]
    <3>1. upload[p] \in [Frags -> UploadState] /\ upload[p][f] \in UploadState
      BY DEF TypeOK
    <3>2. upload'[p][f] \in UploadState /\ upload'[p] \in [Frags -> UploadState]
      BY <1>10, <3>1 DEF SendLost, TypeOK, UploadState
    <3> QED BY <1>10, <3>2 DEF SendLost, TypeOK
  <2>3. faults' \in Nat
    BY <1>10 DEF SendLost, Fault, TypeOK
  <2> QED BY <1>10, <2>1, <2>2, <2>3 DEF SendLost, TypeOK, WorkersBusy, catalogVars, workerVars
<1>11. CASE Abort(p)
  <2>1. put' \in [Puts -> PutState]
    BY <1>11, <1>0 DEF Abort, TypeOK, PutState
  <2> QED BY <1>11, <2>1 DEF Abort, TypeOK, WorkersBusy, catalogVars, storageVars, workerVars
<1>12. CASE Commit(p)
  <2>1. keys' \in KeysType
    BY <1>12, <1>0, CatalogKeysType DEF Commit
  <2>2. put' \in [Puts -> PutState]
    BY <1>12, <1>0 DEF Commit, TypeOK, PutState
  <2> QED BY <1>12, <2>1, <2>2 DEF Commit, TypeOK, WorkersBusy, KeysType, storageVars, workerVars
<1>13. CASE CommitError(p)
  <2>1. keys' \in KeysType
    BY <1>13, <1>0, CatalogKeysType DEF CommitError
  <2>2. put' \in [Puts -> PutState]
    BY <1>13, <1>0 DEF CommitError, TypeOK, PutState
  <2>3. faults' \in Nat
    BY <1>13 DEF CommitError, Fault, TypeOK
  <2> QED BY <1>13, <2>1, <2>2, <2>3 DEF CommitError, TypeOK, WorkersBusy, KeysType, storageVars, workerVars
<1> QED BY <1>2, <1>3, <1>4, <1>5, <1>6, <1>7, <1>8, <1>9, <1>10, <1>11, <1>12, <1>13,
            <1>14, <1>15
        DEF ClientStep

LEMMA DeleteType ==
  ASSUME TypeInv, NEW k \in Keys, Delete(k)
  PROVE  TypeInv'
<1>1. keys' \in KeysType
  BY CatalogKeysType DEF TypeInv, TypeOK, KeysType, Delete
<1> QED BY <1>1 DEF TypeInv, TypeOK, WorkersBusy, Delete, KeysType, storageVars, clientVars, workerVars

(* A registration starts at most one idle rebalance.                       *)
LEMMA TriggerWorkers ==
  ASSUME TypeInv, wpc' = wpc \/ TriggerRebalance
  PROVE  /\ wpc' \in [Workers -> {"idle", "start", "read", "scan", "copy", "store"}]
         /\ \A w \in Workers : wpc'[w] = wpc[w] \/
              (w \in Rebalances /\ wpc[w] = "idle" /\ wpc'[w] = "start")
<1>1. wpc \in [Workers -> {"idle", "start", "read", "scan", "copy", "store"}]
  BY DEF TypeInv, TypeOK
<1>2. CASE wpc' = wpc
  BY <1>1, <1>2
<1>3. ASSUME NEW r \in Rebalances, wpc[r] = "idle", wpc' = [wpc EXCEPT ![r] = "start"]
      PROVE  /\ wpc' \in [Workers -> {"idle", "start", "read", "scan", "copy", "store"}]
             /\ \A w \in Workers : wpc'[w] = wpc[w] \/
                  (w \in Rebalances /\ wpc[w] = "idle" /\ wpc'[w] = "start")
  BY <1>1, <1>3
<1> QED BY <1>2, <1>3 DEF TriggerRebalance

(* Steps of a storage process and of the failure detector.                 *)
LEMMA MemberType ==
  ASSUME TypeInv, NEW n \in Nodes, MemberStep(n)
  PROVE  TypeInv'
<1> USE DEF TypeInv
<1>1. CASE Crash(n)
  <2>1. upload' \in [Puts -> [Frags -> UploadState]]
    <3>0. \A p \in Puts, f \in Frags : upload[p][f] \in UploadState
      BY DEF TypeOK
    <3>1. \A p \in Puts, f \in Frags : [upload[p][f] EXCEPT !.pc = "error"] \in UploadState
      BY <3>0 DEF UploadState
    <3> QED BY <1>1, <3>1 DEF Crash, TypeOK
  <2>2. /\ wjob' \in [Workers -> Job \cup {NoJob}]
        /\ \A w \in Workers : wjob[w] \in Job => wjob'[w] \in Job
    <3>1. \A w \in Workers : wjob[w] \in Job => [wjob[w] EXCEPT !.target = NoNode] \in Job
      BY DEF Job
    <3>2. \A w \in Workers : wpc[w] = "store" => wjob[w] \in Job
      BY DEF WorkersBusy
    <3> QED BY <1>1, <3>1, <3>2 DEF Crash, TypeOK
  <2>3. faults' \in Nat
    BY <1>1 DEF Crash, Fault, TypeOK
  <2>4. alive' \subseteq Nodes /\ joining' \subseteq Nodes
    BY <1>1 DEF Crash, TypeOK
  <2>5. WorkersBusy'
    BY <1>1, <2>2 DEF Crash, WorkersBusy
  <2> QED BY <1>1, <2>1, <2>2, <2>3, <2>4, <2>5 DEF Crash, TypeOK, catalogVars
<1>2. CASE Start(n)
  BY <1>2 DEF Start, TypeOK, WorkersBusy, catalogVars, clientVars, workerVars
<1>3. CASE RegisterError(n)
  <2>1. nodes' \in [Nodes -> Catalog!NodeStatus] /\ faults' \in Nat
    BY <1>3, CatalogNodesType DEF RegisterError, Fault, TypeOK
  <2>2. wpc' = wpc \/ TriggerRebalance
    BY <1>3 DEF RegisterError
  <2>3. WorkersBusy'
    BY <1>3, <2>2, TriggerWorkers DEF RegisterError, WorkersBusy
  <2> QED BY <1>3, <2>1, <2>2, <2>3, TriggerWorkers DEF RegisterError, TypeOK, storageVars, clientVars
<1>4. CASE Register(n)
  <2>1. nodes' \in [Nodes -> Catalog!NodeStatus]
    BY <1>4, CatalogNodesType DEF Register, TypeOK
  <2>2. wpc' = wpc \/ TriggerRebalance
    BY <1>4 DEF Register
  <2>3. WorkersBusy'
    BY <1>4, <2>2, TriggerWorkers DEF Register, WorkersBusy
  <2> QED BY <1>4, <2>1, <2>2, <2>3, TriggerWorkers DEF Register, TypeOK, clientVars
<1>8. ASSUME NEW k \in Keys, NEW f \in Frags, CutFile(n, k, f) PROVE TypeInv'
  <2>1. disk' \in Disks
    <3>1. disk \in Disks /\ 0 \in Nat
      BY DEF TypeOK
    <3>2. Stored(n, k, f, Torn) \in Disks
      BY <3>1, StoredType
    <3> QED BY <1>8, <3>2 DEF CutFile
  <2> QED BY <1>8, <2>1 DEF CutFile, TypeOK, WorkersBusy, catalogVars, clientVars, workerVars
<1>5. CASE Heartbeat(n)
  <2>1. nodes' \in [Nodes -> Catalog!NodeStatus]
    BY <1>5, CatalogNodesType DEF Heartbeat, TypeOK
  <2> QED BY <1>5, <2>1 DEF Heartbeat, TypeOK, WorkersBusy, storageVars, clientVars, workerVars
<1>6. CASE MarkNodeDown(n)
  <2>1. nodes' \in [Nodes -> Catalog!NodeStatus]
    BY <1>6, CatalogNodesType DEF MarkNodeDown, TypeOK
  <2> QED BY <1>6, <2>1 DEF MarkNodeDown, TypeOK, WorkersBusy, storageVars, clientVars, workerVars
<1>7. CASE FalseAlarm(n)
  <2>1. nodes' \in [Nodes -> Catalog!NodeStatus] /\ faults' \in Nat
    BY <1>7, CatalogNodesType DEF FalseAlarm, Fault, TypeOK
  <2> QED BY <1>7, <2>1 DEF FalseAlarm, TypeOK, WorkersBusy, storageVars, clientVars, workerVars
<1> QED BY <1>1, <1>2, <1>3, <1>4, <1>5, <1>6, <1>7, <1>8 DEF MemberStep

(* What a worker may read of an entry it has a copy of.                    *)
LEMMA ReadListsType ==
  ASSUME TypeInv, NEW w \in Workers, NEW k \in Keys, NEW f \in Frags,
         <<k, f>> \in wtodo[w], NEW current \in ReadLists(w, k, f)
  PROVE  current \in Seq(Nodes)
<1>1. wheld[w][k] \in Copy
  BY DEF TypeInv, WorkersBusy
<1>2. wheld[w][k].ids[f] \in Seq(Nodes)
  BY <1>1 DEF Copy, Lists
<1>3. CASE current = wheld[w][k].ids[f]
  BY <1>2, <1>3
<1>4. CASE \E v \in Workers : /\ Updating(v, k, f)
                              /\ current \in TornReads(wheld[w][k].ids[f], NewList(v))
  <2>1. PICK v \in Workers : /\ Updating(v, k, f)
                             /\ current \in TornReads(wheld[w][k].ids[f], NewList(v))
    BY <1>4
  <2>2. wjob[v] \in Job
    BY <2>1 DEF Updating, TypeInv, WorkersBusy
  <2>3. NewList(v) \in Seq(Nodes)
    BY <2>2, NewListType
  <2> QED BY <2>1, <2>3, <1>2, TornReadsWellFormed
<1> QED BY <1>3, <1>4 DEF ReadLists

(* A worker begins a fragment.                                             *)
LEMMA BeginType ==
  ASSUME TypeInv, NEW w \in Workers, NEW k \in Keys, NEW f \in Frags,
         NEW list \in Seq(Nodes), NEW source \in Nodes \cup {NoNode},
         NEW desired \in Seq(Nodes), NEW targets \in SUBSET Nodes, NEW left \in Nat,
         Begin(w, k, f, list, source, desired, targets, left)
  PROVE  TypeInv'
<1> DEFINE job == [key |-> k, frag |-> f, list |-> list, source |-> source,
                   desired |-> desired, targets |-> targets, left |-> left,
                   target |-> NoNode, data |-> 0]
<1>1. job \in Job
  BY DEF Job
<1>2. wjob' = [wjob EXCEPT ![w] = job] /\ wpc' = [wpc EXCEPT ![w] = "copy"]
  BY DEF Begin
<1> HIDE DEF job
<1>3. /\ wjob' \in [Workers -> Job \cup {NoJob}]
      /\ wpc' \in [Workers -> {"idle", "start", "read", "scan", "copy", "store"}]
  BY <1>1, <1>2 DEF TypeInv, TypeOK
<1>4. WorkersBusy'
  BY <1>1, <1>2 DEF TypeInv, TypeOK, WorkersBusy, Begin
<1> QED BY <1>3, <1>4 DEF TypeInv, TypeOK, Begin, catalogVars, storageVars, clientVars

LEMMA RecoverFragmentType ==
  ASSUME TypeInv, NEW k \in Keys, NEW f \in Frags, RecoverFragment(k, f)
  PROVE  TypeInv'
<1> DEFINE live == wlive[Recovery]
<1>0. Recovery \in Workers /\ live \subseteq Nodes
  BY DEF Workers, TypeInv, TypeOK
<1>1. PICK current \in ReadLists(Recovery, k, f) :
        \/ Recover(k, f, FilterLive(current, live))
        \/ Skip(k, f, FilterLive(current, live))
  BY DEF RecoverFragment
<1> DEFINE replicas == FilterLive(current, live)
<1>2. replicas \in Seq(Nodes)
  <2>1. current \in Seq(Nodes)
    BY <1>0, <1>1, ReadListsType DEF RecoverFragment, IsNext
  <2> QED BY <2>1, FilterLiveProperties
<1> HIDE DEF replicas
<1>3. CASE Recover(k, f, replicas)
  <2> DEFINE candidates == Candidates(replicas, live)
             left == IF Needed(replicas) < Cardinality(candidates)
                     THEN Needed(replicas) ELSE Cardinality(candidates)
  <2>1. candidates \subseteq Nodes
    BY <1>0 DEF Candidates
  <2>2. Cardinality(candidates) \in Nat
    BY <2>1, NodesAssumption, FS_Subset, FS_CardinalityType
  <2>3. Recoverable(replicas, live) /\ Begin(Recovery, k, f, replicas, replicas[1], << >>,
                                            candidates, left)
    BY <1>3 DEF Recover, live
  <2>4. left \in Nat
    <3>1. Needed(replicas) \in Int /\ Needed(replicas) > 0
      BY <2>3, <1>2, SizesAssumption DEF Recoverable, Needed
    <3> HIDE DEF candidates
    <3> QED BY <3>1, <2>2
  <2>5. replicas[1] \in Nodes
    BY <2>3, <1>2 DEF Recoverable
  <2>6. candidates \in SUBSET Nodes /\ << >> \in Seq(Nodes)
    BY <2>1
  <2> HIDE DEF candidates, left
  <2> QED BY <2>3, <2>4, <2>5, <2>6, <1>0, <1>2, BeginType
<1>4. CASE Skip(k, f, replicas)
  BY <1>4 DEF Skip, TypeInv, TypeOK, WorkersBusy, catalogVars, storageVars, clientVars
<1> QED BY <1>1, <1>3, <1>4 DEF replicas

LEMMA RebalanceFragmentType ==
  ASSUME TypeInv, NEW r \in Rebalances, NEW k \in Keys, NEW f \in Frags,
         RebalanceFragment(r, k, f)
  PROVE  TypeInv'
<1>0. r \in Workers
  BY DEF Workers
<1>1. PICK current \in ReadLists(r, k, f), desired \in Placements(k, f, wlive[r]) :
        LET sources == FilterLive(current, Up)
            missing == (Range(desired) \ Range(current)) \cap Up
            targets == IF sources = << >> THEN {} ELSE missing
        IN  Begin(r, k, f, current,
                  IF sources = << >> THEN NoNode ELSE sources[1],
                  desired, targets, Cardinality(targets))
  BY DEF RebalanceFragment
<1> DEFINE sources == FilterLive(current, Up)
           source == IF sources = << >> THEN NoNode ELSE sources[1]
           targets == IF sources = << >> THEN {}
                      ELSE (Range(desired) \ Range(current)) \cap Up
<1>2. current \in Seq(Nodes)
  BY <1>0, <1>1, ReadListsType DEF RebalanceFragment, IsNext
<1>3. desired \in Seq(Nodes)
  BY <1>1, PlacementsWellFormed
<1>4. sources \in Seq(Nodes)
  BY <1>2, FilterLiveProperties
<1>5. source \in Nodes \cup {NoNode}
  <2> HIDE DEF sources
  <2> QED BY <1>4
<1>6. targets \in SUBSET Nodes
  BY DEF Up
<1>7. Cardinality(targets) \in Nat
  <2> HIDE DEF targets
  <2> QED BY <1>6, NodesAssumption, FS_Subset, FS_CardinalityType
<1>8. Begin(r, k, f, current, source, desired, targets, Cardinality(targets))
  BY <1>1
<1> HIDE DEF source, targets
<1> QED BY <1>0, <1>2, <1>3, <1>5, <1>6, <1>7, <1>8, BeginType

(* A job in which a target has been tried is still a job.                  *)
LEMMA TriedType ==
  ASSUME NEW w \in Workers, wjob[w] \in Job, wjob[w].left > 0, NEW t \in Nodes
  PROVE  Tried(w, t) \in Job
<1> DEFINE job == [wjob[w] EXCEPT !.targets = @ \ {t}]
<1>1. job \in Job /\ Tried(w, t) = [job EXCEPT !.left = @ - 1] /\ job.left > 0
  BY DEF Job, Tried
<1> HIDE DEF job
<1>2. job.left - 1 \in Nat
  BY <1>1 DEF Job
<1> QED BY <1>1, <1>2 DEF Job

(* The five ways a copy goes on.                                           *)
LEMMA CopyType ==
  ASSUME TypeInv, NEW w \in Workers, CopyStep(w)
  PROVE  TypeInv'
<1> USE DEF TypeInv
<1>0. wpc[w] \in {"copy", "store"} => wjob[w] \in Job
  BY DEF WorkersBusy
<1>1. ASSUME NEW t \in Nodes, CopyFetch(w, t) PROVE TypeInv'
  <2> DEFINE d == disk[wjob[w].source][<<wjob[w].key, wjob[w].frag>>]
             job == [Tried(w, t) EXCEPT !.target = t, !.data = d]
  <2>1. wpc[w] = "copy" /\ wjob[w] \in Job /\ wjob[w].left > 0
    BY <1>0, <1>1 DEF CopyFetch
  <2>2. d \in Nat
    <3>1. wjob[w].source \in Nodes /\ <<wjob[w].key, wjob[w].frag>> \in Fragments /\ d > 0
      BY <1>1, <2>1 DEF CopyFetch, CanCopy, Holds, TypeOK, Fragments, Job
    <3> QED BY <3>1 DEF TypeOK, Disks, Torn
  <2>3. wjob' = [wjob EXCEPT ![w] = job] /\ wpc' = [wpc EXCEPT ![w] = "store"]
    BY <1>1 DEF CopyFetch
  <2> HIDE DEF d
  <2>4. job \in Job
    <3> DEFINE aimed == [Tried(w, t) EXCEPT !.target = t]
    <3>1. aimed \in Job /\ job = [aimed EXCEPT !.data = d]
      BY <2>1, TriedType DEF Job
    <3> HIDE DEF aimed, job
    <3> QED BY <3>1, <2>2 DEF Job
  <2> HIDE DEF job
  <2>5. /\ wjob' \in [Workers -> Job \cup {NoJob}]
        /\ wpc' \in [Workers -> {"idle", "start", "read", "scan", "copy", "store"}]
    BY <2>3, <2>4 DEF TypeOK
  <2>6. WorkersBusy'
    BY <1>1, <2>3, <2>4 DEF TypeOK, WorkersBusy, CopyFetch
  <2> QED BY <1>1, <2>5, <2>6 DEF TypeOK, CopyFetch, catalogVars, storageVars, clientVars
<1>2. ASSUME NEW t \in Nodes, CopyError(w, t) PROVE TypeInv'
  <2>1. wpc[w] = "copy" /\ wjob[w] \in Job /\ wjob[w].left > 0
    BY <1>0, <1>2 DEF CopyError
  <2>2. Tried(w, t) \in Job
    BY <2>1, TriedType
  <2>3. wjob' \in [Workers -> Job \cup {NoJob}] /\ WorkersBusy'
    BY <1>2, <2>2 DEF CopyError, TypeOK, WorkersBusy
  <2> QED BY <1>2, <2>3 DEF TypeOK, CopyError, catalogVars, storageVars, clientVars
<1>3. CASE CopyStore(w)
  <2> DEFINE job == wjob[w]
             listed == [job EXCEPT !.list = Append(@, job.target)]
             free == [listed EXCEPT !.target = NoNode]
             done == [free EXCEPT !.data = 0]
  <2>1. job \in Job /\ job.target \in Nodes
    BY <1>0, <1>3 DEF CopyStore, Job
  <2>2. listed \in Job
    <3>1. Append(job.list, job.target) \in Seq(Nodes)
      BY <2>1 DEF Job
    <3> QED BY <2>1, <3>1 DEF Job
  <2>3. free \in Job /\ done = [job EXCEPT !.list = Append(@, job.target),
                                           !.target = NoNode, !.data = 0]
    <3>1. free \in Job
      <4> HIDE DEF listed
      <4> QED BY <2>2 DEF Job
    <3> QED BY <3>1, <2>1 DEF Job
  <2>4. done \in Job
    <3> HIDE DEF free
    <3> QED BY <2>3 DEF Job
  <2>5. wjob' = [wjob EXCEPT ![w] = done]
    BY <1>3 DEF CopyStore
  <2>6. wjob' \in [Workers -> Job \cup {NoJob}] /\ WorkersBusy'
        /\ wpc' \in [Workers -> {"idle", "start", "read", "scan", "copy", "store"}]
    <3> HIDE DEF done
    <3>1. wpc' = [wpc EXCEPT ![w] = "copy"] /\ UNCHANGED <<wheld, wtodo>>
      BY <1>3 DEF CopyStore
    <3>2. /\ wjob' \in [Workers -> Job \cup {NoJob}]
          /\ wpc' \in [Workers -> {"idle", "start", "read", "scan", "copy", "store"}]
      BY <2>4, <2>5, <3>1 DEF TypeOK
    <3>3. \A v \in Workers : wpc'[v] \in {"copy", "store"} => wjob'[v] \in Job
      BY <2>4, <2>5, <3>1 DEF TypeOK, WorkersBusy
    <3> QED BY <3>1, <3>2, <3>3 DEF WorkersBusy
  <2>7. disk' \in Disks
    BY <1>3, <2>1, StoredType DEF CopyStore, TypeOK, Job
  <2> QED BY <1>3, <2>6, <2>7 DEF CopyStore, TypeOK, catalogVars, clientVars
<1>4. CASE CopyLost(w)
  <2> DEFINE job == wjob[w]
             free == [job EXCEPT !.target = NoNode]
             done == [free EXCEPT !.data = 0]
  <2>1. job \in Job /\ job.target \in Nodes
    BY <1>0, <1>4 DEF CopyLost, Job
  <2>2. free \in Job /\ done = [job EXCEPT !.target = NoNode, !.data = 0]
    BY <2>1 DEF Job
  <2>3. done \in Job
    <3> HIDE DEF free
    <3> QED BY <2>2 DEF Job
  <2>4. wjob' = [wjob EXCEPT ![w] = done]
    BY <1>4 DEF CopyLost
  <2>5. wjob' \in [Workers -> Job \cup {NoJob}] /\ WorkersBusy'
        /\ wpc' \in [Workers -> {"idle", "start", "read", "scan", "copy", "store"}]
    <3> HIDE DEF done
    <3> QED BY <1>4, <2>3, <2>4 DEF CopyLost, TypeOK, WorkersBusy
  <2>6. disk' \in Disks /\ faults' \in Nat
    <3>1. job.key \in Keys /\ job.frag \in Frags /\ job.data \in Nat
      BY <2>1 DEF Job
    <3>2. StoredOrNot(job.target, job.key, job.frag, job.data) \subseteq Disks
      BY <2>1, <3>1, StoredType DEF TypeOK
    <3> QED BY <1>4, <3>2 DEF CopyLost, Fault, TypeOK
  <2> QED BY <1>4, <2>5, <2>6 DEF CopyLost, TypeOK, catalogVars, clientVars
<1>5. CASE CopyBroken(w)
  <2>1. wjob[w] \in Job
    BY <1>0, <1>5 DEF CopyBroken
  <2>2. [wjob[w] EXCEPT !.data = 0] \in Job
    BY <2>1 DEF Job
  <2>3. wjob' \in [Workers -> Job \cup {NoJob}] /\ WorkersBusy'
        /\ wpc' \in [Workers -> {"idle", "start", "read", "scan", "copy", "store"}]
    BY <1>5, <2>2 DEF CopyBroken, TypeOK, WorkersBusy
  <2> QED BY <1>5, <2>3 DEF CopyBroken, TypeOK, catalogVars, storageVars, clientVars
<1> QED BY <1>1, <1>2, <1>3, <1>4, <1>5 DEF CopyStep

(* The end of a fragment's job.                                            *)
LEMMA FragmentDoneType ==
  ASSUME TypeInv, NEW w \in Workers, NEW k, NEW f, FragmentDone(w, k, f)
  PROVE  /\ wjob' \in [Workers -> Job \cup {NoJob}]
         /\ wtodo' \in [Workers -> SUBSET Fragments]
         /\ wpc' \in [Workers -> {"idle", "start", "read", "scan", "copy", "store"}]
         /\ (\A v \in Workers, j \in Keys : wheld[v][j] \in Copy => wheld'[v][j] \in Copy)
              => WorkersBusy'
<1>1. wjob' \in [Workers -> Job \cup {NoJob}]
  BY DEF FragmentDone, TypeInv, TypeOK
<1>2. wtodo' \in [Workers -> SUBSET Fragments]
  BY DEF FragmentDone, TypeInv, TypeOK
<1>3. wpc' \in [Workers -> {"idle", "start", "read", "scan", "copy", "store"}]
  BY DEF FragmentDone, TypeInv, TypeOK
<1>4. ASSUME \A v \in Workers, j \in Keys : wheld[v][j] \in Copy => wheld'[v][j] \in Copy
      PROVE  WorkersBusy'
  <2>1. ASSUME NEW v \in Workers, wpc'[v] \in {"copy", "store"} PROVE wjob'[v] \in Job
    BY <2>1 DEF FragmentDone, TypeInv, TypeOK, WorkersBusy
  <2>2. ASSUME NEW v \in Workers, NEW kf \in wtodo'[v] PROVE wheld'[v][kf[1]] \in Copy
    <3>1. kf \in wtodo[v]
      BY <2>2 DEF FragmentDone, TypeInv, TypeOK
    <3>2. kf[1] \in Keys
      BY <3>1 DEF TypeInv, TypeOK, Fragments
    <3> QED BY <1>4, <3>1, <3>2 DEF TypeInv, WorkersBusy
  <2> QED BY <2>1, <2>2 DEF WorkersBusy
<1> QED BY <1>1, <1>2, <1>3, <1>4

(* What the copies become when a list of the catalogue is replaced.        *)
LEMMA SeeUpdateType ==
  ASSUME TypeInv, NEW k \in Keys, NEW f \in Frags, NEW ids \in Seq(Nodes),
         SeeUpdate(k, f, ids)
  PROVE  /\ wheld' \in [Workers -> [Keys -> Copy \cup {Absent}]]
         /\ \A v \in Workers, j \in Keys : wheld[v][j] \in Copy => wheld'[v][j] \in Copy
<1> DEFINE new(v) == IF Shares(wheld[v][k], keys[k])
                     THEN [wheld[v] EXCEPT ![k].ids[f] = ids] ELSE wheld[v]
<1>1. ASSUME NEW v \in Workers
      PROVE  /\ new(v) \in [Keys -> Copy \cup {Absent}]
             /\ \A j \in Keys : wheld[v][j] \in Copy => new(v)[j] \in Copy
  <2>0. wheld[v] \in [Keys -> Copy \cup {Absent}]
    BY DEF TypeInv, TypeOK
  <2>1. CASE Shares(wheld[v][k], keys[k])
    <3>1. wheld[v][k] \in Copy
      BY <2>0, <2>1 DEF Shares
    <3>2. [wheld[v][k].ids EXCEPT ![f] = ids] \in Lists
      BY <3>1 DEF Copy, Lists
    <3>3. \A l \in Lists : [wheld[v][k] EXCEPT !.ids = l] \in Copy
      BY <3>1 DEF Copy
    <3> QED BY <2>0, <2>1, <3>2, <3>3
  <2>2. CASE ~ Shares(wheld[v][k], keys[k])
    BY <2>0, <2>2
  <2> QED BY <2>1, <2>2
<1>2. wheld' = [v \in Workers |-> new(v)]
  BY DEF SeeUpdate
<1> HIDE DEF new
<1> QED BY <1>1, <1>2

(* The steps recovery and the rebalances have in common.                   *)
LEMMA WorkerType ==
  ASSUME TypeInv, NEW w \in Workers, WorkerStep(w)
  PROVE  TypeInv'
<1>1. CASE ReadEntries(w)
  <2> DEFINE held == [k \in Keys |-> IF keys[k] = Absent THEN Absent
                                     ELSE [put |-> keys[k].put, ids |-> keys[k].ids]]
             todo == {kf \in Fragments : keys[kf[1]] # Absent}
  <2>0. /\ wheld' = [wheld EXCEPT ![w] = held] /\ wtodo' = [wtodo EXCEPT ![w] = todo]
        /\ wpc' = [wpc EXCEPT ![w] = "scan"] /\ wjob' = wjob
    BY <1>1 DEF ReadEntries
  <2>1. \A k \in Keys : keys[k] # Absent => held[k] \in Copy
    BY DEF TypeInv, TypeOK, Entry, Copy
  <2>2. held \in [Keys -> Copy \cup {Absent}]
    BY <2>1
  <2>3. \A kf \in todo : held[kf[1]] \in Copy
    BY <2>1 DEF Fragments
  <2> HIDE DEF held
  <2>4. /\ wheld' \in [Workers -> [Keys -> Copy \cup {Absent}]]
        /\ wtodo' \in [Workers -> SUBSET Fragments]
        /\ wpc' \in [Workers -> {"idle", "start", "read", "scan", "copy", "store"}]
    BY <2>0, <2>2 DEF TypeInv, TypeOK
  <2>5. WorkersBusy'
    <3> HIDE DEF todo
    <3> QED BY <2>0, <2>3 DEF TypeInv, TypeOK, WorkersBusy
  <2> QED BY <1>1, <2>4, <2>5 DEF ReadEntries, TypeInv, TypeOK, catalogVars, storageVars, clientVars
<1>2. CASE ScanDone(w)
  <2>1. /\ wheld' \in [Workers -> [Keys -> Copy \cup {Absent}]]
        /\ wlive' \in [Workers -> SUBSET Nodes]
        /\ wpc' \in [Workers -> {"idle", "start", "read", "scan", "copy", "store"}]
    BY <1>2 DEF ScanDone, TypeInv, TypeOK
  <2>2. WorkersBusy'
    BY <1>2 DEF ScanDone, TypeInv, TypeOK, WorkersBusy
  <2> QED BY <1>2, <2>1, <2>2 DEF ScanDone, TypeInv, TypeOK, catalogVars, storageVars, clientVars
<1>3. CASE CopyStep(w)
  BY <1>3, CopyType
<1>4. CASE UpdateFragmentNodes(w)
  <2> DEFINE k == wjob[w].key  f == wjob[w].frag
  <2>1. wjob[w] \in Job
    BY <1>4 DEF UpdateFragmentNodes, TypeInv, WorkersBusy
  <2>2. k \in Keys /\ f \in Frags /\ NewList(w) \in Seq(Nodes)
    BY <2>1, NewListType DEF Job
  <2>3. keys' \in KeysType
    BY <1>4, <2>2, CatalogKeysType DEF UpdateFragmentNodes, TypeInv, TypeOK, KeysType
  <2>4. SeeUpdate(k, f, NewList(w)) /\ FragmentDone(w, k, f)
    BY <1>4 DEF UpdateFragmentNodes
  <2> HIDE DEF k, f
  <2>5. /\ wheld' \in [Workers -> [Keys -> Copy \cup {Absent}]]
        /\ \A v \in Workers, j \in Keys : wheld[v][j] \in Copy => wheld'[v][j] \in Copy
    BY <2>2, <2>4, SeeUpdateType
  <2>6. /\ wjob' \in [Workers -> Job \cup {NoJob}]
        /\ wtodo' \in [Workers -> SUBSET Fragments]
        /\ wpc' \in [Workers -> {"idle", "start", "read", "scan", "copy", "store"}]
        /\ WorkersBusy'
    BY <2>4, <2>5, FragmentDoneType
  <2> QED BY <1>4, <2>3, <2>5, <2>6
          DEF UpdateFragmentNodes, KeysType, TypeInv, TypeOK, storageVars, clientVars
<1>5. CASE UpdateLost(w)
  <2>1. FragmentDone(w, wjob[w].key, wjob[w].frag) /\ wheld' = wheld /\ faults' \in Nat
    BY <1>5 DEF UpdateLost, Fault, TypeInv, TypeOK
  <2>2. /\ wjob' \in [Workers -> Job \cup {NoJob}]
        /\ wtodo' \in [Workers -> SUBSET Fragments]
        /\ wpc' \in [Workers -> {"idle", "start", "read", "scan", "copy", "store"}]
        /\ WorkersBusy'
    BY <2>1, FragmentDoneType
  <2> QED BY <1>5, <2>1, <2>2 DEF UpdateLost, TypeInv, TypeOK, catalogVars, storageVars, clientVars
<1> QED BY <1>1, <1>2, <1>3, <1>4, <1>5 DEF WorkerStep

(* Every step keeps the types.                                             *)
LEMMA NextType == TypeInv /\ [Next]_vars => TypeInv'
<1> SUFFICES ASSUME TypeInv, [Next]_vars PROVE TypeInv'
  OBVIOUS
<1>0. Recovery \in Workers /\ \A r \in Rebalances : r \in Workers
  BY DEF Workers
<1>1. ASSUME NEW p \in Puts, ClientStep(p) PROVE TypeInv'
  BY <1>1, ClientType
<1>2. ASSUME NEW k \in Keys, Delete(k) PROVE TypeInv'
  BY <1>2, DeleteType
<1>3. ASSUME NEW n \in Nodes, MemberStep(n) PROVE TypeInv'
  BY <1>3, MemberType
<1>4. CASE RecoveryStep
  <2>1. CASE RecoveryTick
    <3>1. Up \subseteq Nodes
      BY DEF Up
    <3>2. /\ wlive' \in [Workers -> SUBSET Nodes]
          /\ wpc' \in [Workers -> {"idle", "start", "read", "scan", "copy", "store"}]
      BY <2>1, <3>1 DEF RecoveryTick, TypeInv, TypeOK
    <3>3. WorkersBusy'
      BY <2>1 DEF RecoveryTick, TypeInv, TypeOK, WorkersBusy
    <3> QED BY <2>1, <3>2, <3>3
            DEF RecoveryTick, TypeInv, TypeOK, catalogVars, storageVars, clientVars
  <2>2. ASSUME NEW k \in Keys, NEW f \in Frags, RecoverFragment(k, f) PROVE TypeInv'
    BY <2>2, RecoverFragmentType
  <2>3. CASE WorkerStep(Recovery)
    BY <2>3, <1>0, WorkerType
  <2> QED BY <1>4, <2>1, <2>2, <2>3 DEF RecoveryStep
<1>5. ASSUME NEW r \in Rebalances, RebalanceStep(r) PROVE TypeInv'
  <2>1. CASE RebalanceStart(r)
    <3>1. Up \subseteq Nodes
      BY DEF Up
    <3>2. /\ wlive' \in [Workers -> SUBSET Nodes]
          /\ wpc' \in [Workers -> {"idle", "start", "read", "scan", "copy", "store"}]
      BY <2>1, <3>1 DEF RebalanceStart, TypeInv, TypeOK
    <3>3. WorkersBusy'
      BY <2>1 DEF RebalanceStart, TypeInv, TypeOK, WorkersBusy
    <3> QED BY <2>1, <3>2, <3>3
            DEF RebalanceStart, TypeInv, TypeOK, catalogVars, storageVars, clientVars
  <2>2. ASSUME NEW k \in Keys, NEW f \in Frags, RebalanceFragment(r, k, f) PROVE TypeInv'
    BY <2>2, RebalanceFragmentType
  <2>3. CASE WorkerStep(r)
    BY <2>3, <1>0, WorkerType
  <2> QED BY <1>5, <2>1, <2>2, <2>3 DEF RebalanceStep
<1>6. CASE UNCHANGED vars
  BY <1>6 DEF TypeInv, TypeOK, WorkersBusy, vars, catalogVars, storageVars, clientVars, workerVars
<1> QED BY <1>1, <1>2, <1>3, <1>4, <1>5, <1>6 DEF Next

(* The inductive form of the type invariant.                               *)
THEOREM TypesAndJobs == Spec => []TypeInv
<1>1. Init => TypeInv
  BY InitType
<1>2. TypeInv /\ [Next]_vars => TypeInv'
  BY NextType
<1> QED BY <1>1, <1>2, PTL DEF Spec

(* Every reachable state has the types the code's structures have, for any *)
(* number of keys, fragments, nodes, puts and rebalance goroutines.        *)
THEOREM TypeCorrect == Spec => []TypeOK
<1>1. TypeInv => TypeOK
  BY DEF TypeInv
<1> QED BY <1>1, TypesAndJobs, PTL
=============================================================================
