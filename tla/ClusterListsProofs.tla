------------------------- MODULE ClusterListsProofs --------------------------
(***************************************************************************)
(* Proofs about the catalogue: its replica lists stay well formed whatever *)
(* recovery and any number of rebalances write back at the same time, and  *)
(* what is deleted comes back only with a put.                             *)
(***************************************************************************)
EXTENDS ClusterProofs

(* A list a client plans with or a worker has still to look at.            *)
PlanLists ==
  \A p \in Puts, f \in Frags : WellFormed(put[p].plan[f], ReplicationFactor)

HeldLists ==
  \A w \in Workers : \A kf \in wtodo[w] :
    WellFormed(wheld[w][kf[1]].ids[kf[2]], ReplicationFactor)

(* Recovery: with the copy that is under way and the ones still to be made *)
(* the list does not get longer than the replication factor, and no node   *)
(* that is to be added is in it.                                           *)
RecoveryJob(job) ==
  /\ IsInjective(job.list)
  /\ job.targets \cap Range(job.list) = {}
  /\ IF job.target = NoNode
     THEN Len(job.list) + job.left <= ReplicationFactor
     ELSE /\ Len(job.list) + 1 + job.left <= ReplicationFactor
          /\ job.target \notin Range(job.list) \cup job.targets

(* A rebalance writes back a part of what the placer chose.                *)
RebalanceJob(job) == WellFormed(job.desired, ReplicationFactor)

JobsInv ==
  \A w \in Workers : wpc[w] \in {"copy", "store"} =>
    IF w = Recovery THEN RecoveryJob(wjob[w]) ELSE RebalanceJob(wjob[w])

ListInv == ReplicaListsWellFormed /\ PlanLists /\ HeldLists /\ JobsInv

(***************************************************************************)
(* The list a worker sends and the lists a worker may read                 *)
(***************************************************************************)
LEMMA NewListWellFormed ==
  ASSUME TypeInv, JobsInv, NEW w \in Workers, wpc[w] = "copy"
  PROVE  NewList(w) \in Seq(Nodes) /\ WellFormed(NewList(w), ReplicationFactor)
<1>0. /\ wjob[w] \in Job /\ wjob[w].list \in Seq(Nodes) /\ wjob[w].desired \in Seq(Nodes)
      /\ wjob[w].left \in Nat /\ ReplicationFactor \in Nat
  BY SizesAssumption DEF TypeInv, WorkersBusy, Job
<1>1. CASE w = Recovery
  <2>1. RecoveryJob(wjob[w])
    BY <1>1 DEF JobsInv
  <2>2. NewList(w) = wjob[w].list
    BY <1>1 DEF NewList
  <2>3. IsInjective(wjob[w].list)
    BY <2>1 DEF RecoveryJob
  <2>4. Len(wjob[w].list) <= ReplicationFactor
    <3>1. Len(wjob[w].list) \in Nat
      BY <1>0
    <3> QED BY <2>1, <3>1, <1>0 DEF RecoveryJob
  <2> QED BY <1>0, <2>2, <2>3, <2>4 DEF WellFormed
<1>2. CASE w # Recovery
  <2>1. WellFormed(wjob[w].desired, ReplicationFactor)
    BY <1>2 DEF JobsInv, RebalanceJob
  <2>2. NewList(w) = FilterLive(wjob[w].desired, Range(wjob[w].list))
    BY <1>2 DEF NewList
  <2> QED BY <1>0, <2>1, <2>2, FilterLiveWellFormed
<1> QED BY <1>1, <1>2

(* Torn or not, what a worker reads is well formed.                        *)
LEMMA ReadListsWellFormed ==
  ASSUME TypeInv, HeldLists, JobsInv, NEW w \in Workers, NEW k \in Keys, NEW f \in Frags,
         <<k, f>> \in wtodo[w], NEW current \in ReadLists(w, k, f)
  PROVE  current \in Seq(Nodes) /\ WellFormed(current, ReplicationFactor)
<1> DEFINE held == wheld[w][k].ids[f]
<1>0. wheld[w][k] \in Copy /\ held \in Seq(Nodes) /\ ReplicationFactor \in Nat
  BY SizesAssumption DEF TypeInv, WorkersBusy, Copy, Lists
<1>1. WellFormed(held, ReplicationFactor)
  BY DEF HeldLists
<1>2. CASE current = held
  BY <1>0, <1>1, <1>2
<1>3. CASE \E v \in Workers : Updating(v, k, f) /\ current \in TornReads(held, NewList(v))
  <2>1. PICK v \in Workers : Updating(v, k, f) /\ current \in TornReads(held, NewList(v))
    BY <1>3
  <2>2. NewList(v) \in Seq(Nodes) /\ WellFormed(NewList(v), ReplicationFactor)
    BY <2>1, NewListWellFormed DEF Updating
  <2> HIDE DEF held
  <2> QED BY <2>1, <2>2, <1>0, <1>1, TornReadsWellFormed
<1> QED BY <1>2, <1>3 DEF ReadLists

(***************************************************************************)
(* Steps that do not touch the workers                                     *)
(***************************************************************************)
LEMMA WorkersUntouched ==
  ASSUME ListInv, UNCHANGED <<wpc, wheld, wtodo, wjob>>
  PROVE  HeldLists' /\ JobsInv'
BY DEF ListInv, HeldLists, JobsInv, RecoveryJob, RebalanceJob

LEMMA CatalogueKept ==
  ASSUME ReplicaListsWellFormed, keys \in KeysType, NEW k \in Keys,
         keys' \in {keys, Catalog!CommitKey(keys, k), Catalog!DeleteKey(keys, k)}
  PROVE  ReplicaListsWellFormed'
<1>1. CASE keys' = keys
  BY <1>1 DEF ReplicaListsWellFormed, Present
<1>2. CASE keys' = Catalog!DeleteKey(keys, k)
  BY <1>2 DEF Catalog!DeleteKey, ReplicaListsWellFormed, Present, KeysType
<1>3. CASE keys' = Catalog!CommitKey(keys, k)
  <2>1. CASE keys[k] = Absent
    BY <1>1, <1>3, <2>1 DEF Catalog!CommitKey
  <2>2. CASE keys[k] # Absent
    <3>1. keys[k] \in Entry
      BY <2>2 DEF KeysType
    <3>2. [keys[k] EXCEPT !.committed = TRUE].ids = keys[k].ids
      BY <3>1 DEF Entry
    <3>3. \A j \in Keys : keys[j] # Absent /\ keys'[j] # Absent => keys'[j].ids = keys[j].ids
      BY <1>3, <2>2, <3>2 DEF Catalog!CommitKey, KeysType
    <3>4. \A j \in Keys : keys'[j] # Absent => keys[j] # Absent
      BY <1>3, <2>2 DEF Catalog!CommitKey, KeysType
    <3> QED BY <3>3, <3>4 DEF ReplicaListsWellFormed, Present
  <2> QED BY <2>1, <2>2
<1> QED BY <1>1, <1>2, <1>3

LEMMA PlannedEntry ==
  ASSUME TypeInv, ListInv, NEW p \in Puts,
         keys' \in {keys, Catalog!PutKey(keys, put[p].key, NewEntry(p))}
  PROVE  ReplicaListsWellFormed'
<1>1. CASE keys' = keys
  BY <1>1 DEF ReplicaListsWellFormed, Present, ListInv
<1>2. CASE keys' = Catalog!PutKey(keys, put[p].key, NewEntry(p))
  <2>1. NewEntry(p).ids = put[p].plan
    BY DEF NewEntry
  <2>2. \A f \in Frags : WellFormed(NewEntry(p).ids[f], ReplicationFactor)
    BY <2>1 DEF ListInv, PlanLists
  <2>3. \A j \in Keys : keys'[j] = IF j = put[p].key THEN NewEntry(p) ELSE keys[j]
    BY <1>2 DEF Catalog!PutKey, TypeInv, TypeOK
  <2> HIDE DEF NewEntry
  <2> QED BY <2>2, <2>3 DEF ReplicaListsWellFormed, Present, ListInv
<1> QED BY <1>1, <1>2

LEMMA PlansKept ==
  ASSUME TypeInv, ListInv, NEW p \in Puts, NEW pc, put' = [put EXCEPT ![p].pc = pc]
  PROVE  PlanLists'
<1>1. \A q \in Puts : put[q] \in PutState
  BY DEF TypeInv, TypeOK
<1>2. \A q \in Puts : put'[q].plan = put[q].plan
  BY <1>1 DEF TypeInv, TypeOK, PutState
<1> QED BY <1>2 DEF PlanLists, ListInv

LEMMA ClientLists ==
  ASSUME TypeInv, ListInv, NEW p \in Puts, ClientStep(p)
  PROVE  ListInv'
<1>0. put[p] \in PutState /\ put[p].key \in Keys /\ keys \in KeysType
  BY DEF TypeInv, TypeOK, PutState, KeysType
<1>1. UNCHANGED <<wpc, wheld, wtodo, wjob>>
  BY DEF ClientStep, Prepare, Plan, PlanError, StorePrimary, StoreError, PrimaryError,
         Answer, AnswerLost, SendReplica, SendError, SendLost, Abort, Commit, CommitError, workerVars
<1>2. HeldLists' /\ JobsInv'
  BY <1>1, WorkersUntouched
<1>3. CASE Prepare(p)
  <2>1. PICK plan \in [Frags -> UNION {Placements(put[p].key, f, Up) : f \in Frags}] :
          /\ \A f \in Frags : plan[f] \in Placements(put[p].key, f, Up)
          /\ put' = [put EXCEPT ![p].pc = "planned", ![p].plan = plan]
    BY <1>3 DEF Prepare
  <2>2. \A f \in Frags : WellFormed(plan[f], ReplicationFactor)
    BY <2>1, <1>0, PlacementsWellFormed
  <2>3. \A q \in Puts : put'[q].plan = IF q = p THEN plan ELSE put[q].plan
    BY <2>1, <1>0 DEF TypeInv, TypeOK, PutState
  <2>4. PlanLists'
    BY <2>2, <2>3 DEF PlanLists, ListInv
  <2>5. keys' = keys
    BY <1>3 DEF Prepare, catalogVars
  <2>6. ReplicaListsWellFormed'
    BY <2>5 DEF ReplicaListsWellFormed, Present, ListInv
  <2> QED BY <1>2, <2>4, <2>6 DEF ListInv
<1>4. CASE Plan(p) \/ PlanError(p)
  <2>1. ReplicaListsWellFormed'
    BY <1>4, PlannedEntry DEF Plan, PlanError
  <2>2. PlanLists'
    BY <1>4, PlansKept DEF Plan, PlanError
  <2> QED BY <1>2, <2>1, <2>2 DEF ListInv
<1>5. CASE Commit(p) \/ CommitError(p)
  <2>1. ReplicaListsWellFormed'
    BY <1>5, <1>0, CatalogueKept DEF Commit, CommitError, ListInv
  <2>2. PlanLists'
    BY <1>5, PlansKept DEF Commit, CommitError
  <2> QED BY <1>2, <2>1, <2>2 DEF ListInv
<1>6. CASE Abort(p)
  <2>1. PlanLists' /\ keys' = keys
    BY <1>6, PlansKept DEF Abort, catalogVars
  <2> QED BY <1>2, <2>1 DEF ListInv, ReplicaListsWellFormed, Present
<1>7. CASE keys' = keys /\ put' = put
  BY <1>2, <1>7 DEF ListInv, ReplicaListsWellFormed, Present, PlanLists
<1>8. ASSUME NEW f \in Frags,
             \/ StorePrimary(p, f) \/ StoreError(p, f) \/ PrimaryError(p, f)
             \/ Answer(p, f) \/ AnswerLost(p, f)
             \/ \E n \in Nodes : SendReplica(p, f, n) \/ SendError(p, f, n) \/ SendLost(p, f, n)
      PROVE  keys' = keys /\ put' = put
  BY <1>8 DEF StorePrimary, StoreError, PrimaryError, Answer, AnswerLost, SendReplica,
              SendError, SendLost, catalogVars
<1> QED BY <1>3, <1>4, <1>5, <1>6, <1>7, <1>8 DEF ClientStep

LEMMA DeleteLists ==
  ASSUME TypeInv, ListInv, NEW k \in Keys, Delete(k)
  PROVE  ListInv'
<1>1. HeldLists' /\ JobsInv' /\ PlanLists'
  BY WorkersUntouched DEF Delete, workerVars, clientVars, ListInv, PlanLists
<1>2. ReplicaListsWellFormed'
  BY CatalogueKept DEF Delete, ListInv, TypeInv, TypeOK, KeysType
<1> QED BY <1>1, <1>2 DEF ListInv

LEMMA MemberLists ==
  ASSUME TypeInv, ListInv, NEW n \in Nodes, MemberStep(n)
  PROVE  ListInv'
<1>0. keys' = keys /\ put' = put /\ wheld' = wheld /\ wtodo' = wtodo
  BY DEF MemberStep, Crash, Start, RegisterError, Register, CutFile, Heartbeat, MarkNodeDown,
         FalseAlarm, catalogVars, clientVars, workerVars
<1>1. ReplicaListsWellFormed' /\ PlanLists' /\ HeldLists'
  BY <1>0 DEF ListInv, ReplicaListsWellFormed, Present, PlanLists, HeldLists
<1>2. CASE wpc' = wpc /\ wjob' = wjob
  BY <1>1, <1>2 DEF ListInv, JobsInv, RecoveryJob, RebalanceJob
<1>3. CASE Register(n) \/ RegisterError(n)
  <2>1. wjob' = wjob /\ \A w \in Workers : wpc'[w] \in {"copy", "store"} => wpc'[w] = wpc[w]
    <3>1. wjob' = wjob /\ (wpc' = wpc \/ TriggerRebalance)
      BY <1>3 DEF Register, RegisterError
    <3> QED BY <3>1, TriggerWorkers
  <2>2. JobsInv'
    BY <2>1 DEF ListInv, JobsInv, RecoveryJob, RebalanceJob
  <2> QED BY <1>1, <2>2 DEF ListInv
<1>4. CASE Crash(n)
  <2>1. wpc' = wpc
    BY <1>4 DEF Crash
  <2>2. ASSUME NEW w \in Workers, wpc[w] \in {"copy", "store"}, wjob'[w] # wjob[w],
               w = Recovery
        PROVE  RecoveryJob(wjob'[w])
    <3>1. wjob[w] \in Job /\ wjob[w].target # NoNode /\ RecoveryJob(wjob[w])
      BY <1>4, <2>2, NodesAssumption DEF Crash, TypeInv, WorkersBusy, ListInv, JobsInv
    <3>2. wjob'[w] = [wjob[w] EXCEPT !.target = NoNode]
      BY <1>4, <2>2 DEF Crash
    <3>3. /\ wjob'[w].list = wjob[w].list /\ wjob'[w].targets = wjob[w].targets
          /\ wjob'[w].left = wjob[w].left /\ wjob'[w].target = NoNode
      BY <3>1, <3>2 DEF Job
    <3>4. Len(wjob[w].list) \in Nat /\ wjob[w].left \in Nat /\ ReplicationFactor \in Nat
      BY <3>1, SizesAssumption DEF Job
    <3> QED BY <3>1, <3>3, <3>4 DEF RecoveryJob
  <2>3. ASSUME NEW w \in Workers, wpc[w] \in {"copy", "store"}, wjob'[w] # wjob[w],
               w # Recovery
        PROVE  RebalanceJob(wjob'[w])
    <3>1. wjob[w] \in Job /\ RebalanceJob(wjob[w])
      BY <2>3 DEF TypeInv, WorkersBusy, ListInv, JobsInv
    <3>2. wjob'[w] = [wjob[w] EXCEPT !.target = NoNode]
      BY <1>4, <2>3 DEF Crash
    <3> QED BY <3>1, <3>2 DEF RebalanceJob, Job
  <2>4. JobsInv'
    BY <2>1, <2>2, <2>3 DEF ListInv, JobsInv
  <2> QED BY <1>1, <2>4 DEF ListInv
<1>5. ASSUME Start(n) \/ Heartbeat(n) \/ MarkNodeDown(n) \/ FalseAlarm(n)
             \/ \E k \in Keys, f \in Frags : CutFile(n, k, f)
      PROVE  wpc' = wpc /\ wjob' = wjob
  BY <1>5 DEF Start, CutFile, Heartbeat, MarkNodeDown, FalseAlarm, workerVars
<1> QED BY <1>2, <1>3, <1>4, <1>5 DEF MemberStep

(***************************************************************************)
(* The workers                                                             *)
(***************************************************************************)

(* The catalogue, the plans and the held copies as they were: only the     *)
(* job of one worker has to be looked at.                                  *)
LEMMA OneJobChanges ==
  ASSUME ListInv, NEW w \in Workers,
         UNCHANGED <<keys, put, wheld, wtodo>>,
         \A v \in Workers \ {w} : wpc'[v] = wpc[v] /\ wjob'[v] = wjob[v],
         wpc'[w] \in {"copy", "store"} =>
           IF w = Recovery THEN RecoveryJob(wjob'[w]) ELSE RebalanceJob(wjob'[w])
  PROVE  ListInv'
<1>1. ReplicaListsWellFormed' /\ PlanLists' /\ HeldLists'
  BY DEF ListInv, ReplicaListsWellFormed, Present, PlanLists, HeldLists
<1>2. ASSUME NEW v \in Workers, wpc'[v] \in {"copy", "store"}
      PROVE  IF v = Recovery THEN RecoveryJob(wjob'[v]) ELSE RebalanceJob(wjob'[v])
  <2>1. CASE v = w
    BY <1>2, <2>1
  <2>2. CASE v # w
    BY <1>2, <2>2 DEF ListInv, JobsInv
  <2> QED BY <2>1, <2>2
<1>3. JobsInv'
  BY <1>2, Zenon DEF JobsInv, RecoveryJob, RebalanceJob
<1> QED BY <1>1, <1>3 DEF ListInv

LEMMA RecoverFragmentLists ==
  ASSUME TypeInv, ListInv, NEW k \in Keys, NEW f \in Frags, RecoverFragment(k, f)
  PROVE  ListInv'
<1> DEFINE live == wlive[Recovery]
<1>0. Recovery \in Workers /\ live \subseteq Nodes /\ ReplicationFactor \in Nat
  BY SizesAssumption DEF Workers, TypeInv, TypeOK
<1>1. PICK current \in ReadLists(Recovery, k, f) :
        \/ Recover(k, f, FilterLive(current, live))
        \/ Skip(k, f, FilterLive(current, live))
  BY DEF RecoverFragment
<1> DEFINE replicas == FilterLive(current, live)
<1>2. replicas \in Seq(Nodes) /\ WellFormed(replicas, ReplicationFactor)
  <2>1. current \in Seq(Nodes) /\ WellFormed(current, ReplicationFactor)
    BY <1>0, <1>1, ReadListsWellFormed DEF RecoverFragment, IsNext, ListInv
  <2> QED BY <2>1, <1>0, FilterLiveWellFormed
<1> HIDE DEF replicas
<1>3. CASE Recover(k, f, replicas)
  <2> DEFINE candidates == Candidates(replicas, live)
             left == IF Needed(replicas) < Cardinality(candidates)
                     THEN Needed(replicas) ELSE Cardinality(candidates)
             job == [key |-> k, frag |-> f, list |-> replicas, source |-> replicas[1],
                     desired |-> << >>, targets |-> candidates, left |-> left,
                     target |-> NoNode, data |-> 0]
  <2>1. Begin(Recovery, k, f, replicas, replicas[1], << >>, candidates, left)
    BY <1>3 DEF Recover, live
  <2>2. Cardinality(candidates) \in Nat
    <3>1. candidates \subseteq Nodes
      BY <1>0 DEF Candidates
    <3> QED BY <3>1, NodesAssumption, FS_Subset, FS_CardinalityType
  <2>3. candidates \cap Range(replicas) = {}
    BY DEF Candidates
  <2>4. Len(replicas) + left <= ReplicationFactor
    <3>1. Len(replicas) \in Nat /\ Needed(replicas) = ReplicationFactor - Len(replicas)
      BY <1>2 DEF Needed
    <3> HIDE DEF candidates
    <3> QED BY <3>1, <2>2, <1>0
  <2> HIDE DEF candidates, left
  <2>5. RecoveryJob(job)
    BY <1>2, <2>3, <2>4 DEF RecoveryJob, WellFormed
  <2>6. wpc' = [wpc EXCEPT ![Recovery] = "copy"] /\ wjob' = [wjob EXCEPT ![Recovery] = job]
        /\ UNCHANGED <<keys, put, wheld, wtodo>>
    BY <2>1 DEF Begin, catalogVars, clientVars
  <2> HIDE DEF job
  <2>7. wjob'[Recovery] = job /\ \A v \in Workers \ {Recovery} : wpc'[v] = wpc[v] /\ wjob'[v] = wjob[v]
    BY <2>6, <1>0 DEF TypeInv, TypeOK
  <2> QED BY <1>0, <2>5, <2>6, <2>7, OneJobChanges
<1>4. CASE Skip(k, f, replicas)
  <2>1. UNCHANGED <<keys, put, wheld, wpc, wjob>> /\ \A w \in Workers : wtodo'[w] \subseteq wtodo[w]
    BY <1>4 DEF Skip, TypeInv, TypeOK, catalogVars, clientVars
  <2>2. HeldLists'
    BY <2>1 DEF HeldLists, ListInv
  <2> QED BY <2>1, <2>2 DEF ListInv, ReplicaListsWellFormed, Present, PlanLists,
                            JobsInv, RecoveryJob, RebalanceJob
<1> QED BY <1>1, <1>3, <1>4 DEF replicas

LEMMA RebalanceFragmentLists ==
  ASSUME TypeInv, ListInv, NEW r \in Rebalances, NEW k \in Keys, NEW f \in Frags,
         RebalanceFragment(r, k, f)
  PROVE  ListInv'
<1>0. r \in Workers /\ r # Recovery
  BY DEF Workers, Rebalances, Recovery
<1>1. PICK current \in ReadLists(r, k, f), desired \in Placements(k, f, wlive[r]) :
        LET sources == FilterLive(current, Up)
            missing == (Range(desired) \ Range(current)) \cap Up
            targets == IF sources = << >> THEN {} ELSE missing
        IN  Begin(r, k, f, current,
                  IF sources = << >> THEN NoNode ELSE sources[1],
                  desired, targets, Cardinality(targets))
  BY DEF RebalanceFragment
<1>2. WellFormed(desired, ReplicationFactor)
  BY <1>1, PlacementsWellFormed
<1>3. /\ wjob'[r].desired = desired
      /\ UNCHANGED <<keys, put, wheld, wtodo>>
      /\ \A v \in Workers \ {r} : wpc'[v] = wpc[v] /\ wjob'[v] = wjob[v]
  BY <1>0, <1>1 DEF Begin, TypeInv, TypeOK, catalogVars, clientVars
<1>4. RebalanceJob(wjob'[r])
  BY <1>2, <1>3 DEF RebalanceJob
<1> QED BY <1>0, <1>3, <1>4, OneJobChanges

(* A copy of recovery goes to a node that is not in the list, and adds it  *)
(* once.                                                                   *)
LEMMA CopyLists ==
  ASSUME TypeInv, ListInv, NEW w \in Workers, CopyStep(w)
  PROVE  ListInv'
<1> DEFINE job == wjob[w]
<1>0. /\ UNCHANGED <<keys, put, wheld, wtodo>>
      /\ \A v \in Workers \ {w} : wpc'[v] = wpc[v] /\ wjob'[v] = wjob[v]
  BY DEF CopyStep, CopyFetch, CopyError, CopyStore, CopyLost, CopyBroken,
         catalogVars, clientVars, TypeInv, TypeOK
<1>1. /\ job \in Job /\ Len(job.list) \in Nat /\ job.left \in Nat /\ ReplicationFactor \in Nat
      /\ w = Recovery => RecoveryJob(job)
      /\ w # Recovery => RebalanceJob(job)
      /\ wjob \in [Workers -> Job \cup {NoJob}]
  <2>1. wpc[w] \in {"copy", "store"}
    BY DEF CopyStep, CopyFetch, CopyError, CopyStore, CopyLost, CopyBroken
  <2>2. job \in Job
    BY <2>1 DEF TypeInv, WorkersBusy
  <2>3. wjob \in [Workers -> Job \cup {NoJob}]
    BY DEF TypeInv, TypeOK
  <2> QED BY <2>1, <2>2, <2>3, SizesAssumption DEF ListInv, JobsInv, Job
<1>2. CASE w # Recovery
  <2>1. wjob'[w].desired = job.desired
    <3>0. \A t : Tried(w, t).desired = job.desired /\ DOMAIN Tried(w, t) = DOMAIN job
      BY <1>1 DEF Tried, Job
    <3>1. ASSUME NEW t \in Nodes, CopyFetch(w, t) \/ CopyError(w, t)
          PROVE  wjob'[w].desired = job.desired
      <4>1. CASE CopyFetch(w, t)
        BY <1>1, <3>0, <4>1 DEF CopyFetch
      <4>2. CASE CopyError(w, t)
        BY <1>1, <3>0, <4>2 DEF CopyError
      <4> QED BY <3>1, <4>1, <4>2
    <3>2. CopyStore(w) \/ CopyLost(w) \/ CopyBroken(w) => wjob'[w].desired = job.desired
      BY <1>1 DEF CopyStore, CopyLost, CopyBroken, Job
    <3> QED BY <3>1, <3>2 DEF CopyStep
  <2>2. RebalanceJob(wjob'[w])
    BY <1>1, <1>2, <2>1 DEF RebalanceJob
  <2> QED BY <1>0, <1>2, <2>2, OneJobChanges
<1>3. CASE w = Recovery
  <2>0. RecoveryJob(job)
    BY <1>1, <1>3
  <2>1. ASSUME NEW t \in Nodes, CopyFetch(w, t) PROVE RecoveryJob(wjob'[w])
    <3>1. t \in job.targets /\ t # NoNode /\ job.left > 0
      BY <1>3, <2>1, NodesAssumption DEF CopyFetch, NextTargets
    <3>2. /\ wjob'[w].list = job.list /\ wjob'[w].targets = job.targets \ {t}
          /\ wjob'[w].left = job.left - 1 /\ wjob'[w].target = t
      BY <1>1, <2>1 DEF CopyFetch, Tried, Job
    <3> HIDE DEF job
    <3> QED BY <1>1, <2>0, <3>1, <3>2 DEF RecoveryJob
  <2>2. ASSUME NEW t \in Nodes, CopyError(w, t) PROVE RecoveryJob(wjob'[w])
    <3>1. /\ wjob'[w].list = job.list /\ wjob'[w].targets = job.targets \ {t}
          /\ wjob'[w].left = job.left - 1 /\ wjob'[w].target = job.target
      BY <1>1, <2>2 DEF CopyError, Tried, Job
    <3> HIDE DEF job
    <3> QED BY <1>1, <2>0, <3>1 DEF RecoveryJob
  <2>3. ASSUME CopyStore(w) PROVE RecoveryJob(wjob'[w])
    <3> DEFINE longer == Append(job.list, job.target)
    <3>1. job.target \in Nodes /\ job.target # NoNode /\ job.list \in Seq(Nodes)
      BY <1>1, <2>3 DEF CopyStore, Job
    <3>2. /\ wjob'[w].list = longer /\ wjob'[w].targets = job.targets
          /\ wjob'[w].left = job.left /\ wjob'[w].target = NoNode
      BY <1>1, <2>3 DEF CopyStore, Job
    <3>3. /\ IsInjective(job.list) /\ job.target \notin Range(job.list) \cup job.targets
          /\ job.targets \cap Range(job.list) = {}
          /\ Len(job.list) + 1 + job.left <= ReplicationFactor
      BY <2>0, <3>1 DEF RecoveryJob
    <3>4. /\ Len(longer) = Len(job.list) + 1
          /\ IsInjective(longer)
          /\ Range(longer) = Range(job.list) \cup {job.target}
      BY <3>1, <3>3, AppendWellFormed
    <3> HIDE DEF job, longer
    <3> QED BY <1>1, <3>2, <3>3, <3>4 DEF RecoveryJob
  <2>4. ASSUME CopyLost(w) PROVE RecoveryJob(wjob'[w])
    <3>1. /\ wjob'[w].list = job.list /\ wjob'[w].targets = job.targets
          /\ wjob'[w].left = job.left /\ wjob'[w].target = NoNode /\ job.target # NoNode
      BY <1>1, <2>4 DEF CopyLost, Job
    <3> HIDE DEF job
    <3> QED BY <1>1, <2>0, <3>1 DEF RecoveryJob
  <2>5. ASSUME CopyBroken(w) PROVE RecoveryJob(wjob'[w])
    <3>1. /\ wjob'[w].list = job.list /\ wjob'[w].targets = job.targets
          /\ wjob'[w].left = job.left /\ wjob'[w].target = job.target
      BY <1>1, <2>5 DEF CopyBroken, Job
    <3> HIDE DEF job
    <3> QED BY <1>1, <2>0, <3>1 DEF RecoveryJob
  <2>6. RecoveryJob(wjob'[w])
    BY <2>1, <2>2, <2>3, <2>4, <2>5 DEF CopyStep
  <2> QED BY <1>0, <1>3, <2>6, OneJobChanges
<1> QED BY <1>2, <1>3

(* A fragment is done; whatever list was written is well formed.           *)
LEMMA UpdateLists ==
  ASSUME TypeInv, ListInv, NEW w \in Workers, UpdateFragmentNodes(w)
  PROVE  ListInv'
<1> DEFINE k == wjob[w].key  f == wjob[w].frag  new == NewList(w)
<1>0. wjob[w] \in Job /\ wpc[w] = "copy"
  BY DEF UpdateFragmentNodes, TypeInv, WorkersBusy
<1>1. new \in Seq(Nodes) /\ WellFormed(new, ReplicationFactor) /\ k \in Keys /\ f \in Frags
  BY <1>0, NewListWellFormed DEF ListInv, Job
<1>2. /\ keys' = Catalog!UpdateFragment(keys, k, f, new)
      /\ SeeUpdate(k, f, new) /\ FragmentDone(w, k, f) /\ put' = put
  BY DEF UpdateFragmentNodes, clientVars
<1> HIDE DEF k, f, new
<1>3. ReplicaListsWellFormed'
  <2>1. CASE keys[k] = Absent
    BY <1>2, <2>1 DEF Catalog!UpdateFragment, ListInv, ReplicaListsWellFormed, Present
  <2>2. CASE keys[k] # Absent
    <3>1. keys[k] \in Entry /\ keys[k].ids \in [Frags -> Seq(Nodes)] /\ keys \in KeysType
      BY <1>1, <2>2 DEF TypeInv, TypeOK, Entry, Lists, KeysType
    <3>2. /\ \A j \in Keys \ {k} : keys'[j] = keys[j]
          /\ keys'[k].ids = [keys[k].ids EXCEPT ![f] = new]
      BY <1>1, <1>2, <2>2, <3>1 DEF Catalog!UpdateFragment, Entry, KeysType
    <3>3. \A g \in Frags : WellFormed(keys'[k].ids[g], ReplicationFactor)
      BY <1>1, <2>2, <3>1, <3>2 DEF ListInv, ReplicaListsWellFormed, Present
    <3> QED BY <3>2, <3>3 DEF ListInv, ReplicaListsWellFormed, Present
  <2> QED BY <2>1, <2>2
<1>4. HeldLists'
  <2> SUFFICES ASSUME NEW v \in Workers, NEW j \in Keys, NEW g \in Frags, <<j, g>> \in wtodo[v]
               PROVE  WellFormed(wheld'[v][j].ids[g], ReplicationFactor)
    <3>1. \A v \in Workers : wtodo'[v] \subseteq wtodo[v]
      BY <1>2 DEF FragmentDone, TypeInv, TypeOK
    <3>2. \A v \in Workers : wtodo[v] \subseteq Keys \X Frags
      BY DEF TypeInv, TypeOK, Fragments
    <3> QED BY <3>1, <3>2 DEF HeldLists
  <2>1. wheld[v][j] \in Copy /\ WellFormed(wheld[v][j].ids[g], ReplicationFactor)
    BY DEF TypeInv, WorkersBusy, ListInv, HeldLists
  <2>2. wheld'[v] = IF Shares(wheld[v][k], keys[k])
                    THEN [wheld[v] EXCEPT ![k].ids[f] = new] ELSE wheld[v]
    BY <1>2 DEF SeeUpdate
  <2>3. wheld[v] \in [Keys -> Copy \cup {Absent}]
    BY DEF TypeInv, TypeOK
  <2>4. CASE j = k /\ Shares(wheld[v][k], keys[k])
    <3>1. wheld'[v][j].ids = [wheld[v][j].ids EXCEPT ![f] = new]
      BY <1>1, <2>1, <2>2, <2>3, <2>4 DEF Copy
    <3>2. wheld[v][j].ids \in [Frags -> Seq(Nodes)]
      BY <2>1 DEF Copy, Lists
    <3> QED BY <1>1, <2>1, <3>1, <3>2
  <2>5. CASE ~ (j = k /\ Shares(wheld[v][k], keys[k]))
    <3>1. wheld'[v][j] = wheld[v][j]
      BY <1>1, <2>2, <2>3, <2>5
    <3> QED BY <2>1, <3>1
  <2> QED BY <2>4, <2>5
<1>5. JobsInv'
  <2>1. \A v \in Workers : wpc'[v] \in {"copy", "store"} => wpc'[v] = wpc[v] /\ wjob'[v] = wjob[v]
    BY <1>2 DEF FragmentDone, TypeInv, TypeOK
  <2> QED BY <2>1 DEF ListInv, JobsInv, RecoveryJob, RebalanceJob
<1>6. PlanLists'
  BY <1>2 DEF ListInv, PlanLists
<1> QED BY <1>3, <1>4, <1>5, <1>6 DEF ListInv

LEMMA WorkerLists ==
  ASSUME TypeInv, ListInv, NEW w \in Workers, WorkerStep(w)
  PROVE  ListInv'
<1>1. CASE ReadEntries(w)
  <2>1. /\ UNCHANGED <<keys, put>> /\ wjob' = wjob
        /\ \A v \in Workers : wpc'[v] \in {"copy", "store"} => wpc'[v] = wpc[v]
    BY <1>1 DEF ReadEntries, catalogVars, clientVars, TypeInv, TypeOK
  <2>2. ReplicaListsWellFormed' /\ PlanLists' /\ JobsInv'
    BY <2>1 DEF ListInv, ReplicaListsWellFormed, Present, PlanLists,
                JobsInv, RecoveryJob, RebalanceJob
  <2>3. ASSUME NEW v \in Workers, NEW kf \in wtodo'[v]
        PROVE  WellFormed(wheld'[v][kf[1]].ids[kf[2]], ReplicationFactor)
    <3>1. CASE v = w
      <4>1. kf \in Fragments /\ keys[kf[1]] # Absent
        BY <1>1, <2>3, <3>1 DEF ReadEntries, TypeInv, TypeOK
      <4>2. kf[1] \in Keys /\ kf[2] \in Frags
        BY <4>1 DEF Fragments
      <4>3. wheld'[v][kf[1]].ids = keys[kf[1]].ids
        BY <1>1, <3>1, <4>1, <4>2 DEF ReadEntries, TypeInv, TypeOK
      <4> QED BY <4>1, <4>2, <4>3 DEF ListInv, ReplicaListsWellFormed, Present
    <3>2. CASE v # w
      BY <1>1, <2>3, <3>2 DEF ReadEntries, TypeInv, TypeOK, ListInv, HeldLists
    <3> QED BY <3>1, <3>2
  <2>4. HeldLists'
    BY <2>3 DEF HeldLists
  <2> QED BY <2>2, <2>4 DEF ListInv
<1>2. CASE ScanDone(w)
  <2>1. /\ UNCHANGED <<keys, put, wtodo, wjob>> /\ wtodo[w] = {}
        /\ \A v \in Workers \ {w} : wheld'[v] = wheld[v]
        /\ \A v \in Workers : wpc'[v] \in {"copy", "store"} => wpc'[v] = wpc[v]
    BY <1>2 DEF ScanDone, catalogVars, clientVars, TypeInv, TypeOK
  <2>2. HeldLists'
    BY <2>1 DEF ListInv, HeldLists
  <2> QED BY <2>1, <2>2 DEF ListInv, ReplicaListsWellFormed, Present, PlanLists,
                            JobsInv, RecoveryJob, RebalanceJob
<1>3. CASE CopyStep(w)
  BY <1>3, CopyLists
<1>4. CASE UpdateFragmentNodes(w)
  BY <1>4, UpdateLists
<1>5. CASE UpdateLost(w)
  <2>1. /\ UNCHANGED <<keys, put, wheld>> /\ \A v \in Workers : wtodo'[v] \subseteq wtodo[v]
        /\ \A v \in Workers : wpc'[v] \in {"copy", "store"} => wpc'[v] = wpc[v] /\ wjob'[v] = wjob[v]
    BY <1>5 DEF UpdateLost, FragmentDone, catalogVars, clientVars, TypeInv, TypeOK
  <2>2. HeldLists'
    BY <2>1 DEF ListInv, HeldLists
  <2> QED BY <2>1, <2>2 DEF ListInv, ReplicaListsWellFormed, Present, PlanLists,
                            JobsInv, RecoveryJob, RebalanceJob
<1> QED BY <1>1, <1>2, <1>3, <1>4, <1>5 DEF WorkerStep

LEMMA InitLists == Init => ListInv
<1> SUFFICES ASSUME Init PROVE ListInv
  OBVIOUS
<1>1. WellFormed(<< >>, ReplicationFactor)
  BY SizesAssumption DEF WellFormed, IsInjective
<1>2. PlanLists
  BY <1>1 DEF Init, PlanLists, NoPlan
<1> QED BY <1>2 DEF Init, ListInv, ReplicaListsWellFormed, Present, HeldLists, JobsInv

LEMMA NextLists == TypeInv /\ ListInv /\ [Next]_vars => ListInv'
<1> SUFFICES ASSUME TypeInv, ListInv, [Next]_vars PROVE ListInv'
  OBVIOUS
<1>0. Recovery \in Workers /\ \A r \in Rebalances : r \in Workers
  BY DEF Workers
<1>1. ASSUME NEW p \in Puts, ClientStep(p) PROVE ListInv'
  BY <1>1, ClientLists
<1>2. ASSUME NEW k \in Keys, Delete(k) PROVE ListInv'
  BY <1>2, DeleteLists
<1>3. ASSUME NEW n \in Nodes, MemberStep(n) PROVE ListInv'
  BY <1>3, MemberLists
<1>4. ASSUME RecoveryTick \/ \E r \in Rebalances : RebalanceStart(r) PROVE ListInv'
  <2>1. /\ UNCHANGED <<keys, put, wheld, wtodo, wjob>>
        /\ \A v \in Workers : wpc'[v] \in {"copy", "store"} => wpc'[v] = wpc[v]
    BY <1>4 DEF RecoveryTick, RebalanceStart, catalogVars, clientVars, TypeInv, TypeOK
  <2> QED BY <2>1 DEF ListInv, ReplicaListsWellFormed, Present, PlanLists, HeldLists,
                      JobsInv, RecoveryJob, RebalanceJob
<1>5. ASSUME NEW k \in Keys, NEW f \in Frags, RecoverFragment(k, f) PROVE ListInv'
  BY <1>5, RecoverFragmentLists
<1>6. ASSUME NEW r \in Rebalances, NEW k \in Keys, NEW f \in Frags, RebalanceFragment(r, k, f)
      PROVE  ListInv'
  BY <1>6, RebalanceFragmentLists
<1>7. ASSUME NEW w \in Workers, WorkerStep(w) PROVE ListInv'
  BY <1>7, WorkerLists
<1>8. CASE UNCHANGED vars
  BY <1>8 DEF vars, catalogVars, clientVars, workerVars, ListInv, ReplicaListsWellFormed, Present,
              PlanLists, HeldLists, JobsInv, RecoveryJob, RebalanceJob
<1> QED BY <1>0, <1>1, <1>2, <1>3, <1>4, <1>5, <1>6, <1>7, <1>8
        DEF Next, RecoveryStep, RebalanceStep

(* No interleaving of recovery, any number of rebalances and any number of *)
(* clients makes the catalogue list a node twice for a fragment or more    *)
(* nodes than the replication factor, torn reads and stale updates         *)
(* included.                                                               *)
THEOREM ReplicaListsStayWellFormed == Spec => []ReplicaListsWellFormed
<1>1. Init => ListInv
  BY InitLists
<1>2. TypeInv /\ ListInv /\ [Next]_vars => ListInv'
  BY NextLists
<1>3. ListInv => ReplicaListsWellFormed
  BY DEF ListInv
<1> QED BY <1>1, <1>2, <1>3, TypesAndJobs, PTL DEF Spec

(***************************************************************************)
(* Deleted keys stay deleted                                               *)
(***************************************************************************)
LEMMA NothingCreated ==
  ASSUME NEW k \in Keys, NEW f \in Frags, NEW ids, keys \in KeysType,
         keys' \in {keys, Catalog!CommitKey(keys, k), Catalog!DeleteKey(keys, k),
                    Catalog!UpdateFragment(keys, k, f, ids)}
  PROVE  CreatedByPut
<1>1. \A j \in Keys : keys[j] = Absent => keys'[j] = Absent
  BY DEF Catalog!CommitKey, Catalog!DeleteKey, Catalog!UpdateFragment, KeysType
<1> QED BY <1>1 DEF CreatedByPut, Present

LEMMA StepCreates ==
  ASSUME TypeInv, [Next]_vars
  PROVE  [CreatedByPut]_vars
<1>0. keys \in KeysType /\ Recovery \in Workers /\ \A r \in Rebalances : r \in Workers
  BY DEF Workers, TypeInv, TypeOK, KeysType
<1>1. CASE keys' = keys
  BY <1>1 DEF CreatedByPut, Present
<1>2. ASSUME NEW p \in Puts, Plan(p) \/ PlanError(p) PROVE CreatedByPut
  <2>1. put[p].pc = "planned" /\ put'[p].pc # "planned"
    BY <1>2 DEF Plan, PlanError, TypeInv, TypeOK, PutState
  <2>2. \A j \in Keys : j # put[p].key => keys'[j] = keys[j]
    BY <1>0, <1>2 DEF Plan, PlanError, Catalog!PutKey, KeysType
  <2> QED BY <2>1, <2>2 DEF CreatedByPut, Present
<1>3. ASSUME NEW p \in Puts, Commit(p) \/ CommitError(p) PROVE CreatedByPut
  <2>1. put[p].key \in Keys /\ 1 \in Frags
    BY SizesAssumption DEF TypeInv, TypeOK, PutState, Frags
  <2>2. keys' \in {keys, Catalog!CommitKey(keys, put[p].key)}
    BY <1>3 DEF Commit, CommitError
  <2> QED BY <1>0, <2>1, <2>2, NothingCreated
<1>4. ASSUME NEW k \in Keys, Delete(k) PROVE CreatedByPut
  <2>1. 1 \in Frags
    BY SizesAssumption DEF Frags
  <2> QED BY <1>0, <1>4, <2>1, NothingCreated DEF Delete
<1>5. ASSUME NEW w \in Workers, UpdateFragmentNodes(w) PROVE CreatedByPut
  <2>1. wjob[w].key \in Keys /\ wjob[w].frag \in Frags
    BY <1>5 DEF UpdateFragmentNodes, TypeInv, WorkersBusy, Job
  <2> QED BY <1>0, <1>5, <2>1, NothingCreated DEF UpdateFragmentNodes
<1>6. ASSUME NEW p \in Puts, ClientStep(p)
      PROVE  keys' = keys \/ Plan(p) \/ PlanError(p) \/ Commit(p) \/ CommitError(p)
  BY <1>6 DEF ClientStep, Prepare, StorePrimary, StoreError, PrimaryError, Answer,
              AnswerLost, SendReplica, SendError,
              SendLost, Abort, catalogVars
<1>7. ASSUME NEW n \in Nodes, MemberStep(n) PROVE keys' = keys
  BY <1>7 DEF MemberStep, Crash, Start, RegisterError, Register, CutFile, Heartbeat,
              MarkNodeDown, FalseAlarm, catalogVars
<1>8. ASSUME NEW w \in Workers, WorkerStep(w) PROVE keys' = keys \/ UpdateFragmentNodes(w)
  BY <1>8 DEF WorkerStep, ReadEntries, ScanDone, CopyStep, CopyFetch, CopyError, CopyStore,
              CopyLost, CopyBroken, UpdateLost, catalogVars
<1>9. ASSUME RecoveryTick \/ \E k \in Keys, f \in Frags : RecoverFragment(k, f)
      PROVE  keys' = keys
  BY <1>9 DEF RecoveryTick, RecoverFragment, Recover, Skip, Begin, catalogVars
<1>10. ASSUME NEW r \in Rebalances,
              RebalanceStart(r) \/ \E k \in Keys, f \in Frags : RebalanceFragment(r, k, f)
       PROVE  keys' = keys
  BY <1>10 DEF RebalanceStart, RebalanceFragment, Begin, catalogVars
<1>11. CASE UNCHANGED vars
  BY <1>11
<1> QED BY <1>0, <1>1, <1>2, <1>3, <1>4, <1>5, <1>6, <1>7, <1>8, <1>9, <1>10, <1>11
        DEF Next, RecoveryStep, RebalanceStep

(* A deleted key comes back only with a new put: neither a late commit nor *)
(* the update of a worker that still holds a copy of it restores it.       *)
THEOREM DeletedStaysDeleted == Spec => OnlyPutsCreate
<1>1. TypeInv /\ [Next]_vars => [CreatedByPut]_vars
  BY StepCreates
<1> QED BY <1>1, TypesAndJobs, PTL DEF Spec, OnlyPutsCreate
=============================================================================
