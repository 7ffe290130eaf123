------------------------ MODULE ClusterReplicasProofs ------------------------
(***************************************************************************)
(* Proof that repairs add to a replica list only nodes that have stored    *)
(* the fragment, for any number of keys, puts, rebalances and faults.      *)
(***************************************************************************)
EXTENDS ClusterProofs

(* Node n has had a copy of the fragment, or was chosen for one.           *)
Reached(n, k, f) ==
  \/ disk[n][<<k, f>>] # 0
  \/ \E p \in Puts : put[p].key = k /\ n \in Range(put[p].plan[f])

Backed(ids, k, f) == \A n \in Range(ids) : Reached(n, k, f)

(***************************************************************************)
(* The inductive invariant: every list there is is backed, the catalogue's,*)
(* the copies of it that workers will look at, and the lists they gather.  *)
(***************************************************************************)

CatalogueBacked ==
  \A k \in Keys, f \in Frags : Present(k) => Backed(keys[k].ids[f], k, f)

HeldBacked ==
  \A w \in Workers, k \in Keys, f \in Frags :
    <<k, f>> \in wtodo[w] => Backed(wheld[w][k].ids[f], k, f)

JobsBacked ==
  \A w \in Workers, k \in Keys, f \in Frags :
    wpc[w] \in {"copy", "store"} /\ wjob[w].key = k /\ wjob[w].frag = f =>
      Backed(wjob[w].list, k, f)

(* What a copy is about to store is a fragment.                            *)
CopiesWhole ==
  \A w \in Workers : wpc[w] = "store" /\ wjob[w].target # NoNode => wjob[w].data # 0

(* A put that has not begun has no plan that Prepare could take back.      *)
NewUnplanned == \A p \in Puts : put[p].pc = "new" => put[p].plan = NoPlan

BackedInv == CatalogueBacked /\ HeldBacked /\ JobsBacked /\ CopiesWhole /\ NewUnplanned

(***************************************************************************)
(* Who has been reached stays so                                           *)
(***************************************************************************)
ReachedKept ==
  \A n \in Nodes, k \in Keys, f \in Frags : Reached(n, k, f) => Reached(n, k, f)'

(* No step empties a node's file of a fragment, or takes a plan back.      *)
DisksGrow ==
  \A n \in Nodes, k \in Keys, f \in Frags :
    disk[n][<<k, f>>] # 0 => disk'[n][<<k, f>>] # 0

PlansGrow ==
  \A p \in Puts, f \in Frags :
    put'[p].key = put[p].key /\ Range(put[p].plan[f]) \subseteq Range(put'[p].plan[f])

(* A store leaves bytes, whole or torn (storage.Put).                      *)
LEMMA StoredGrows ==
  ASSUME TypeInv, NEW n \in Nodes, NEW k \in Keys, NEW f \in Frags, NEW d, d # 0,
         disk' \in {disk, Stored(n, k, f, d), Stored(n, k, f, Torn)}
  PROVE  DisksGrow
<1>1. disk \in Disks /\ Torn # 0
  BY DEF TypeInv, TypeOK, Torn
<1>2. ASSUME NEW e, e # 0, disk' = Stored(n, k, f, e) PROVE DisksGrow
  <2>1. disk' = [disk EXCEPT ![n] = [disk[n] EXCEPT ![<<k, f>>] = e]]
    BY <1>2 DEF Stored
  <2> QED BY <1>1, <1>2, <2>1 DEF DisksGrow, Disks, Fragments
<1>3. CASE disk' = disk
  BY <1>3 DEF DisksGrow
<1> QED BY <1>1, <1>2, <1>3

(* A client's uploads write to disks, and only a new put gets a plan.      *)
LEMMA ClientGrows ==
  ASSUME TypeInv, BackedInv, NEW p \in Puts, ClientStep(p)
  PROVE  DisksGrow /\ PlansGrow
<1>0. /\ put[p] \in PutState /\ put[p].key \in Keys /\ p \in Nat /\ p # 0
      /\ \A q \in Puts : put[q] \in PutState /\ put[q].plan \in Lists
      /\ put \in [Puts -> PutState]
  BY DEF TypeInv, TypeOK, PutState, Puts
<1>1. CASE UNCHANGED <<disk, put>>
  BY <1>1 DEF DisksGrow, PlansGrow
<1>2. CASE Prepare(p)
  <2>1. /\ disk' = disk /\ put[p].pc = "new"
        /\ \E plan : put' = [put EXCEPT ![p].pc = "planned", ![p].plan = plan]
    BY <1>2 DEF Prepare, storageVars
  <2>2. \A q \in Puts : put'[q].key = put[q].key /\ (q # p => put'[q].plan = put[q].plan)
    BY <1>0, <2>1 DEF PutState
  <2>3. \A f \in Frags : Range(put[p].plan[f]) = {}
    <3>1. put[p].plan = NoPlan
      BY <2>1 DEF BackedInv, NewUnplanned
    <3> QED BY <3>1 DEF NoPlan, Range
  <2> QED BY <2>1, <2>2, <2>3 DEF DisksGrow, PlansGrow
<1>3. CASE Plan(p) \/ PlanError(p) \/ Abort(p) \/ Commit(p) \/ CommitError(p)
  <2>1. disk' = disk /\ \E pc : put' = [put EXCEPT ![p].pc = pc]
    BY <1>3 DEF Plan, PlanError, Abort, Commit, CommitError, storageVars
  <2>2. \A q \in Puts : put'[q].key = put[q].key /\ put'[q].plan = put[q].plan
    BY <1>0, <2>1 DEF PutState
  <2> QED BY <2>1, <2>2 DEF DisksGrow, PlansGrow
<1>4. ASSUME NEW f \in Frags,
             \/ StorePrimary(p, f) \/ StoreError(p, f)
             \/ \E n \in Nodes : SendReplica(p, f, n) \/ SendLost(p, f, n)
      PROVE  DisksGrow /\ PlansGrow
  <2>1. put' = put
    BY <1>4 DEF StorePrimary, StoreError, SendReplica, SendLost
  <2>2. CASE StorePrimary(p, f) \/ StoreError(p, f)
    <3>1. Primary(p, f) \in Nodes
      BY <2>2 DEF StorePrimary, StoreError, TypeInv, TypeOK
    <3>2. disk' \in {disk, Stored(Primary(p, f), put[p].key, f, p),
                     Stored(Primary(p, f), put[p].key, f, Torn)}
      BY <2>2 DEF StorePrimary, StoreError, NotStored
    <3>3. DisksGrow
      BY <1>0, <3>1, <3>2, StoredGrows
    <3> QED BY <2>1, <3>3 DEF PlansGrow
  <2>3. ASSUME NEW n \in Nodes, SendReplica(p, f, n) \/ SendLost(p, f, n)
        PROVE  DisksGrow /\ PlansGrow
    <3>1. disk' \in {disk, Stored(n, put[p].key, f, p), Stored(n, put[p].key, f, Torn)}
      BY <2>3 DEF SendReplica, SendLost, NotStored, StoredOrNot
    <3>2. DisksGrow
      BY <1>0, <3>1, StoredGrows
    <3> QED BY <2>1, <3>2 DEF PlansGrow
  <2> QED BY <1>4, <2>2, <2>3
<1>5. ASSUME NEW f \in Frags,
             \/ PrimaryError(p, f) \/ Answer(p, f) \/ AnswerLost(p, f)
             \/ \E n \in Nodes : SendError(p, f, n)
      PROVE  UNCHANGED <<disk, put>>
  BY <1>5 DEF PrimaryError, Answer, AnswerLost, SendError, storageVars
<1> QED BY <1>1, <1>2, <1>3, <1>4, <1>5 DEF ClientStep

(* A store cuts an older file, and nothing removes its index record.       *)
LEMMA MemberGrows ==
  ASSUME TypeInv, NEW n \in Nodes, MemberStep(n)
  PROVE  DisksGrow /\ PlansGrow
<1>1. put' = put
  BY DEF MemberStep, Crash, Start, RegisterError, Register, CutFile, Heartbeat, MarkNodeDown,
         FalseAlarm, clientVars
<1>2. ASSUME NEW k \in Keys, NEW f \in Frags, CutFile(n, k, f) PROVE DisksGrow /\ PlansGrow
  <2>1. disk' = Stored(n, k, f, Torn) /\ Torn # 0
    BY <1>2 DEF CutFile, Torn
  <2>2. DisksGrow
    BY <2>1, StoredGrows
  <2> QED BY <1>1, <2>2 DEF PlansGrow
<1>3. CASE disk' = disk
  BY <1>1, <1>3 DEF DisksGrow, PlansGrow
<1> QED BY <1>2, <1>3
        DEF MemberStep, Crash, Start, RegisterError, Register, Heartbeat, MarkNodeDown,
            FalseAlarm, storageVars

(* A repair copy stores what it has fetched.                               *)
LEMMA CopyGrows ==
  ASSUME TypeInv, BackedInv, NEW w \in Workers, CopyStep(w)
  PROVE  DisksGrow /\ PlansGrow
<1>1. put' = put
  BY DEF CopyStep, CopyFetch, CopyError, CopyStore, CopyLost, CopyBroken, clientVars
<1>2. CASE CopyStore(w) \/ CopyLost(w)
  <2>1. wpc[w] = "store" /\ wjob[w].target # NoNode
    BY <1>2 DEF CopyStore, CopyLost
  <2>2. wjob[w] \in Job /\ wjob[w].data # 0
    BY <2>1 DEF TypeInv, WorkersBusy, BackedInv, CopiesWhole
  <2>3. wjob[w].target \in Nodes /\ wjob[w].key \in Keys /\ wjob[w].frag \in Frags
    BY <2>1, <2>2 DEF Job
  <2>4. disk' \in {disk, Stored(wjob[w].target, wjob[w].key, wjob[w].frag, wjob[w].data),
                   Stored(wjob[w].target, wjob[w].key, wjob[w].frag, Torn)}
    BY <1>2 DEF CopyStore, CopyLost, NotStored, StoredOrNot
  <2>5. DisksGrow
    BY <2>2, <2>3, <2>4, StoredGrows
  <2> QED BY <1>1, <2>5 DEF PlansGrow
<1>3. CASE disk' = disk
  BY <1>1, <1>3 DEF DisksGrow, PlansGrow
<1>4. ASSUME CopyBroken(w) \/ \E t \in Nodes : CopyFetch(w, t) \/ CopyError(w, t)
      PROVE  disk' = disk
  BY <1>4 DEF CopyFetch, CopyError, CopyBroken, storageVars
<1> QED BY <1>2, <1>3, <1>4 DEF CopyStep

(* Whatever happens, no file and no plan is taken back.                    *)
LEMMA NothingLost ==
  ASSUME TypeInv, BackedInv, [Next]_vars
  PROVE  DisksGrow /\ PlansGrow
<1>1. CASE UNCHANGED <<disk, put>>
  BY <1>1 DEF DisksGrow, PlansGrow
<1>2. ASSUME NEW k \in Keys, Delete(k) PROVE UNCHANGED <<disk, put>>
  BY <1>2 DEF Delete, storageVars, clientVars
<1>3. ASSUME NEW w \in Workers, WorkerStep(w) PROVE UNCHANGED <<disk, put>> \/ CopyStep(w)
  BY <1>3 DEF WorkerStep, ReadEntries, ScanDone, UpdateFragmentNodes, UpdateLost,
              storageVars, clientVars
<1>4. ASSUME RecoveryTick \/ \E k \in Keys, f \in Frags : RecoverFragment(k, f)
      PROVE  UNCHANGED <<disk, put>>
  BY <1>4 DEF RecoveryTick, RecoverFragment, Recover, Skip, Begin, storageVars, clientVars
<1>5. ASSUME NEW r \in Rebalances,
             RebalanceStart(r) \/ \E k \in Keys, f \in Frags : RebalanceFragment(r, k, f)
      PROVE  UNCHANGED <<disk, put>>
  BY <1>5 DEF RebalanceStart, RebalanceFragment, Begin, storageVars, clientVars
<1>6. CASE UNCHANGED vars
  BY <1>1, <1>6 DEF vars, storageVars, clientVars
<1>7. Recovery \in Workers /\ \A r \in Rebalances : r \in Workers
  BY DEF Workers
<1> QED BY <1>1, <1>2, <1>3, <1>4, <1>5, <1>6, <1>7, ClientGrows, MemberGrows, CopyGrows
        DEF Next, RecoveryStep, RebalanceStep

(* So a node that has been reached stays one.                              *)
LEMMA ReachedStays ==
  ASSUME TypeInv, BackedInv, [Next]_vars
  PROVE  ReachedKept
BY NothingLost DEF ReachedKept, Reached, DisksGrow, PlansGrow

(***************************************************************************)
(* Ranges of the lists a worker reads and writes                           *)
(***************************************************************************)
LEMMA TruncateRange ==
  ASSUME NEW S, NEW ids \in Seq(S), NEW n \in Nat
  PROVE  Range(Truncate(ids, n)) \subseteq Range(ids)
BY DEF Truncate, Range

LEMMA AppendRange ==
  ASSUME NEW S, NEW ids \in Seq(S), NEW x \in S
  PROVE  Range(Append(ids, x)) = Range(ids) \cup {x}
<1> DEFINE t == Append(ids, x)
<1>1. /\ DOMAIN t = 1..(Len(ids) + 1) /\ DOMAIN ids = 1..Len(ids) /\ Len(ids) \in Nat
      /\ \A i \in 1..Len(ids) : t[i] = ids[i]
      /\ t[Len(ids) + 1] = x
  OBVIOUS
<1> HIDE DEF t
<1>2. Range(t) = Range(ids) \cup {x}
  BY <1>1 DEF Range
<1> QED BY <1>2 DEF t

LEMMA NewListRange ==
  ASSUME NEW w \in Workers, wjob[w] \in Job
  PROVE  NewList(w) \in Seq(Nodes) /\ Range(NewList(w)) \subseteq Range(wjob[w].list)
<1>1. wjob[w].list \in Seq(Nodes) /\ wjob[w].desired \in Seq(Nodes)
  BY DEF Job
<1> QED BY <1>1, FilterLiveProperties DEF NewList

(* Torn or not, what a worker reads is backed.                             *)
LEMMA ReadListsBacked ==
  ASSUME TypeInv, BackedInv, NEW w \in Workers, NEW k \in Keys, NEW f \in Frags,
         <<k, f>> \in wtodo[w], NEW current \in ReadLists(w, k, f)
  PROVE  \A n \in Range(current) : Reached(n, k, f)
<1> DEFINE held == wheld[w][k].ids[f]
<1>1. held \in Seq(Nodes) /\ \A n \in Range(held) : Reached(n, k, f)
  BY DEF TypeInv, WorkersBusy, Copy, Lists, BackedInv, HeldBacked, Backed
<1>2. CASE current = held
  BY <1>1, <1>2
<1>3. CASE \E v \in Workers : Updating(v, k, f) /\ current \in TornReads(held, NewList(v))
  <2>1. PICK v \in Workers : Updating(v, k, f) /\ current \in TornReads(held, NewList(v))
    BY <1>3
  <2> DEFINE new == NewList(v)
  <2>2. wjob[v] \in Job
    BY <2>1 DEF Updating, TypeInv, WorkersBusy
  <2>3. \A n \in Range(wjob[v].list) : Reached(n, k, f)
    BY <2>1 DEF Updating, BackedInv, JobsBacked, Backed
  <2>4. new \in Seq(Nodes) /\ \A n \in Range(new) : Reached(n, k, f)
    BY <2>2, <2>3, NewListRange
  <2>5. current \in TornReads(held, new)
    BY <2>1
  <2> HIDE DEF held, new
  <2>6. Range(current) \subseteq Range(held) \cup Range(new)
    BY <1>1, <2>4, <2>5, TruncateRange, Len(held) \in Nat, Len(new) \in Nat DEF TornReads
  <2> QED BY <1>1, <2>4, <2>6
<1> QED BY <1>2, <1>3 DEF ReadLists

(***************************************************************************)
(* A list is backed after a step if every node in it was reached before    *)
(* the step or by it.                                                      *)
(***************************************************************************)
LEMMA CatalogueStep ==
  ASSUME TypeInv', ReachedKept,
         \A k \in Keys, f \in Frags : Present(k)' =>
           \A n \in Range(keys'[k].ids[f]) : Reached(n, k, f) \/ Reached(n, k, f)'
  PROVE  CatalogueBacked'
<1>1. ASSUME NEW k \in Keys, NEW f \in Frags, Present(k)'
      PROVE  Range(keys'[k].ids[f]) \subseteq Nodes
  <2>1. keys'[k].ids[f] \in Seq(Nodes)
    BY <1>1 DEF Present, TypeInv, TypeOK, Entry, Lists
  <2> QED BY <2>1 DEF Range
<1> QED BY <1>1 DEF CatalogueBacked, Backed, ReachedKept

LEMMA HeldStep ==
  ASSUME TypeInv', ReachedKept,
         \A w \in Workers, k \in Keys, f \in Frags : <<k, f>> \in wtodo'[w] =>
           \A n \in Range(wheld'[w][k].ids[f]) : Reached(n, k, f)
  PROVE  HeldBacked'
<1>1. ASSUME NEW w \in Workers, NEW k \in Keys, NEW f \in Frags, <<k, f>> \in wtodo'[w]
      PROVE  Range(wheld'[w][k].ids[f]) \subseteq Nodes
  <2>1. wheld'[w][k].ids[f] \in Seq(Nodes)
    BY <1>1 DEF TypeInv, WorkersBusy, Copy, Lists
  <2> QED BY <2>1 DEF Range
<1> QED BY <1>1 DEF HeldBacked, Backed, ReachedKept

LEMMA JobsStep ==
  ASSUME TypeInv', ReachedKept,
         \A w \in Workers, k \in Keys, f \in Frags :
           wpc'[w] \in {"copy", "store"} /\ wjob'[w].key = k /\ wjob'[w].frag = f =>
             \A n \in Range(wjob'[w].list) : Reached(n, k, f) \/ Reached(n, k, f)'
  PROVE  JobsBacked'
<1>1. ASSUME NEW w \in Workers, wpc'[w] \in {"copy", "store"}
      PROVE  Range(wjob'[w].list) \subseteq Nodes
  <2>1. wjob'[w].list \in Seq(Nodes)
    BY <1>1 DEF TypeInv, WorkersBusy, Job
  <2> QED BY <2>1 DEF Range
<1> QED BY <1>1 DEF JobsBacked, Backed, ReachedKept

(* Whatever a step leaves alone stays backed.                              *)
LEMMA CatalogueSame ==
  ASSUME TypeInv', BackedInv, ReachedKept, keys' = keys
  PROVE  CatalogueBacked'
BY CatalogueStep DEF Present, BackedInv, CatalogueBacked, Backed

LEMMA HeldSame ==
  ASSUME TypeInv', BackedInv, ReachedKept, wheld' = wheld,
         \A w \in Workers : wtodo'[w] \subseteq wtodo[w]
  PROVE  HeldBacked'
<1>1. \A w \in Workers, k \in Keys, f \in Frags : <<k, f>> \in wtodo'[w] =>
        \A n \in Range(wheld'[w][k].ids[f]) : Reached(n, k, f)
  BY DEF BackedInv, HeldBacked, Backed
<1> QED BY <1>1, HeldStep

(* A job that was there before, with its list.                             *)
SameJob(w) ==
  /\ wpc[w] \in {"copy", "store"}
  /\ wjob'[w].list = wjob[w].list
  /\ wjob'[w].key = wjob[w].key
  /\ wjob'[w].frag = wjob[w].frag

LEMMA JobsSame ==
  ASSUME TypeInv', BackedInv, ReachedKept,
         \A w \in Workers : wpc'[w] \in {"copy", "store"} => SameJob(w)
  PROVE  JobsBacked'
<1>1. \A w \in Workers, k \in Keys, f \in Frags :
        wpc'[w] \in {"copy", "store"} /\ wjob'[w].key = k /\ wjob'[w].frag = f =>
          \A n \in Range(wjob'[w].list) : Reached(n, k, f)
  BY DEF SameJob, BackedInv, JobsBacked, Backed
<1> QED BY <1>1, JobsStep

(* A step that leaves the clients alone plans nothing.                     *)
LEMMA PlansSame ==
  ASSUME BackedInv, put' = put
  PROVE  NewUnplanned'
BY DEF BackedInv, NewUnplanned

(***************************************************************************)
(* The steps, one actor after the other                                    *)
(***************************************************************************)

(* The catalogue's commands add to a list only what a put has planned.     *)
LEMMA ClientBacked ==
  ASSUME TypeInv, TypeInv', BackedInv, ReachedKept, NEW p \in Puts, ClientStep(p)
  PROVE  BackedInv'
<1>0. put[p] \in PutState /\ put[p].key \in Keys /\ keys \in KeysType /\ put \in [Puts -> PutState]
  BY DEF TypeInv, TypeOK, PutState, KeysType
<1>1. UNCHANGED <<wpc, wheld, wtodo, wjob>>
  BY DEF ClientStep, Prepare, Plan, PlanError, StorePrimary, StoreError, PrimaryError,
         Answer, AnswerLost, SendReplica, SendError, SendLost, Abort, Commit, CommitError, workerVars
<1>2. HeldBacked' /\ CopiesWhole'
  BY <1>1, HeldSame DEF BackedInv, CopiesWhole
<1>3. JobsBacked'
  BY <1>1, JobsSame DEF SameJob
<1>4. CASE Prepare(p)
  <2>1. keys' = keys /\ \E plan : put' = [put EXCEPT ![p].pc = "planned", ![p].plan = plan]
    BY <1>4 DEF Prepare, catalogVars
  <2>2. NewUnplanned'
    BY <1>0, <2>1 DEF PutState, BackedInv, NewUnplanned
  <2> QED BY <1>2, <1>3, <2>1, <2>2, CatalogueSame DEF BackedInv
<1>5. ASSUME NEW pc, pc # "new", put' = [put EXCEPT ![p].pc = pc] PROVE NewUnplanned'
  BY <1>0, <1>5 DEF PutState, BackedInv, NewUnplanned
<1>6. CASE Plan(p) \/ PlanError(p)
  <2>1. NewUnplanned'
    BY <1>5, <1>6 DEF Plan, PlanError
  <2>2. keys' = keys \/ keys' = Catalog!PutKey(keys, put[p].key, NewEntry(p))
    BY <1>6 DEF Plan, PlanError
  <2>3. \A f \in Frags : \A n \in Range(NewEntry(p).ids[f]) : Reached(n, put[p].key, f)
    BY DEF NewEntry, Reached
  <2>4. ASSUME NEW k \in Keys, NEW f \in Frags, Present(k)', NEW n \in Range(keys'[k].ids[f]),
               keys' = Catalog!PutKey(keys, put[p].key, NewEntry(p))
        PROVE  Reached(n, k, f)
    <3>1. keys'[k] = IF k = put[p].key THEN NewEntry(p) ELSE keys[k]
      BY <1>0, <2>4 DEF Catalog!PutKey, KeysType
    <3> HIDE DEF NewEntry
    <3> QED BY <2>3, <2>4, <3>1 DEF Present, BackedInv, CatalogueBacked, Backed
  <2>5. CatalogueBacked'
    BY <2>2, <2>4, CatalogueSame, CatalogueStep
  <2> QED BY <1>2, <1>3, <2>1, <2>5 DEF BackedInv
<1>7. CASE Commit(p) \/ CommitError(p)
  <2>1. NewUnplanned'
    BY <1>5, <1>7 DEF Commit, CommitError
  <2>2. keys' = keys \/ keys' = Catalog!CommitKey(keys, put[p].key)
    BY <1>7 DEF Commit, CommitError
  <2>3. \A k \in Keys : Present(k)' => Present(k) /\ keys'[k].ids = keys[k].ids
    <3>1. [keys[put[p].key] EXCEPT !.committed = TRUE].ids = keys[put[p].key].ids
          \/ keys[put[p].key] = Absent
      BY <1>0 DEF KeysType, Entry
    <3> QED BY <1>0, <2>2, <3>1 DEF Catalog!CommitKey, KeysType, Present
  <2>4. CatalogueBacked'
    BY <2>3, CatalogueStep DEF BackedInv, CatalogueBacked, Backed
  <2> QED BY <1>2, <1>3, <2>1, <2>4 DEF BackedInv
<1>8. CASE Abort(p)
  <2>1. keys' = keys /\ NewUnplanned'
    BY <1>5, <1>8 DEF Abort, catalogVars
  <2> QED BY <1>2, <1>3, <2>1, CatalogueSame DEF BackedInv
<1>9. CASE keys' = keys /\ put' = put
  BY <1>2, <1>3, <1>9, CatalogueSame, PlansSame DEF BackedInv
<1>10. ASSUME NEW f \in Frags,
             \/ StorePrimary(p, f) \/ StoreError(p, f) \/ PrimaryError(p, f)
             \/ Answer(p, f) \/ AnswerLost(p, f)
             \/ \E n \in Nodes : SendReplica(p, f, n) \/ SendError(p, f, n) \/ SendLost(p, f, n)
      PROVE  keys' = keys /\ put' = put
  BY <1>10 DEF StorePrimary, StoreError, PrimaryError, Answer, AnswerLost, SendReplica,
               SendError, SendLost, catalogVars
<1> QED BY <1>4, <1>6, <1>7, <1>8, <1>9, <1>10 DEF ClientStep

LEMMA DeleteBacked ==
  ASSUME TypeInv, TypeInv', BackedInv, ReachedKept, NEW k \in Keys, Delete(k)
  PROVE  BackedInv'
<1>1. UNCHANGED <<put, wpc, wheld, wtodo, wjob>>
  BY DEF Delete, clientVars, workerVars
<1>2. HeldBacked' /\ CopiesWhole' /\ NewUnplanned'
  BY <1>1, HeldSame, PlansSame DEF BackedInv, CopiesWhole
<1>3. JobsBacked'
  BY <1>1, JobsSame DEF SameJob
<1>4. \A j \in Keys : Present(j)' => Present(j) /\ keys'[j] = keys[j]
  BY DEF Delete, Catalog!DeleteKey, TypeInv, TypeOK, Present
<1>5. CatalogueBacked'
  BY <1>4, CatalogueStep DEF BackedInv, CatalogueBacked, Backed
<1> QED BY <1>2, <1>3, <1>5 DEF BackedInv

(* A crash breaks off copies and changes no list.                          *)
LEMMA MemberBacked ==
  ASSUME TypeInv, TypeInv', BackedInv, ReachedKept, NEW n \in Nodes, MemberStep(n)
  PROVE  BackedInv'
<1>1. UNCHANGED <<keys, put, wheld, wtodo>>
  BY DEF MemberStep, Crash, Start, RegisterError, Register, CutFile, Heartbeat, MarkNodeDown,
         FalseAlarm, catalogVars, clientVars, workerVars
<1>2. CatalogueBacked' /\ HeldBacked' /\ NewUnplanned'
  BY <1>1, CatalogueSame, HeldSame, PlansSame
<1>3. CASE Crash(n)
  <2>1. ASSUME NEW w \in Workers, wpc'[w] \in {"copy", "store"}
        PROVE  /\ SameJob(w) /\ wpc'[w] = wpc[w]
               /\ wjob'[w].target # NoNode => wjob'[w] = wjob[w]
    <3>1. wpc'[w] = wpc[w] /\ wjob[w] \in Job
      BY <1>3, <2>1 DEF Crash, TypeInv, WorkersBusy
    <3>2. wjob'[w] = wjob[w] \/ wjob'[w] = [wjob[w] EXCEPT !.target = NoNode]
      BY <1>3 DEF Crash
    <3> QED BY <2>1, <3>1, <3>2 DEF SameJob, Job
  <2>2. JobsBacked'
    BY <2>1, JobsSame
  <2>3. CopiesWhole'
    BY <2>1 DEF CopiesWhole, BackedInv
  <2> QED BY <1>2, <2>2, <2>3 DEF BackedInv
<1>4. CASE /\ wjob' = wjob
           /\ \A w \in Workers : wpc'[w] \in {"copy", "store"} => wpc'[w] = wpc[w]
  <2>1. JobsBacked'
    BY <1>4, JobsSame DEF SameJob
  <2> QED BY <1>2, <1>4, <2>1 DEF BackedInv, CopiesWhole
<1>5. ASSUME Register(n) \/ RegisterError(n)
      PROVE  /\ wjob' = wjob
             /\ \A w \in Workers : wpc'[w] \in {"copy", "store"} => wpc'[w] = wpc[w]
  <2>1. wjob' = wjob /\ (wpc' = wpc \/ TriggerRebalance)
    BY <1>5 DEF Register, RegisterError
  <2> QED BY <2>1, TriggerWorkers
<1>6. ASSUME Start(n) \/ Heartbeat(n) \/ MarkNodeDown(n) \/ FalseAlarm(n)
             \/ \E k \in Keys, f \in Frags : CutFile(n, k, f)
      PROVE  wpc' = wpc /\ wjob' = wjob
  BY <1>6 DEF Start, CutFile, Heartbeat, MarkNodeDown, FalseAlarm, workerVars
<1> QED BY <1>3, <1>4, <1>5, <1>6 DEF MemberStep

(* Only the job of one worker has to be looked at.                         *)
LEMMA OneJobBacked ==
  ASSUME TypeInv', BackedInv, ReachedKept, NEW w \in Workers,
         UNCHANGED <<keys, put, wheld, wtodo>>,
         \A v \in Workers \ {w} : wpc'[v] = wpc[v] /\ wjob'[v] = wjob[v],
         \A k \in Keys, f \in Frags : wjob'[w].key = k /\ wjob'[w].frag = f =>
           \A n \in Range(wjob'[w].list) : Reached(n, k, f) \/ Reached(n, k, f)',
         wpc'[w] = "store" /\ wjob'[w].target # NoNode => wjob'[w].data # 0
  PROVE  BackedInv'
<1>1. CatalogueBacked' /\ HeldBacked' /\ NewUnplanned'
  BY CatalogueSame, HeldSame, PlansSame
<1>2. CopiesWhole'
  BY DEF CopiesWhole, BackedInv
<1>3. ASSUME NEW v \in Workers, NEW k \in Keys, NEW f \in Frags,
             wpc'[v] \in {"copy", "store"}, wjob'[v].key = k, wjob'[v].frag = f
      PROVE  \A n \in Range(wjob'[v].list) : Reached(n, k, f) \/ Reached(n, k, f)'
  <2>1. CASE v = w
    BY <1>3, <2>1
  <2>2. CASE v # w
    BY <1>3, <2>2 DEF BackedInv, JobsBacked, Backed
  <2> QED BY <2>1, <2>2
<1>4. JobsBacked'
  BY <1>3, JobsStep
<1> QED BY <1>1, <1>2, <1>4 DEF BackedInv

(* A worker begins with a list it has read, or a part of it.               *)
LEMMA BeginBacked ==
  ASSUME TypeInv, TypeInv', BackedInv, ReachedKept,
         NEW w \in Workers, NEW k \in Keys, NEW f \in Frags,
         NEW list, \A n \in Range(list) : Reached(n, k, f),
         NEW source, NEW desired, NEW targets, NEW left,
         Begin(w, k, f, list, source, desired, targets, left)
  PROVE  BackedInv'
<1>1. /\ wpc'[w] = "copy" /\ wjob'[w].list = list /\ wjob'[w].key = k /\ wjob'[w].frag = f
      /\ UNCHANGED <<keys, put, wheld, wtodo>>
      /\ \A v \in Workers \ {w} : wpc'[v] = wpc[v] /\ wjob'[v] = wjob[v]
  BY DEF Begin, catalogVars, clientVars, TypeInv, TypeOK
<1> QED BY <1>1, OneJobBacked

LEMMA RecoverFragmentBacked ==
  ASSUME TypeInv, TypeInv', BackedInv, ReachedKept,
         NEW k \in Keys, NEW f \in Frags, RecoverFragment(k, f)
  PROVE  BackedInv'
<1> DEFINE live == wlive[Recovery]
<1>0. Recovery \in Workers
  BY DEF Workers
<1>1. PICK current \in ReadLists(Recovery, k, f) :
        \/ Recover(k, f, FilterLive(current, live))
        \/ Skip(k, f, FilterLive(current, live))
  BY DEF RecoverFragment
<1> DEFINE replicas == FilterLive(current, live)
<1>2. \A n \in Range(replicas) : Reached(n, k, f)
  <2>0. <<k, f>> \in wtodo[Recovery]
    BY DEF RecoverFragment, IsNext
  <2>1. current \in Seq(Nodes) /\ \A n \in Range(current) : Reached(n, k, f)
    BY <1>0, <1>1, <2>0, ReadListsType, ReadListsBacked
  <2>2. Range(replicas) = Range(current) \cap live
    BY <2>1, FilterLiveProperties
  <2> HIDE DEF replicas
  <2> QED BY <2>1, <2>2
<1> HIDE DEF replicas
<1>3. CASE Recover(k, f, replicas)
  <2>1. PICK source, targets, left :
          Begin(Recovery, k, f, replicas, source, << >>, targets, left)
    BY <1>3 DEF Recover
  <2> QED BY <1>0, <1>2, <2>1, BeginBacked
<1>4. CASE Skip(k, f, replicas)
  <2>1. UNCHANGED <<keys, put, wheld, wpc, wjob>> /\ \A w \in Workers : wtodo'[w] \subseteq wtodo[w]
    BY <1>4 DEF Skip, TypeInv, TypeOK, catalogVars, clientVars
  <2>2. JobsBacked'
    BY <2>1, JobsSame DEF SameJob
  <2> QED BY <2>1, <2>2, CatalogueSame, HeldSame, PlansSame DEF BackedInv, CopiesWhole
<1> QED BY <1>1, <1>3, <1>4 DEF replicas

LEMMA RebalanceFragmentBacked ==
  ASSUME TypeInv, TypeInv', BackedInv, ReachedKept,
         NEW r \in Rebalances, NEW k \in Keys, NEW f \in Frags, RebalanceFragment(r, k, f)
  PROVE  BackedInv'
<1>0. r \in Workers
  BY DEF Workers
<1>1. PICK current \in ReadLists(r, k, f), desired \in Placements(k, f, wlive[r]) :
        LET sources == FilterLive(current, Up)
            missing == (Range(desired) \ Range(current)) \cap Up
            targets == IF sources = << >> THEN {} ELSE missing
        IN  Begin(r, k, f, current,
                  IF sources = << >> THEN NoNode ELSE sources[1],
                  desired, targets, Cardinality(targets))
  BY DEF RebalanceFragment
<1>2. PICK source, targets, left : Begin(r, k, f, current, source, desired, targets, left)
  BY <1>1
<1>3. \A n \in Range(current) : Reached(n, k, f)
  BY <1>0, <1>1, ReadListsBacked DEF RebalanceFragment, IsNext
<1> QED BY <1>0, <1>2, <1>3, BeginBacked

(* A copy adds its target after the target has stored the fragment.        *)
LEMMA CopyBacked ==
  ASSUME TypeInv, TypeInv', BackedInv, ReachedKept, NEW w \in Workers, CopyStep(w)
  PROVE  BackedInv'
<1> DEFINE job == wjob[w]
<1>0. /\ UNCHANGED <<keys, put, wheld, wtodo>>
      /\ \A v \in Workers \ {w} : wpc'[v] = wpc[v] /\ wjob'[v] = wjob[v]
  BY DEF CopyStep, CopyFetch, CopyError, CopyStore, CopyLost, CopyBroken,
         catalogVars, clientVars, TypeInv, TypeOK
<1>1. /\ job \in Job /\ job.key \in Keys /\ job.frag \in Frags /\ job.list \in Seq(Nodes)
      /\ wjob \in [Workers -> Job \cup {NoJob}]
      /\ wpc[w] \in {"copy", "store"}
      /\ wpc \in [Workers -> {"idle", "start", "read", "scan", "copy", "store"}]
  <2>1. wpc[w] \in {"copy", "store"}
    BY DEF CopyStep, CopyFetch, CopyError, CopyStore, CopyLost, CopyBroken
  <2>2. job \in Job
    BY <2>1 DEF TypeInv, WorkersBusy
  <2> QED BY <2>1, <2>2 DEF TypeInv, TypeOK, Job
<1>2. \A n \in Range(job.list) : Reached(n, job.key, job.frag)
  BY <1>1 DEF BackedInv, JobsBacked, Backed
<1>3. CASE SameJob(w) /\ (wpc'[w] = "store" => wjob'[w].data # 0)
  BY <1>0, <1>2, <1>3, OneJobBacked DEF SameJob
<1>4. ASSUME NEW t \in Nodes, CopyFetch(w, t)
      PROVE  SameJob(w) /\ wjob'[w].data # 0
  <2>1. /\ Tried(w, t).list = job.list /\ Tried(w, t).key = job.key /\ Tried(w, t).frag = job.frag
        /\ DOMAIN Tried(w, t) = DOMAIN job
    BY <1>1 DEF Tried, Job
  <2>2. wjob'[w] = [Tried(w, t) EXCEPT !.target = t, !.data = disk[job.source][<<job.key, job.frag>>]]
    BY <1>1, <1>4 DEF CopyFetch
  <2>3. disk[job.source][<<job.key, job.frag>>] > 0 /\ job.source \in Nodes
    BY <1>4 DEF CopyFetch, CanCopy, Holds, TypeInv, TypeOK
  <2>4. disk[job.source][<<job.key, job.frag>>] # 0
    <3>1. disk[job.source][<<job.key, job.frag>>] \in Nat \cup {Torn}
      BY <1>1, <2>3 DEF TypeInv, TypeOK, Disks, Fragments
    <3> QED BY <2>3, <3>1 DEF Torn
  <2>5. "data" \in DOMAIN job /\ "list" \in DOMAIN job /\ "key" \in DOMAIN job /\ "frag" \in DOMAIN job
    BY <1>1 DEF Job
  <2>6. wjob'[w].data = disk[job.source][<<job.key, job.frag>>]
    BY <2>1, <2>2, <2>5
  <2>7. wjob'[w].list = job.list /\ wjob'[w].key = job.key /\ wjob'[w].frag = job.frag
    BY <2>1, <2>2, <2>5
  <2> HIDE DEF job
  <2> QED BY <1>1, <2>4, <2>6, <2>7 DEF SameJob, job
<1>5. ASSUME NEW t \in Nodes, CopyError(w, t)
      PROVE  SameJob(w) /\ wpc'[w] = "copy"
  BY <1>1, <1>5 DEF CopyError, Tried, Job, SameJob
<1>6. ASSUME CopyLost(w) \/ CopyBroken(w)
      PROVE  SameJob(w) /\ wpc'[w] = "copy"
  BY <1>1, <1>6 DEF CopyLost, CopyBroken, Job, SameJob
<1>7. CASE CopyStore(w)
  <2>1. /\ job.target \in Nodes /\ job.data # 0 /\ wpc'[w] = "copy"
        /\ disk' = Stored(job.target, job.key, job.frag, job.data)
    BY <1>1, <1>7 DEF CopyStore, Job, BackedInv, CopiesWhole
  <2>2. /\ wjob'[w].list = Append(job.list, job.target)
        /\ wjob'[w].key = job.key /\ wjob'[w].frag = job.frag
    BY <1>1, <1>7 DEF CopyStore, Job
  <2>3. Range(Append(job.list, job.target)) = Range(job.list) \cup {job.target}
    BY <1>1, <2>1, AppendRange
  <2>4. ASSUME NEW k \in Keys, NEW f \in Frags, NEW n, k = job.key, f = job.frag, n = job.target
        PROVE  Reached(n, k, f)'
    <3>1. disk'[n][<<k, f>>] = job.data
      BY <2>1, <2>4 DEF Stored, TypeInv, TypeOK, Disks, Fragments
    <3> QED BY <2>1, <3>1 DEF Reached
  <2>5. ASSUME NEW k \in Keys, NEW f \in Frags, k = wjob'[w].key, f = wjob'[w].frag,
               NEW n \in Range(wjob'[w].list)
        PROVE  Reached(n, k, f) \/ Reached(n, k, f)'
    <3>1. k = job.key /\ f = job.frag /\ n \in Range(job.list) \cup {job.target}
      BY <2>2, <2>3, <2>5
    <3> QED BY <1>2, <2>4, <3>1
  <2> QED BY <1>0, <2>1, <2>5, OneJobBacked
<1> QED BY <1>3, <1>4, <1>5, <1>6, <1>7 DEF CopyStep

(* What a worker writes back is its list or a part of it; the copies of    *)
(* the entry that share its array see the same.                            *)
LEMMA UpdateBacked ==
  ASSUME TypeInv, TypeInv', BackedInv, ReachedKept, NEW w \in Workers, UpdateFragmentNodes(w)
  PROVE  BackedInv'
<1> DEFINE k == wjob[w].key  f == wjob[w].frag  new == NewList(w)
<1>0. wjob[w] \in Job /\ wpc[w] = "copy"
  BY DEF UpdateFragmentNodes, TypeInv, WorkersBusy
<1>1. k \in Keys /\ f \in Frags
  BY <1>0 DEF Job
<1>2. \A n \in Range(new) : Reached(n, k, f)
  <2>1. \A n \in Range(wjob[w].list) : Reached(n, k, f)
    BY <1>0, <1>1 DEF BackedInv, JobsBacked, Backed
  <2> QED BY <1>0, <2>1, NewListRange
<1>3. /\ keys' = Catalog!UpdateFragment(keys, k, f, new)
      /\ SeeUpdate(k, f, new) /\ FragmentDone(w, k, f) /\ put' = put
  BY DEF UpdateFragmentNodes, clientVars
<1> HIDE DEF k, f, new
<1>4. ASSUME NEW j \in Keys, NEW g \in Frags, Present(j)', NEW n \in Range(keys'[j].ids[g])
      PROVE  Reached(n, j, g)
  <2>1. CASE keys'[j] = keys[j]
    BY <1>4, <2>1 DEF Present, BackedInv, CatalogueBacked, Backed
  <2>2. CASE keys'[j] # keys[j]
    <3>1. j = k /\ keys[k] # Absent
      BY <1>3, <2>2 DEF Catalog!UpdateFragment, TypeInv, TypeOK
    <3>2. keys[k] \in Entry /\ keys[k].ids \in [Frags -> Seq(Nodes)] /\ keys \in KeysType
      BY <1>1, <3>1 DEF TypeInv, TypeOK, Entry, Lists, KeysType
    <3>3. keys'[k].ids = [keys[k].ids EXCEPT ![f] = new]
      BY <1>1, <1>3, <3>1, <3>2 DEF Catalog!UpdateFragment, Entry, KeysType
    <3>4. CASE g = f
      BY <1>1, <1>2, <1>4, <3>1, <3>2, <3>3, <3>4
    <3>5. CASE g # f
      <4>1. keys'[j].ids[g] = keys[j].ids[g]
        BY <3>1, <3>2, <3>3, <3>5
      <4> QED BY <1>4, <3>1, <4>1 DEF BackedInv, CatalogueBacked, Backed, Present
    <3> QED BY <3>4, <3>5
  <2> QED BY <2>1, <2>2
<1>5. CatalogueBacked'
  BY <1>4, CatalogueStep
<1>6. ASSUME NEW v \in Workers, NEW j \in Keys, NEW g \in Frags, <<j, g>> \in wtodo'[v],
             NEW n \in Range(wheld'[v][j].ids[g])
      PROVE  Reached(n, j, g)
  <2>0. <<j, g>> \in wtodo[v]
    BY <1>3, <1>6 DEF FragmentDone, TypeInv, TypeOK
  <2>1. wheld[v][j] \in Copy /\ \A m \in Range(wheld[v][j].ids[g]) : Reached(m, j, g)
    BY <2>0 DEF TypeInv, WorkersBusy, BackedInv, HeldBacked, Backed
  <2>2. wheld'[v] = IF Shares(wheld[v][k], keys[k])
                    THEN [wheld[v] EXCEPT ![k].ids[f] = new] ELSE wheld[v]
    BY <1>3 DEF SeeUpdate
  <2>3. wheld[v] \in [Keys -> Copy \cup {Absent}]
    BY DEF TypeInv, TypeOK
  <2>4. CASE j = k /\ Shares(wheld[v][k], keys[k])
    <3>1. wheld'[v][j].ids = [wheld[v][j].ids EXCEPT ![f] = new]
      BY <1>1, <2>1, <2>2, <2>3, <2>4 DEF Copy
    <3>2. wheld[v][j].ids \in [Frags -> Seq(Nodes)]
      BY <2>1 DEF Copy, Lists
    <3> QED BY <1>1, <1>2, <1>6, <2>1, <2>4, <3>1, <3>2
  <2>5. CASE ~ (j = k /\ Shares(wheld[v][k], keys[k]))
    <3>1. wheld'[v][j] = wheld[v][j]
      BY <1>1, <2>2, <2>3, <2>5
    <3> QED BY <1>6, <2>1, <3>1
  <2> QED BY <2>4, <2>5
<1>7. HeldBacked'
  BY <1>6, HeldStep
<1>8. \A v \in Workers : wpc'[v] \in {"copy", "store"} => wpc'[v] = wpc[v] /\ wjob'[v] = wjob[v]
  BY <1>3 DEF FragmentDone, TypeInv, TypeOK
<1>9. JobsBacked' /\ CopiesWhole'
  BY <1>8, JobsSame DEF SameJob, BackedInv, CopiesWhole
<1>10. NewUnplanned'
  BY <1>3, PlansSame
<1> QED BY <1>5, <1>7, <1>9, <1>10 DEF BackedInv

LEMMA WorkerBacked ==
  ASSUME TypeInv, TypeInv', BackedInv, ReachedKept, NEW w \in Workers, WorkerStep(w)
  PROVE  BackedInv'
<1>1. CASE ReadEntries(w)
  <2>1. /\ UNCHANGED <<keys, put>> /\ wjob' = wjob
        /\ \A v \in Workers : wpc'[v] \in {"copy", "store"} => wpc'[v] = wpc[v]
    BY <1>1 DEF ReadEntries, catalogVars, clientVars, TypeInv, TypeOK
  <2>2. JobsBacked' /\ CopiesWhole' /\ CatalogueBacked' /\ NewUnplanned'
    BY <2>1, JobsSame, CatalogueSame, PlansSame DEF SameJob, BackedInv, CopiesWhole
  <2>3. ASSUME NEW v \in Workers, NEW k \in Keys, NEW f \in Frags, <<k, f>> \in wtodo'[v]
        PROVE  \A n \in Range(wheld'[v][k].ids[f]) : Reached(n, k, f)
    <3>1. CASE v = w
      <4>1. keys[k] # Absent
        BY <1>1, <2>3, <3>1 DEF ReadEntries, TypeInv, TypeOK
      <4>2. wheld'[v][k].ids = keys[k].ids
        BY <1>1, <3>1, <4>1 DEF ReadEntries, TypeInv, TypeOK
      <4> QED BY <4>1, <4>2 DEF BackedInv, CatalogueBacked, Backed, Present
    <3>2. CASE v # w
      BY <1>1, <2>3, <3>2 DEF ReadEntries, TypeInv, TypeOK, BackedInv, HeldBacked, Backed
    <3> QED BY <3>1, <3>2
  <2>4. HeldBacked'
    BY <2>3, HeldStep
  <2> QED BY <2>2, <2>4 DEF BackedInv
<1>2. CASE ScanDone(w)
  <2>1. /\ UNCHANGED <<keys, put, wtodo, wjob>> /\ wtodo[w] = {}
        /\ \A v \in Workers \ {w} : wheld'[v] = wheld[v]
        /\ \A v \in Workers : wpc'[v] \in {"copy", "store"} => wpc'[v] = wpc[v]
    BY <1>2 DEF ScanDone, catalogVars, clientVars, TypeInv, TypeOK
  <2>2. \A v \in Workers, k \in Keys, f \in Frags : <<k, f>> \in wtodo'[v] =>
          \A n \in Range(wheld'[v][k].ids[f]) : Reached(n, k, f)
    BY <2>1 DEF BackedInv, HeldBacked, Backed
  <2>3. HeldBacked'
    BY <2>2, HeldStep
  <2> QED BY <2>1, <2>3, JobsSame, CatalogueSame, PlansSame DEF SameJob, BackedInv, CopiesWhole
<1>3. CASE CopyStep(w)
  BY <1>3, CopyBacked
<1>4. CASE UpdateFragmentNodes(w)
  BY <1>4, UpdateBacked
<1>5. CASE UpdateLost(w)
  <2>1. /\ UNCHANGED <<keys, put, wheld>> /\ \A v \in Workers : wtodo'[v] \subseteq wtodo[v]
        /\ \A v \in Workers : wpc'[v] \in {"copy", "store"} => wpc'[v] = wpc[v] /\ wjob'[v] = wjob[v]
    BY <1>5 DEF UpdateLost, FragmentDone, catalogVars, clientVars, TypeInv, TypeOK
  <2> QED BY <2>1, HeldSame, JobsSame, CatalogueSame, PlansSame DEF SameJob, BackedInv, CopiesWhole
<1> QED BY <1>1, <1>2, <1>3, <1>4, <1>5 DEF WorkerStep

LEMMA InitBacked == Init => BackedInv
<1> SUFFICES ASSUME Init PROVE BackedInv
  OBVIOUS
<1>1. NewUnplanned
  BY DEF Init, NewUnplanned
<1> QED BY <1>1 DEF Init, BackedInv, CatalogueBacked, Present, HeldBacked, JobsBacked, CopiesWhole

LEMMA NextBacked == TypeInv /\ BackedInv /\ [Next]_vars => BackedInv'
<1> SUFFICES ASSUME TypeInv, BackedInv, [Next]_vars PROVE BackedInv'
  OBVIOUS
<1>0. /\ TypeInv' /\ ReachedKept
      /\ Recovery \in Workers /\ \A r \in Rebalances : r \in Workers
  BY NextType, ReachedStays DEF Workers
<1>1. ASSUME NEW p \in Puts, ClientStep(p) PROVE BackedInv'
  BY <1>0, <1>1, ClientBacked
<1>2. ASSUME NEW k \in Keys, Delete(k) PROVE BackedInv'
  BY <1>0, <1>2, DeleteBacked
<1>3. ASSUME NEW n \in Nodes, MemberStep(n) PROVE BackedInv'
  BY <1>0, <1>3, MemberBacked
<1>4. ASSUME RecoveryTick \/ (\E r \in Rebalances : RebalanceStart(r)) \/ UNCHANGED vars
      PROVE BackedInv'
  <2>1. /\ UNCHANGED <<keys, put, wheld, wtodo, wjob>>
        /\ \A v \in Workers : wpc'[v] \in {"copy", "store"} => wpc'[v] = wpc[v]
    BY <1>4 DEF RecoveryTick, RebalanceStart, catalogVars, clientVars, workerVars, vars,
              TypeInv, TypeOK
  <2> QED BY <1>0, <2>1, HeldSame, JobsSame, CatalogueSame, PlansSame
          DEF SameJob, BackedInv, CopiesWhole
<1>5. ASSUME NEW k \in Keys, NEW f \in Frags, RecoverFragment(k, f) PROVE BackedInv'
  BY <1>0, <1>5, RecoverFragmentBacked
<1>6. ASSUME NEW r \in Rebalances, NEW k \in Keys, NEW f \in Frags, RebalanceFragment(r, k, f)
      PROVE  BackedInv'
  BY <1>0, <1>6, RebalanceFragmentBacked
<1>7. ASSUME NEW w \in Workers, WorkerStep(w) PROVE BackedInv'
  BY <1>0, <1>7, WorkerBacked
<1> QED BY <1>0, <1>1, <1>2, <1>3, <1>4, <1>5, <1>6, <1>7 DEF Next, RecoveryStep, RebalanceStep

(* Whatever recovery, any number of rebalances and clients and any number  *)
(* of crashes and failed copies do: a node the placer did not choose for a *)
(* fragment is listed only after it has stored the fragment.               *)
THEOREM AddedReplicasAlwaysHoldData == Spec => []AddedReplicasHoldData
<1>1. Init => BackedInv
  BY InitBacked
<1>2. TypeInv /\ BackedInv /\ [Next]_vars => BackedInv'
  BY NextBacked
<1>3. BackedInv => AddedReplicasHoldData
  BY DEF BackedInv, CatalogueBacked, Backed, Reached, AddedReplicasHoldData
<1> QED BY <1>1, <1>2, <1>3, TypesAndJobs, PTL DEF Spec
=============================================================================
