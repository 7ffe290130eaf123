------------------------- MODULE ClusterReadsProofs --------------------------
(***************************************************************************)
(* Proof that a committed key can be read while its write quorum stands,   *)
(* for any number of keys, fragments, nodes, puts, rebalances and faults;  *)
(* and that recovery, as long as there are no rebalances, drops no replica *)
(* that it saw up, writes over none that is listed, and erases no list.    *)
(***************************************************************************)
EXTENDS ClusterListsProofs, ClusterReplicasProofs

(* PrepareKey of this put has been applied, or has failed.                 *)
Planned(p) == put[p].pc \notin {"new", "planned"}

(* What a disk may have for a key, or a copy bring to it: nothing, torn    *)
(* bytes, or those of a put of the key that has begun.                     *)
Bytes(k) == {0, Torn} \cup {p \in Puts : put[p].key = k /\ put[p].pc # "new"}

DisksFromPuts ==
  /\ \A n \in Nodes, k \in Keys, f \in Frags : disk[n][<<k, f>>] \in Bytes(k)
  /\ \A w \in Workers, k \in Keys :
       wpc[w] = "store" /\ wjob[w].key = k => wjob[w].data \in Bytes(k)

PlansNonEmpty ==
  \A p \in Puts, f \in Frags : put[p].pc # "new" => put[p].plan[f] # << >>

(* The nodes of the plan that the primary does not wait for any more and   *)
(* that have the fragment, whole or torn.                                  *)
Copies(p, f) ==
  {n \in Range(put[p].plan[f]) \ upload[p][f].sends : disk[n][<<put[p].key, f>>] # 0}

(* The primary counts a copy only when there is one: it has never counted  *)
(* more than the plan's nodes hold, and it compares with the quorum.       *)
UploadCounted(p, f) ==
  upload[p][f].pc \in {"fanout", "ok"} =>
    /\ upload[p][f].sends \subseteq Range(put[p].plan[f])
    /\ 1 <= upload[p][f].copies /\ upload[p][f].copies <= Cardinality(Copies(p, f))
    /\ upload[p][f].pc = "ok" => QuorumReached(p, f)

UploadsCounted ==
  \A p \in Puts, f \in Frags :
    UploadCounted(p, f) /\ (upload[p][f].pc # "new" => Planned(p))

(* The entry of a key is that of one of its puts, with its addresses.      *)
EntriesPlanned ==
  \A k \in Keys : Present(k) =>
    /\ Planned(keys[k].put) /\ put[keys[k].put].key = k
    /\ keys[k].addrs = put[keys[k].put].plan

(* Only with a second put of the key can a commit name another's entry.    *)
CommittedUploaded ==
  \A k \in Keys : Present(k) /\ keys[k].committed /\ WriteOnce(k) =>
    \A f \in Frags : upload[keys[k].put][f].pc = "ok"

ReadsInv ==
  /\ DisksFromPuts /\ PlansNonEmpty /\ UploadsCounted
  /\ EntriesPlanned /\ CommittedUploaded

(***************************************************************************)
(* The steps that matter, and what they leave alone                        *)
(***************************************************************************)

(* Steps that touch neither catalogue entries nor data nor clients.        *)
Quiet ==
  /\ UNCHANGED <<keys, put, upload, disk>>
  /\ \A w \in Workers : wpc'[w] = "store" => wpc[w] = "store" /\ wjob'[w] = wjob[w]

(* A store under way cuts the file there was.                              *)
CutStep == \E n \in Nodes, k \in Keys, f \in Frags : CutFile(n, k, f)

LEMMA StepCases ==
  ASSUME TypeInv, [Next]_vars
  PROVE  \/ \E p \in Puts : ClientStep(p)
         \/ \E k \in Keys : Delete(k)
         \/ \E n \in Nodes : Crash(n)
         \/ CutStep
         \/ \E w \in Workers : CopyStep(w) \/ UpdateFragmentNodes(w)
         \/ Quiet
<1>1. ASSUME NEW w \in Workers, ReadEntries(w) \/ ScanDone(w) \/ UpdateLost(w) PROVE Quiet
  <2>1. /\ UNCHANGED <<keys, put, upload, disk>>
        /\ \A v \in Workers : wpc'[v] = "store" => wpc[v] = "store" /\ v # w
        /\ \A v \in Workers \ {w} : wjob'[v] = wjob[v]
    BY <1>1 DEF ReadEntries, ScanDone, UpdateLost, FragmentDone, TypeInv, TypeOK,
                catalogVars, storageVars, clientVars
  <2> QED BY <2>1 DEF Quiet
<1>2. ASSUME NEW w \in Workers, NEW k, NEW f, NEW list, NEW source, NEW desired, NEW targets,
             NEW left, Begin(w, k, f, list, source, desired, targets, left)
      PROVE  Quiet
  <2>1. /\ UNCHANGED <<keys, put, upload, disk>>
        /\ \A v \in Workers : wpc'[v] = "store" => wpc[v] = "store" /\ v # w
        /\ \A v \in Workers \ {w} : wjob'[v] = wjob[v]
    BY <1>2 DEF Begin, TypeInv, TypeOK, catalogVars, storageVars, clientVars
  <2> QED BY <2>1 DEF Quiet
<1>3. Recovery \in Workers /\ \A r \in Rebalances : r \in Workers
  BY DEF Workers
<1>4. ASSUME NEW w \in Workers, WorkerStep(w)
      PROVE  Quiet \/ CopyStep(w) \/ UpdateFragmentNodes(w)
  BY <1>1, <1>4 DEF WorkerStep
<1>5. ASSUME RecoveryTick PROVE Quiet
  BY <1>3, <1>5 DEF RecoveryTick, Quiet, TypeInv, TypeOK, catalogVars, storageVars, clientVars
<1>6. ASSUME NEW k \in Keys, NEW f \in Frags, RecoverFragment(k, f) PROVE Quiet
  <2>1. CASE \E replicas : Skip(k, f, replicas)
    BY <2>1 DEF Skip, Quiet, catalogVars, storageVars, clientVars
  <2>2. CASE \E replicas : Recover(k, f, replicas)
    <3>1. \E list, source, desired, targets, left :
            Begin(Recovery, k, f, list, source, desired, targets, left)
      BY <2>2 DEF Recover
    <3> QED BY <1>2, <1>3, <3>1
  <2> QED BY <1>6, <2>1, <2>2 DEF RecoverFragment
<1>7. ASSUME NEW r \in Rebalances, RebalanceStart(r) PROVE Quiet
  BY <1>3, <1>7 DEF RebalanceStart, Quiet, TypeInv, TypeOK, catalogVars, storageVars, clientVars
<1>8. ASSUME NEW r \in Rebalances, NEW k \in Keys, NEW f \in Frags, RebalanceFragment(r, k, f)
      PROVE  Quiet
  <2>1. \E list, source, desired, targets, left :
          Begin(r, k, f, list, source, desired, targets, left)
    BY <1>8 DEF RebalanceFragment
  <2> QED BY <1>2, <1>3, <2>1
<1>9. ASSUME NEW n \in Nodes, MemberStep(n) PROVE Quiet \/ Crash(n) \/ CutStep
  <2>1. CASE Start(n) \/ Heartbeat(n) \/ MarkNodeDown(n) \/ FalseAlarm(n)
    BY <2>1 DEF Start, Heartbeat, MarkNodeDown, FalseAlarm, Quiet,
                catalogVars, storageVars, clientVars, workerVars
  <2>2. CASE Register(n) \/ RegisterError(n)
    <3>1. /\ UNCHANGED <<keys, put, upload, disk, wjob>>
          /\ wpc' = wpc \/ TriggerRebalance
      BY <2>2 DEF Register, RegisterError, storageVars, clientVars
    <3>2. \A w \in Workers : wpc'[w] = "store" => wpc[w] = "store"
      BY <3>1, TriggerWorkers
    <3> QED BY <3>1, <3>2 DEF Quiet
  <2> QED BY <1>9, <2>1, <2>2 DEF MemberStep, CutStep
<1>10. CASE UNCHANGED vars
  BY <1>10 DEF vars, Quiet, catalogVars, storageVars, clientVars, workerVars
<1> QED BY <1>3, <1>4, <1>5, <1>6, <1>7, <1>8, <1>9, <1>10 DEF Next, RecoveryStep, RebalanceStep

(* What a put has planned it keeps.                                        *)
PutsKept ==
  \A p \in Puts :
    /\ put'[p].key = put[p].key
    /\ put[p].pc # "new" => put'[p].pc # "new" /\ put'[p].plan = put[p].plan
    /\ Planned(p) => Planned(p)'

LEMMA ClientKeepsPuts ==
  ASSUME TypeInv, NEW p \in Puts, ClientStep(p)
  PROVE  PutsKept
<1>0. put \in [Puts -> PutState] /\ put[p] \in PutState
  BY DEF TypeInv, TypeOK
<1>1. CASE put' = put
  BY <1>1 DEF PutsKept, Planned
<1>2. CASE Prepare(p)
  <2>1. PICK plan : put' = [put EXCEPT ![p].pc = "planned", ![p].plan = plan]
    BY <1>2 DEF Prepare
  <2>2. put[p].pc = "new"
    BY <1>2 DEF Prepare
  <2> QED BY <1>0, <2>1, <2>2 DEF PutsKept, Planned, PutState
<1>3. CASE Plan(p) \/ PlanError(p) \/ Abort(p) \/ Commit(p) \/ CommitError(p)
  <2>1. PICK pc \in {"upload", "failed", "aborted", "acked"} : put' = [put EXCEPT ![p].pc = pc]
    BY <1>3 DEF Plan, PlanError, Abort, Commit, CommitError
  <2> QED BY <1>0, <2>1 DEF PutsKept, Planned, PutState
<1>4. ASSUME NEW f \in Frags,
             \/ StorePrimary(p, f) \/ StoreError(p, f) \/ PrimaryError(p, f)
             \/ Answer(p, f) \/ AnswerLost(p, f)
             \/ \E n \in Nodes : SendReplica(p, f, n) \/ SendError(p, f, n) \/ SendLost(p, f, n)
      PROVE  put' = put
  BY <1>4 DEF StorePrimary, StoreError, PrimaryError, Answer, AnswerLost, SendReplica,
              SendError, SendLost
<1> QED BY <1>1, <1>2, <1>3, <1>4 DEF ClientStep

LEMMA OthersKeepPuts ==
  ASSUME \/ \E k \in Keys : Delete(k)
         \/ \E n \in Nodes : Crash(n)
         \/ CutStep
         \/ \E w \in Workers : CopyStep(w) \/ UpdateFragmentNodes(w)
         \/ Quiet
  PROVE  put' = put
BY DEF Delete, Crash, CutStep, CutFile, CopyStep, CopyFetch, CopyError, CopyStore, CopyLost, CopyBroken,
       UpdateFragmentNodes, Quiet, clientVars

LEMMA PutsStay == ASSUME TypeInv, [Next]_vars PROVE PutsKept
<1>1. (\E p \in Puts : ClientStep(p)) \/ put' = put
  BY StepCases, OthersKeepPuts
<1>2. CASE put' = put
  BY <1>2 DEF PutsKept, Planned
<1> QED BY <1>1, <1>2, ClientKeepsPuts

(***************************************************************************)
(* What the primary has counted                                            *)
(***************************************************************************)
LEMMA CopiesFinite ==
  ASSUME TypeInv, NEW p \in Puts, NEW f \in Frags
  PROVE  /\ Range(put[p].plan[f]) \subseteq Nodes
         /\ IsFiniteSet(Copies(p, f)) /\ Cardinality(Copies(p, f)) \in Nat
<1>1. put[p].plan[f] \in Seq(Nodes)
  BY DEF TypeInv, TypeOK, PutState, Lists
<1>2. Range(put[p].plan[f]) \subseteq Nodes
  BY <1>1 DEF Range
<1>3. IsFiniteSet(Copies(p, f))
  BY <1>2, NodesAssumption, FS_Subset DEF Copies
<1> QED BY <1>2, <1>3, FS_CardinalityType

(* The copies of an upload that waits for fewer nodes are no fewer.        *)
LEMMA CopiesGrow ==
  ASSUME TypeInv, TypeInv', DisksGrow, PutsKept, NEW p \in Puts, NEW f \in Frags,
         put[p].pc # "new", upload'[p][f].sends \subseteq upload[p][f].sends
  PROVE  /\ Copies(p, f) \subseteq Copies(p, f)'
         /\ Cardinality(Copies(p, f)) <= Cardinality(Copies(p, f)')
<1>1. put'[p].key = put[p].key /\ put'[p].plan = put[p].plan /\ put[p].key \in Keys
  BY DEF PutsKept, TypeInv, TypeOK, PutState
<1>2. Range(put[p].plan[f]) \subseteq Nodes
  BY CopiesFinite
<1>3. Copies(p, f) \subseteq Copies(p, f)'
  BY <1>1, <1>2 DEF Copies, DisksGrow
<1>4. IsFiniteSet(Copies(p, f)')
  <2>1. Copies(p, f)' \subseteq Nodes
    BY <1>1, <1>2 DEF Copies
  <2> QED BY <2>1, NodesAssumption, FS_Subset
<1> QED BY <1>3, <1>4, FS_Subset

(* An upload that goes on as it was, or waits for fewer nodes, or has its  *)
(* quorum.                                                                 *)
LEMMA UploadGoesOn ==
  ASSUME TypeInv, TypeInv', UploadsCounted, DisksGrow, PutsKept,
         NEW p \in Puts, NEW f \in Frags, upload[p][f].pc \in {"fanout", "ok"},
         upload'[p][f].pc \in {"fanout", "ok"},
         upload'[p][f].sends \subseteq upload[p][f].sends,
         upload'[p][f].copies = upload[p][f].copies,
         upload'[p][f].pc = "ok" => QuorumReached(p, f)
  PROVE  UploadCounted(p, f)'
<1>1. Planned(p) /\ UploadCounted(p, f)
  BY DEF UploadsCounted
<1>2. put[p].pc # "new" /\ put'[p].plan = put[p].plan
  BY <1>1 DEF PutsKept, Planned
<1>3. Cardinality(Copies(p, f)) <= Cardinality(Copies(p, f)')
  BY <1>2, CopiesGrow
<1>4. upload[p][f].copies \in Nat /\ Cardinality(Copies(p, f)) \in Nat
      /\ Cardinality(Copies(p, f)') \in Nat
  <2>1. upload[p][f] \in UploadState
    BY DEF TypeInv, TypeOK
  <2>2. Copies(p, f)' \subseteq Nodes
    <3>1. Range(put'[p].plan[f]) \subseteq Nodes
      BY <1>2, CopiesFinite
    <3> QED BY <3>1 DEF Copies
  <2> QED BY <2>1, <2>2, CopiesFinite, NodesAssumption, FS_Subset, FS_CardinalityType DEF UploadState
<1>5. QuorumReached(p, f) => QuorumReached(p, f)'
  BY <1>2 DEF QuorumReached, Replicas
<1>6. 1 <= upload'[p][f].copies /\ upload'[p][f].copies <= Cardinality(Copies(p, f)')
  BY <1>1, <1>3, <1>4 DEF UploadCounted
<1>7. upload'[p][f].sends \subseteq Range(put'[p].plan[f])
  BY <1>1, <1>2 DEF UploadCounted
<1> QED BY <1>5, <1>6, <1>7 DEF UploadCounted

LEMMA UploadSame ==
  ASSUME TypeInv, TypeInv', UploadsCounted, DisksGrow, PutsKept,
         NEW p \in Puts, NEW f \in Frags, upload'[p][f] = upload[p][f]
  PROVE  UploadCounted(p, f)' /\ (upload'[p][f].pc # "new" => Planned(p)')
<1>1. UploadCounted(p, f) /\ (upload[p][f].pc # "new" => Planned(p))
  BY DEF UploadsCounted
<1>2. upload'[p][f].pc # "new" => Planned(p)'
  BY <1>1 DEF PutsKept
<1>3. CASE upload[p][f].pc \in {"fanout", "ok"}
  <2>1. upload'[p][f].pc = "ok" => QuorumReached(p, f)
    BY <1>1, <1>3 DEF UploadCounted
  <2>2. UploadCounted(p, f)'
    BY <1>3, <2>1, UploadGoesOn
  <2> QED BY <1>2, <2>2
<1>4. CASE upload[p][f].pc \notin {"fanout", "ok"}
  BY <1>2, <1>4 DEF UploadCounted
<1> QED BY <1>3, <1>4

(* Uploads that ended with an error count for nothing.                     *)
LEMMA UploadsEnd ==
  ASSUME TypeInv, TypeInv', UploadsCounted, DisksGrow, PutsKept,
         \A p \in Puts, f \in Frags :
           \/ upload'[p][f] = upload[p][f]
           \/ upload'[p][f].pc = "error" /\ Planned(p)
  PROVE  UploadsCounted'
<1> SUFFICES ASSUME NEW p \in Puts, NEW f \in Frags
             PROVE  UploadCounted(p, f)' /\ (upload'[p][f].pc # "new" => Planned(p)')
  BY DEF UploadsCounted
<1>1. CASE upload'[p][f] = upload[p][f]
  BY <1>1, UploadSame
<1>2. CASE upload'[p][f].pc = "error" /\ Planned(p)
  BY <1>2 DEF UploadCounted, PutsKept
<1> QED BY <1>1, <1>2

(* Only one upload has moved.                                              *)
LEMMA OneUpload ==
  ASSUME TypeInv, TypeInv', UploadsCounted, DisksGrow, PutsKept,
         NEW p \in Puts, NEW f \in Frags,
         \A q \in Puts, g \in Frags : <<q, g>> # <<p, f>> => upload'[q][g] = upload[q][g],
         UploadCounted(p, f)', Planned(p)
  PROVE  UploadsCounted'
<1> SUFFICES ASSUME NEW q \in Puts, NEW g \in Frags
             PROVE  UploadCounted(q, g)' /\ (upload'[q][g].pc # "new" => Planned(q)')
  BY DEF UploadsCounted
<1>1. CASE q = p /\ g = f
  BY <1>1 DEF PutsKept
<1>2. CASE q # p \/ g # f
  <2>1. upload'[q][g] = upload[q][g]
    BY <1>2
  <2> QED BY <2>1, UploadSame
<1> QED BY <1>1, <1>2

(* The nodes of a plan are different: the primary is not one of those it   *)
(* sends to, and the copy it has made is the first.                        *)
LEMMA PrimaryApart ==
  ASSUME TypeInv, PlanLists, PlansNonEmpty, NEW p \in Puts, NEW f \in Frags, put[p].pc # "new"
  PROVE  /\ Primary(p, f) \in Range(put[p].plan[f])
         /\ Replicas(p, f) = Range(put[p].plan[f]) \ {Primary(p, f)}
<1> DEFINE plan == put[p].plan[f]
<1>1. plan \in Seq(Nodes) /\ plan # << >> /\ IsInjective(plan)
  BY DEF TypeInv, TypeOK, PutState, Lists, PlanLists, WellFormed, PlansNonEmpty
<1>2. /\ Len(plan) \in Nat /\ Len(plan) >= 1 /\ DOMAIN plan = 1..Len(plan)
  BY <1>1
<1>3. Primary(p, f) = plan[1] /\ Replicas(p, f) = {plan[i] : i \in 2..Len(plan)}
  BY DEF Primary, Replicas
<1> HIDE DEF plan
<1>4. \A i \in 2..Len(plan) : plan[i] # plan[1]
  BY <1>1, <1>2 DEF IsInjective
<1>5. Range(plan) = {plan[i] : i \in 1..Len(plan)}
  BY <1>2 DEF Range
<1>6. Primary(p, f) \in Range(plan) /\ Replicas(p, f) = Range(plan) \ {Primary(p, f)}
  BY <1>2, <1>3, <1>4, <1>5
<1> QED BY <1>6 DEF plan

LEMMA ClientUploads ==
  ASSUME TypeInv, TypeInv', PlanLists, ReadsInv, DisksGrow, PutsKept,
         NEW p \in Puts, ClientStep(p)
  PROVE  UploadsCounted'
<1>0. /\ upload \in [Puts -> [Frags -> UploadState]]
      /\ \A f \in Frags : upload[p] \in [Frags -> UploadState] /\ upload[p][f] \in UploadState
      /\ UploadsCounted /\ put[p].key \in Keys
  BY DEF TypeInv, TypeOK, ReadsInv, PutState
<1>1. CASE upload' = upload
  BY <1>0, <1>1, UploadsEnd
<1>2. ASSUME Prepare(p) \/ Plan(p) \/ PlanError(p) \/ Abort(p) \/ Commit(p) \/ CommitError(p)
      PROVE  upload' = upload
  BY <1>2 DEF Prepare, Plan, PlanError, Abort, Commit, CommitError
<1>3. ASSUME NEW f \in Frags, StorePrimary(p, f) PROVE UploadsCounted'
  <2> DEFINE new == [pc |-> "fanout", sends |-> Replicas(p, f), copies |-> 1]
  <2>1. /\ upload' = [upload EXCEPT ![p] = [upload[p] EXCEPT ![f] = new]]
        /\ disk' = Stored(Primary(p, f), put[p].key, f, p) /\ put' = put
        /\ Planned(p) /\ put[p].pc # "new"
    BY <1>3 DEF StorePrimary, Planned
  <2>2. /\ Primary(p, f) \in Range(put[p].plan[f])
        /\ Replicas(p, f) = Range(put[p].plan[f]) \ {Primary(p, f)}
    BY <2>1, PrimaryApart DEF ReadsInv
  <2> HIDE DEF new
  <2>3. upload'[p][f] = new /\ \A q \in Puts, g \in Frags : <<q, g>> # <<p, f>> => upload'[q][g] = upload[q][g]
    BY <1>0, <2>1
  <2>4. Primary(p, f) \in Copies(p, f)'
    <3>1. Primary(p, f) \in Nodes /\ p # 0
      BY <1>3 DEF StorePrimary, TypeInv, TypeOK, Puts
    <3>2. disk'[Primary(p, f)][<<put[p].key, f>>] = p
      BY <1>0, <2>1, <3>1 DEF Stored, TypeInv, TypeOK, Disks, Fragments
    <3> QED BY <2>1, <2>2, <2>3, <3>1, <3>2 DEF Copies, new
  <2>5. 1 <= Cardinality(Copies(p, f)')
    <3>1. IsFiniteSet(Copies(p, f)')
      BY <2>1, CopiesFinite, NodesAssumption, FS_Subset DEF Copies
    <3>2. Cardinality(Copies(p, f)') \in Nat /\ Cardinality(Copies(p, f)') # 0
      BY <2>4, <3>1, FS_CardinalityType, FS_EmptySet
    <3> QED BY <3>2
  <2>6. UploadCounted(p, f)'
    BY <2>1, <2>2, <2>3, <2>5 DEF UploadCounted, new
  <2> QED BY <1>0, <2>1, <2>3, <2>6, OneUpload
<1>4. ASSUME NEW f \in Frags, StoreError(p, f) \/ PrimaryError(p, f) \/ AnswerLost(p, f)
      PROVE  UploadsCounted'
  <2>1. /\ upload' = [upload EXCEPT ![p] = [upload[p] EXCEPT ![f] =
                                              [upload[p][f] EXCEPT !.pc = "error"]]]
        /\ Planned(p)
    <3>1. upload' = [upload EXCEPT ![p][f].pc = "error"]
      BY <1>4 DEF StoreError, PrimaryError, AnswerLost
    <3>2. CASE StoreError(p, f) \/ PrimaryError(p, f)
      BY <3>1, <3>2 DEF StoreError, PrimaryError, Planned
    <3>3. CASE AnswerLost(p, f)
      BY <1>0, <3>1, <3>3 DEF AnswerLost, UploadsCounted
    <3> QED BY <1>4, <3>2, <3>3
  <2> DEFINE new == [upload[p][f] EXCEPT !.pc = "error"]
  <2>2. new.pc = "error"
    BY <1>0 DEF UploadState
  <2> HIDE DEF new
  <2>3. upload' = [upload EXCEPT ![p] = [upload[p] EXCEPT ![f] = new]]
    BY <2>1 DEF new
  <2>4. \A q \in Puts, g \in Frags : upload'[q][g] = upload[q][g] \/ (q = p /\ upload'[q][g] = new)
    BY <1>0, <2>3
  <2> QED BY <1>0, <2>1, <2>2, <2>4, UploadsEnd
<1>5. ASSUME NEW f \in Frags, NEW n \in Nodes, SendReplica(p, f, n) PROVE UploadsCounted'
  <2> DEFINE new == [upload[p][f] EXCEPT !.sends = @ \ {n}, !.copies = @ + 1]
  <2>1. /\ upload' = [upload EXCEPT ![p] = [upload[p] EXCEPT ![f] = new]]
        /\ disk' = Stored(n, put[p].key, f, p) /\ put' = put
        /\ upload[p][f].pc = "fanout" /\ n \in upload[p][f].sends
    BY <1>5 DEF SendReplica
  <2>2. /\ new.pc = "fanout" /\ new.sends = upload[p][f].sends \ {n}
        /\ new.copies = upload[p][f].copies + 1
    <3>1. upload[p][f] \in UploadState
      BY <1>0
    <3> DEFINE mid == [upload[p][f] EXCEPT !.sends = @ \ {n}]
    <3>2. /\ mid.pc = "fanout" /\ mid.sends = upload[p][f].sends \ {n}
          /\ mid.copies = upload[p][f].copies /\ DOMAIN mid = DOMAIN upload[p][f]
      BY <2>1, <3>1 DEF UploadState
    <3>3. new = [mid EXCEPT !.copies = @ + 1]
      OBVIOUS
    <3>4. "copies" \in DOMAIN upload[p][f] /\ "sends" \in DOMAIN upload[p][f] /\ "pc" \in DOMAIN upload[p][f]
      BY <3>1 DEF UploadState
    <3> HIDE DEF mid, new
    <3> QED BY <3>2, <3>3, <3>4
  <2> HIDE DEF new
  <2>3. upload'[p][f] = new /\ \A q \in Puts, g \in Frags : <<q, g>> # <<p, f>> => upload'[q][g] = upload[q][g]
    BY <1>0, <2>1
  <2>4. Planned(p) /\ UploadCounted(p, f) /\ put[p].pc # "new"
    BY <1>0, <2>1 DEF UploadsCounted, Planned
  <2>5. n \in Copies(p, f)' /\ n \notin Copies(p, f)
    <3>1. n \in Range(put[p].plan[f]) /\ p # 0
      BY <2>1, <2>4 DEF UploadCounted, Puts
    <3>2. disk'[n][<<put[p].key, f>>] = p
      BY <1>0, <2>1 DEF Stored, TypeInv, TypeOK, Disks, Fragments
    <3> QED BY <2>1, <2>2, <2>3, <3>1, <3>2 DEF Copies
  <2>6. Copies(p, f) \subseteq Copies(p, f)'
    BY <2>2, <2>3, <2>4, CopiesGrow
  <2>7. Cardinality(Copies(p, f)) + 1 <= Cardinality(Copies(p, f)')
    <3>1. IsFiniteSet(Copies(p, f)) /\ Cardinality(Copies(p, f)) \in Nat
      BY CopiesFinite
    <3>2. IsFiniteSet(Copies(p, f)')
      BY <2>1, CopiesFinite, NodesAssumption, FS_Subset DEF Copies
    <3>3. Cardinality(Copies(p, f) \cup {n}) = Cardinality(Copies(p, f)) + 1
      BY <2>5, <3>1, FS_AddElement
    <3>4. Copies(p, f) \cup {n} \subseteq Copies(p, f)'
      BY <2>5, <2>6
    <3> QED BY <3>2, <3>3, <3>4, FS_Subset
  <2>8. UploadCounted(p, f)'
    <3>1. upload[p][f].copies \in Nat /\ Cardinality(Copies(p, f)) \in Nat /\ Cardinality(Copies(p, f)') \in Nat
      <4>1. IsFiniteSet(Copies(p, f)')
        BY <2>1, CopiesFinite, NodesAssumption, FS_Subset DEF Copies
      <4> QED BY <1>0, <4>1, CopiesFinite, FS_CardinalityType DEF UploadState
    <3>2. 1 <= new.copies /\ new.copies <= Cardinality(Copies(p, f)')
      BY <2>1, <2>2, <2>4, <2>7, <3>1 DEF UploadCounted
    <3>3. new.sends \subseteq Range(put'[p].plan[f])
      BY <2>1, <2>2, <2>4 DEF UploadCounted
    <3> QED BY <2>2, <2>3, <3>2, <3>3 DEF UploadCounted
  <2> QED BY <1>0, <2>3, <2>4, <2>8, OneUpload
<1>6. ASSUME NEW f \in Frags, NEW n \in Nodes, SendError(p, f, n) \/ SendLost(p, f, n)
      PROVE  UploadsCounted'
  <2> DEFINE new == [upload[p][f] EXCEPT !.sends = @ \ {n}]
  <2>1. /\ upload' = [upload EXCEPT ![p] = [upload[p] EXCEPT ![f] = new]]
        /\ upload[p][f].pc = "fanout"
    BY <1>6 DEF SendError, SendLost
  <2>2. /\ new.pc = "fanout" /\ new.sends \subseteq upload[p][f].sends
        /\ new.copies = upload[p][f].copies
    BY <1>0, <2>1 DEF UploadState
  <2> HIDE DEF new
  <2>3. upload'[p][f] = new /\ \A q \in Puts, g \in Frags : <<q, g>> # <<p, f>> => upload'[q][g] = upload[q][g]
    BY <1>0, <2>1
  <2>4. Planned(p)
    BY <1>0, <2>1 DEF UploadsCounted
  <2>5. UploadCounted(p, f)'
    BY <1>0, <2>1, <2>2, <2>3, UploadGoesOn
  <2> QED BY <1>0, <2>3, <2>4, <2>5, OneUpload
<1>7. ASSUME NEW f \in Frags, Answer(p, f) PROVE UploadsCounted'
  <2> DEFINE pc == IF QuorumReached(p, f) THEN "ok" ELSE "error"
             new == [upload[p][f] EXCEPT !.pc = pc]
  <2>1. /\ upload' = [upload EXCEPT ![p] = [upload[p] EXCEPT ![f] = new]]
        /\ upload[p][f].pc = "fanout"
    BY <1>7 DEF Answer
  <2>2. new.pc = pc /\ new.sends = upload[p][f].sends /\ new.copies = upload[p][f].copies
    BY <1>0 DEF UploadState
  <2> HIDE DEF new
  <2>3. upload'[p][f] = new /\ \A q \in Puts, g \in Frags : <<q, g>> # <<p, f>> => upload'[q][g] = upload[q][g]
    BY <1>0, <2>1
  <2>4. Planned(p)
    BY <1>0, <2>1 DEF UploadsCounted
  <2>5. UploadCounted(p, f)'
    <3>1. CASE QuorumReached(p, f)
      BY <1>0, <2>1, <2>2, <2>3, <3>1, UploadGoesOn
    <3>2. CASE ~ QuorumReached(p, f)
      BY <2>2, <2>3, <3>2 DEF UploadCounted
    <3> QED BY <3>1, <3>2
  <2> QED BY <1>0, <2>3, <2>4, <2>5, OneUpload
<1> QED BY <1>1, <1>2, <1>3, <1>4, <1>5, <1>6, <1>7 DEF ClientStep

(***************************************************************************)
(* Where the bytes on the disks come from                                  *)
(***************************************************************************)
LEMMA BytesKept ==
  ASSUME PutsKept, NEW k
  PROVE  Bytes(k) \subseteq Bytes(k)'
BY DEF PutsKept, Bytes

(* A store, whole or not, of the bytes of a put of the key.                *)
LEMMA StoredBytes ==
  ASSUME TypeInv, DisksFromPuts, PutsKept,
         NEW n \in Nodes, NEW k \in Keys, NEW f \in Frags, NEW d \in Bytes(k),
         disk' \in {disk, Stored(n, k, f, d), Stored(n, k, f, Torn)}
  PROVE  \A m \in Nodes, j \in Keys, g \in Frags : disk'[m][<<j, g>>] \in Bytes(j)'
<1> SUFFICES ASSUME NEW m \in Nodes, NEW j \in Keys, NEW g \in Frags
             PROVE  disk'[m][<<j, g>>] \in Bytes(j)
  BY BytesKept
<1>1. disk \in Disks
  BY DEF TypeInv, TypeOK
<1>2. ASSUME NEW e \in Bytes(k), disk' = Stored(n, k, f, e) PROVE disk'[m][<<j, g>>] \in Bytes(j)
  <2>1. disk' = [disk EXCEPT ![n] = [disk[n] EXCEPT ![<<k, f>>] = e]]
    BY <1>2 DEF Stored
  <2>2. disk'[m][<<j, g>>] = disk[m][<<j, g>>] \/ (disk'[m][<<j, g>>] = e /\ j = k)
    BY <1>1, <2>1 DEF Disks, Fragments
  <2> QED BY <1>2, <2>2 DEF DisksFromPuts
<1>3. Torn \in Bytes(k)
  BY DEF Bytes
<1>4. CASE disk' = disk
  BY <1>4 DEF DisksFromPuts
<1> QED BY <1>2, <1>3, <1>4

LEMMA DisksSame ==
  ASSUME DisksFromPuts, PutsKept, disk' = disk
  PROVE  \A m \in Nodes, j \in Keys, g \in Frags : disk'[m][<<j, g>>] \in Bytes(j)'
BY BytesKept DEF DisksFromPuts

LEMMA JobBytesSame ==
  ASSUME DisksFromPuts, PutsKept,
         \A w \in Workers : wpc'[w] = "store" =>
           wpc[w] = "store" /\ wjob'[w].data = wjob[w].data /\ wjob'[w].key = wjob[w].key
  PROVE  \A w \in Workers, k \in Keys :
          wpc'[w] = "store" /\ wjob'[w].key = k => wjob'[w].data \in Bytes(k)'
BY BytesKept DEF DisksFromPuts

(* A client's bytes are its own.                                           *)
LEMMA ClientDisks ==
  ASSUME TypeInv, ReadsInv, PutsKept, NEW p \in Puts, ClientStep(p)
  PROVE  DisksFromPuts'
<1>0. put[p].key \in Keys /\ DisksFromPuts
  BY DEF TypeInv, TypeOK, PutState, ReadsInv
<1>1. UNCHANGED <<wpc, wjob>>
  BY DEF ClientStep, Prepare, Plan, PlanError, StorePrimary, StoreError, PrimaryError,
         Answer, AnswerLost, SendReplica, SendError, SendLost, Abort, Commit, CommitError, workerVars
<1>2. \A w \in Workers, k \in Keys :
          wpc'[w] = "store" /\ wjob'[w].key = k => wjob'[w].data \in Bytes(k)'
  BY <1>0, <1>1, JobBytesSame
<1>3. CASE disk' = disk
  BY <1>0, <1>2, <1>3, DisksSame DEF DisksFromPuts
<1>4. ASSUME put[p].pc # "new" PROVE p \in Bytes(put[p].key)
  BY <1>4 DEF Bytes
<1>5. ASSUME NEW f \in Frags, StorePrimary(p, f) \/ StoreError(p, f) PROVE DisksFromPuts'
  <2>1. put[p].pc # "new" /\ Primary(p, f) \in Nodes
    BY <1>5 DEF StorePrimary, StoreError, TypeInv, TypeOK
  <2>2. disk' \in {disk, Stored(Primary(p, f), put[p].key, f, p),
                   Stored(Primary(p, f), put[p].key, f, Torn)}
    BY <1>5 DEF StorePrimary, StoreError, NotStored
  <2> QED BY <1>0, <1>2, <1>4, <2>1, <2>2, StoredBytes DEF DisksFromPuts
<1>6. ASSUME NEW f \in Frags, NEW n \in Nodes, SendReplica(p, f, n) \/ SendLost(p, f, n)
      PROVE  DisksFromPuts'
  <2>1. put[p].pc # "new"
    BY <1>6 DEF SendReplica, SendLost, ReadsInv, UploadsCounted, Planned
  <2>2. disk' \in {disk, Stored(n, put[p].key, f, p), Stored(n, put[p].key, f, Torn)}
    BY <1>6 DEF SendReplica, SendLost, StoredOrNot, NotStored
  <2> QED BY <1>0, <1>2, <1>4, <2>1, <2>2, StoredBytes DEF DisksFromPuts
<1>7. ASSUME \/ Prepare(p) \/ Plan(p) \/ PlanError(p) \/ Abort(p) \/ Commit(p) \/ CommitError(p)
             \/ \E f \in Frags :
                  \/ PrimaryError(p, f) \/ Answer(p, f) \/ AnswerLost(p, f)
                  \/ \E n \in Nodes : SendError(p, f, n)
      PROVE  disk' = disk
  BY <1>7 DEF Prepare, Plan, PlanError, Abort, Commit, CommitError, PrimaryError, Answer,
              AnswerLost, SendError, storageVars
<1> QED BY <1>3, <1>5, <1>6, <1>7 DEF ClientStep

(* A crash leaves the disks and the bytes that are being copied.           *)
LEMMA CrashDisks ==
  ASSUME TypeInv, DisksFromPuts, PutsKept, NEW n \in Nodes, Crash(n)
  PROVE  DisksFromPuts'
<1>1. disk' = disk
  BY DEF Crash
<1>2. \A w \in Workers : wpc'[w] = "store" =>
        wpc[w] = "store" /\ wjob'[w].data = wjob[w].data /\ wjob'[w].key = wjob[w].key
  <2>1. \A w \in Workers : wpc[w] = "store" => wjob[w] \in Job
    BY DEF TypeInv, WorkersBusy
  <2> QED BY <2>1 DEF Crash, Job
<1> QED BY <1>1, <1>2, DisksSame, JobBytesSame DEF DisksFromPuts

LEMMA CutDisks ==
  ASSUME TypeInv, DisksFromPuts, PutsKept, CutStep
  PROVE  DisksFromPuts'
<1>1. PICK n \in Nodes, k \in Keys, f \in Frags : CutFile(n, k, f)
  BY DEF CutStep
<1>2. disk' = Stored(n, k, f, Torn) /\ UNCHANGED <<wpc, wjob>>
  BY <1>1 DEF CutFile, workerVars
<1>3. 0 \in Bytes(k)
  BY DEF Bytes
<1> QED BY <1>2, <1>3, StoredBytes, JobBytesSame DEF DisksFromPuts

(* A repair copy stores what its source had.                               *)
LEMMA CopyDisks ==
  ASSUME TypeInv, TypeInv', DisksFromPuts, PutsKept, NEW w \in Workers, CopyStep(w)
  PROVE  DisksFromPuts'
<1> DEFINE job == wjob[w]
<1>0. /\ job \in Job /\ job.key \in Keys /\ job.frag \in Frags /\ wpc[w] \in {"copy", "store"}
      /\ \A v \in Workers \ {w} : wpc'[v] = wpc[v] /\ wjob'[v] = wjob[v]
  <2>1. wpc[w] \in {"copy", "store"}
    BY DEF CopyStep, CopyFetch, CopyError, CopyStore, CopyLost, CopyBroken
  <2>2. job \in Job
    BY <2>1 DEF TypeInv, WorkersBusy
  <2>3. \A v \in Workers \ {w} : wpc'[v] = wpc[v] /\ wjob'[v] = wjob[v]
    BY DEF CopyStep, CopyFetch, CopyError, CopyStore, CopyLost, CopyBroken, TypeInv, TypeOK
  <2> QED BY <2>1, <2>2, <2>3 DEF Job
<1>1. ASSUME wpc'[w] # "store"
      PROVE  \A v \in Workers, k \in Keys :
               wpc'[v] = "store" /\ wjob'[v].key = k => wjob'[v].data \in Bytes(k)'
  BY <1>0, <1>1, JobBytesSame
<1>2. ASSUME NEW t \in Nodes, CopyFetch(w, t) PROVE DisksFromPuts'
  <2>1. disk' = disk /\ job.source \in Nodes
    BY <1>2 DEF CopyFetch, CanCopy, storageVars, TypeInv, TypeOK
  <2>2. /\ wjob'[w].data = disk[job.source][<<job.key, job.frag>>]
        /\ wjob'[w].key = job.key
    <3>1. wjob'[w] = [Tried(w, t) EXCEPT !.target = t, !.data = disk[job.source][<<job.key, job.frag>>]]
      BY <1>0, <1>2 DEF CopyFetch, TypeInv, TypeOK
    <3>2. Tried(w, t).key = job.key /\ DOMAIN Tried(w, t) = DOMAIN job
          /\ "data" \in DOMAIN job /\ "key" \in DOMAIN job
      BY <1>0 DEF Tried, Job
    <3> HIDE DEF job
    <3> QED BY <3>1, <3>2
  <2>3. wjob'[w].data \in Bytes(job.key)
    BY <1>0, <2>1, <2>2 DEF DisksFromPuts
  <2>4. \A v \in Workers, k \in Keys :
          wpc'[v] = "store" /\ wjob'[v].key = k => wjob'[v].data \in Bytes(k)
    BY <1>0, <2>2, <2>3 DEF DisksFromPuts
  <2>5. \A v \in Workers, k \in Keys :
               wpc'[v] = "store" /\ wjob'[v].key = k => wjob'[v].data \in Bytes(k)'
    BY <2>4, BytesKept
  <2> QED BY <2>1, <2>5, DisksSame DEF DisksFromPuts
<1>3. ASSUME CopyBroken(w) \/ \E t \in Nodes : CopyError(w, t) PROVE DisksFromPuts'
  <2>1. disk' = disk /\ wpc'[w] # "store"
    BY <1>3 DEF CopyBroken, CopyError, storageVars, TypeInv, TypeOK
  <2> QED BY <1>1, <2>1, DisksSame DEF DisksFromPuts
<1>4. ASSUME CopyStore(w) \/ CopyLost(w) PROVE DisksFromPuts'
  <2>1. wpc[w] = "store" /\ wpc'[w] # "store" /\ job.target \in Nodes
    BY <1>0, <1>4 DEF CopyStore, CopyLost, TypeInv, TypeOK, Job
  <2>2. disk' \in {disk, Stored(job.target, job.key, job.frag, job.data),
                   Stored(job.target, job.key, job.frag, Torn)}
    BY <1>4 DEF CopyStore, CopyLost, StoredOrNot, NotStored
  <2>3. job.data \in Bytes(job.key)
    BY <1>0, <2>1 DEF DisksFromPuts
  <2> QED BY <1>0, <1>1, <2>1, <2>2, <2>3, StoredBytes DEF DisksFromPuts
<1> QED BY <1>2, <1>3, <1>4 DEF CopyStep

LEMMA DisksStay ==
  ASSUME TypeInv, TypeInv', ReadsInv, PutsKept, [Next]_vars
  PROVE  DisksFromPuts'
<1>0. DisksFromPuts
  BY DEF ReadsInv
<1>1. CASE /\ disk' = disk
           /\ \A w \in Workers : wpc'[w] = "store" => wpc[w] = "store" /\ wjob'[w] = wjob[w]
  BY <1>0, <1>1, DisksSame, JobBytesSame DEF DisksFromPuts
<1>2. ASSUME \/ \E k \in Keys : Delete(k)
             \/ \E w \in Workers : UpdateFragmentNodes(w)
             \/ Quiet
      PROVE  /\ disk' = disk
             /\ \A w \in Workers : wpc'[w] = "store" => wpc[w] = "store" /\ wjob'[w] = wjob[w]
  <2>1. ASSUME NEW w \in Workers, UpdateFragmentNodes(w)
        PROVE  /\ disk' = disk
               /\ \A v \in Workers : wpc'[v] = "store" => wpc[v] = "store" /\ wjob'[v] = wjob[v]
    BY <2>1 DEF UpdateFragmentNodes, FragmentDone, storageVars, TypeInv, TypeOK
  <2> QED BY <1>2, <2>1 DEF Delete, Quiet, storageVars, workerVars
<1> QED BY <1>0, <1>1, <1>2, StepCases, ClientDisks, CrashDisks, CutDisks, CopyDisks

(***************************************************************************)
(* Plans                                                                   *)
(***************************************************************************)

(* The placer finds a node when one of the nodes it ranks is there.        *)
LEMMA PlaceNonEmpty ==
  ASSUME NEW S, NEW ranking \in Seq(S), NEW present, NEW n \in Nat \ {0},
         Range(ranking) \cap present # {}
  PROVE  Place(ranking, present, n) # << >>
<1> DEFINE ids == FilterLive(ranking, present)
<1>1. ids \in Seq(S) /\ Range(ids) # {}
  BY FilterLiveProperties
<1> HIDE DEF ids
<1>2. Len(ids) \in Nat /\ Len(ids) # 0
  BY <1>1 DEF Range
<1>3. Len(Truncate(ids, n)) >= 1
  BY <1>1, <1>2 DEF Truncate
<1> QED BY <1>3 DEF Place, ids

LEMMA PlansStay ==
  ASSUME TypeInv, PlansNonEmpty, PutsKept, [Next]_vars
  PROVE  PlansNonEmpty'
<1>0. put \in [Puts -> PutState]
  BY DEF TypeInv, TypeOK
<1>1. CASE \A q \in Puts : put[q].pc = "new" => put'[q].pc = "new"
  BY <1>1 DEF PlansNonEmpty, PutsKept
<1>2. ASSUME NEW p \in Puts, Prepare(p) PROVE PlansNonEmpty'
  <2>1. PICK plan \in [Frags -> UNION {Placements(put[p].key, f, Up) : f \in Frags}] :
          /\ \A f \in Frags : plan[f] \in Placements(put[p].key, f, Up)
          /\ put' = [put EXCEPT ![p].pc = "planned", ![p].plan = plan]
    BY <1>2 DEF Prepare
  <2>2. \A q \in Puts : IF q = p THEN put'[q].plan = plan ELSE put'[q] = put[q]
    BY <1>0, <2>1 DEF PutState
  <2>3. ASSUME NEW f \in Frags PROVE plan[f] # << >>
    <3>1. PICK ranking \in Rankings[<<put[p].key, f>>] :
            plan[f] = Place(ranking, Up, ReplicationFactor)
      BY <2>1 DEF Placements
    <3>2. ranking \in Seq(Nodes) /\ Range(ranking) = Nodes
      <4>1. <<put[p].key, f>> \in Fragments
        BY <1>0 DEF Fragments, PutState
      <4> QED BY <3>1, <4>1, RankingAssumption
    <3>3. Range(ranking) \cap Up # {}
      BY <1>2, <3>2 DEF Prepare, Up
    <3> QED BY <3>1, <3>2, <3>3, SizesAssumption, PlaceNonEmpty
  <2> QED BY <2>2, <2>3 DEF PlansNonEmpty
<1>3. ASSUME NEW p \in Puts, ClientStep(p), ~ Prepare(p)
      PROVE  \A q \in Puts : put[q].pc = "new" => put'[q].pc = "new"
  <2>1. CASE Plan(p) \/ PlanError(p) \/ Abort(p) \/ Commit(p) \/ CommitError(p)
    <3>1. put[p].pc # "new" /\ \E pc : put' = [put EXCEPT ![p].pc = pc]
      BY <2>1 DEF Plan, PlanError, Abort, Commit, CommitError
    <3> QED BY <1>0, <3>1
  <2>2. ASSUME NEW f \in Frags,
               \/ StorePrimary(p, f) \/ StoreError(p, f) \/ PrimaryError(p, f)
               \/ Answer(p, f) \/ AnswerLost(p, f)
               \/ \E n \in Nodes : SendReplica(p, f, n) \/ SendError(p, f, n) \/ SendLost(p, f, n)
        PROVE  put' = put
    BY <2>2 DEF StorePrimary, StoreError, PrimaryError, Answer, AnswerLost, SendReplica,
                SendError, SendLost
  <2> QED BY <1>3, <2>1, <2>2 DEF ClientStep
<1> QED BY <1>1, <1>2, <1>3, StepCases, OthersKeepPuts

(***************************************************************************)
(* Catalogue entries                                                       *)
(***************************************************************************)

(* An upload that was acknowledged stays so.                               *)
UploadsKept ==
  \A p \in Puts, f \in Frags : upload[p][f].pc = "ok" => upload'[p][f].pc = "ok"

LEMMA UploadsStay == ASSUME TypeInv, [Next]_vars PROVE UploadsKept
<1>0. upload \in [Puts -> [Frags -> UploadState]]
  BY DEF TypeInv, TypeOK
<1>1. CASE upload' = upload
  BY <1>1 DEF UploadsKept
<1>2. ASSUME NEW p \in Puts, NEW f \in Frags, upload[p][f].pc # "ok",
             \A q \in Puts, g \in Frags : <<q, g>> # <<p, f>> => upload'[q][g] = upload[q][g]
      PROVE  UploadsKept
  <2>1. ASSUME NEW q \in Puts, NEW g \in Frags, upload[q][g].pc = "ok"
        PROVE  upload'[q][g] = upload[q][g]
    BY <1>2, <2>1
  <2> QED BY <2>1 DEF UploadsKept
<1>3. ASSUME NEW p \in Puts, NEW f \in Frags,
             \/ StorePrimary(p, f) \/ StoreError(p, f) \/ PrimaryError(p, f)
             \/ Answer(p, f) \/ AnswerLost(p, f)
             \/ \E n \in Nodes : SendReplica(p, f, n) \/ SendError(p, f, n) \/ SendLost(p, f, n)
      PROVE  UploadsKept
  <2>1. /\ upload[p][f].pc # "ok"
        /\ \E u : upload' = [upload EXCEPT ![p] = [upload[p] EXCEPT ![f] = u]]
    <3>1. CASE StorePrimary(p, f)
      BY <3>1 DEF StorePrimary
    <3>2. CASE StoreError(p, f) \/ PrimaryError(p, f) \/ Answer(p, f) \/ AnswerLost(p, f)
      BY <3>2 DEF StoreError, PrimaryError, Answer, AnswerLost
    <3>3. ASSUME NEW n \in Nodes, SendReplica(p, f, n)
          PROVE  /\ upload[p][f].pc # "ok"
                 /\ \E u : upload' = [upload EXCEPT ![p] = [upload[p] EXCEPT ![f] = u]]
      <4> DEFINE new == [upload[p][f] EXCEPT !.sends = @ \ {n}, !.copies = @ + 1]
      <4>1. upload' = [upload EXCEPT ![p] = [upload[p] EXCEPT ![f] = new]]
        BY <3>3 DEF SendReplica
      <4> HIDE DEF new
      <4> QED BY <3>3, <4>1 DEF SendReplica
    <3>4. ASSUME NEW n \in Nodes, SendError(p, f, n) \/ SendLost(p, f, n)
          PROVE  /\ upload[p][f].pc # "ok"
                 /\ \E u : upload' = [upload EXCEPT ![p] = [upload[p] EXCEPT ![f] = u]]
      BY <3>4 DEF SendError, SendLost
    <3> QED BY <1>3, <3>1, <3>2, <3>3, <3>4
  <2>2. \A q \in Puts, g \in Frags : <<q, g>> # <<p, f>> => upload'[q][g] = upload[q][g]
    BY <1>0, <2>1
  <2> QED BY <1>2, <2>1, <2>2
<1>4. ASSUME NEW n \in Nodes, Crash(n) PROVE UploadsKept
  BY <1>4 DEF Crash, UploadsKept
<1>5. ASSUME NEW p \in Puts, ClientStep(p)
      PROVE  UploadsKept
  <2>1. ASSUME Prepare(p) \/ Plan(p) \/ PlanError(p) \/ Abort(p) \/ Commit(p) \/ CommitError(p)
        PROVE  upload' = upload
    BY <2>1 DEF Prepare, Plan, PlanError, Abort, Commit, CommitError
  <2> QED BY <1>1, <1>3, <1>5, <2>1 DEF ClientStep
<1>6. ASSUME \/ \E k \in Keys : Delete(k)
             \/ CutStep
             \/ \E w \in Workers : CopyStep(w) \/ UpdateFragmentNodes(w)
             \/ Quiet
      PROVE  upload' = upload
  BY <1>6 DEF Delete, CutStep, CutFile, CopyStep, CopyFetch, CopyError, CopyStore, CopyLost, CopyBroken,
              UpdateFragmentNodes, Quiet, clientVars
<1> QED BY <1>1, <1>4, <1>5, <1>6, StepCases

(* An entry that was there before, as the same put planned it; a commit    *)
(* comes from a put of the key whose uploads have all been acknowledged.   *)
EntryGoesOn(k) ==
  /\ Present(k)
  /\ keys'[k].put = keys[k].put /\ keys'[k].addrs = keys[k].addrs
  /\ \/ keys'[k].committed = keys[k].committed
     \/ \E q \in Puts : /\ put[q].key = k /\ put[q].pc = "upload"
                        /\ \A f \in Frags : upload[q][f].pc = "ok"

(* An entry that a put has brought in this step.                           *)
EntryIsNew(k) ==
  \E p \in Puts :
    /\ put[p].key = k /\ put[p].pc # "new" /\ Planned(p)'
    /\ keys'[k].put = p /\ keys'[k].addrs = put[p].plan
    /\ keys'[k].committed = FALSE

LEMMA EntriesGoOn ==
  ASSUME TypeInv, TypeInv', ReadsInv, PutsKept, UploadsKept,
         \A k \in Keys : Present(k)' => EntryGoesOn(k) \/ EntryIsNew(k)
  PROVE  EntriesPlanned' /\ CommittedUploaded'
<1> SUFFICES ASSUME NEW k \in Keys, Present(k)'
             PROVE  /\ /\ Planned(keys[k].put)' /\ put'[keys'[k].put].key = k
                       /\ keys'[k].addrs = put'[keys'[k].put].plan
                    /\ keys'[k].committed /\ WriteOnce(k)' =>
                         \A f \in Frags : upload'[keys'[k].put][f].pc = "ok"
  BY DEF EntriesPlanned, CommittedUploaded
<1>1. WriteOnce(k)' => WriteOnce(k)
  BY DEF WriteOnce, PutsKept
<1>2. CASE EntryIsNew(k)
  <2>1. PICK p \in Puts :
          /\ put[p].key = k /\ put[p].pc # "new" /\ Planned(p)'
          /\ keys'[k].put = p /\ keys'[k].addrs = put[p].plan
          /\ keys'[k].committed = FALSE
    BY <1>2 DEF EntryIsNew
  <2>2. put'[p].key = k /\ put'[p].plan = put[p].plan /\ put'[p].pc \notin {"new", "planned"}
    BY <2>1 DEF PutsKept, Planned
  <2> QED BY <2>1, <2>2 DEF Planned
<1>3. CASE EntryGoesOn(k)
  <2> DEFINE p == keys[k].put
  <2>1. p \in Puts /\ keys'[k].put = p /\ keys'[k].addrs = keys[k].addrs
    BY <1>3 DEF EntryGoesOn, Present, TypeInv, TypeOK, Entry
  <2>2. Planned(p) /\ put[p].key = k /\ keys[k].addrs = put[p].plan
    BY <1>3 DEF EntryGoesOn, ReadsInv, EntriesPlanned
  <2>3. put'[p].key = k /\ put'[p].plan = put[p].plan /\ put'[p].pc \notin {"new", "planned"}
    BY <2>1, <2>2 DEF PutsKept, Planned
  <2>4. ASSUME keys'[k].committed, WriteOnce(k)', NEW f \in Frags PROVE upload'[p][f].pc = "ok"
    <3>1. CASE keys'[k].committed = keys[k].committed
      BY <1>1, <1>3, <2>1, <2>4, <3>1 DEF EntryGoesOn, ReadsInv, CommittedUploaded, UploadsKept
    <3>2. CASE \E q \in Puts : /\ put[q].key = k /\ put[q].pc = "upload"
                               /\ \A g \in Frags : upload[q][g].pc = "ok"
      <4>1. PICK q \in Puts : /\ put[q].key = k /\ put[q].pc = "upload"
                              /\ \A g \in Frags : upload[q][g].pc = "ok"
        BY <3>2
      <4>2. q = p
        BY <1>1, <2>1, <2>2, <2>4, <4>1 DEF WriteOnce, Planned
      <4> QED BY <2>1, <4>1, <4>2 DEF UploadsKept
    <3> QED BY <1>3, <3>1, <3>2 DEF EntryGoesOn
  <2> HIDE DEF p
  <2> QED BY <2>1, <2>2, <2>3, <2>4 DEF Planned
<1> QED BY <1>2, <1>3

LEMMA ClientEntries ==
  ASSUME TypeInv, TypeInv', NEW p \in Puts, ClientStep(p)
  PROVE  \A k \in Keys : Present(k)' => EntryGoesOn(k) \/ EntryIsNew(k)
<1>0. /\ put \in [Puts -> PutState] /\ put[p] \in PutState /\ put[p].key \in Keys
      /\ keys \in KeysType
  BY DEF TypeInv, TypeOK, PutState, KeysType
<1>1. CASE keys' = keys
  BY <1>1 DEF Present, EntryGoesOn
<1>2. CASE Plan(p) \/ PlanError(p)
  <2>1. /\ put[p].pc # "new" /\ put'[p].pc \notin {"new", "planned"}
        /\ keys' = keys \/ keys' = Catalog!PutKey(keys, put[p].key, NewEntry(p))
    <3>1. keys' = keys \/ keys' = Catalog!PutKey(keys, put[p].key, NewEntry(p))
      BY <1>2 DEF Plan, PlanError
    <3>2. put[p].pc = "planned" /\ \E pc \in {"upload", "failed"} : put' = [put EXCEPT ![p].pc = pc]
      BY <1>2 DEF Plan, PlanError
    <3> QED BY <1>0, <3>1, <3>2 DEF PutState
  <2>2. CASE keys' = Catalog!PutKey(keys, put[p].key, NewEntry(p))
    <3>1. \A k \in Keys : keys'[k] = IF k = put[p].key THEN NewEntry(p) ELSE keys[k]
      BY <1>0, <2>2 DEF Catalog!PutKey, KeysType
    <3>2. NewEntry(p).put = p /\ NewEntry(p).addrs = put[p].plan /\ NewEntry(p).committed = FALSE
      BY DEF NewEntry
    <3> HIDE DEF NewEntry
    <3>3. EntryIsNew(put[p].key)
      BY <1>0, <2>1, <3>1, <3>2 DEF EntryIsNew, Planned
    <3>4. \A k \in Keys : k # put[p].key /\ Present(k)' => EntryGoesOn(k)
      BY <3>1 DEF Present, EntryGoesOn
    <3> QED BY <3>3, <3>4
  <2> QED BY <1>1, <2>1, <2>2
<1>3. CASE Commit(p) \/ CommitError(p)
  <2>1. /\ put[p].pc = "upload" /\ \A f \in Frags : upload[p][f].pc = "ok"
        /\ keys' = keys \/ keys' = Catalog!CommitKey(keys, put[p].key)
    BY <1>3 DEF Commit, CommitError
  <2>2. CASE keys' = Catalog!CommitKey(keys, put[p].key)
    <3>1. CASE keys[put[p].key] = Absent
      BY <1>1, <2>2, <3>1 DEF Catalog!CommitKey
    <3>2. CASE keys[put[p].key] # Absent
      <4> DEFINE new == [keys[put[p].key] EXCEPT !.committed = TRUE]
      <4>1. new.put = keys[put[p].key].put /\ new.addrs = keys[put[p].key].addrs
        BY <1>0, <3>2 DEF KeysType, Entry
      <4>2. keys' = [keys EXCEPT ![put[p].key] = new]
        BY <2>2, <3>2 DEF Catalog!CommitKey
      <4> HIDE DEF new
      <4>3. \A k \in Keys : keys'[k] = IF k = put[p].key THEN new ELSE keys[k]
        BY <1>0, <4>2 DEF KeysType
      <4> QED BY <2>1, <3>2, <4>1, <4>3 DEF Present, EntryGoesOn
    <3> QED BY <3>1, <3>2
  <2> QED BY <1>1, <2>1, <2>2
<1>4. ASSUME ~ Plan(p), ~ PlanError(p), ~ Commit(p), ~ CommitError(p) PROVE keys' = keys
  BY <1>4 DEF ClientStep, Prepare, StorePrimary, StoreError, PrimaryError, Answer, AnswerLost,
              SendReplica, SendError, SendLost, Abort, catalogVars
<1> QED BY <1>1, <1>2, <1>3, <1>4

LEMMA EntriesStay ==
  ASSUME TypeInv, TypeInv', ReadsInv, PutsKept, UploadsKept, [Next]_vars
  PROVE  EntriesPlanned' /\ CommittedUploaded'
<1>0. keys \in KeysType
  BY DEF TypeInv, TypeOK, KeysType
<1>1. CASE keys' = keys
  <2>1. \A k \in Keys : Present(k)' => EntryGoesOn(k)
    BY <1>1 DEF Present, EntryGoesOn
  <2> QED BY <2>1, EntriesGoOn
<1>2. ASSUME NEW k \in Keys, Delete(k) PROVE EntriesPlanned' /\ CommittedUploaded'
  <2>1. \A j \in Keys : Present(j)' => EntryGoesOn(j)
    BY <1>0, <1>2 DEF Delete, Catalog!DeleteKey, KeysType, Present, EntryGoesOn
  <2> QED BY <2>1, EntriesGoOn
<1>3. ASSUME NEW w \in Workers, UpdateFragmentNodes(w)
      PROVE  EntriesPlanned' /\ CommittedUploaded'
  <2> DEFINE k == wjob[w].key  f == wjob[w].frag
             new == [keys[k] EXCEPT !.ids = [keys[k].ids EXCEPT ![f] = NewList(w)]]
  <2>1. keys' = Catalog!UpdateFragment(keys, k, f, NewList(w))
    BY <1>3 DEF UpdateFragmentNodes
  <2>2. CASE keys[k] = Absent
    BY <1>1, <2>1, <2>2 DEF Catalog!UpdateFragment
  <2>3. CASE keys[k] # Absent
    <3>1. k \in Keys
      BY <1>3 DEF UpdateFragmentNodes, TypeInv, WorkersBusy, Job
    <3>2. new.put = keys[k].put /\ new.addrs = keys[k].addrs /\ new.committed = keys[k].committed
      BY <1>0, <2>3, <3>1 DEF KeysType, Entry
    <3>3. keys' = [keys EXCEPT ![k] = new]
      BY <2>1, <2>3 DEF Catalog!UpdateFragment
    <3> HIDE DEF new
    <3>4. \A j \in Keys : keys'[j] = IF j = k THEN new ELSE keys[j]
      BY <1>0, <3>3 DEF KeysType
    <3>5. \A j \in Keys : Present(j)' => EntryGoesOn(j)
      BY <2>3, <3>2, <3>4 DEF Present, EntryGoesOn
    <3> QED BY <3>5, EntriesGoOn
  <2> QED BY <2>2, <2>3
<1>4. ASSUME \/ \E n \in Nodes : Crash(n)
             \/ CutStep
             \/ \E w \in Workers : CopyStep(w)
             \/ Quiet
      PROVE  keys' = keys
  BY <1>4 DEF Crash, CutStep, CutFile, CopyStep, CopyFetch, CopyError, CopyStore, CopyLost, CopyBroken, Quiet,
              catalogVars
<1> QED BY <1>1, <1>2, <1>3, <1>4, StepCases, ClientEntries, EntriesGoOn

(***************************************************************************)
(* The invariant, and what it says about a get                             *)
(***************************************************************************)
LEMMA InitReads == Init => ReadsInv
<1> SUFFICES ASSUME Init PROVE ReadsInv
  OBVIOUS
<1>1. DisksFromPuts
  BY DEF Init, DisksFromPuts, Bytes, Fragments
<1>2. \A p \in Puts : put[p].pc = "new"
  BY DEF Init
<1>3. \A p \in Puts, f \in Frags : upload[p][f].pc = "new"
  BY DEF Init
<1>4. \A k \in Keys : ~ Present(k)
  BY DEF Init, Present
<1> QED BY <1>1, <1>2, <1>3, <1>4
        DEF ReadsInv, PlansNonEmpty, UploadsCounted, UploadCounted, EntriesPlanned, CommittedUploaded

LEMMA NextReads ==
  TypeInv /\ TypeInv' /\ ListInv /\ BackedInv /\ ReadsInv /\ [Next]_vars => ReadsInv'
<1> SUFFICES ASSUME TypeInv, TypeInv', ListInv, BackedInv, ReadsInv, [Next]_vars
             PROVE  ReadsInv'
  OBVIOUS
<1>1. DisksGrow /\ PutsKept /\ UploadsKept
  BY NothingLost, PutsStay, UploadsStay
<1>2. DisksFromPuts' /\ PlansNonEmpty'
  BY <1>1, DisksStay, PlansStay DEF ReadsInv
<1>3. EntriesPlanned' /\ CommittedUploaded'
  BY <1>1, EntriesStay
<1>4. UploadsCounted'
  <2>1. CASE \E p \in Puts : ClientStep(p)
    BY <1>1, <2>1, ClientUploads DEF ListInv
  <2>2. CASE \E n \in Nodes : Crash(n)
    <3>1. \A p \in Puts, f \in Frags : upload[p][f] \in UploadState
      BY DEF TypeInv, TypeOK
    <3>2. ASSUME NEW p \in Puts, NEW f \in Frags
          PROVE  \/ upload'[p][f] = upload[p][f]
                 \/ upload'[p][f].pc = "error" /\ Planned(p)
      <4>1. \/ upload'[p][f] = upload[p][f]
            \/ /\ upload[p][f].pc = "fanout"
               /\ upload'[p][f] = [upload[p][f] EXCEPT !.pc = "error"]
        BY <2>2 DEF Crash
      <4> QED BY <3>1, <4>1 DEF UploadState, ReadsInv, UploadsCounted
    <3> QED BY <1>1, <3>2, UploadsEnd DEF ReadsInv
  <2>3. CASE upload' = upload
    BY <1>1, <2>3, UploadsEnd DEF ReadsInv
  <2>4. ASSUME \/ \E k \in Keys : Delete(k)
               \/ CutStep
               \/ \E w \in Workers : CopyStep(w) \/ UpdateFragmentNodes(w)
               \/ Quiet
        PROVE  upload' = upload
    BY <2>4 DEF Delete, CutStep, CutFile, CopyStep, CopyFetch, CopyError, CopyStore, CopyLost, CopyBroken,
                UpdateFragmentNodes, Quiet, clientVars
  <2> QED BY <2>1, <2>2, <2>3, <2>4, StepCases
<1> QED BY <1>2, <1>3, <1>4 DEF ReadsInv

(* The nodes of a fragment that a get asks, and those that cannot send it. *)
Asked(k, f) == Range(keys[k].addrs[f])
Broken(k, f) == {n \in Asked(k, f) : n \notin alive \/ disk[n][<<k, f>>] = Torn}

(* Fewer are broken than the quorum, or than all, so than have been counted.*)
LEMMA QuorumOutnumbers ==
  ASSUME NEW asked \in Nat, NEW broken \in Nat, NEW counted \in Nat, NEW copies \in Nat,
         NEW quorum \in Nat,
         broken < (IF asked < quorum THEN asked ELSE quorum),
         1 <= counted, counted <= copies, quorum <= counted \/ asked <= 1
  PROVE  broken < copies
OBVIOUS

(* Of the nodes the plan names, more hold something than are broken: one   *)
(* answers with a whole fragment, and whoever answers has the same bytes.  *)
LEMMA QuorumIsRead ==
  ASSUME TypeInv, ReadsInv, NEW p \in Puts, NEW k, k = put[p].key, Present(k), WriteOnce(k),
         put[p].pc # "new", keys[k].committed, NEW f \in Frags,
         Cardinality(Broken(k, f)) < (IF Cardinality(Asked(k, f)) < WriteQuorum
                                      THEN Cardinality(Asked(k, f)) ELSE WriteQuorum)
  PROVE  Download(k, f) = p
<1> DEFINE addrs == Asked(k, f)
           broken == Broken(k, f)
<1>0. /\ k \in Keys /\ put[p].plan[f] \in Seq(Nodes) /\ addrs \subseteq Nodes
      /\ keys[k].put = p /\ keys[k].addrs = put[p].plan /\ upload[p][f].pc = "ok"
      /\ addrs = Range(put[p].plan[f])
  <2>1. k \in Keys /\ put[p].plan[f] \in Seq(Nodes)
    BY DEF TypeInv, TypeOK, PutState, Lists
  <2>2. keys[k].put \in Puts
    BY <2>1 DEF Present, TypeInv, TypeOK, Entry
  <2>3. keys[k].put = p /\ keys[k].addrs = put[p].plan
    BY <2>1, <2>2 DEF ReadsInv, EntriesPlanned, Planned, WriteOnce
  <2>4. upload[p][f].pc = "ok"
    BY <2>1, <2>3 DEF ReadsInv, CommittedUploaded
  <2>5. addrs = Range(put[p].plan[f]) /\ addrs \subseteq Nodes
    BY <2>3, CopiesFinite DEF Asked
  <2> QED BY <2>1, <2>3, <2>4, <2>5
<1>1. \A n \in Nodes : disk[n][<<k, f>>] \in {0, Torn, p}
  BY <1>0 DEF ReadsInv, DisksFromPuts, Bytes, WriteOnce
<1> HIDE DEF addrs, broken
<1>2. /\ IsFiniteSet(addrs) /\ IsFiniteSet(broken)
      /\ Cardinality(addrs) \in Nat /\ Cardinality(broken) \in Nat
  <2>1. broken \subseteq addrs
    BY DEF broken, addrs, Broken
  <2> QED BY <1>0, <2>1, NodesAssumption, FS_Subset, FS_CardinalityType
<1>3. Copies(p, f) \subseteq addrs /\ Cardinality(Copies(p, f)) \in Nat
  BY <1>0, CopiesFinite DEF Copies
<1>4. /\ 1 <= upload[p][f].copies /\ upload[p][f].copies <= Cardinality(Copies(p, f))
      /\ upload[p][f].copies \in Nat
      /\ Replicas(p, f) = {} \/ WriteQuorum <= upload[p][f].copies
  <2>1. upload[p][f] \in UploadState /\ WriteQuorum \in Nat
    BY SizesAssumption DEF TypeInv, TypeOK
  <2>2. UploadCounted(p, f)
    BY DEF ReadsInv, UploadsCounted
  <2> QED BY <1>0, <2>1, <2>2 DEF UploadCounted, QuorumReached, UploadState
<1>5. Cardinality(broken) < Cardinality(Copies(p, f))
  <2>1. Replicas(p, f) = {} => Cardinality(addrs) <= 1
    <3> SUFFICES ASSUME Replicas(p, f) = {} PROVE Cardinality(addrs) <= 1
      OBVIOUS
    <3>1. addrs \subseteq {Primary(p, f)}
      <4> DEFINE plan == put[p].plan[f]
      <4>1. addrs = {plan[i] : i \in 1..Len(plan)} /\ Len(plan) \in Nat
        BY <1>0 DEF Range
      <4>2. \A i \in 1..Len(plan) : i = 1
        <5>1. \A i \in 2..Len(plan) : plan[i] \in Replicas(p, f)
          BY DEF Replicas
        <5>2. \A i \in 1..Len(plan) : i # 1 => i \in 2..Len(plan)
          BY <4>1
        <5> HIDE DEF plan
        <5> QED BY <5>1, <5>2
      <4>3. Primary(p, f) = plan[1]
        BY DEF Primary
      <4> HIDE DEF plan
      <4> QED BY <4>1, <4>2, <4>3
    <3>2. IsFiniteSet({Primary(p, f)}) /\ Cardinality({Primary(p, f)}) = 1
      BY FS_Singleton
    <3> QED BY <3>1, <3>2, FS_Subset
  <2>2. WriteQuorum <= upload[p][f].copies \/ Cardinality(addrs) <= 1
    BY <1>4, <2>1
  <2>3. WriteQuorum \in Nat
    BY SizesAssumption
  <2>4. Cardinality(broken) < (IF Cardinality(addrs) < WriteQuorum
                               THEN Cardinality(addrs) ELSE WriteQuorum)
    BY DEF addrs, broken
  <2> QED BY <1>2, <1>3, <1>4, <2>2, <2>3, <2>4, QuorumOutnumbers
<1>6. PICK n \in Copies(p, f) : n \notin broken
  <2>1. ~ (Copies(p, f) \subseteq broken)
    BY <1>2, <1>3, <1>5, FS_Subset
  <2> QED BY <2>1
<1>7. n \in addrs /\ n \in alive /\ disk[n][<<k, f>>] = p
  <2>1. n \in addrs /\ n \in Nodes /\ disk[n][<<k, f>>] # 0
    BY <1>0, <1>3, <1>6 DEF Copies
  <2>2. n \in alive /\ disk[n][<<k, f>>] # Torn
    BY <1>6, <2>1 DEF broken, addrs, Broken
  <2> QED BY <1>1, <2>1, <2>2
<1> DEFINE list == keys[k].addrs[f]
           answers == {i \in 1..Len(list) : list[i] \in alive /\ Holds(list[i], k, f)}
           first == CHOOSE i \in answers : \A j \in answers : i <= j
<1>8. list \in Seq(Nodes) /\ Len(list) \in Nat /\ addrs = {list[i] : i \in 1..Len(list)}
  BY <1>0 DEF Range
<1>9. p > 0
  BY DEF Puts
<1>10. answers # {}
  <2>1. PICK i \in 1..Len(list) : list[i] = n
    BY <1>7, <1>8
  <2> QED BY <1>7, <1>9, <2>1 DEF Holds
<1>11. first \in answers
  <2>1. answers \in SUBSET Nat
    <3>1. answers \subseteq 1..Len(list)
      OBVIOUS
    <3> HIDE DEF list, answers
    <3> QED BY <1>8, <3>1
  <2> HIDE DEF answers
  <2>2. \E m \in answers : \A j \in answers : m <= j
    BY <1>10, <2>1, LeastNatural
  <2> QED BY <2>2
<1>12. disk[list[first]][<<k, f>>] = p
  <2>1. list[first] \in Nodes /\ disk[list[first]][<<k, f>>] > 0
    <3>1. first \in 1..Len(list) /\ Holds(list[first], k, f)
      BY <1>11
    <3> HIDE DEF first, list
    <3> QED BY <1>8, <3>1 DEF Holds
  <2>2. ~ (0 > 0) /\ ~ (Torn > 0)
    BY DEF Torn
  <2> HIDE DEF first, list
  <2> QED BY <1>1, <2>1, <2>2
<1>13. Download(k, f) = disk[list[first]][<<k, f>>]
  BY <1>10 DEF Download
<1> QED BY <1>12, <1>13

LEMMA ReadsFromInv == TypeInv /\ ReadsInv => CommittedReadable
<1> SUFFICES ASSUME TypeInv, ReadsInv, NEW p \in Puts, NEW k, k = put[p].key,
                    Present(k), WriteOnce(k), put[p].pc # "new", keys[k].committed, NEW f \in Frags,
                    Cardinality(Broken(k, f)) < (IF Cardinality(Asked(k, f)) < WriteQuorum
                                                 THEN Cardinality(Asked(k, f)) ELSE WriteQuorum)
             PROVE  Download(k, f) = p
  BY DEF CommittedReadable, Broken, Asked
<1> QED BY QuorumIsRead

(* A committed key that one put has written can be read as long as fewer   *)
(* nodes than the write quorum are down or have had the file torn: the     *)
(* copies the primary has counted are there, repairs and rebalances store  *)
(* no other bytes over them, and the get asks the nodes that have them.    *)
THEOREM CommittedStaysReadable == Spec => []CommittedReadable
<1>1. Init => ListInv /\ BackedInv /\ ReadsInv
  BY InitLists, InitBacked, InitReads
<1>2. TypeInv /\ TypeInv' /\ ListInv /\ BackedInv /\ ReadsInv /\ [Next]_vars
        => ListInv' /\ BackedInv' /\ ReadsInv'
  BY NextLists, NextBacked, NextReads
<1>3. TypeInv /\ ReadsInv => CommittedReadable
  BY ReadsFromInv
<1> QED BY <1>1, <1>2, <1>3, TypesAndJobs, PTL DEF Spec

(***************************************************************************)
(* What recovery drops, when there are no rebalances                       *)
(***************************************************************************)

(* The copies of the pass are of entries the catalogue has or had; one of  *)
(* an entry it still has shows the lists as they are.                      *)
CopiesCurrent ==
  \A k \in Keys :
    /\ wheld[Recovery][k] # Absent => Planned(wheld[Recovery][k].put)
    /\ Shares(wheld[Recovery][k], keys[k]) => wheld[Recovery][k].ids = keys[k].ids

(* The replicas of list ids that the pass has seen up.                     *)
SeenUp(ids) == Range(ids) \cap wlive[Recovery]

(* The list that recovery gathers has them all.                            *)
JobKeepsReplicas ==
  LET job == wjob[Recovery]
      k == job.key
  IN  wpc[Recovery] \in {"copy", "store"} /\ Shares(wheld[Recovery][k], keys[k]) =>
        SeenUp(keys[k].ids[job.frag]) \subseteq Range(job.list)

PassInv == CopiesCurrent /\ JobKeepsReplicas

(* An entry that is what it was, and one that a put has brought in.        *)
ListsGoOn(k) ==
  Present(k) /\ keys'[k].put = keys[k].put /\ keys'[k].ids = keys[k].ids
EntryReplaced(k) ==
  \E p \in Puts :
    keys'[k].put = p /\ put[p].pc = "planned" /\ keys'[k].ids = put[p].plan

ListsStay == \A k \in Keys : Present(k)' => ListsGoOn(k) \/ EntryReplaced(k)

LEMMA OneWorker ==
  ASSUME MaxRebalances = 0
  PROVE  Rebalances = {} /\ Workers = {Recovery}
BY DEF Rebalances, Workers

(* Only the update of a worker changes the lists of an entry.              *)
LEMMA ClientsKeepLists ==
  ASSUME TypeInv, \/ \E p \in Puts : ClientStep(p)
                  \/ \E k \in Keys : Delete(k)
  PROVE  ListsStay
<1>0. keys \in KeysType /\ put \in [Puts -> PutState]
  BY DEF TypeInv, TypeOK, KeysType
<1>1. CASE keys' = keys
  BY <1>1 DEF ListsStay, ListsGoOn, Present
<1>2. ASSUME NEW k \in Keys, Delete(k) PROVE ListsStay
  BY <1>0, <1>2 DEF Delete, Catalog!DeleteKey, KeysType, ListsStay, ListsGoOn, Present
<1>3. ASSUME NEW p \in Puts, Plan(p) \/ PlanError(p) PROVE ListsStay
  <2>1. /\ put[p].pc = "planned" /\ put[p].key \in Keys
        /\ keys' = keys \/ keys' = Catalog!PutKey(keys, put[p].key, NewEntry(p))
    BY <1>0, <1>3 DEF Plan, PlanError, PutState
  <2>2. CASE keys' = Catalog!PutKey(keys, put[p].key, NewEntry(p))
    <3>1. \A k \in Keys : keys'[k] = IF k = put[p].key THEN NewEntry(p) ELSE keys[k]
      BY <1>0, <2>2 DEF Catalog!PutKey, KeysType
    <3>2. NewEntry(p).put = p /\ NewEntry(p).ids = put[p].plan
      BY DEF NewEntry
    <3> HIDE DEF NewEntry
    <3> QED BY <2>1, <3>1, <3>2 DEF ListsStay, ListsGoOn, EntryReplaced, Present
  <2> QED BY <1>1, <2>1, <2>2
<1>4. ASSUME NEW p \in Puts, Commit(p) \/ CommitError(p) PROVE ListsStay
  <2> DEFINE k == put[p].key
             new == [keys[k] EXCEPT !.committed = TRUE]
  <2>1. k \in Keys /\ (keys' = keys \/ keys' = Catalog!CommitKey(keys, k))
    BY <1>0, <1>4 DEF Commit, CommitError, PutState
  <2>2. CASE keys' = Catalog!CommitKey(keys, k) /\ keys[k] # Absent
    <3>1. new.put = keys[k].put /\ new.ids = keys[k].ids
      BY <1>0, <2>1, <2>2 DEF KeysType, Entry
    <3>2. keys' = [keys EXCEPT ![k] = new]
      BY <2>2 DEF Catalog!CommitKey
    <3> HIDE DEF new, k
    <3>3. \A j \in Keys : keys'[j] = IF j = k THEN new ELSE keys[j]
      BY <1>0, <3>2 DEF KeysType
    <3> QED BY <2>2, <3>1, <3>3 DEF ListsStay, ListsGoOn, Present
  <2>3. keys' = Catalog!CommitKey(keys, k) /\ keys[k] = Absent => keys' = keys
    BY DEF Catalog!CommitKey
  <2> QED BY <1>1, <2>1, <2>2, <2>3
<1>5. ASSUME NEW p \in Puts, ClientStep(p), ~ Plan(p), ~ PlanError(p), ~ Commit(p),
             ~ CommitError(p)
      PROVE  keys' = keys
  BY <1>5 DEF ClientStep, Prepare, StorePrimary, StoreError, PrimaryError, Answer, AnswerLost,
              SendReplica, SendError, SendLost, Abort, catalogVars
<1> QED BY <1>1, <1>2, <1>3, <1>4, <1>5

(* A copy of the pass that shares an entry after a step that updates no    *)
(* list has shared it before: a new entry has a put that was not applied.  *)
LEMMA StillShares ==
  ASSUME TypeInv, PassInv, ListsStay, wheld'[Recovery] = wheld[Recovery],
         NEW k \in Keys, Shares(wheld[Recovery][k], keys'[k])
  PROVE  Shares(wheld[Recovery][k], keys[k]) /\ keys'[k].ids = keys[k].ids
<1>1. /\ wheld[Recovery][k] # Absent /\ Present(k)'
      /\ keys'[k].put = wheld[Recovery][k].put
  BY DEF Shares, Present
<1>2. Planned(wheld[Recovery][k].put)
  BY <1>1 DEF PassInv, CopiesCurrent
<1>3. ~ EntryReplaced(k)
  BY <1>1, <1>2 DEF EntryReplaced, Planned
<1> QED BY <1>1, <1>3 DEF ListsStay, ListsGoOn, Shares, Present

(* A step that leaves the copies, and of the job at most makes the list    *)
(* longer, keeps the invariant.                                            *)
LEMMA PassGoesOn ==
  ASSUME TypeInv, ReadsInv, PassInv, PutsKept, ListsStay,
         wlive'[Recovery] = wlive[Recovery], wheld'[Recovery] = wheld[Recovery],
         wpc'[Recovery] \in {"copy", "store"} =>
           /\ wpc[Recovery] \in {"copy", "store"}
           /\ wjob'[Recovery].key = wjob[Recovery].key
           /\ wjob'[Recovery].frag = wjob[Recovery].frag
           /\ Range(wjob[Recovery].list) \subseteq Range(wjob'[Recovery].list)
  PROVE  PassInv'
<1> DEFINE held == wheld[Recovery]
<1>0. held \in [Keys -> Copy \cup {Absent}] /\ Recovery \in Workers
  BY DEF TypeInv, TypeOK, Workers
<1>1. ASSUME NEW k \in Keys, held[k] # Absent
      PROVE  Planned(held[k].put) /\ Planned(held[k].put)'
  <2>1. held[k].put \in Puts
    BY <1>0, <1>1 DEF Copy
  <2>2. Planned(held[k].put)
    BY <1>1 DEF PassInv, CopiesCurrent
  <2> QED BY <2>1, <2>2 DEF PutsKept, Planned
<1>2. ASSUME NEW k \in Keys, Shares(held[k], keys'[k])
      PROVE  Shares(held[k], keys[k]) /\ keys'[k].ids = keys[k].ids
  BY <1>2, StillShares
<1>3. CopiesCurrent'
  <2>1. ASSUME NEW k \in Keys, held[k] # Absent PROVE Planned(held[k].put)'
    BY <1>1, <2>1
  <2>2. ASSUME NEW k \in Keys, Shares(held[k], keys'[k]) PROVE held[k].ids = keys'[k].ids
    BY <1>2, <2>2 DEF PassInv, CopiesCurrent
  <2> QED BY <2>1, <2>2 DEF CopiesCurrent, Planned, Shares
<1>4. JobKeepsReplicas'
  <2> SUFFICES ASSUME wpc'[Recovery] \in {"copy", "store"} PROVE JobKeepsReplicas'
    BY DEF JobKeepsReplicas
  <2> DEFINE k == wjob[Recovery].key
             f == wjob[Recovery].frag
  <2>1. k \in Keys /\ wjob'[Recovery].key = k /\ wjob'[Recovery].frag = f
    BY <1>0 DEF TypeInv, WorkersBusy, Job
  <2>2. Shares(held[k], keys[k]) =>
          SeenUp(keys[k].ids[f]) \subseteq Range(wjob[Recovery].list)
    BY DEF PassInv, JobKeepsReplicas
  <2> HIDE DEF k, f
  <2>3. ASSUME Shares(held[k], keys'[k])
        PROVE  Range(keys'[k].ids[f]) \cap wlive[Recovery] \subseteq Range(wjob'[Recovery].list)
    BY <1>2, <2>1, <2>2, <2>3 DEF SeenUp
  <2> QED BY <2>1, <2>2, <2>3 DEF JobKeepsReplicas, SeenUp, Shares
<1> QED BY <1>3, <1>4 DEF PassInv

LEMMA PassStarts ==
  ASSUME TypeInv, ReadsInv, PassInv,
         RecoveryTick \/ ReadEntries(Recovery) \/ ScanDone(Recovery)
  PROVE  PassInv' /\ keys' = keys
<1>0. /\ Recovery \in Workers /\ keys' = keys /\ put' = put
      /\ wheld \in [Workers -> [Keys -> Copy \cup {Absent}]]
  BY DEF Workers, TypeInv, TypeOK, RecoveryTick, ReadEntries, ScanDone, catalogVars, clientVars
<1>1. JobKeepsReplicas'
  <2>1. wpc'[Recovery] \notin {"copy", "store"}
    BY <1>0 DEF RecoveryTick, ReadEntries, ScanDone, TypeInv, TypeOK
  <2> QED BY <2>1 DEF JobKeepsReplicas
<1> SUFFICES ASSUME NEW k \in Keys
             PROVE  /\ wheld'[Recovery][k] # Absent => Planned(wheld'[Recovery][k].put)
                    /\ Shares(wheld'[Recovery][k], keys[k]) =>
                         wheld'[Recovery][k].ids = keys[k].ids
  BY <1>0, <1>1 DEF PassInv, CopiesCurrent, Planned, Shares
<1>2. CASE RecoveryTick
  <2>1. wheld' = wheld
    BY <1>2 DEF RecoveryTick
  <2> QED BY <2>1 DEF PassInv, CopiesCurrent
<1>3. CASE ScanDone(Recovery)
  <2>1. wheld'[Recovery][k] = Absent
    BY <1>0, <1>3 DEF ScanDone
  <2> QED BY <2>1 DEF Shares
<1>4. CASE ReadEntries(Recovery)
  <2> DEFINE copy == [put |-> keys[k].put, ids |-> keys[k].ids]
  <2>1. wheld'[Recovery][k] = IF keys[k] = Absent THEN Absent ELSE copy
    BY <1>0, <1>4 DEF ReadEntries
  <2>2. keys[k] # Absent => Planned(keys[k].put)
    BY DEF ReadsInv, EntriesPlanned, Present
  <2>3. copy.put = keys[k].put /\ copy.ids = keys[k].ids
    OBVIOUS
  <2> HIDE DEF copy
  <2>4. CASE keys[k] = Absent
    BY <2>1, <2>4 DEF Shares
  <2>5. CASE keys[k] # Absent
    BY <2>1, <2>2, <2>3, <2>5
  <2> QED BY <2>4, <2>5
<1> QED BY <1>2, <1>3, <1>4

(* The job begins with what the pass has seen up of the list it reads.     *)
LEMMA FragmentRead ==
  ASSUME MaxRebalances = 0, TypeInv, ReadsInv, PassInv, PutsKept,
         NEW k \in Keys, NEW f \in Frags, RecoverFragment(k, f)
  PROVE  PassInv' /\ keys' = keys
<1> DEFINE held == wheld[Recovery]
           live == wlive[Recovery]
<1>0. /\ Recovery \in Workers /\ wpc \in [Workers -> {"idle", "start", "read", "scan", "copy", "store"}]
      /\ wjob \in [Workers -> Job \cup {NoJob}]
  BY DEF Workers, TypeInv, TypeOK
<1>1. PICK current \in ReadLists(Recovery, k, f) :
        \/ Recover(k, f, FilterLive(current, live))
        \/ Skip(k, f, FilterLive(current, live))
  BY DEF RecoverFragment
<1>2. wpc[Recovery] = "scan" /\ held[k] \in Copy
  <2>1. wpc[Recovery] = "scan" /\ <<k, f>> \in wtodo[Recovery]
    BY DEF RecoverFragment, IsNext
  <2>2. held[k] \in Copy
    BY <1>0, <2>1 DEF TypeInv, WorkersBusy
  <2> QED BY <2>1, <2>2
<1>3. current = held[k].ids[f]
  <2>1. \A v \in Workers : ~ Updating(v, k, f)
    BY <1>2, OneWorker DEF Updating
  <2> QED BY <1>1, <2>1 DEF ReadLists
<1>4. current \in Seq(Nodes)
  BY <1>2, <1>3 DEF Copy, Lists
<1> DEFINE replicas == FilterLive(current, live)
<1>5. Range(replicas) = Range(current) \cap live
  BY <1>4, FilterLiveProperties
<1> HIDE DEF replicas
<1>6. CASE Recover(k, f, replicas)
  <2>1. PICK source, desired, targets, left :
          Begin(Recovery, k, f, replicas, source, desired, targets, left)
    BY <1>6 DEF Recover
  <2>2. /\ UNCHANGED <<keys, put, wlive, wheld>>
        /\ wjob'[Recovery].key = k /\ wjob'[Recovery].frag = f
        /\ wjob'[Recovery].list = replicas
    BY <1>0, <2>1 DEF Begin, catalogVars, clientVars
  <2>3. CopiesCurrent'
    BY <2>2 DEF PassInv, CopiesCurrent, Planned, Shares
  <2>4. Shares(held[k], keys[k]) => SeenUp(keys[k].ids[f]) \subseteq Range(replicas)
    BY <1>3, <1>5 DEF PassInv, CopiesCurrent, SeenUp
  <2>5. JobKeepsReplicas'
    BY <1>2, <2>2, <2>4 DEF JobKeepsReplicas, SeenUp, Shares
  <2> QED BY <2>2, <2>3, <2>5 DEF PassInv
<1>7. CASE Skip(k, f, replicas)
  <2>1. UNCHANGED <<keys, wpc, wlive, wheld, wjob>>
    BY <1>7 DEF Skip, catalogVars
  <2>2. ListsStay
    BY <2>1 DEF ListsStay, ListsGoOn, Present
  <2> QED BY <1>2, <2>1, <2>2, PassGoesOn
<1> QED BY <1>1, <1>6, <1>7 DEF replicas

(* A copy makes the list longer or leaves it.                              *)
LEMMA CopyKeepsJob ==
  ASSUME TypeInv, CopyStep(Recovery)
  PROVE  /\ UNCHANGED <<keys, wlive, wheld>> /\ wpc[Recovery] \in {"copy", "store"}
         /\ wjob'[Recovery].key = wjob[Recovery].key
         /\ wjob'[Recovery].frag = wjob[Recovery].frag
         /\ Range(wjob[Recovery].list) \subseteq Range(wjob'[Recovery].list)
<1> DEFINE job == wjob[Recovery]
<1>0. /\ Recovery \in Workers /\ wjob \in [Workers -> Job \cup {NoJob}]
      /\ UNCHANGED <<keys, wlive, wheld>> /\ wpc[Recovery] \in {"copy", "store"}
  BY DEF Workers, TypeInv, TypeOK, CopyStep, CopyFetch, CopyError, CopyStore, CopyLost,
         CopyBroken, catalogVars
<1>1. job \in Job
  BY <1>0 DEF TypeInv, WorkersBusy
<1>2. /\ wjob'[Recovery].key = job.key /\ wjob'[Recovery].frag = job.frag
      /\ Range(job.list) \subseteq Range(wjob'[Recovery].list)
  <2>1. ASSUME NEW t \in Nodes, CopyFetch(Recovery, t) \/ CopyError(Recovery, t)
        PROVE  /\ wjob'[Recovery].key = job.key /\ wjob'[Recovery].frag = job.frag
               /\ wjob'[Recovery].list = job.list
    <3> DEFINE tried == Tried(Recovery, t)
               fetched == [tried EXCEPT !.target = t,
                                        !.data = disk[job.source][<<job.key, job.frag>>]]
    <3>1. tried = [job EXCEPT !.targets = job.targets \ {t}, !.left = job.left - 1]
      BY DEF Tried
    <3>2. wjob'[Recovery] \in {tried, fetched}
      BY <1>0, <2>1 DEF CopyFetch, CopyError
    <3>3. tried.key = job.key /\ tried.frag = job.frag /\ tried.list = job.list
      <4> HIDE DEF tried, job
      <4> QED BY <1>1, <3>1 DEF Job
    <3>4. fetched.key = tried.key /\ fetched.frag = tried.frag /\ fetched.list = tried.list
      <4> HIDE DEF tried
      <4> QED OBVIOUS
    <3> HIDE DEF tried, fetched
    <3> QED BY <3>2, <3>3, <3>4
  <2>2. ASSUME CopyLost(Recovery) \/ CopyBroken(Recovery)
        PROVE  /\ wjob'[Recovery].key = job.key /\ wjob'[Recovery].frag = job.frag
               /\ wjob'[Recovery].list = job.list
    BY <1>0, <1>1, <2>2 DEF CopyLost, CopyBroken, Job
  <2>3. CASE CopyStore(Recovery)
    <3>1. /\ wjob'[Recovery].key = job.key /\ wjob'[Recovery].frag = job.frag
          /\ wjob'[Recovery].list = Append(job.list, job.target)
          /\ job.list \in Seq(Nodes) /\ job.target \in Nodes
      BY <1>0, <1>1, <2>3 DEF CopyStore, Job
    <3> QED BY <3>1, AppendRange
  <2> QED BY <2>1, <2>2, <2>3 DEF CopyStep
<1> QED BY <1>0, <1>2

LEMMA CopyKeepsList ==
  ASSUME TypeInv, ReadsInv, PassInv, PutsKept, CopyStep(Recovery)
  PROVE  PassInv' /\ keys' = keys
<1>1. /\ UNCHANGED <<keys, wlive, wheld>> /\ wpc[Recovery] \in {"copy", "store"}
      /\ wjob'[Recovery].key = wjob[Recovery].key
      /\ wjob'[Recovery].frag = wjob[Recovery].frag
      /\ Range(wjob[Recovery].list) \subseteq Range(wjob'[Recovery].list)
  BY CopyKeepsJob
<1>2. ListsStay
  BY <1>1 DEF ListsStay, ListsGoOn, Present
<1> QED BY <1>1, <1>2, PassGoesOn

(* The update writes the list of the job; the copies that share the entry  *)
(* see it.                                                                 *)
LEMMA UpdateKeepsReplicas ==
  ASSUME MaxRebalances = 0, TypeInv, ReadsInv, PassInv, UpdateFragmentNodes(Recovery)
  PROVE  /\ PassInv'
         /\ \A k \in Keys, f \in Frags :
              Present(k)' /\ Shares(wheld[Recovery][k], keys[k])
              => SeenUp(keys[k].ids[f]) \subseteq Range(keys'[k].ids[f])
<1> DEFINE held == wheld[Recovery]
           job == wjob[Recovery]
           k == job.key
           f == job.frag
           new == job.list
<1>0. /\ Recovery \in Workers /\ keys \in KeysType
      /\ wheld \in [Workers -> [Keys -> Copy \cup {Absent}]]
      /\ wpc \in [Workers -> {"idle", "start", "read", "scan", "copy", "store"}]
  BY DEF Workers, TypeInv, TypeOK, KeysType
<1>1. /\ wpc[Recovery] = "copy" /\ put' = put
      /\ keys' = Catalog!UpdateFragment(keys, k, f, new)
      /\ SeeUpdate(k, f, new) /\ FragmentDone(Recovery, k, f)
  BY DEF UpdateFragmentNodes, NewList, clientVars
<1>2. k \in Keys /\ f \in Frags /\ new \in Seq(Nodes)
  BY <1>0, <1>1 DEF TypeInv, WorkersBusy, Job
<1>3. Shares(held[k], keys[k]) => SeenUp(keys[k].ids[f]) \subseteq Range(new)
  BY <1>1 DEF PassInv, JobKeepsReplicas
<1>4. JobKeepsReplicas'
  BY <1>0, <1>1 DEF FragmentDone, JobKeepsReplicas
<1> HIDE DEF k, f, new, job
<1>5. /\ \A j \in Keys \ {k} : keys'[j] = keys[j]
      /\ keys[k] = Absent => keys'[k] = Absent
      /\ keys[k] # Absent => /\ keys'[k].put = keys[k].put
                             /\ keys'[k].ids = [keys[k].ids EXCEPT ![f] = new]
  <2>1. CASE keys[k] = Absent
    BY <1>1, <2>1 DEF Catalog!UpdateFragment
  <2>2. CASE keys[k] # Absent
    <3> DEFINE e == [keys[k] EXCEPT !.ids = [keys[k].ids EXCEPT ![f] = new]]
    <3>1. keys' = [keys EXCEPT ![k] = e]
      BY <1>1, <2>2 DEF Catalog!UpdateFragment
    <3>2. /\ e.put = keys[k].put /\ e.ids = [keys[k].ids EXCEPT ![f] = new]
      BY <1>0, <1>2, <2>2 DEF KeysType, Entry
    <3> HIDE DEF e
    <3> QED BY <1>0, <1>2, <2>2, <3>1, <3>2 DEF KeysType
  <2> QED BY <2>1, <2>2
<1>6. /\ \A j \in Keys \ {k} : wheld'[Recovery][j] = held[j]
      /\ Shares(held[k], keys[k]) =>
           /\ wheld'[Recovery][k].put = held[k].put
           /\ wheld'[Recovery][k].ids = [held[k].ids EXCEPT ![f] = new]
      /\ ~ Shares(held[k], keys[k]) => wheld'[Recovery][k] = held[k]
  <2>1. wheld'[Recovery] = IF Shares(held[k], keys[k])
                           THEN [held EXCEPT ![k].ids[f] = new] ELSE held
    BY <1>0, <1>1 DEF SeeUpdate
  <2>2. CASE Shares(held[k], keys[k])
    <3> DEFINE c == [held[k] EXCEPT !.ids = [held[k].ids EXCEPT ![f] = new]]
    <3>1. wheld'[Recovery] = [held EXCEPT ![k] = c]
      BY <2>1, <2>2
    <3>2. c.put = held[k].put /\ c.ids = [held[k].ids EXCEPT ![f] = new]
      BY <1>0, <1>2, <1>3 DEF Copy
    <3> HIDE DEF c
    <3> QED BY <1>0, <1>2, <2>2, <3>1, <3>2
  <2> QED BY <2>1, <2>2
<1>7. CopiesCurrent'
  <2> SUFFICES ASSUME NEW j \in Keys
               PROVE  /\ wheld'[Recovery][j] # Absent => Planned(wheld'[Recovery][j].put)
                      /\ Shares(wheld'[Recovery][j], keys'[j]) =>
                           wheld'[Recovery][j].ids = keys'[j].ids
    BY <1>1 DEF CopiesCurrent, Planned, Shares
  <2>1. /\ held[j] # Absent => Planned(held[j].put)
        /\ Shares(held[j], keys[j]) => held[j].ids = keys[j].ids
    BY DEF PassInv, CopiesCurrent
  <2>2. CASE j # k
    BY <1>5, <1>6, <2>1, <2>2
  <2>3. CASE j = k /\ Shares(held[k], keys[k])
    BY <1>5, <1>6, <2>1, <2>3 DEF Shares
  <2>4. CASE j = k /\ ~ Shares(held[k], keys[k])
    BY <1>5, <1>6, <2>1, <2>4 DEF Shares
  <2> QED BY <2>2, <2>3, <2>4
<1>8. ASSUME NEW j \in Keys, NEW g \in Frags, Present(j)', Shares(held[j], keys[j])
      PROVE  SeenUp(keys[j].ids[g]) \subseteq Range(keys'[j].ids[g])
  <2>1. CASE j # k
    BY <1>5, <2>1 DEF SeenUp
  <2>2. CASE j = k
    <3>1. keys[k].ids \in [Frags -> Seq(Nodes)]
      BY <1>0, <1>2, <1>8, <2>2 DEF Shares, KeysType, Entry, Lists
    <3>2. SeenUp(keys[k].ids[f]) \subseteq Range(new)
      BY <1>3, <1>8, <2>2 DEF Shares, Present
    <3> QED BY <1>5, <1>8, <2>2, <3>1, <3>2 DEF SeenUp, Present
  <2> QED BY <2>1, <2>2
<1> QED BY <1>4, <1>7, <1>8 DEF PassInv
LEMMA InitPass == Init => PassInv
BY DEF Init, PassInv, CopiesCurrent, JobKeepsReplicas, Shares, Workers

(* What the members do leaves the pass alone, but for the node a copy is   *)
(* being sent to.                                                          *)
LEMMA MembersKeepJob ==
  ASSUME MaxRebalances = 0, TypeInv, NEW n \in Nodes, MemberStep(n)
  PROVE  /\ keys' = keys /\ wlive' = wlive /\ wheld' = wheld /\ wpc' = wpc
         /\ wpc[Recovery] \in {"copy", "store"} =>
              /\ wjob'[Recovery].key = wjob[Recovery].key
              /\ wjob'[Recovery].frag = wjob[Recovery].frag
              /\ wjob'[Recovery].list = wjob[Recovery].list
              /\ wjob'[Recovery].targets = wjob[Recovery].targets
              /\ wjob'[Recovery].target \in {wjob[Recovery].target, NoNode}
<1>0. Recovery \in Workers /\ wjob \in [Workers -> Job \cup {NoJob}] /\ Rebalances = {}
  BY OneWorker DEF Workers, TypeInv, TypeOK
<1>1. keys' = keys /\ wlive' = wlive /\ wheld' = wheld /\ wpc' = wpc
  BY <1>0 DEF MemberStep, Crash, Start, Register, RegisterError, TriggerRebalance, Heartbeat,
              MarkNodeDown, FalseAlarm, CutFile, catalogVars, storageVars, workerVars
<1>4. CASE Crash(n)
  <2> DEFINE job == wjob[Recovery]
             broken == [job EXCEPT !.target = NoNode]
  <2>1. ASSUME wpc[Recovery] \in {"copy", "store"}
        PROVE  /\ wjob'[Recovery].key = job.key /\ wjob'[Recovery].frag = job.frag
               /\ wjob'[Recovery].list = job.list /\ wjob'[Recovery].targets = job.targets
               /\ wjob'[Recovery].target \in {job.target, NoNode}
    <3>1. job \in Job
      BY <1>0, <2>1 DEF TypeInv, WorkersBusy
    <3>2. wjob'[Recovery] \in {job, broken}
      BY <1>0, <1>4 DEF Crash
    <3>3. /\ broken.key = job.key /\ broken.frag = job.frag /\ broken.list = job.list
          /\ broken.targets = job.targets /\ broken.target = NoNode
      <4> HIDE DEF job
      <4> QED BY <3>1 DEF Job
    <3> HIDE DEF job, broken
    <3> QED BY <3>2, <3>3
  <2> QED BY <1>1, <2>1
<1>5. Crash(n) \/ wjob' = wjob
  BY DEF MemberStep, Start, Register, RegisterError, Heartbeat, MarkNodeDown, FalseAlarm,
         CutFile, workerVars
<1> QED BY <1>1, <1>4, <1>5

LEMMA MembersKeepPass ==
  ASSUME MaxRebalances = 0, TypeInv, ReadsInv, PassInv, PutsKept,
         NEW n \in Nodes, MemberStep(n)
  PROVE  PassInv' /\ ListsStay
<1>1. ListsStay
  BY MembersKeepJob DEF ListsStay, ListsGoOn, Present
<1>2. /\ wlive' = wlive /\ wheld' = wheld /\ wpc' = wpc
      /\ wpc[Recovery] \in {"copy", "store"} =>
           /\ wjob'[Recovery].key = wjob[Recovery].key
           /\ wjob'[Recovery].frag = wjob[Recovery].frag
           /\ wjob'[Recovery].list = wjob[Recovery].list
  BY MembersKeepJob
<1> QED BY <1>1, <1>2, PassGoesOn

LEMMA ClientKeepsWorkers ==
  ASSUME NEW p \in Puts, ClientStep(p)
  PROVE  UNCHANGED workerVars
<1>1. ASSUME NEW f \in Frags, NEW n \in Nodes,
             SendReplica(p, f, n) \/ SendError(p, f, n) \/ SendLost(p, f, n)
      PROVE  UNCHANGED workerVars
  BY <1>1 DEF SendReplica, SendError, SendLost
<1>2. ASSUME NEW f \in Frags,
             \/ StorePrimary(p, f) \/ StoreError(p, f) \/ PrimaryError(p, f)
             \/ Answer(p, f) \/ AnswerLost(p, f)
      PROVE  UNCHANGED workerVars
  BY <1>2 DEF StorePrimary, StoreError, PrimaryError, Answer, AnswerLost
<1>3. CASE \/ Prepare(p) \/ Plan(p) \/ PlanError(p)
           \/ Abort(p) \/ Commit(p) \/ CommitError(p)
  BY <1>3 DEF Prepare, Plan, PlanError, Abort, Commit, CommitError
<1> QED BY <1>1, <1>2, <1>3 DEF ClientStep

(* Without rebalances the update of recovery is the only step that drops   *)
(* a replica.                                                              *)
LEMMA NextPass ==
  ASSUME MaxRebalances = 0, TypeInv, ReadsInv, PassInv, [Next]_vars
  PROVE  PassInv' /\ (ListsStay \/ UpdateFragmentNodes(Recovery))
<1>1. PutsKept
  BY PutsStay
<1>2. Recovery \in Workers /\ wpc \in [Workers -> {"idle", "start", "read", "scan", "copy", "store"}]
  BY DEF Workers, TypeInv, TypeOK
<1>3. CASE UNCHANGED workerVars /\ ListsStay
  BY <1>1, <1>3, PassGoesOn DEF workerVars
<1>4. ASSUME \/ \E p \in Puts : ClientStep(p)
             \/ \E k \in Keys : Delete(k)
      PROVE  UNCHANGED workerVars /\ ListsStay
  <2>1. ASSUME NEW p \in Puts, ClientStep(p) PROVE UNCHANGED workerVars
    BY <2>1, ClientKeepsWorkers
  <2>2. UNCHANGED workerVars
    BY <1>4, <2>1 DEF Delete
  <2> QED BY <1>4, <2>2, ClientsKeepLists
<1>5. CASE UNCHANGED vars
  <2>1. UNCHANGED workerVars /\ keys' = keys
    BY <1>5 DEF vars, workerVars, catalogVars
  <2>2. ListsStay
    BY <2>1 DEF ListsStay, ListsGoOn, Present
  <2> QED BY <1>3, <2>1, <2>2
<1>6. keys' = keys => ListsStay
  BY DEF ListsStay, ListsGoOn, Present
<1>7. CASE RecoveryTick \/ ReadEntries(Recovery) \/ ScanDone(Recovery)
  BY <1>6, <1>7, PassStarts
<1>8. ASSUME NEW k \in Keys, NEW f \in Frags, RecoverFragment(k, f)
      PROVE  PassInv' /\ ListsStay
  BY <1>1, <1>6, <1>8, FragmentRead
<1>9. CASE CopyStep(Recovery)
  BY <1>1, <1>6, <1>9, CopyKeepsList
<1>10. CASE UpdateLost(Recovery)
  <2>1. /\ keys' = keys /\ wlive' = wlive /\ wheld' = wheld /\ wpc'[Recovery] = "scan"
    BY <1>2, <1>10 DEF UpdateLost, FragmentDone, catalogVars
  <2> QED BY <1>1, <1>6, <2>1, PassGoesOn
<1>11. CASE UpdateFragmentNodes(Recovery)
  BY <1>11, UpdateKeepsReplicas
<1> QED BY <1>1, <1>3, <1>4, <1>5, <1>7, <1>8, <1>9, <1>10, <1>11, MembersKeepPass, OneWorker
        DEF Next, RecoveryStep, WorkerStep

(* Recovery writes back a list that it read and filtered earlier.  It can  *)
(* still not drop a replica that it saw up: the pass reads the catalogue's *)
(* own lists, the job keeps every node of the one it reads that is live in *)
(* the snapshot, and a new entry of the key has another put.               *)
THEOREM RecoveryKeepsReplicas ==
  ASSUME MaxRebalances = 0
  PROVE  Spec => RecoveryDropsOnlySuspects
<1> DEFINE Kept ==
      \A k \in Keys, f \in Frags :
        /\ Present(k)' /\ Shares(wheld[Recovery][k], keys[k])
        /\ keys'[k].put = keys[k].put
        => (Range(keys[k].ids[f]) \ Range(keys'[k].ids[f])) \cap wlive[Recovery] = {}
<1>1. Init => ListInv /\ BackedInv /\ ReadsInv /\ PassInv
  BY InitLists, InitBacked, InitReads, InitPass
<1>2. TypeInv /\ TypeInv' /\ ListInv /\ BackedInv /\ ReadsInv /\ PassInv /\ [Next]_vars
        => ListInv' /\ BackedInv' /\ ReadsInv' /\ PassInv'
  BY NextLists, NextBacked, NextReads, NextPass
<1>3. TypeInv /\ ReadsInv /\ PassInv /\ [Next]_vars => Kept
  <2> SUFFICES ASSUME TypeInv, ReadsInv, PassInv, [Next]_vars, NEW k \in Keys, NEW f \in Frags,
                      Present(k)', Shares(wheld[Recovery][k], keys[k]), keys'[k].put = keys[k].put
               PROVE  (Range(keys[k].ids[f]) \ Range(keys'[k].ids[f])) \cap wlive[Recovery] = {}
    OBVIOUS
  <2>1. CASE ListsStay
    <3>1. Planned(keys[k].put)
      BY DEF Shares, ReadsInv, EntriesPlanned, Present
    <3>2. keys'[k].ids = keys[k].ids
      BY <2>1, <3>1 DEF ListsStay, ListsGoOn, EntryReplaced, Planned
    <3> QED BY <3>2
  <2>2. CASE UpdateFragmentNodes(Recovery)
    <3>1. SeenUp(keys[k].ids[f]) \subseteq Range(keys'[k].ids[f])
      BY <2>2, UpdateKeepsReplicas
    <3> QED BY <3>1 DEF SeenUp
  <2> QED BY <2>1, <2>2, NextPass
<1>4. TypeInv /\ TypeInv' /\ ReadsInv /\ PassInv /\ [Next]_vars => [Kept]_vars
  BY <1>3
<1> QED BY <1>1, <1>2, <1>4, TypesAndJobs, PTL DEF Spec, RecoveryDropsOnlySuspects

(***************************************************************************)
(* Where recovery sends copies, when there are no rebalances               *)
(***************************************************************************)

(* The candidates still to be tried, and the one a copy is being sent to,  *)
(* are no replicas of the entry.                                           *)
JobAimsElsewhere ==
  LET job == wjob[Recovery]
      k == job.key
  IN  wpc[Recovery] \in {"copy", "store"} /\ Shares(wheld[Recovery][k], keys[k]) =>
        /\ job.targets \cap Range(keys[k].ids[job.frag]) = {}
        /\ wpc[Recovery] = "store" => job.target \notin Range(keys[k].ids[job.frag])

(* The job goes on: no candidate comes back, and the target was one.       *)
AimGoesOn ==
  wpc'[Recovery] \in {"copy", "store"} =>
    /\ wpc[Recovery] \in {"copy", "store"}
    /\ wjob'[Recovery].key = wjob[Recovery].key
    /\ wjob'[Recovery].frag = wjob[Recovery].frag
    /\ wjob'[Recovery].targets \subseteq wjob[Recovery].targets
    /\ wpc'[Recovery] = "store" =>
         \/ wjob'[Recovery].target \in wjob[Recovery].targets \cup {NoNode}
         \/ wpc[Recovery] = "store" /\ wjob'[Recovery].target = wjob[Recovery].target

LEMMA AimStays ==
  ASSUME TypeInv, PassInv, JobAimsElsewhere, ListsStay,
         wheld'[Recovery] = wheld[Recovery], AimGoesOn
  PROVE  JobAimsElsewhere'
<1> SUFFICES ASSUME wpc'[Recovery] \in {"copy", "store"} PROVE JobAimsElsewhere'
  BY DEF JobAimsElsewhere
<1> DEFINE job == wjob[Recovery]
           k == job.key
           f == job.frag
           ids == keys[k].ids[f]
<1>1. job \in Job /\ k \in Keys /\ f \in Frags /\ keys \in KeysType
  BY DEF AimGoesOn, TypeInv, TypeOK, KeysType, WorkersBusy, Job, Workers
<1>2. SUFFICES ASSUME Shares(wheld[Recovery][k], keys'[k])
               PROVE  /\ wjob'[Recovery].targets \cap Range(keys'[k].ids[f]) = {}
                      /\ wpc'[Recovery] = "store" =>
                           wjob'[Recovery].target \notin Range(keys'[k].ids[f])
  BY DEF AimGoesOn, JobAimsElsewhere, Shares
<1>3. Shares(wheld[Recovery][k], keys[k]) /\ keys'[k].ids = keys[k].ids
  BY <1>1, <1>2, StillShares
<1>4. /\ job.targets \cap Range(ids) = {}
      /\ wpc[Recovery] = "store" => job.target \notin Range(ids)
  BY <1>3 DEF AimGoesOn, JobAimsElsewhere
<1>5. NoNode \notin Range(ids)
  <2>1. ids \in Seq(Nodes)
    BY <1>1, <1>3 DEF Shares, KeysType, Entry, Lists
  <2>2. Range(ids) \subseteq Nodes
    BY <2>1 DEF Range
  <2> QED BY <2>2, NodesAssumption
<1> HIDE DEF ids, k, f
<1>6. keys'[k].ids[f] = ids
  BY <1>3 DEF ids
<1> QED BY <1>4, <1>5, <1>6 DEF AimGoesOn

(* A candidate that is tried is one no more; only the copy that has been   *)
(* fetched is stored.                                                      *)
LEMMA CopyAims ==
  ASSUME TypeInv, CopyStep(Recovery)
  PROVE  AimGoesOn
<1> DEFINE job == wjob[Recovery]
<1>0. /\ Recovery \in Workers /\ wjob \in [Workers -> Job \cup {NoJob}]
      /\ wpc \in [Workers -> {"idle", "start", "read", "scan", "copy", "store"}]
  BY DEF Workers, TypeInv, TypeOK
<1>1. job \in Job
  BY <1>0, CopyKeepsJob DEF TypeInv, WorkersBusy
<1>2. SUFFICES /\ wjob'[Recovery].targets \subseteq job.targets
               /\ wpc'[Recovery] = "store" => wjob'[Recovery].target \in job.targets
  BY CopyKeepsJob DEF AimGoesOn
<1>3. ASSUME NEW t \in Nodes, CopyFetch(Recovery, t) \/ CopyError(Recovery, t)
      PROVE  /\ wjob'[Recovery].targets \subseteq job.targets
             /\ wpc'[Recovery] = "store" => wjob'[Recovery].target \in job.targets
  <2> DEFINE tried == Tried(Recovery, t)
             fetched == [tried EXCEPT !.target = t,
                                      !.data = disk[job.source][<<job.key, job.frag>>]]
  <2>1. tried = [job EXCEPT !.targets = job.targets \ {t}, !.left = job.left - 1]
    BY DEF Tried
  <2>2. t \in job.targets
    BY <1>3 DEF CopyFetch, CopyError, NextTargets
  <2>3. \/ wjob'[Recovery] = fetched
        \/ wjob'[Recovery] = tried /\ wpc'[Recovery] # "store"
    BY <1>0, <1>3 DEF CopyFetch, CopyError
  <2>4. tried.targets = job.targets \ {t} /\ DOMAIN tried = DOMAIN job
    <3> HIDE DEF tried, job
    <3> QED BY <1>1, <2>1 DEF Job
  <2>5. "target" \in DOMAIN tried
    <3> HIDE DEF tried, job
    <3> QED BY <1>1, <2>4 DEF Job
  <2>6. fetched.targets = tried.targets /\ fetched.target = t
    <3> HIDE DEF tried
    <3> QED BY <2>5
  <2> HIDE DEF tried, fetched, job
  <2> QED BY <2>2, <2>3, <2>4, <2>6
<1>4. ASSUME CopyStore(Recovery) \/ CopyLost(Recovery) \/ CopyBroken(Recovery)
      PROVE  wjob'[Recovery].targets = job.targets /\ wpc'[Recovery] # "store"
  <2>1. wpc'[Recovery] # "store"
    BY <1>0, <1>4 DEF CopyStore, CopyLost, CopyBroken
  <2>2. wjob'[Recovery].targets = job.targets
    BY <1>0, <1>1, <1>4 DEF CopyStore, CopyLost, CopyBroken, Job
  <2> QED BY <2>1, <2>2
<1> QED BY <1>3, <1>4 DEF CopyStep

(* The candidates are live and not in the list, as the pass reads it.      *)
LEMMA FragmentAims ==
  ASSUME MaxRebalances = 0, TypeInv, PassInv,
         NEW k \in Keys, NEW f \in Frags, RecoverFragment(k, f)
  PROVE  JobAimsElsewhere'
<1> DEFINE held == wheld[Recovery]
           live == wlive[Recovery]
<1>0. /\ Recovery \in Workers /\ wpc \in [Workers -> {"idle", "start", "read", "scan", "copy", "store"}]
      /\ wjob \in [Workers -> Job \cup {NoJob}]
  BY DEF Workers, TypeInv, TypeOK
<1>1. PICK current \in ReadLists(Recovery, k, f) :
        \/ Recover(k, f, FilterLive(current, live))
        \/ Skip(k, f, FilterLive(current, live))
  BY DEF RecoverFragment
<1>2. wpc[Recovery] = "scan" /\ held[k] \in Copy
  <2>1. wpc[Recovery] = "scan" /\ <<k, f>> \in wtodo[Recovery]
    BY DEF RecoverFragment, IsNext
  <2>2. held[k] \in Copy
    BY <1>0, <2>1 DEF TypeInv, WorkersBusy
  <2> QED BY <2>1, <2>2
<1>3. current = held[k].ids[f]
  <2>1. \A v \in Workers : ~ Updating(v, k, f)
    BY <1>2, OneWorker DEF Updating
  <2> QED BY <1>1, <2>1 DEF ReadLists
<1>4. current \in Seq(Nodes)
  BY <1>2, <1>3 DEF Copy, Lists
<1> DEFINE replicas == FilterLive(current, live)
<1>5. Range(replicas) = Range(current) \cap live
  BY <1>4, FilterLiveProperties
<1> HIDE DEF replicas
<1>6. CASE Recover(k, f, replicas)
  <2>1. PICK source, desired, left :
          Begin(Recovery, k, f, replicas, source, desired, Candidates(replicas, live), left)
    BY <1>6 DEF Recover
  <2>2. /\ UNCHANGED <<keys, wheld>> /\ wpc'[Recovery] = "copy"
        /\ wjob'[Recovery].key = k /\ wjob'[Recovery].frag = f
        /\ wjob'[Recovery].targets = Candidates(replicas, live)
    BY <1>0, <2>1 DEF Begin, catalogVars
  <2>3. Candidates(replicas, live) \cap Range(current) = {}
    BY <1>5 DEF Candidates
  <2>4. Shares(held[k], keys[k]) => keys[k].ids[f] = current
    BY <1>3 DEF PassInv, CopiesCurrent
  <2> HIDE DEF held, live
  <2> QED BY <2>2, <2>3, <2>4 DEF JobAimsElsewhere, Shares, held
<1>7. CASE Skip(k, f, replicas)
  <2>1. wpc' = wpc
    BY <1>7 DEF Skip
  <2> QED BY <1>2, <2>1 DEF JobAimsElsewhere
<1> QED BY <1>1, <1>6, <1>7 DEF replicas

LEMMA NextAims ==
  ASSUME MaxRebalances = 0, TypeInv, ReadsInv, PassInv, JobAimsElsewhere, [Next]_vars
  PROVE  JobAimsElsewhere'
<1>0. /\ Recovery \in Workers /\ wjob \in [Workers -> Job \cup {NoJob}]
      /\ wpc \in [Workers -> {"idle", "start", "read", "scan", "copy", "store"}]
  BY DEF Workers, TypeInv, TypeOK
<1>1. ListsStay \/ UpdateFragmentNodes(Recovery)
  BY NextPass
<1>2. CASE wpc'[Recovery] \notin {"copy", "store"}
  BY <1>2 DEF JobAimsElsewhere
<1>3. CASE ListsStay /\ UNCHANGED workerVars
  <2>1. AimGoesOn /\ wheld' = wheld
    BY <1>3 DEF AimGoesOn, workerVars
  <2> QED BY <1>3, <2>1, AimStays
<1>4. ASSUME \/ \E p \in Puts : ClientStep(p)
             \/ \E k \in Keys : Delete(k)
             \/ UNCHANGED vars
      PROVE  UNCHANGED workerVars
  <2>1. ASSUME NEW p \in Puts, ClientStep(p) PROVE UNCHANGED workerVars
    BY <2>1, ClientKeepsWorkers
  <2> QED BY <1>4, <2>1 DEF Delete, vars
<1>5. ASSUME NEW n \in Nodes, MemberStep(n) PROVE ListsStay /\ wheld' = wheld /\ AimGoesOn
  <2>1. ListsStay
    BY <1>5, MembersKeepJob DEF ListsStay, ListsGoOn, Present
  <2>2. AimGoesOn
    BY <1>5, MembersKeepJob DEF AimGoesOn
  <2> QED BY <1>5, <2>1, <2>2, MembersKeepJob
<1>6. CASE CopyStep(Recovery)
  <2>1. keys' = keys /\ wheld' = wheld
    BY <1>6, CopyKeepsJob
  <2>2. ListsStay
    BY <2>1 DEF ListsStay, ListsGoOn, Present
  <2> QED BY <1>6, <2>1, <2>2, CopyAims, AimStays
<1>7. CASE \/ RecoveryTick \/ ReadEntries(Recovery) \/ ScanDone(Recovery)
           \/ UpdateFragmentNodes(Recovery) \/ UpdateLost(Recovery)
  <2>1. wpc'[Recovery] \notin {"copy", "store"}
    BY <1>0, <1>7 DEF RecoveryTick, ReadEntries, ScanDone, UpdateFragmentNodes, UpdateLost, FragmentDone
  <2> QED BY <1>2, <2>1
<1>8. ASSUME NEW k \in Keys, NEW f \in Frags, RecoverFragment(k, f) PROVE JobAimsElsewhere'
  BY <1>8, FragmentAims
<1>9. CASE \E n \in Nodes : MemberStep(n)
  BY <1>5, <1>9, AimStays
<1>10. CASE \/ \E p \in Puts : ClientStep(p)
            \/ \E k \in Keys : Delete(k)
            \/ UNCHANGED vars
  <2>1. UNCHANGED workerVars
    BY <1>4, <1>10
  <2>2. ~ UpdateFragmentNodes(Recovery)
    BY <1>0, <2>1 DEF UpdateFragmentNodes, FragmentDone, workerVars
  <2> QED BY <1>1, <1>3, <2>1, <2>2
<1> QED BY <1>6, <1>7, <1>8, <1>9, <1>10, OneWorker DEF Next, RecoveryStep, WorkerStep

(* The store of a repair, which cuts the file that is there first, never   *)
(* runs over a replica that the entry of the pass lists: nothing but       *)
(* recovery changes the list between the read and the store, and the       *)
(* candidates are those the list lacks.                                    *)
THEOREM RepairsAlwaysSpareReplicas ==
  ASSUME MaxRebalances = 0
  PROVE  Spec => []RepairsSpareReplicas
<1>1. Init => ListInv /\ BackedInv /\ ReadsInv /\ PassInv /\ JobAimsElsewhere
  <2>1. Init => JobAimsElsewhere
    BY DEF Init, JobAimsElsewhere, Workers
  <2> QED BY <2>1, InitLists, InitBacked, InitReads, InitPass
<1>2. TypeInv /\ TypeInv' /\ ListInv /\ BackedInv /\ ReadsInv /\ PassInv /\ JobAimsElsewhere
        /\ [Next]_vars
        => ListInv' /\ BackedInv' /\ ReadsInv' /\ PassInv' /\ JobAimsElsewhere'
  BY NextLists, NextBacked, NextReads, NextPass, NextAims
<1>3. JobAimsElsewhere => RepairsSpareReplicas
  BY DEF JobAimsElsewhere, RepairsSpareReplicas
<1> QED BY <1>1, <1>2, <1>3, TypesAndJobs, PTL DEF Spec

(***************************************************************************)
(* What the two refuted promises of the catalogue come to when their cause *)
(* is absent: a second put of the key, or a rebalance                      *)
(***************************************************************************)

(* With one put of every key, a committed entry has had each fragment      *)
(* acknowledged by its primary: a commit that finds the entry of another   *)
(* put is the only way to an entry committed before it is written.         *)
THEOREM CommitsNameTheirEntry ==
  Spec => []((\A k \in Keys : WriteOnce(k)) => CommittedIsWritten)
<1>1. Init => ListInv /\ BackedInv /\ ReadsInv
  BY InitLists, InitBacked, InitReads
<1>2. TypeInv /\ TypeInv' /\ ListInv /\ BackedInv /\ ReadsInv /\ [Next]_vars
        => ListInv' /\ BackedInv' /\ ReadsInv'
  BY NextLists, NextBacked, NextReads
<1>3. ReadsInv => ((\A k \in Keys : WriteOnce(k)) => CommittedIsWritten)
  BY DEF ReadsInv, CommittedUploaded, CommittedIsWritten
<1> QED BY <1>1, <1>2, <1>3, TypesAndJobs, PTL DEF Spec

(* Every list of the catalogue names a node, and so does the list recovery *)
(* is about to write back.                                                 *)
ListsFilled ==
  /\ \A k \in Keys, f \in Frags : Present(k) => Range(keys[k].ids[f]) # {}
  /\ wpc[Recovery] \in {"copy", "store"} => Range(wjob[Recovery].list) # {}

(* Recovery begins with a replica that is live, and adds others.           *)
LEMMA JobStaysFilled ==
  ASSUME MaxRebalances = 0, TypeInv, ListsFilled, [Next]_vars,
         wpc'[Recovery] \in {"copy", "store"}
  PROVE  Range(wjob'[Recovery].list) # {}
<1>0. /\ Recovery \in Workers /\ wjob \in [Workers -> Job \cup {NoJob}]
      /\ wpc \in [Workers -> {"idle", "start", "read", "scan", "copy", "store"}]
      /\ wheld \in [Workers -> [Keys -> Copy \cup {Absent}]]
  BY DEF Workers, TypeInv, TypeOK
<1>1. CASE wpc' = wpc /\ wjob' = wjob
  BY <1>1 DEF ListsFilled
<1>2. ASSUME \/ \E p \in Puts : ClientStep(p)
             \/ \E k \in Keys : Delete(k)
             \/ UNCHANGED vars
      PROVE  wpc' = wpc /\ wjob' = wjob
  <2>1. ASSUME NEW p \in Puts, ClientStep(p) PROVE UNCHANGED workerVars
    BY <2>1, ClientKeepsWorkers
  <2>2. UNCHANGED workerVars
    BY <1>2, <2>1 DEF Delete, vars
  <2> QED BY <2>2 DEF workerVars
<1>3. ASSUME NEW n \in Nodes, MemberStep(n) PROVE Range(wjob'[Recovery].list) # {}
  <2>1. wpc[Recovery] \in {"copy", "store"} /\ wjob'[Recovery].list = wjob[Recovery].list
    BY <1>3, MembersKeepJob
  <2> QED BY <2>1 DEF ListsFilled
<1>4. ASSUME NEW k \in Keys, NEW f \in Frags, RecoverFragment(k, f)
      PROVE  Range(wjob'[Recovery].list) # {}
  <2>1. PICK current \in ReadLists(Recovery, k, f) :
          \/ Recover(k, f, FilterLive(current, wlive[Recovery]))
          \/ Skip(k, f, FilterLive(current, wlive[Recovery]))
    BY <1>4 DEF RecoverFragment
  <2>2. wpc[Recovery] = "scan" /\ wheld[Recovery][k] \in Copy
    <3>1. wpc[Recovery] = "scan" /\ <<k, f>> \in wtodo[Recovery]
      BY <1>4 DEF RecoverFragment, IsNext
    <3> QED BY <1>0, <3>1 DEF TypeInv, WorkersBusy
  <2>3. current \in Seq(Nodes)
    <3>1. \A v \in Workers : ~ Updating(v, k, f)
      BY <2>2, OneWorker DEF Updating
    <3>2. current = wheld[Recovery][k].ids[f]
      BY <2>1, <3>1 DEF ReadLists
    <3> QED BY <2>2, <3>2 DEF Copy, Lists
  <2> DEFINE replicas == FilterLive(current, wlive[Recovery])
  <2>4. replicas \in Seq(Nodes)
    BY <2>3, FilterLiveProperties
  <2> HIDE DEF replicas
  <2>5. CASE Recover(k, f, replicas)
    <3>1. replicas # << >> /\ wjob'[Recovery].list = replicas
      <4>1. \E source, desired, targets, left :
              Begin(Recovery, k, f, replicas, source, desired, targets, left)
        BY <2>5 DEF Recover
      <4>2. wjob'[Recovery].list = replicas
        BY <1>0, <4>1 DEF Begin
      <4> QED BY <2>5, <4>2 DEF Recover, Recoverable
    <3>2. replicas[1] \in Range(replicas)
      BY <2>4, <3>1 DEF Range
    <3> QED BY <3>1, <3>2
  <2>6. ~ Skip(k, f, replicas)
    BY <2>2 DEF Skip
  <2> QED BY <2>1, <2>5, <2>6 DEF replicas
<1>5. CASE CopyStep(Recovery)
  BY <1>5, CopyKeepsJob DEF ListsFilled
<1>6. ~ RecoveryTick /\ ~ ReadEntries(Recovery) /\ ~ ScanDone(Recovery)
  BY <1>0 DEF RecoveryTick, ReadEntries, ScanDone
<1>7. ~ UpdateFragmentNodes(Recovery) /\ ~ UpdateLost(Recovery)
  BY <1>0 DEF UpdateFragmentNodes, UpdateLost, FragmentDone
<1> QED BY <1>1, <1>2, <1>3, <1>4, <1>5, <1>6, <1>7, OneWorker
        DEF Next, RecoveryStep, WorkerStep

(* An entry keeps its lists, is new, or gets the list of recovery.         *)
LEMMA EntriesStayFilled ==
  ASSUME MaxRebalances = 0, TypeInv, ReadsInv, PassInv, ListsFilled, [Next]_vars,
         NEW k \in Keys, NEW f \in Frags, Present(k)'
  PROVE  Range(keys'[k].ids[f]) # {}
<1>1. CASE ListsGoOn(k)
  BY <1>1 DEF ListsGoOn, ListsFilled
<1>2. CASE EntryReplaced(k)
  <2>1. PICK p \in Puts : put[p].pc = "planned" /\ keys'[k].ids = put[p].plan
    BY <1>2 DEF EntryReplaced
  <2>2. put[p].plan[f] # << >> /\ put[p].plan[f] \in Seq(Nodes)
    BY <2>1 DEF ReadsInv, PlansNonEmpty, TypeInv, TypeOK, PutState, Lists
  <2>3. put[p].plan[f][1] \in Range(put[p].plan[f])
    BY <2>2 DEF Range
  <2> QED BY <2>1, <2>3
<1>3. CASE UpdateFragmentNodes(Recovery)
  <2> DEFINE j == wjob[Recovery].key
             g == wjob[Recovery].frag
             new == wjob[Recovery].list
  <2>1. /\ wpc[Recovery] = "copy" /\ keys' = Catalog!UpdateFragment(keys, j, g, new)
        /\ Recovery \in Workers /\ keys \in KeysType
    BY <1>3 DEF UpdateFragmentNodes, NewList, Workers, TypeInv, TypeOK, KeysType
  <2>2. j \in Keys /\ g \in Frags /\ Range(new) # {}
    BY <2>1 DEF TypeInv, WorkersBusy, Job, ListsFilled
  <2> HIDE DEF j, g, new
  <2>3. CASE keys[j] = Absent \/ j # k
    <3>1. keys'[k] = keys[k]
      BY <2>1, <2>3 DEF Catalog!UpdateFragment, KeysType
    <3> QED BY <3>1 DEF Present, ListsFilled
  <2>4. CASE keys[j] # Absent /\ j = k
    <3> DEFINE lists == [keys[k].ids EXCEPT ![g] = new]
               e == [keys[k] EXCEPT !.ids = lists]
    <3>1. keys'[k] = e
      BY <2>1, <2>4 DEF Catalog!UpdateFragment, KeysType
    <3>2. e.ids = lists
      BY <2>1, <2>4 DEF KeysType, Entry
    <3>3. lists[f] = IF f = g THEN new ELSE keys[k].ids[f]
      BY <2>1, <2>4 DEF KeysType, Entry, Lists
    <3>4. Range(keys[k].ids[f]) # {}
      BY <2>4 DEF ListsFilled, Present
    <3> HIDE DEF e, lists
    <3> QED BY <2>2, <3>1, <3>2, <3>3, <3>4
  <2> QED BY <2>3, <2>4
<1> QED BY <1>1, <1>2, <1>3, NextPass DEF ListsStay

(* Without rebalances no list of the catalogue is ever empty: what empties *)
(* one is a rebalance between the prepare and the upload, never recovery,  *)
(* which leaves alone a fragment none of whose replicas is up.             *)
THEOREM RecoveryErasesNoList ==
  ASSUME MaxRebalances = 0
  PROVE  Spec => []AckedFragmentsListed
<1>1. Init => ListInv /\ BackedInv /\ ReadsInv /\ PassInv /\ ListsFilled
  <2>1. Init => ListsFilled
    BY DEF Init, ListsFilled, Present, Workers
  <2> QED BY <2>1, InitLists, InitBacked, InitReads, InitPass
<1>2. TypeInv /\ TypeInv' /\ ListInv /\ BackedInv /\ ReadsInv /\ PassInv /\ ListsFilled /\ [Next]_vars
        => ListInv' /\ BackedInv' /\ ReadsInv' /\ PassInv' /\ ListsFilled'
  <2> SUFFICES ASSUME TypeInv, TypeInv', ListInv, BackedInv, ReadsInv, PassInv, ListsFilled,
                      [Next]_vars
               PROVE  ListInv' /\ BackedInv' /\ ReadsInv' /\ PassInv' /\ ListsFilled'
    OBVIOUS
  <2>1. \A k \in Keys, f \in Frags : Present(k)' => Range(keys'[k].ids[f]) # {}
    BY EntriesStayFilled
  <2>2. wpc'[Recovery] \in {"copy", "store"} => Range(wjob'[Recovery].list) # {}
    BY JobStaysFilled
  <2>3. ListsFilled'
    BY <2>1, <2>2 DEF ListsFilled
  <2> QED BY <2>3, NextLists, NextBacked, NextReads, NextPass
<1>3. TypeInv /\ ListsFilled => AckedFragmentsListed
  <2> SUFFICES ASSUME TypeInv, ListsFilled, NEW p \in Puts, NEW f \in Frags,
                      Present(put[p].key)
               PROVE  keys[put[p].key].ids[f] # << >>
    BY DEF AckedFragmentsListed
  <2>1. put[p].key \in Keys
    BY DEF TypeInv, TypeOK, PutState
  <2>2. Range(keys[put[p].key].ids[f]) # {}
    BY <2>1 DEF ListsFilled
  <2>3. Range(<< >>) = {}
    BY DEF Range
  <2> QED BY <2>2, <2>3
<1> QED BY <1>1, <1>2, <1>3, TypesAndJobs, PTL DEF Spec
=============================================================================
