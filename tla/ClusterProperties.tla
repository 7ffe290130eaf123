------------------------- MODULE ClusterProperties --------------------------
(***************************************************************************)
(* What Cluster should guarantee, and what it does not although the code's *)
(* comments say so.                                                        *)
(***************************************************************************)
EXTENDS Cluster

Present(k) == keys[k] # Absent

(* A key at most one put was ever started for.                             *)
WriteOnce(k) ==
  \A p, q \in Puts :
    put[p].key = k /\ put[q].key = k /\ put[p].pc # "new" /\ put[q].pc # "new" => p = q

(* downloadFragment: the first address in the entry that answers with the  *)
(* fragment decides; 0 when none does.                                     *)
Download(k, f) ==
  LET addrs == keys[k].addrs[f]
      answers == {i \in 1..Len(addrs) : addrs[i] \in alive /\ Holds(addrs[i], k, f)}
  IN  IF answers = {} THEN 0
      ELSE disk[addrs[CHOOSE i \in answers : \A j \in answers : i <= j]][<<k, f>>]

(* The catalogue never lists a node twice for a fragment, nor more nodes   *)
(* than the replication factor, whatever recovery and the rebalances do    *)
(* with lists they read earlier, torn or not (workers.go, UpdateFragment). *)
ReplicaListsWellFormed ==
  \A k \in Keys, f \in Frags :
    Present(k) => WellFormed(keys[k].ids[f], ReplicationFactor)

(* A node the placer never chose for a fragment gets into its list only    *)
(* after it has stored the fragment: a copy that fails adds nobody.  (A    *)
(* later copy to the same node may have torn the file.)                    *)
AddedReplicasHoldData ==
  \A k \in Keys, f \in Frags : Present(k) =>
    \A n \in Range(keys[k].ids[f]) :
      \/ disk[n][<<k, f>>] # 0
      \/ \E p \in Puts : put[p].key = k /\ n \in Range(put[p].plan[f])

(* A key that was put once and is committed can be read as long as fewer   *)
(* than W of the nodes it was written to are down, or have the file torn   *)
(* by a store that is going on or has failed (fewer than all of them when  *)
(* there are less than W): the quorum the client asked for stands behind   *)
(* the committed flag.                                                     *)
CommittedReadable ==
  \A p \in Puts :
    LET k == put[p].key IN
    Present(k) /\ WriteOnce(k) /\ put[p].pc # "new" /\ keys[k].committed =>
      \A f \in Frags :
        LET addrs == Range(keys[k].addrs[f])
            quorum == IF Cardinality(addrs) < WriteQuorum
                      THEN Cardinality(addrs) ELSE WriteQuorum
            broken == {n \in addrs : n \notin alive \/ disk[n][<<k, f>>] = Torn}
        IN  Cardinality(broken) < quorum => Download(k, f) = p

(* A key that comes into the catalogue is one whose PrepareKey is applied. *)
CreatedByPut ==
  \A k \in Keys : ~ Present(k) /\ Present(k)' =>
    \E p \in Puts : put[p].key = k /\ put[p].pc = "planned" /\ put'[p].pc # "planned"

(* A key comes into the catalogue only by a PrepareKey: no late commit or  *)
(* node-list update of a worker brings a deleted key back.                 *)
OnlyPutsCreate == [][CreatedByPut]_vars

(* Of an entry that its pass has read, and that is still the key's, the    *)
(* recovery loop drops only replicas it saw down when the pass began,      *)
(* though it writes back a list it read and filtered earlier.  (While      *)
(* there are no rebalances, which drop nodes as the placer likes.)         *)
RecoveryDropsOnlySuspects ==
  [][\A k \in Keys, f \in Frags :
       /\ Present(k)' /\ Shares(wheld[Recovery][k], keys[k])
       /\ keys'[k].put = keys[k].put
       => (Range(keys[k].ids[f]) \ Range(keys'[k].ids[f])) \cap wlive[Recovery] = {}]_vars

(* Recovery sends a copy only to a node that the entry does not list: the  *)
(* store, which cuts the file that is there first, never runs over a       *)
(* replica the catalogue counts on, though the list was read earlier.      *)
(* (While there are no rebalances.)                                        *)
RepairsSpareReplicas ==
  LET job == wjob[Recovery] IN
  wpc[Recovery] = "store" /\ Shares(wheld[Recovery][job.key], keys[job.key]) =>
    job.target \notin Range(keys[job.key].ids[job.frag])

-----------------------------------------------------------------------------
(* Every fragment of every entry is on ReplicationFactor running nodes the *)
(* catalogue lists.                                                        *)
FullyReplicated ==
  \A k \in Keys, f \in Frags : Present(k) =>
    LET ids == Range(keys[k].ids[f]) IN
    /\ Cardinality(ids) = ReplicationFactor
    /\ \A n \in ids : n \in alive /\ Holds(n, k, f)

(***************************************************************************)
(* Fairness: the loops of the leader are driven by tickers and run on, the *)
(* requests in flight end, the detector looks at every node, a process     *)
(* that runs sends heartbeats and retries its registration.  Nothing makes *)
(* a client start a put, a crashed process start again or a fault happen.  *)
(***************************************************************************)
CutTarget(w) ==
  /\ wpc[w] = "store" /\ wjob[w].target # NoNode
  /\ CutFile(wjob[w].target, wjob[w].key, wjob[w].frag)

CutReplica(p, f, n) ==
  /\ upload[p][f].pc = "fanout" /\ n \in upload[p][f].sends
  /\ CutFile(n, put[p].key, f)

WorkerFairness ==
  /\ WF_vars(RecoveryTick)
  /\ WF_vars(\E k \in Keys, f \in Frags : RecoverFragment(k, f))
  /\ \A r \in Rebalances :
       /\ WF_vars(RebalanceStart(r))
       /\ WF_vars(\E k \in Keys, f \in Frags : RebalanceFragment(r, k, f))
  /\ \A w \in Workers :
       /\ WF_vars(ReadEntries(w)) /\ WF_vars(ScanDone(w))
       /\ WF_vars(CopyStep(w) \/ CutTarget(w)) /\ WF_vars(UpdateFragmentNodes(w))

MemberFairness ==
  \A n \in Nodes :
    /\ WF_vars(MarkNodeDown(n)) /\ WF_vars(Heartbeat(n))
    /\ WF_vars(Register(n))

RequestFairness ==
  \A p \in Puts, f \in Frags :
    /\ WF_vars(Answer(p, f))
    /\ \A n \in Nodes :
         WF_vars(SendReplica(p, f, n) \/ SendError(p, f, n) \/ CutReplica(p, f, n))

FairSpec == Spec /\ WorkerFairness /\ MemberFairness /\ RequestFairness

(* Every fragment of an acknowledged put was stored by all its nodes.      *)
StoredByAll(p) ==
  /\ put[p].pc = "acked"
  /\ \A f \in Frags : upload[p][f].copies = ReplicationFactor

EnoughNodes == Cardinality(alive) >= ReplicationFactor

(* Once the faults, fewer than the replicas, are over, recovery in the end *)
(* brings a key all of whose nodes stored it back to the replication       *)
(* factor, on running nodes that hold its bytes, and leaves it there       *)
(* (recoveryLoop: "finds under-replicated fragments and triggers           *)
(* re-replication").  The faults are crashes, false alarms, copies and     *)
(* list updates of recovery that fail or lose their answer, and            *)
(* registrations that do; crashed nodes may return and register.           *)
(* This is said of recovery alone (MaxRebalances = 0: the goroutine a      *)
(* registration starts never gets to run).  A rebalance that a joining     *)
(* node starts can overlap the upload and, with recovery, overwrite its    *)
(* list until it is empty: then it fails, as AckedFragmentsListed does.    *)
(* As many faults as replicas can take every copy.                         *)
Heals ==
  <>[](EnoughNodes => \A p \in Puts : StoredByAll(p) => FullyReplicated)

(* An acknowledged put (not only one that all its nodes stored) is in the  *)
(* end listed on as many running nodes as the replication factor.  It      *)
(* fails: recovery copies from the first live node of the list and from no *)
(* other, and that node may be one the write quorum did without.           *)
AckedHeals ==
  <>[](EnoughNodes => \A p \in Puts, f \in Frags :
         LET k == put[p].key IN
         put[p].pc = "acked" /\ Present(k) =>
           Cardinality(Range(keys[k].ids[f]) \cap alive) = ReplicationFactor)

(* While nothing fails, an acknowledged fragment has a replica the         *)
(* catalogue knows of.  It fails: a rebalance between the prepare and the  *)
(* upload finds no bytes to copy and writes the list back without the      *)
(* nodes that are about to receive them.                                   *)
AckedFragmentsListed ==
  \A p \in Puts, f \in Frags :
    LET k == put[p].key IN
    put[p].pc = "acked" /\ Present(k) => keys[k].ids[f] # << >>

(* An entry is committed only when each of its fragments was written.  It  *)
(* fails with two writers: commit_key names the key, not the entry.        *)
CommittedIsWritten ==
  \A k \in Keys : Present(k) /\ keys[k].committed =>
    \A f \in Frags : upload[keys[k].put][f].pc = "ok"

(* A running node the catalogue lists for a committed fragment, and that   *)
(* holds it, can serve a get.  It fails: NodeAddrs stay those of the       *)
(* prepare when recovery and rebalance change NodeIDs.                     *)
LiveReplicaIsRead ==
  \A k \in Keys, f \in Frags : Present(k) /\ keys[k].committed =>
    \A n \in Range(keys[k].ids[f]) :
      n \in alive /\ Holds(n, k, f) => Download(k, f) # 0
=============================================================================
