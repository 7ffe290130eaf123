------------------------------ MODULE Transfers ------------------------------
(***************************************************************************)
(* The transfer of one key's value by the two clients, kvctl and the       *)
(* experiments' harness: the plan of PrepareKey, the cutting of the file,  *)
(* the uploads through the primaries, the commit, and the downloads that   *)
(* put the file together again, while chaos.go stops and starts storage    *)
(* nodes.  What the nodes' disks, raft, the detector and the repairs do is *)
(* modelled elsewhere: here a stored fragment stays until it is            *)
(* overwritten, the catalogue changes at once, and Views are the sets of   *)
(* nodes that may be up in the catalogue when a plan is made.  Committed   *)
(* is left out: neither client looks at it.                                *)
(*                                                                         *)
(* A file is a sequence of bytes <<p, i>>, byte i of what put p was given. *)
(* Bounds: every put and every get happens once; MaxDown nodes are down at *)
(* a time; MaxFaults kills, lost messages, changed files and deletes.      *)
(***************************************************************************)
EXTENDS Integers, Sequences, FiniteSets, SequencesExt, ReplicaLists

CONSTANTS
  Nodes, Views,
  Ranking,      \* the order of the nodes for each fragment index
  RF, Quorum,   \* ReplicationFactor; the -quorum flag and Config.WriteQuorum
  Chunk,        \* ChunkSize, in bytes
  Puts, Gets, Absent,
  Client,       \* Client[p] is "kvctl" or "harness"
  Sizes,        \* Sizes[p]: the sizes the file of put p may have
  MaxDown, MaxFaults

Lengths == {0} \cup UNION {Sizes[p] : p \in Puts}
MaxFile == CHOOSE s \in Lengths : \A t \in Lengths : t <= s
Indexes == 0..(MaxFile \div Chunk)

ASSUME TransfersAssumption ==
  /\ Views \subseteq SUBSET Nodes /\ IsFiniteSet(Nodes)
  /\ \A f \in Indexes :
       Ranking[f] \in Seq(Nodes) /\ IsInjective(Ranking[f]) /\ Range(Ranking[f]) = Nodes
  /\ RF \in Nat \ {0} /\ Quorum \in Nat \ {0} /\ Chunk \in Nat \ {0}
  /\ Lengths \subseteq Nat /\ IsFiniteSet(Lengths)
  /\ Absent \notin Puts /\ Client \in [Puts -> {"kvctl", "harness"}]
  /\ MaxDown \in Nat /\ MaxFaults \in Nat

VARIABLES
  entry,      \* the put whose entry the key has, or Absent
  put,        \* put[p]: client, progress, plan and file of each put
  get,        \* get[g]: whose entry it has read and the fragments it has got
  stored,     \* stored[n][f]: the bytes node n has for fragment f
  alive,      \* the storage nodes that run
  faults
vars == <<entry, put, get, stored, alive, faults>>

Nothing == [put |-> Absent]    \* no fragment

(***************************************************************************)
(* The arithmetic of plans and files                                       *)
(***************************************************************************)

\* Mutant: rounds down.
FloorFragments(size) == IF size < Chunk THEN 1 ELSE size \div Chunk

(* PrepareKey: an empty value has one fragment too.                        *)
NumFragments(size) == IF size = 0 THEN 1 ELSE (size + Chunk - 1) \div Chunk

\* Mutant: the last fragment of a file of whole chunks is planned empty.
RemainderSize(size, f) ==
  IF f = NumFragments(size) - 1 THEN size % Chunk ELSE Chunk

(* Only the last fragment is shorter, when there is a remainder.           *)
PlannedSize(size, f) ==
  IF f = NumFragments(size) - 1 /\ size % Chunk > 0 THEN size % Chunk ELSE Chunk

File(p, length) == [i \in 1..length |-> <<p, i>>]

(* Bytes start..end-1 of a file, as in data[start:end].                    *)
Slice(file, start, end) == SubSeq(file, start + 1, end)

Least(a, b) == IF a < b THEN a ELSE b

(* fragment.Split: full chunks, then what is left; nothing of an empty     *)
(* file.                                                                   *)
Split(file) ==
  [i \in 1..((Len(file) + Chunk - 1) \div Chunk) |->
     Slice(file, (i - 1) * Chunk, Least(i * Chunk, Len(file)))]

(* PutValue: data[start:end] by the plan's sizes.                          *)
Cut(file, size, f) ==
  Slice(file, f * Chunk, Least(f * Chunk + PlannedSize(size, f), Len(file)))

(***************************************************************************)
(* Puts                                                                    *)
(***************************************************************************)

Planned(p) == 0..(NumFragments(put[p].size) - 1)
Addrs(p, f) == put[p].addrs[f]
Primary(p, f) == Head(Addrs(p, f))
Replicas(p, f) == ToSet(Tail(Addrs(p, f)))

(* What put p sends for fragment f.                                        *)
Sent(p, f) ==
  LET file == File(p, put[p].length) IN
  IF Client[p] = "kvctl" THEN Split(file)[f + 1] ELSE Cut(file, put[p].size, f)

NoPut == [pc |-> "idle", size |-> 0, length |-> 0, alone |-> FALSE,
          addrs |-> [f \in Indexes |-> << >>], sending |-> [f \in Indexes |-> "no"],
          missed |-> [f \in Indexes |-> {}]]
NoGet == [pc |-> "idle", of |-> Absent, acked |-> FALSE,
          from |-> [f \in Indexes |-> Absent], got |-> [f \in Indexes |-> Nothing]]

Init ==
  /\ entry = Absent
  /\ put = [p \in Puts |-> NoPut]
  /\ get = [g \in Gets |-> NoGet]
  /\ stored = [n \in Nodes |-> [f \in Indexes |-> Nothing]]
  /\ alive = Nodes
  /\ faults = 0

Fault == faults < MaxFaults /\ faults' = faults + 1

InFlight(p) == {f \in Indexes : put[p].sending[f] \in {"sent", "fanout"}}
Over(p) == put[p].pc \in {"idle", "ok", "error", "panic"} /\ InFlight(p) = {}

(* PrepareKey plans for the nodes that are up in the catalogue and its     *)
(* entry replaces the one the key has.                                     *)
Plan(p, size, up) ==
  /\ entry' = p
  /\ put' = [put EXCEPT ![p] =
       [NoPut EXCEPT !.pc = "planned", !.size = size, !.length = size,
          !.alone = \A q \in Puts \ {p} : Over(q),
          !.addrs = [f \in Indexes |->
             IF f < NumFragments(size) THEN Place(Ranking[f], up, RF) ELSE << >>]]]

Prepare(p, size) ==
  /\ put[p].pc = "idle"
  /\ \E up \in Views \ {{}} : Plan(p, size, up)
  /\ UNCHANGED <<get, stored, alive, faults>>

(* No node is up, or the metadata node does not lead: 500 or 421, which    *)
(* both clients report.                                                    *)
PrepareRefused(p) ==
  /\ put[p].pc = "idle"
  /\ put' = [put EXCEPT ![p].pc = "error"]
  /\ UNCHANGED <<entry, get, stored, alive, faults>>

\* Mutant: an upload for every chunk, planned or not.
EveryChunk(p, n) == {f \in Indexes : f < n}

(* The uploads kvctl starts with n chunks at hand.                         *)
Started(p, n) == {f \in Planned(p) : f < n}

(* kvctl cuts the file as it is by now.  Without a chunk for every planned *)
(* fragment, chunks[i] panics when the earlier uploads have been started;  *)
(* chunks beyond the plan are not sent.                                    *)
SendKvctl(p, length) ==
  LET n == Len(Split(File(p, length))) IN
  /\ put[p].pc = "planned" /\ Client[p] = "kvctl"
  /\ \/ length = put[p].length /\ UNCHANGED faults
     \/ length # put[p].length /\ Fault
  /\ put' = [put EXCEPT
       ![p].pc = IF n < NumFragments(put[p].size) THEN "panic" ELSE "sending",
       ![p].length = length,
       ![p].sending = [f \in Indexes |-> IF f \in Started(p, n) THEN "sent" ELSE "no"]]
  /\ UNCHANGED <<entry, get, stored, alive>>

SendHarness(p) ==
  /\ put[p].pc = "planned" /\ Client[p] = "harness"
  /\ put' = [put EXCEPT ![p].pc = "sending",
       ![p].sending = [f \in Indexes |-> IF f \in Planned(p) THEN "sent" ELSE "no"]]
  /\ UNCHANGED <<entry, get, stored, alive, faults>>

(* The primary does not run.                                               *)
Unreachable(p, f) ==
  /\ put[p].sending[f] = "sent" /\ Primary(p, f) \notin alive
  /\ put' = [put EXCEPT ![p].sending[f] = "failed"]
  /\ UNCHANGED <<entry, get, stored, alive, faults>>

\* Mutant: a replica may fail without the quorum noticing.
QuorumLess(p, f, reached) == 1 + Cardinality(reached) >= Quorum - 1

(* Without replicas in the header the quorum is not looked at.             *)
QuorumReached(p, f, reached) ==
  Replicas(p, f) # {} => 1 + Cardinality(reached) >= Quorum

(* putFragment, first part: the primary stores the fragment.               *)
StoreAtPrimary(p, f) ==
  /\ put[p].sending[f] = "sent" /\ Primary(p, f) \in alive
  /\ stored' = [stored EXCEPT ![Primary(p, f)][f] = [put |-> p, data |-> Sent(p, f)]]
  /\ put' = [put EXCEPT ![p].sending[f] = "fanout"]
  /\ UNCHANGED <<entry, get, alive, faults>>

(* Second part: it sends it to the replicas, of which those that run take  *)
(* it, save for a fault, and answers.  A primary that dies meanwhile may   *)
(* have sent some and answers nobody.                                      *)
FanOut(p, f, reached) ==
  LET all == Replicas(p, f) \cap alive IN
  /\ put[p].sending[f] = "fanout" /\ reached \subseteq all
  /\ IF Primary(p, f) \in alive /\ reached # all THEN Fault ELSE UNCHANGED faults
  /\ stored' = [n \in Nodes |->
       IF n \in reached THEN [stored[n] EXCEPT ![f] = [put |-> p, data |-> Sent(p, f)]]
       ELSE stored[n]]
  /\ put' = [put EXCEPT
       ![p].sending[f] = IF Primary(p, f) \in alive /\ QuorumReached(p, f, reached)
                         THEN "ok" ELSE "failed",
       ![p].missed[f] = Replicas(p, f) \ reached]
  /\ UNCHANGED <<entry, get, alive>>

Failed(p) == {f \in Planned(p) : put[p].sending[f] = "failed"}

(* kvctl ends at the first failure, with the other uploads under way;      *)
(* PutValue waits for all of them.                                         *)
PutFails(p) ==
  /\ put[p].pc = "sending" /\ Failed(p) # {}
  /\ Client[p] = "harness" => InFlight(p) = {}
  /\ put' = [put EXCEPT ![p].pc = "error"]
  /\ UNCHANGED <<entry, get, stored, alive, faults>>

\* Mutant: the commit does not wait for all results.
SomeUploaded(p) == \E f \in Planned(p) : put[p].sending[f] = "ok"

AllUploaded(p) == \A f \in Planned(p) : put[p].sending[f] = "ok"

Commit(p) ==
  /\ put[p].pc = "sending" /\ AllUploaded(p)
  /\ put' = [put EXCEPT ![p].pc = "ok"]
  /\ UNCHANGED <<entry, get, stored, alive, faults>>

(* The commit is refused or its answer lost.  A status other than 204 is   *)
(* an error for kvctl and goes unseen in PutValue.                         *)
CommitFails(p) ==
  /\ Fault
  /\ put[p].pc = "sending" /\ AllUploaded(p)
  /\ \E lost \in BOOLEAN :
       put' = [put EXCEPT ![p].pc =
                 IF Client[p] = "harness" /\ ~ lost THEN "ok" ELSE "error"]
  /\ UNCHANGED <<entry, get, stored, alive>>

(* delete_key; the fragments stay where they are.                          *)
Delete ==
  /\ Fault
  /\ entry # Absent
  /\ entry' = Absent
  /\ UNCHANGED <<put, get, stored, alive>>

(***************************************************************************)
(* Gets: kvctl get and GetValue                                            *)
(***************************************************************************)

(* The entry, committed or not.                                            *)
GetEntry(g) ==
  /\ get[g].pc = "idle"
  /\ get' = [get EXCEPT ![g] =
       IF entry = Absent THEN [@ EXCEPT !.pc = "error"]
       ELSE [@ EXCEPT !.pc = "run", !.of = entry, !.acked = put[entry].pc = "ok"]]
  /\ UNCHANGED <<entry, put, stored, alive, faults>>

Answers(f) == {n \in alive : stored[n][f] # Nothing}

(* n is the first of the addresses that answers 200.                       *)
FirstAddr(addrs, f, n) ==
  \E i \in DOMAIN addrs : addrs[i] = n /\ \A j \in 1..(i-1) : addrs[j] \notin Answers(f)

(* Fragment f arrives, from the first address that answers 200.            *)
Download(g, f, n) ==
  /\ get[g].pc = "run" /\ f \in Planned(get[g].of) /\ get[g].got[f] = Nothing
  /\ n \in Answers(f) /\ FirstAddr(Addrs(get[g].of, f), f, n)
  /\ get' = [get EXCEPT ![g].got[f] = stored[n][f], ![g].from[f] = n,
       ![g].pc = IF \A i \in Planned(get[g].of) \ {f} : get[g].got[i] # Nothing
                 THEN "ok" ELSE "run"]
  /\ UNCHANGED <<entry, put, stored, alive, faults>>

(* All its addresses failed, and with it the get.                          *)
DownloadFails(g, f) ==
  /\ get[g].pc = "run" /\ f \in Planned(get[g].of) /\ get[g].got[f] = Nothing
  /\ ToSet(Addrs(get[g].of, f)) \cap Answers(f) = {}
  /\ get' = [get EXCEPT ![g] = [NoGet EXCEPT !.pc = "error"]]
  /\ UNCHANGED <<entry, put, stored, alive, faults>>

\* Mutant: the fragments in the order of their arrival.
ArrivalOrder(got, size) ==
  FlattenSeq([i \in 1..NumFragments(size) |-> got[NumFragments(size) - i].data])

(* cmdGet writes the fragments one after the other, by index.              *)
KvctlFile(got, size) ==
  FlattenSeq([i \in 1..NumFragments(size) |-> got[i - 1].data])

(* GetValue copies each to its place in a buffer of zeros of TotalSize.    *)
HarnessFile(got, size) ==
  [i \in 1..size |->
     LET data == got[(i - 1) \div Chunk].data
         at == 1 + ((i - 1) % Chunk)
     IN  IF at <= Len(data) THEN data[at] ELSE <<0, 0>>]

(***************************************************************************)
(* runChaos                                                                *)
(***************************************************************************)

(* docker stop: only while fewer than MaxDown nodes are down.              *)
Kill(n) ==
  /\ Fault
  /\ n \in alive /\ Cardinality(Nodes \ alive) < MaxDown
  /\ alive' = alive \ {n}
  /\ UNCHANGED <<entry, put, get, stored>>

(* docker start, of a node that is down; the fragments are on its volume.  *)
Restore(n) ==
  /\ n \notin alive
  /\ alive' = alive \cup {n}
  /\ UNCHANGED <<entry, put, get, stored, faults>>

Next ==
  \/ \E p \in Puts :
       \/ \E size \in Sizes[p] : Prepare(p, size)
       \/ \E length \in Lengths : SendKvctl(p, length)
       \/ \E f \in Indexes :
            \/ Unreachable(p, f) \/ StoreAtPrimary(p, f)
            \/ \E reached \in SUBSET Nodes : FanOut(p, f, reached)
       \/ PrepareRefused(p) \/ SendHarness(p) \/ PutFails(p)
       \/ Commit(p) \/ CommitFails(p)
  \/ Delete
  \/ \E g \in Gets :
       \/ GetEntry(g)
       \/ \E f \in Indexes :
            \/ DownloadFails(g, f)
            \/ \E n \in Nodes : Download(g, f, n)
  \/ \E n \in Nodes : Kill(n) \/ Restore(n)

Spec == Init /\ [][Next]_vars
=============================================================================
