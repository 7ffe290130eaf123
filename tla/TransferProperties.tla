------------------------- MODULE TransferProperties -------------------------
(***************************************************************************)
(* What the clients' transfers should guarantee.                           *)
(***************************************************************************)
EXTENDS Transfers

Bytes == Puts \X (1..MaxFile)
Fragments == {Nothing} \cup [put : Puts, data : UNION {[1..n -> Bytes] : n \in 0..Chunk}]

PutState ==
  [pc : {"idle", "planned", "sending", "ok", "error", "panic"},
   size : Lengths, length : Lengths, alone : BOOLEAN,
   addrs : [Indexes -> Seq(Nodes)], missed : [Indexes -> SUBSET Nodes],
   sending : [Indexes -> {"no", "sent", "fanout", "ok", "failed"}]]

GetState ==
  [pc : {"idle", "run", "ok", "error"}, of : Puts \cup {Absent}, acked : BOOLEAN,
   from : [Indexes -> Nodes \cup {Absent}], got : [Indexes -> Fragments]]

TypeOK ==
  /\ entry \in Puts \cup {Absent}
  /\ put \in [Puts -> PutState]
  /\ get \in [Gets -> GetState]
  /\ stored \in [Nodes -> [Indexes -> Fragments]]
  /\ alive \subseteq Nodes
  /\ faults \in 0..MaxFaults
  /\ \A p \in Puts, f \in Indexes :
       /\ put[p].missed[f] \subseteq ToSet(put[p].addrs[f])
       /\ put[p].sending[f] # "no" => put[p].addrs[f] # << >>

FileKept(p) == put[p].length = put[p].size

(* The planned sizes and the chunks the two clients really send agree, for *)
(* every file that does not change under the put; kvctl panics only on an  *)
(* empty file or one that has shrunk, the harness never (PrepareKey,       *)
(* Split, cmdPut, PutValue).                                               *)
PlanFitsFile ==
  \A p \in Puts :
    /\ put[p].pc = "sending" /\ FileKept(p) /\ put[p].size > 0 =>
         /\ FlattenSeq([i \in 1..NumFragments(put[p].size) |-> Sent(p, i - 1)])
              = File(p, put[p].size)
         /\ \A f \in Planned(p) : Len(Sent(p, f)) = PlannedSize(put[p].size, f)
    /\ put[p].pc = "panic" =>
         /\ Client[p] = "kvctl"
         /\ put[p].size = 0 \/ put[p].length < put[p].size

(* A put that was reported as successful, as long as its entry is the      *)
(* key's and no other put was under way when it began, has each fragment   *)
(* on as many of its addresses as the quorum asks for, or on its only one: *)
(* with fewer nodes down every fragment can be downloaded, and with all    *)
(* nodes restored no key is lost, as the integrity check of runChaos wants.*)
AckedIsReadable ==
  \A p \in Puts : put[p].pc = "ok" /\ entry = p /\ put[p].alone =>
    \A f \in Planned(p) :
      Cardinality({n \in ToSet(Addrs(p, f)) :
                     stored[n][f] = [put |-> p, data |-> Sent(p, f)]})
        >= Least(Quorum, Len(Addrs(p, f)))

-----------------------------------------------------------------------------
(* The get ends well in this step.                                         *)
Finishes(g) == get[g].pc = "run" /\ get'[g].pc = "ok"

Reads(g, file) ==
  LET size == put[get[g].of].size IN
  /\ KvctlFile(get'[g].got, size) = file
  /\ HarnessFile(get'[g].got, size) = file

(* Whoever reads a key that has been put once, even during that put, gets  *)
(* an error or the whole file, whichever client put it and whichever reads *)
(* (cmdGet, GetValue: neither looks at Committed).                         *)
FirstPutIsReadWhole ==
  [][\A g \in Gets :
       LET p == get[g].of IN
       /\ Finishes(g) /\ FileKept(p)
       /\ \A q \in Puts \ {p} : put[q].pc = "idle"
       => Reads(g, File(p, put[p].size))]_vars

(* A get that began after an overwrite was reported as successful returns  *)
(* the new file, unless one of its fragments came from a replica that the  *)
(* overwrite did not reach, a put was under way when the overwrite began,  *)
(* or the key has changed since (downloadFragment, putFragment).           *)
AckedPutIsReadBack ==
  [][\A g \in Gets :
       LET p == get[g].of IN
       /\ Finishes(g) /\ FileKept(p)
       /\ get[g].acked /\ put[p].alone /\ entry = p
       /\ \A f \in Planned(p) : get'[g].from[f] \notin put[p].missed[f]
       => Reads(g, File(p, put[p].size))]_vars
=============================================================================
