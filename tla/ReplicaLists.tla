---------------------------- MODULE ReplicaLists ----------------------------
(***************************************************************************)
(* Ordered lists of node ids, the form in which the catalogue keeps the    *)
(* replicas of a fragment.  Order matters: the first entry is the primary  *)
(* of an upload and the source of a repair copy.                           *)
(*                                                                         *)
(* The two list computations of the workers and of the placer are written  *)
(* as recursive functions, as in the loops of the code, so that facts      *)
(* about them can be proved.                                               *)
(***************************************************************************)
EXTENDS Naturals, Sequences, Functions

(* filterLive: the ids that are keys of the live map, in their order.      *)
FilterLive(ids, live) ==
  LET kept[i \in 0..Len(ids)] ==
        IF i = 0 THEN << >>
        ELSE IF ids[i] \in live THEN Append(kept[i-1], ids[i]) ELSE kept[i-1]
  IN  kept[Len(ids)]

(* The first n ids of a list (all of them when it is shorter).             *)
Truncate(ids, n) == SubSeq(ids, 1, IF Len(ids) < n THEN Len(ids) ELSE n)

(***************************************************************************)
(* Placer.Place for the strategies whose order of the nodes does not       *)
(* depend on which other nodes take part (the ring walk of ConsistentHash, *)
(* the scores of Rendezvous): the nodes present, in the fragment's own     *)
(* order, cut at n.                                                        *)
(***************************************************************************)
Place(ranking, present, n) == Truncate(FilterLive(ranking, present), n)

(***************************************************************************)
(* What a read of a slice header may return while another goroutine        *)
(* replaces it without a common lock: the list before, or one of the two   *)
(* backing arrays under the length of the other.  (Entries past the end of *)
(* a decoded slice are empty ids, which no live map holds, so a length too *)
(* large reads as the whole list.)                                         *)
(***************************************************************************)
TornReads(before, after) ==
  {before, after, Truncate(before, Len(after)), Truncate(after, Len(before))}

(* A replica list as the catalogue should hold it.                         *)
WellFormed(ids, n) == IsInjective(ids) /\ Len(ids) <= n
=============================================================================
