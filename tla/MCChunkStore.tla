---------------------------- MODULE MCChunkStore ----------------------------
(* Small instances of ChunkStore for TLC.                                  *)
EXTENDS ChunkStore

(* An overwritten key: the same fragment id with other bytes of one size.  *)
TwoValues == {1, 2}
SameSize == [v \in TwoValues |-> 2]

(* And a third value that is one block shorter.                            *)
ThreeValues == {1, 2, 3}
OneShorter == [v \in ThreeValues |-> IF v = 3 THEN 1 ELSE 2]
=============================================================================
