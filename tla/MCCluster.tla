----------------------------- MODULE MCCluster ------------------------------
(* Small instances of Cluster for TLC.                                     *)
EXTENDS ClusterProperties

CONSTANTS n1, n2, n3, n4

(* One order per fragment, as consistent_hash and rendezvous have.         *)
FourInOrder == [kf \in Fragments |-> {<<n1, n2, n3, n4>>}]
(* Nodes that join later come first for every fragment.                    *)
JoinersFirst == [kf \in Fragments |-> {<<n3, n1, n2>>}]
TwoJoinersFirst == [kf \in Fragments |-> {<<n3, n4, n1, n2>>}]
=============================================================================
