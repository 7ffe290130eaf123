----------------------------- MODULE MCTransfers -----------------------------
(* Small instances of Transfers for TLC.                                   *)
EXTENDS TransferProperties

CONSTANTS n1, n2, n3

AllUpOrOne == {{n1, n2, n3}, {n2}}

TwoOrders == [f \in 0..1 |-> IF f = 0 THEN <<n1, n2, n3>> ELSE <<n2, n3, n1>>]

OneEach == [p \in 1..2 |-> IF p = 1 THEN "kvctl" ELSE "harness"]

ThreeSizes == [p \in 1..2 |-> IF p = 1 THEN {0, 3} ELSE {0, 2}]
=============================================================================
