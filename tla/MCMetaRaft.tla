----------------------------- MODULE MCMetaRaft -----------------------------
(* Small instances of MetaRaft for TLC.                                    *)
EXTENDS MetaProperties

CONSTANTS k1, n1

Planned == [put |-> 1, ids |-> [f \in {1} |-> <<n1>>], committed |-> FALSE]

(* One call of a client; storage processes and detectors make the others.  *)
OnePut == [c \in {1} |-> [op |-> "put_key", key |-> k1, entry |-> Planned]]
=============================================================================
