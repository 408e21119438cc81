----------------------------- MODULE MCStorageApi -----------------------------
(* Values for the constants of StorageApi: two keys, which are alike, and   *)
(* the commands on them.                                                    *)
EXTENDS StorageApi, TLC

CONSTANTS k1, k2, v1, v2

TwoKeys   == {k1, k2}
TwoValues == {v1, v2}
OneValue  == {v1}

PutsDeletesNoOp ==
  [type : {"Put"}, key : Key, value : Value]
  \cup {[type |-> type, key |-> k, value |-> v1] :
          type \in {"Delete"}, k \in Key}
  \cup {[type |-> "NoOp", key |-> k1, value |-> v1]}

Symmetry == Permutations(TwoKeys)
==============================================================================
