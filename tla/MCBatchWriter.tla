---------------------------- MODULE MCBatchWriter ----------------------------
(* Instances of BatchWriter for TLC: requests and handles are alike.       *)
EXTENDS BatchWriter, TLC

Symmetry == Permutations(Requests) \cup Permutations(Conns)
=============================================================================
