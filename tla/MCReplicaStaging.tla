-------------------------- MODULE MCReplicaStaging --------------------------
(* Instances of ReplicaStaging for TLC: inodes and handlers are alike.     *)
EXTENDS ReplicaStaging, TLC

CONSTANTS h1, h2, i1, i2, i3, i4
Symmetry == Permutations({h1, h2}) \cup Permutations({i1, i2, i3, i4})
=============================================================================
