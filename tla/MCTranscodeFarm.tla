-------------------------- MODULE MCTranscodeFarm --------------------------
(* Instances of TranscodeFarm for TLC.                                     *)
EXTENDS TranscodeFarm, TLC

CONSTANTS j1, j2, w1, w2

Both == [j \in Jobs |-> IF j = j1 THEN {"copy"} ELSE {"direct", "stream"}]
OnlyCopy == [j \in Jobs |-> {"copy"}]
EveryWay == [j \in Jobs |-> {"direct", "stream", "copy"}]

Symmetry == Permutations({w1, w2})
=============================================================================
