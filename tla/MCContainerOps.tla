--------------------------- MODULE MCContainerOps ---------------------------
(* Instances of ContainerOps for TLC.                                      *)
EXTENDS ContainerOps

CONSTANTS a, u, r

VersionOf == [p \in {a, u} |-> IF p = a THEN 2 ELSE 3]
BadOnes == {2}
=============================================================================
