-------------------------- MODULE MCConfigEditing --------------------------
(* Instances of ConfigEditing for TLC: the users who only have an editor   *)
(* are alike.                                                              *)
EXTENDS ConfigEditing, TLC

CONSTANTS u1, u2, u3
Symmetry == Permutations({u2, u3})
=============================================================================
