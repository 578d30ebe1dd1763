----------------------------- MODULE MCCorePool -----------------------------
EXTENDS CorePool, TLC

(* Core c and core c + 2 are the two threads of one physical core. *)
FourCores == 0..3
Siblings == [c \in FourCores |-> c % 2]
FirstCore == {0}

Symmetry == Permutations(Boxes)
=============================================================================
