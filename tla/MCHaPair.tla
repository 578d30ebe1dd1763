------------------------------ MODULE MCHaPair ------------------------------
(* Instances of HaPair for TLC.                                            *)
EXTENDS HaPair

CONSTANTS c1, c2
TwoChanges == 1..2
=============================================================================
