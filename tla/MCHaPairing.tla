---------------------------- MODULE MCHaPairing ----------------------------
(* Instances of HaPairing for TLC.                                         *)
EXTENDS HaPairing
=============================================================================
