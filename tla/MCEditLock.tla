----------------------------- MODULE MCEditLock -----------------------------
(* Instances of EditLock for TLC.                                          *)
EXTENDS EditLock

CONSTANTS u1, u2, u3
=============================================================================
