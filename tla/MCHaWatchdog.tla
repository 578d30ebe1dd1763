---------------------------- MODULE MCHaWatchdog ----------------------------
(* Instances of HaWatchdog for TLC.                                        *)
EXTENDS HaWatchdog
=============================================================================
