------------------------- MODULE MCBackupRetention -------------------------
(* Instances of BackupRetention for TLC.                                   *)
EXTENDS BackupRetention
=============================================================================
