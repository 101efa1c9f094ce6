---------------------------- MODULE MCBackupRun ----------------------------
(* Instances of BackupRun for TLC. *)
EXTENDS BackupRun

MCSizes == 0 .. 4
=============================================================================
