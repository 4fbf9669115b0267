---------------------------- MODULE MC_BackupApi ----------------------------
(***************************************************************************)
(* The backup routes on small instances.                                   *)
(***************************************************************************)
EXTENDS BackupApi

ModelBackupIDs == {<<"x">>}
ModelNames == {BackupJobName(b) : b \in ModelBackupIDs}
=============================================================================
