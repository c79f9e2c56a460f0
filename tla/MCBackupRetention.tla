------------------------- MODULE MCBackupRetention -------------------------
(* The policy scaled down: every backup is kept for two days and one per   *)
(* three-day week for seven days; Retention.cfg gives the numbers.         *)
EXTENDS BackupRetention
=============================================================================
