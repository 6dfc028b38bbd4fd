----------------------------- MODULE MCBackupLog -----------------------------
(* An instance of BackupLog small enough for TLC: a message that fits the  *)
(* buffer of the server exactly, and one that does not fit.                *)
EXTENDS BackupLog

CONSTANTS short, long

MCBytes == [m \in Msg |-> IF m = short THEN 2 ELSE 3]

==============================================================================
