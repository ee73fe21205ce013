---------------------------- MODULE MCTaskLedger ----------------------------
(* Instance of TaskLedger for TLC.                                         *)
EXTENDS TaskLedger
=============================================================================
