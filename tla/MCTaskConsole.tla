----------------------------- MODULE MCTaskConsole -----------------------------
(* TLC instance of TaskConsole. *)
EXTENDS TaskConsole
=============================================================================
