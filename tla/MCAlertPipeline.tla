---------------------------- MODULE MCAlertPipeline ----------------------------
(* TLC instance of AlertPipeline. *)
EXTENDS AlertPipeline
=============================================================================
