------------------------------ MODULE MCServerRun ------------------------------
(* ServerRun for TLC, which takes its constants from the configuration. *)
EXTENDS ServerRun
=============================================================================
