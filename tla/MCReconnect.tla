----------------------------- MODULE MCReconnect -----------------------------
(***************************************************************************)
(* Reconnect with its constants chosen in the configurations.              *)
(***************************************************************************)
EXTENDS Reconnect
=============================================================================
