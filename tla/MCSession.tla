------------------------------ MODULE MCSession ------------------------------
(***************************************************************************)
(* Session with its constants chosen in the configurations.                *)
(***************************************************************************)
EXTENDS Session
=============================================================================
