------------------------------ MODULE MCUnread ------------------------------
(***************************************************************************)
(* Unread with its constants chosen in the configuration.                  *)
(***************************************************************************)
EXTENDS Unread
=============================================================================
