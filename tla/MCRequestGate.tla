---------------------------- MODULE MCRequestGate ----------------------------
(***************************************************************************)
(* Instances of RequestGate for TLC.                                       *)
(***************************************************************************)
EXTENDS RequestGate

CONSTANTS r1, r2, r3, r4, r5

Five == {r1, r2, r3, r4, r5}
=============================================================================
