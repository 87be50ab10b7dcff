----------------------------- MODULE MCGroupKeys -----------------------------
(* A member with two devices, and one with one.                            *)
EXTENDS GroupKeys, TLC
CONSTANTS phone, laptop, peer
MCDevices == {phone, laptop, peer}
MCUsers == {1, 2}
MCUserOf == (phone :> 1) @@ (laptop :> 1) @@ (peer :> 2)
=============================================================================
