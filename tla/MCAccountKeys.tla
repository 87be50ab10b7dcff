---------------------------- MODULE MCAccountKeys ----------------------------
(* Two devices, the first with two pages open on it.                       *)
EXTENDS AccountKeys, TLC
CONSTANTS phone, laptop, p1, p2, l1
MCDevices == {phone, laptop}
MCPages == {p1, p2, l1}
MCDeviceOf == (p1 :> phone) @@ (p2 :> phone) @@ (l1 :> laptop)
SamePhone == Permutations({p1, p2})
=============================================================================
