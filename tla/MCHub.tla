-------------------------------- MODULE MCHub --------------------------------
(***************************************************************************)
(* Instances of Hub for TLC.                                               *)
(***************************************************************************)
EXTENDS Hub, TLC

CONSTANTS u1, a1, a2, a3, k1, k2

\* One user with three tabs against a cap of two.
OneUserSockets == {a1, a2, a3}
OneUserOwner == [s \in OneUserSockets |-> u1]
=============================================================================
