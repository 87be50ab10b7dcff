------------------------ MODULE MCFederationDelivery ------------------------
(***************************************************************************)
(* Instances of FederationDelivery for TLC: two households, and messages   *)
(* from one to the other.                                                  *)
(***************************************************************************)
EXTENDS FederationDelivery, TLC

CONSTANTS home, peer, m1, m2, tick, recovery, direct, noCall

TwoFrom == (m1 :> home) @@ (m2 :> home)
TwoTo == (m1 :> peer) @@ (m2 :> peer)
TwoSymmetry == Permutations({m1, m2})
=============================================================================
