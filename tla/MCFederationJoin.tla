-------------------------- MODULE MCFederationJoin --------------------------
(* Three servers, two of which have an invite out.                         *)
EXTENDS FederationJoin, TLC
CONSTANTS ours, theirs, third, inviteA, inviteB, c1, c2
MCServer == {ours, theirs, third}
MCIssuedBy == (inviteA :> ours) @@ (inviteB :> theirs)
MCSymmetry == Permutations({c1, c2})
=============================================================================
