---------------------------- MODULE MCChatThread ----------------------------
(* Instances of ChatThread for TLC.  The peers are interchangeable, and so *)
(* are the requests.                                                       *)
EXTENDS ChatThread, TLC

ChatSymmetry == Permutations(Peer) \cup Permutations(Load)
=============================================================================
