----------------------------- MODULE MCRoomChat ------------------------------
(* RoomChat for TLC: replicas are alike, and so are users.                  *)
EXTENDS RoomChat, TLC

Symmetry == Permutations(Replicas) \cup Permutations(Users)
=============================================================================
