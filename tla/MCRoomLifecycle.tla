--------------------------- MODULE MCRoomLifecycle ---------------------------
(* RoomLifecycle for TLC: the symmetries of its model values.  Users and    *)
(* room ids differ in what their clients do; the others do not.             *)
EXTENDS RoomLifecycle, TLC

Symmetry == Permutations(Replicas) \cup Permutations(Sockets) \cup Permutations(Requests)
=============================================================================
