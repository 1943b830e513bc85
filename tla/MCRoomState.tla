----------------------------- MODULE MCRoomState ------------------------------
(* RoomState for TLC: clients send a room with its applications open and no *)
(* menu, or one with its menus detached and no application, under another   *)
(* token.  Only the replicas are symmetric: payloads name tokens and poses. *)
EXTENDS RoomState, TLC

CONSTANTS Token1, Token2, Pose1

Payload(token, apps, menus) ==
  [token |-> token,
   apps  |-> [x \in Apps |-> IF x \in apps
                THEN [pose |-> Pose1, openComponents |-> [k \in Components |-> 1]] ELSE None],
   menus |-> [m \in Menus |-> IF m \in menus THEN Pose1 ELSE None]]

MCPayloads == {Payload(Token1, Apps, {}), Payload(Token2, {}, Menus)}

Symmetry == Permutations(Replicas)
=============================================================================
