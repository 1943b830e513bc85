------------------------------ MODULE RoomUsers ------------------------------
(***************************************************************************)
(* The users of a room: the part of a Room object kept by its UserModifier *)
(* and its ColorModifier (src/src/modifier/user-modifier.ts and            *)
(* color-modifier.ts).  A room value records                               *)
(*                                                                         *)
(*   creator   the addRoom request whose event created the object; it      *)
(*             stands for the object's identity (and its landscape id)     *)
(*   color     UserModifier.users: the colour of every user of the room,   *)
(*             NoColor for those who are not in it                         *)
(*   count     ColorModifier.colorAssignmentCount                          *)
(***************************************************************************)
EXTENDS Integers, FiniteSets

CONSTANTS Users,     \* user ids
          Colors,    \* colour ids, the keys of ColorModifier.colors
          NoColor,
          Requests   \* addRoom requests

ASSUME UsersFinite == IsFiniteSet(Users)
ASSUME ColorsAssumption == Colors # {} /\ IsFiniteSet(Colors) /\ Colors \subseteq Nat
ASSUME NoColorAssumption == NoColor \notin Colors

RoomObject == [creator : Requests,
               color   : [Users -> Colors \cup {NoColor}],
               count   : [Colors -> Int]]

(* RoomFactoryService.makeRoom: a room object without users.               *)
EmptyRoom(q) == [creator |-> q,
                 color   |-> [u \in Users |-> NoColor],
                 count   |-> [c \in Colors |-> 0]]

HasUser(room, u) == room.color[u] # NoColor

Members(room) == {u \in Users : HasUser(room, u)}

UsersOfColor(room, c) == {u \in Users : room.color[u] = c}

(* getNextColorId returns the colour with the fewest assignments.  The Map *)
(* is walked in insertion order and the comparison is strict: the smallest *)
(* id wins a tie.                                                          *)
IsNextColorId(room, c) ==
  \A d \in Colors : \/ room.count[c] < room.count[d]
                    \/ room.count[c] = room.count[d] /\ c <= d

(* UserModifier.makeUserModel, which assigns the colour and counts it, and *)
(* then addUser, which overwrites an entry of the same user id.            *)
AddUser(room, u, c) ==
  [room EXCEPT !.count[c] = @ + 1, !.color[u] = c]

(* Mutant: the colour is given back, the entry stays.                      *)
RemoveUserKeepsEntry(room, u) ==
  IF HasUser(room, u) THEN [room EXCEPT !.count[room.color[u]] = @ - 1] ELSE room

(* UserModifier.removeUser: nothing for an unknown user.                   *)
RemoveUser(room, u) ==
  IF HasUser(room, u)
    THEN [room EXCEPT !.count[room.color[u]] = @ - 1, !.color[u] = NoColor]
    ELSE room

(* Every colour is counted exactly once per user who wears it.             *)
Balanced(room) == \A c \in Colors : room.count[c] = Cardinality(UsersOfColor(room, c))
=============================================================================
