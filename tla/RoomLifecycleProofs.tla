------------------------- MODULE RoomLifecycleProofs -------------------------
(***************************************************************************)
(* Theorems about RoomLifecycle, for every number of replicas, rooms,      *)
(* users, sockets and addRoom requests.                                    *)
(***************************************************************************)
EXTENDS RoomLifecycle, FiniteSetTheorems, TLAPS

-----------------------------------------------------------------------------
(* Users of a room: what joining and leaving keep *)

(* A new room has no users and counts none.                                *)
LEMMA EmptyRoomLemma ==
  ASSUME NEW q \in Requests
  PROVE  /\ EmptyRoom(q) \in RoomObject
         /\ EmptyRoom(q).creator = q
         /\ \A u \in Users : ~ HasUser(EmptyRoom(q), u)
         /\ Balanced(EmptyRoom(q))
<1>1. EmptyRoom(q) \in RoomObject
  BY DEF EmptyRoom, RoomObject
<1>2. EmptyRoom(q).creator = q /\ \A u \in Users : ~ HasUser(EmptyRoom(q), u)
  BY DEF EmptyRoom, HasUser
<1>3. ASSUME NEW c \in Colors
      PROVE  EmptyRoom(q).count[c] = Cardinality(UsersOfColor(EmptyRoom(q), c))
  <2>1. UsersOfColor(EmptyRoom(q), c) = {}
    BY NoColorAssumption DEF UsersOfColor, EmptyRoom
  <2>2. EmptyRoom(q).count[c] = 0
    BY DEF EmptyRoom
  <2> QED BY <2>1, <2>2, FS_EmptySet
<1> QED BY <1>1, <1>2, <1>3 DEF Balanced

(* makeUserModel and addUser put exactly the given user into the room.     *)
LEMMA AddUserLemma ==
  ASSUME NEW room \in RoomObject, NEW u \in Users, NEW c \in Colors
  PROVE  /\ AddUser(room, u, c) \in RoomObject
         /\ AddUser(room, u, c).creator = room.creator
         /\ \A v \in Users : HasUser(AddUser(room, u, c), v) <=> v = u \/ HasUser(room, v)
<1> DEFINE new == AddUser(room, u, c)
<1>1. /\ new.creator = room.creator
      /\ new.color = [room.color EXCEPT ![u] = c]
      /\ new.count = [room.count EXCEPT ![c] = @ + 1]
      /\ new = [creator |-> new.creator, color |-> new.color, count |-> new.count]
  <2>1. room.count = [d \in Colors |-> room.count[d]]
    BY DEF RoomObject
  <2>2. new = [room EXCEPT !.count[c] = @ + 1, !.color[u] = c]
    BY DEF AddUser
  <2> QED BY <2>1, <2>2 DEF RoomObject
<1>2. /\ room.creator \in Requests
      /\ room.color \in [Users -> Colors \cup {NoColor}]
      /\ room.count \in [Colors -> Int]
  BY DEF RoomObject
<1>3. new \in RoomObject
  BY <1>1, <1>2 DEF RoomObject
<1>4. \A v \in Users : HasUser(new, v) <=> v = u \/ HasUser(room, v)
  BY <1>1, <1>2, NoColorAssumption DEF HasUser
<1> QED BY <1>1, <1>3, <1>4

(* removeUser takes out the given user, whether it was there or not, and   *)
(* nobody else.                                                            *)
LEMMA RemoveUserLemma ==
  ASSUME NEW room \in RoomObject, NEW u \in Users
  PROVE  /\ RemoveUser(room, u) \in RoomObject
         /\ RemoveUser(room, u).creator = room.creator
         /\ \A v \in Users : HasUser(RemoveUser(room, u), v) <=> v # u /\ HasUser(room, v)
<1> DEFINE new == RemoveUser(room, u)
<1>1. CASE ~ HasUser(room, u)
  BY <1>1 DEF RemoveUser
<1>2. CASE HasUser(room, u)
  <2>1. /\ room.creator \in Requests
        /\ room.color \in [Users -> Colors \cup {NoColor}]
        /\ room.count \in [Colors -> Int]
    BY DEF RoomObject
  <2>2. new = [room EXCEPT !.count[room.color[u]] = @ - 1, !.color[u] = NoColor]
    BY <1>2 DEF RemoveUser
  <2>3. /\ new.creator = room.creator
        /\ new.color = [room.color EXCEPT ![u] = NoColor]
        /\ new.count = [room.count EXCEPT ![room.color[u]] = @ - 1]
        /\ new = [creator |-> new.creator, color |-> new.color, count |-> new.count]
    BY <2>2 DEF RoomObject
  <2>4. new \in RoomObject
    BY <2>1, <2>3 DEF RoomObject
  <2>5. \A v \in Users : HasUser(new, v) <=> v # u /\ HasUser(room, v)
    BY <2>1, <2>3, NoColorAssumption DEF HasUser
  <2> QED BY <2>3, <2>4, <2>5
<1> QED BY <1>1, <1>2

(* The counts stay right when a user joins who was not in the room: this   *)
(* is what handleUserConnectedEvent's hasUser test is for.                 *)
LEMMA AddUserBalanced ==
  ASSUME NEW room \in RoomObject, NEW u \in Users, NEW c \in Colors,
         ~ HasUser(room, u), Balanced(room)
  PROVE  Balanced(AddUser(room, u, c))
<1> DEFINE new == AddUser(room, u, c)
<1>1. /\ room.color \in [Users -> Colors \cup {NoColor}]
      /\ room.count \in [Colors -> Int]
      /\ new.color = [room.color EXCEPT ![u] = c]
      /\ new.count = [room.count EXCEPT ![c] = @ + 1]
  BY DEF AddUser, RoomObject
<1>2. ASSUME NEW d \in Colors
      PROVE  new.count[d] = Cardinality(UsersOfColor(new, d))
  <2>1. room.count[d] = Cardinality(UsersOfColor(room, d))
    BY DEF Balanced
  <2>2. CASE d = c
    <3>1. UsersOfColor(new, d) = UsersOfColor(room, d) \cup {u}
      BY <1>1, <2>2 DEF UsersOfColor
    <3>2. u \notin UsersOfColor(room, d)
      BY NoColorAssumption DEF UsersOfColor, HasUser
    <3>3. IsFiniteSet(UsersOfColor(room, d))
      BY UsersFinite, FS_Subset DEF UsersOfColor
    <3>4. Cardinality(UsersOfColor(new, d)) = Cardinality(UsersOfColor(room, d)) + 1
      BY <3>1, <3>2, <3>3, FS_AddElement
    <3>5. new.count[d] = room.count[d] + 1
      BY <1>1, <2>2
    <3> QED BY <2>1, <3>4, <3>5
  <2>3. CASE d # c
    <3>1. UsersOfColor(new, d) = UsersOfColor(room, d)
      BY <1>1, <2>3, NoColorAssumption DEF UsersOfColor, HasUser
    <3>2. new.count[d] = room.count[d]
      BY <1>1, <2>3
    <3> QED BY <2>1, <3>1, <3>2
  <2> QED BY <2>2, <2>3
<1> QED BY <1>2 DEF Balanced

(* They stay right whoever leaves: an unknown user changes nothing.        *)
LEMMA RemoveUserBalanced ==
  ASSUME NEW room \in RoomObject, NEW u \in Users, Balanced(room)
  PROVE  Balanced(RemoveUser(room, u))
<1> DEFINE new == RemoveUser(room, u)
<1>1. CASE ~ HasUser(room, u)
  BY <1>1 DEF RemoveUser
<1>2. CASE HasUser(room, u)
  <2>1. /\ room.color \in [Users -> Colors \cup {NoColor}]
        /\ room.count \in [Colors -> Int]
        /\ room.color[u] \in Colors
    BY <1>2 DEF RoomObject, HasUser
  <2>2. /\ new.color = [room.color EXCEPT ![u] = NoColor]
        /\ new.count = [room.count EXCEPT ![room.color[u]] = @ - 1]
    BY <1>2 DEF RemoveUser, RoomObject
  <2>3. ASSUME NEW d \in Colors
        PROVE  new.count[d] = Cardinality(UsersOfColor(new, d))
    <3>1. room.count[d] = Cardinality(UsersOfColor(room, d))
      BY DEF Balanced
    <3>2. CASE d = room.color[u]
      <4>1. UsersOfColor(new, d) = UsersOfColor(room, d) \ {u}
        BY <2>1, <2>2, <3>2, NoColorAssumption DEF UsersOfColor
      <4>2. u \in UsersOfColor(room, d)
        BY <3>2 DEF UsersOfColor
      <4>3. IsFiniteSet(UsersOfColor(room, d))
        BY UsersFinite, FS_Subset DEF UsersOfColor
      <4>4. Cardinality(UsersOfColor(new, d)) = Cardinality(UsersOfColor(room, d)) - 1
        BY <4>1, <4>2, <4>3, FS_RemoveElement
      <4>5. new.count[d] = room.count[d] - 1
        BY <2>1, <2>2, <3>2
      <4> QED BY <3>1, <4>4, <4>5
    <3>3. CASE d # room.color[u]
      <4>1. UsersOfColor(new, d) = UsersOfColor(room, d)
        BY <2>1, <2>2, <3>3, NoColorAssumption DEF UsersOfColor
      <4>2. new.count[d] = room.count[d]
        BY <2>1, <2>2, <3>3
      <4> QED BY <3>1, <4>1, <4>2
    <3> QED BY <3>2, <3>3
  <2> QED BY <2>3 DEF Balanced
<1> QED BY <1>1, <1>2

-----------------------------------------------------------------------------
(* Queues *)

(* Appending an event leaves the earlier ones where they were.             *)
LEMMA AppendLemma ==
  ASSUME NEW S, NEW q \in Seq(S), NEW e \in S
  PROVE  /\ Append(q, e) \in Seq(S)
         /\ Len(Append(q, e)) = Len(q) + 1
         /\ \A i \in 1..Len(q) : Append(q, e)[i] = q[i]
         /\ Append(q, e)[Len(q) + 1] = e
OBVIOUS

(* Taking the first event moves the others one place forward.              *)
LEMMA TailLemma ==
  ASSUME NEW S, NEW q \in Seq(S), q # <<>>
  PROVE  /\ Tail(q) \in Seq(S)
         /\ Head(q) \in S
         /\ Head(q) = q[1]
         /\ Len(q) \in Nat \ {0}
         /\ Len(Tail(q)) = Len(q) - 1
         /\ \A i \in 1..Len(Tail(q)) : Tail(q)[i] = q[i + 1] /\ i + 1 \in 1..Len(q)
OBVIOUS

(* The events are of their types, and each type has its fields.            *)
LEMMA EventLemma ==
  ASSUME NEW e \in Event
  PROVE  /\ e.room \in RoomIds
         /\ e.event = "create_room" => e.creator \in Requests
         /\ e.event = "user_connected" => e.user \in Users /\ e.color \in Colors
         /\ e.event = "user_disconnect" => e.user \in Users
BY DEF Event

(* What SubscriberService does to a room keeps it a room.                  *)
LEMMA JoinLemma ==
  ASSUME NEW room \in RoomObject, NEW u \in Users, NEW c \in Colors
  PROVE  /\ Join(room, u, c) \in RoomObject
         /\ Join(room, u, c).creator = room.creator
         /\ \A v \in Users : HasUser(Join(room, u, c), v) <=> v = u \/ HasUser(room, v)
BY AddUserLemma DEF Join

(* The room is left without the user, and is deleted only if nobody else   *)
(* is in it.                                                               *)
LEMMA LeaveLemma ==
  ASSUME NEW room \in RoomObject, NEW u \in Users
  PROVE  /\ Leave(room, u) \in RoomObject \cup {None}
         /\ Leave(room, u) = None =>
              \A v \in Users : HasUser(room, v) => v = u
         /\ Leave(room, u) # None =>
              /\ Leave(room, u).creator = room.creator
              /\ \A v \in Users : HasUser(Leave(room, u), v) <=> v # u /\ HasUser(room, v)
<1>1. RemoveUser(room, u) \in RoomObject /\ RemoveUser(room, u) # None
  BY RemoveUserLemma, NoneAssumption
<1> QED BY <1>1, RemoveUserLemma DEF Leave, Members

-----------------------------------------------------------------------------
(* Types *)

LEMMA PublishType ==
  ASSUME TypeOK, NEW e \in Event, Publish(e)
  PROVE  /\ inbox' \in [Replicas -> Seq(Event)]
         /\ \A r \in Replicas : ~ Live(r) => inbox'[r] = <<>>
<1>1. inbox \in [Replicas -> Seq(Event)] /\ \A r \in Replicas : ~ Live(r) => inbox[r] = <<>>
  BY DEF TypeOK
<1>2. \A r \in Replicas : Append(inbox[r], e) \in Seq(Event)
  BY <1>1, AppendLemma
<1> QED BY <1>1, <1>2 DEF Publish

LEMMA ConsumeType ==
  ASSUME TypeOK, NEW r \in Replicas, Live(r), inbox[r] # <<>>, Consume(r)
  PROVE  /\ inbox' \in [Replicas -> Seq(Event)]
         /\ \A p \in Replicas : ~ Live(p) => inbox'[p] = <<>>
         /\ Next1(r) \in Event
<1>1. inbox \in [Replicas -> Seq(Event)] /\ \A p \in Replicas : ~ Live(p) => inbox[p] = <<>>
  BY DEF TypeOK
<1>2. Tail(inbox[r]) \in Seq(Event) /\ Head(inbox[r]) \in Event
  BY <1>1, TailLemma
<1> QED BY <1>1, <1>2 DEF Consume, Next1

LEMMA ProcessEndsType ==
  ASSUME TypeOK, NEW r \in Replicas, ProcessEnds(r)
  PROVE  TypeOK'
BY DEF TypeOK, ProcessEnds, Live, Phases, ticketVars, Registered, Redeeming

LEMMA InitType == Init => TypeOK
BY DEF Init, TypeOK, Phases, Live

LEMMA NextType == TypeOK /\ [Next]_vars => TypeOK'
<1> SUFFICES ASSUME TypeOK, [Next]_vars PROVE TypeOK'
  OBVIOUS
<1> USE DEF reqVars, ticketVars, sockVars
<1>1. ASSUME NEW q \in Requests, NEW r \in Replicas, NEW rid \in RoomIds, AddRoom(q, r, rid)
      PROVE  TypeOK'
  BY <1>1 DEF TypeOK, AddRoom, Live
<1>2. ASSUME NEW q \in Requests, PublishCreateRoom(q)
      PROVE  TypeOK'
  <2>1. CreateRoomEvent(reqRoom[q], q) \in Event
    BY <1>2 DEF TypeOK, PublishCreateRoom, CreateRoomEvent, Event
  <2>2. /\ inbox' \in [Replicas -> Seq(Event)]
        /\ \A r \in Replicas : ~ Live(r) => inbox'[r] = <<>>
    BY <1>2, <2>1, PublishType DEF PublishCreateRoom
  <2> QED BY <1>2, <2>2 DEF TypeOK, PublishCreateRoom, Live
<1>3. ASSUME NEW r \in Replicas, NEW rid \in RoomIds, NEW u \in Users, JoinLobby(r, rid, u)
      PROVE  TypeOK'
  BY <1>3 DEF TypeOK, JoinLobby, Live
<1>4. ASSUME NEW u \in Users, StoreTicket(u) \/ ExpireTicket(u)
      PROVE  TypeOK'
  <2>1. /\ ticketState' \in [Users -> {"none", "drawn", "stored", "expired"}]
        /\ \A v \in Users : ticketState[v] # "none" <=> ticketState'[v] # "none"
    BY <1>4 DEF TypeOK, StoreTicket, ExpireTicket
  <2>2. UNCHANGED <<status, rooms, inbox, reqVars, ticketRoom, sockVars>>
    BY <1>4 DEF StoreTicket, ExpireTicket
  <2> QED BY <2>1, <2>2 DEF TypeOK, Live
<1>5. ASSUME NEW s \in Sockets, NEW r \in Replicas, NEW u \in Users, Connect(s, r, u)
      PROVE  TypeOK'
  BY <1>5 DEF TypeOK, Connect, Live, Phases
<1>6. ASSUME NEW s \in Sockets, Accept(s)
      PROVE  TypeOK'
  <2> DEFINE r == sockReplica[s]
             u == sockUser[s]
             rid == RoomOf(s)
  <2>1. /\ r \in Replicas /\ u \in Users /\ rid \in RoomIds
        /\ rooms[r][rid] \in RoomObject
        /\ rooms[r][rid].creator \in Requests
    BY <1>6 DEF TypeOK, Accept, Redeeming, Redeemable, RoomOf, RoomObject
  <2>2. PICK c \in Colors : /\ rooms' = [rooms EXCEPT ![r][rid] = AddUser(rooms[r][rid], u, c)]
                            /\ Publish(UserConnectedEvent(rid, u, c))
    BY <1>6 DEF Accept
  <2>3. AddUser(rooms[r][rid], u, c) \in RoomObject
    BY <2>1, AddUserLemma
  <2>4. rooms' \in [Replicas -> [RoomIds -> RoomObject \cup {None}]]
    BY <2>1, <2>2, <2>3 DEF TypeOK
  <2>5. UserConnectedEvent(rid, u, c) \in Event
    BY <2>1 DEF UserConnectedEvent, Event
  <2>6. /\ inbox' \in [Replicas -> Seq(Event)]
        /\ \A p \in Replicas : ~ Live(p) => inbox'[p] = <<>>
    BY <2>2, <2>5, PublishType
  <2>7. /\ phase' \in [Sockets -> Phases]
        /\ \A t \in Sockets : phase'[t] # "new" => phase[t] # "new"
    BY <1>6 DEF TypeOK, Accept, Phases, Redeeming
  <2>8. /\ sockRoom' \in [Sockets -> Requests \cup {None}]
        /\ socketByUserId' \in [Replicas -> [Users -> Sockets \cup {None}]]
    BY <1>6, <2>1 DEF TypeOK, Accept
  <2>9. UNCHANGED <<status, reqVars, ticketVars, sockReplica, sockUser>>
    BY <1>6 DEF Accept
  <2> QED BY <2>4, <2>6, <2>7, <2>8, <2>9 DEF TypeOK, Live
<1>7. ASSUME NEW s \in Sockets, Refuse(s) \/ DropEarly(s)
      PROVE  TypeOK'
  <2>1. /\ phase' \in [Sockets -> Phases]
        /\ \A t \in Sockets : phase'[t] # "new" => phase[t] # "new"
    BY <1>7 DEF TypeOK, Refuse, DropEarly, Phases, Redeeming
  <2>2. UNCHANGED <<status, rooms, inbox, reqVars, ticketVars, sockReplica, sockUser,
                    sockRoom, socketByUserId>>
    BY <1>7 DEF Refuse, DropEarly
  <2> QED BY <2>1, <2>2 DEF TypeOK, Live
<1>8. ASSUME NEW s \in Sockets, Disconnect(s)
      PROVE  TypeOK'
  <2>1. sockUser[s] \in Users /\ RoomOf(s) \in RoomIds
    BY <1>8 DEF TypeOK, Disconnect, RoomOf
  <2>2. UserDisconnectedEvent(RoomOf(s), sockUser[s]) \in Event
    BY <2>1 DEF UserDisconnectedEvent, Event
  <2>3. /\ inbox' \in [Replicas -> Seq(Event)]
        /\ \A p \in Replicas : ~ Live(p) => inbox'[p] = <<>>
    BY <1>8, <2>2, PublishType DEF Disconnect
  <2> QED BY <1>8, <2>1, <2>3 DEF TypeOK, Disconnect, Unregister, Live, Phases
<1>9. ASSUME NEW r \in Replicas, HandleCreateRoom(r)
      PROVE  TypeOK'
  <2>1. /\ inbox' \in [Replicas -> Seq(Event)]
        /\ \A p \in Replicas : ~ Live(p) => inbox'[p] = <<>>
        /\ Next1(r) \in Event /\ Next1(r).event = "create_room"
    BY <1>9, ConsumeType DEF HandleCreateRoom, Receives, Next1
  <2>2. EmptyRoom(Next1(r).creator) \in RoomObject
    BY <2>1, EventLemma, EmptyRoomLemma
  <2> QED BY <1>9, <2>1, <2>2 DEF TypeOK, HandleCreateRoom, Live
<1>10. ASSUME NEW r \in Replicas, HandleUserConnected(r)
       PROVE  TypeOK'
  <2> DEFINE e == Next1(r)
  <2>1. /\ inbox' \in [Replicas -> Seq(Event)]
        /\ \A p \in Replicas : ~ Live(p) => inbox'[p] = <<>>
        /\ e \in Event /\ e.event = "user_connected"
    BY <1>10, ConsumeType DEF HandleUserConnected, Receives, Next1
  <2>2. e.room \in RoomIds /\ e.user \in Users /\ e.color \in Colors
    BY <2>1, EventLemma
  <2>3. rooms[r][e.room] \in RoomObject
    BY <1>10, <2>2 DEF TypeOK, HandleUserConnected
  <2>4. Join(rooms[r][e.room], e.user, e.color) \in RoomObject
    BY <2>2, <2>3, JoinLemma
  <2> QED BY <1>10, <2>1, <2>2, <2>4 DEF TypeOK, HandleUserConnected, Live
<1>11. ASSUME NEW r \in Replicas, HandleUserDisconnected(r)
       PROVE  TypeOK'
  <2> DEFINE e == Next1(r)
  <2>1. /\ inbox' \in [Replicas -> Seq(Event)]
        /\ \A p \in Replicas : ~ Live(p) => inbox'[p] = <<>>
        /\ e \in Event /\ e.event = "user_disconnect"
    BY <1>11, ConsumeType DEF HandleUserDisconnected, Receives, Next1
  <2>2. e.room \in RoomIds /\ e.user \in Users
    BY <2>1, EventLemma
  <2>3. rooms[r][e.room] \in RoomObject
    BY <1>11, <2>2 DEF TypeOK, HandleUserDisconnected
  <2>4. Leave(rooms[r][e.room], e.user) \in RoomObject \cup {None}
    BY <2>2, <2>3, LeaveLemma
  <2> QED BY <1>11, <2>1, <2>2, <2>4 DEF TypeOK, HandleUserDisconnected, Live
<1>12. ASSUME NEW r \in Replicas, HandlerThrows(r) \/ Stop(r)
       PROVE  TypeOK'
  BY <1>12, ProcessEndsType DEF HandlerThrows, Stop
<1>13. ASSUME NEW r \in Replicas, Restart(r)
       PROVE  TypeOK'
  BY <1>13 DEF TypeOK, Restart, Live
<1>14. CASE UNCHANGED vars
  BY <1>14 DEF TypeOK, vars, Live
<1> QED
  BY <1>1, <1>2, <1>3, <1>4, <1>5, <1>6, <1>7, <1>8, <1>9, <1>10, <1>11, <1>12, <1>13, <1>14
  DEF Next, Deliver, Redeem

(* Every variable keeps its type.                                          *)
THEOREM TypeCorrect == Spec => []TypeOK
BY InitType, NextType, PTL DEF Spec

-----------------------------------------------------------------------------
(* Sessions *)

(* Where the events of a queue are after a publication: the new one is the *)
(* last one of every live replica's queue, and nothing else has changed.   *)
LEMMA QueueAfterPublish ==
  ASSUME TypeOK, NEW e \in Event, Publish(e), NEW r \in Replicas
  PROVE  /\ \A i \in 1..Len(inbox'[r]) :
              \/ i \in 1..Len(inbox[r]) /\ inbox'[r][i] = inbox[r][i]
              \/ i = Len(inbox[r]) + 1 /\ inbox'[r][i] = e
         /\ \A i \in 1..Len(inbox[r]) :
              i \in 1..Len(inbox'[r]) /\ inbox'[r][i] = inbox[r][i]
         /\ Live(r) => /\ Len(inbox[r]) + 1 \in 1..Len(inbox'[r])
                       /\ inbox'[r][Len(inbox[r]) + 1] = e
         /\ \A i \in 1..Len(inbox'[r]) : i \in Nat
         /\ Len(inbox[r]) \in Nat
<1>1. inbox[r] \in Seq(Event) /\ Len(inbox[r]) \in Nat
  BY DEF TypeOK
<1>2. CASE Live(r)
  <2>1. inbox'[r] = Append(inbox[r], e)
    BY <1>2 DEF Publish
  <2> QED BY <1>1, <1>2, <2>1, AppendLemma
<1>3. CASE ~ Live(r)
  <2>1. inbox'[r] = inbox[r]
    BY <1>3 DEF Publish
  <2> QED BY <1>1, <1>3, <2>1
<1> QED BY <1>2, <1>3

(* And after a replica has taken its first event: the others moved up.     *)
LEMMA QueueAfterConsume ==
  ASSUME TypeOK, NEW r \in Replicas, inbox[r] # <<>>, Consume(r)
  PROVE  /\ Next1(r) \in Event
         /\ 1 \in 1..Len(inbox[r]) /\ Next1(r) = inbox[r][1]
         /\ \A i \in 1..Len(inbox'[r]) :
              /\ i \in Nat \ {0}
              /\ i + 1 \in 1..Len(inbox[r]) /\ inbox'[r][i] = inbox[r][i + 1]
         /\ \A i \in 1..Len(inbox[r]) :
              i # 1 => i - 1 \in 1..Len(inbox'[r]) /\ inbox'[r][i - 1] = inbox[r][i]
         /\ \A p \in Replicas : p # r => inbox'[p] = inbox[p]
<1>1. inbox \in [Replicas -> Seq(Event)] /\ inbox[r] \in Seq(Event)
  BY DEF TypeOK
<1>2. inbox'[r] = Tail(inbox[r]) /\ \A p \in Replicas : p # r => inbox'[p] = inbox[p]
  BY <1>1 DEF Consume
<1> QED BY <1>1, <1>2, TailLemma DEF Next1

(* The five facts that SessionsBacked rests on, and itself, do not look at *)
(* anything but these variables.                                           *)
LEMMA SessionFrame ==
  ASSUME SessionInv, TypeOK',
         UNCHANGED <<rooms, inbox, reqState, reqRoom, ticketRoom, phase, sockReplica,
                     sockUser, sockRoom>>
  PROVE  SessionInv'
BY DEF SessionInv, RequestsDistinct, TicketsUsedOnce, CreationsSound, RoomsRequested,
       DeparturesSound, SessionsBacked, Registered, RoomOf

LEMMA SessionInit == Init => SessionInv
<1> SUFFICES ASSUME Init PROVE SessionInv
  OBVIOUS
<1>1. TypeOK
  BY InitType
<1>2. \A r \in Replicas : inbox[r] = <<>> /\ 1..Len(inbox[r]) = {}
  BY DEF Init
<1>3. RequestsDistinct /\ TicketsUsedOnce
  BY NoneAssumption DEF Init, RequestsDistinct, TicketsUsedOnce
<1>4. CreationsSound /\ DeparturesSound
  BY <1>2 DEF CreationsSound, DeparturesSound
<1>5. RoomsRequested /\ SessionsBacked
  BY DEF Init, RoomsRequested, SessionsBacked, Registered
<1> QED BY <1>1, <1>3, <1>4, <1>5 DEF SessionInv

LEMMA SessionAddRoom ==
  ASSUME SessionInv, TypeOK', NEW q \in Requests, NEW r \in Replicas, NEW rid \in RoomIds,
         AddRoom(q, r, rid)
  PROVE  SessionInv'
<1>1. /\ reqState \in [Requests -> {"new", "creating", "done"}]
      /\ reqRoom \in [Requests -> RoomIds \cup {None}]
      /\ inbox \in [Replicas -> Seq(Event)]
      /\ rooms \in [Replicas -> [RoomIds -> RoomObject \cup {None}]]
  BY DEF SessionInv, TypeOK
<1>2. /\ reqRoom' = [reqRoom EXCEPT ![q] = rid]
      /\ reqState[q] = "new"
      /\ \A p \in Requests : p # q => reqState'[p] = reqState[p]
      /\ MayRequest(rid)
      /\ UNCHANGED <<rooms, inbox, ticketRoom, phase, sockReplica, sockUser, sockRoom>>
  BY <1>1 DEF AddRoom, ticketVars, sockVars
<1>3. RequestsDistinct'
  BY <1>1, <1>2 DEF SessionInv, RequestsDistinct, MayRequest
<1>4. CreationsSound'
  <2>1. \A p \in Replicas : \A i \in 1..Len(inbox[p]) :
          inbox[p][i].event = "create_room" => inbox[p][i].creator \in Requests
    BY <1>1, EventLemma
  <2> QED BY <1>1, <1>2, <2>1 DEF SessionInv, CreationsSound
<1>5. RoomsRequested'
  <2>1. \A p \in Replicas, id \in RoomIds : rooms[p][id] # None =>
          rooms[p][id].creator \in Requests
    BY <1>1 DEF RoomObject
  <2> QED BY <1>1, <1>2, <2>1 DEF SessionInv, RoomsRequested
<1>6. TicketsUsedOnce' /\ DeparturesSound' /\ SessionsBacked'
  BY <1>2 DEF SessionInv, TicketsUsedOnce, DeparturesSound, SessionsBacked, Registered, RoomOf
<1> QED BY <1>3, <1>4, <1>5, <1>6 DEF SessionInv

LEMMA SessionPublishCreateRoom ==
  ASSUME SessionInv, TypeOK', NEW q \in Requests, PublishCreateRoom(q)
  PROVE  SessionInv'
<1> DEFINE rid == reqRoom[q]
           e == CreateRoomEvent(rid, q)
<1>1. /\ reqState \in [Requests -> {"new", "creating", "done"}]
      /\ inbox \in [Replicas -> Seq(Event)]
      /\ rooms \in [Replicas -> [RoomIds -> RoomObject \cup {None}]]
      /\ TypeOK
  BY DEF SessionInv, TypeOK
<1>2. /\ reqState[q] = "creating"
      /\ reqState' = [reqState EXCEPT ![q] = "done"]
      /\ Publish(e)
      /\ UNCHANGED <<rooms, reqRoom, ticketRoom, phase, sockReplica, sockUser, sockRoom>>
  BY DEF PublishCreateRoom, ticketVars, sockVars
<1>3. e \in Event /\ rid \in RoomIds
      /\ e.event = "create_room" /\ e.room = rid /\ e.creator = q
  BY <1>1, <1>2 DEF TypeOK, CreateRoomEvent, Event
<1>4. RequestsDistinct' /\ TicketsUsedOnce'
  BY <1>2 DEF SessionInv, RequestsDistinct, TicketsUsedOnce
<1>5. RoomsRequested'
  BY <1>1, <1>2 DEF SessionInv, RoomsRequested
<1>6. ASSUME rid \notin ClientChosenIds, NEW p \in Replicas
      PROVE  /\ rooms[p][rid] = None
             /\ \A i \in 1..Len(inbox[p]) :
                  ~ (inbox[p][i].event = "create_room" /\ inbox[p][i].room = rid)
  <2>1. \A c \in Requests : reqRoom[c] = rid => c = q
    BY <1>3, <1>6 DEF SessionInv, RequestsDistinct
  <2>2. rooms[p][rid] = None
    <3>1. rooms[p][rid] # None => rooms[p][rid].creator \in Requests
      BY <1>1, <1>3 DEF RoomObject
    <3> QED BY <1>2, <1>3, <2>1, <3>1 DEF SessionInv, RoomsRequested
  <2>3. ASSUME NEW i \in 1..Len(inbox[p]), inbox[p][i].event = "create_room",
               inbox[p][i].room = rid
        PROVE  FALSE
    <3>1. inbox[p][i].creator \in Requests
      BY <1>1, <2>3, EventLemma
    <3> QED BY <1>2, <2>1, <2>3, <3>1 DEF SessionInv, CreationsSound
  <2> QED BY <2>2, <2>3
<1>7. CreationsSound'
  <2> SUFFICES ASSUME NEW p \in Replicas, NEW i \in 1..Len(inbox'[p]),
                      inbox'[p][i].event = "create_room"
               PROVE  LET f == inbox'[p][i]
                      IN /\ reqRoom'[f.creator] = f.room /\ reqState'[f.creator] = "done"
                         /\ f.room \notin ClientChosenIds =>
                              /\ rooms'[p][f.room] = None
                              /\ \A j \in 1..Len(inbox'[p]) :
                                   inbox'[p][j].event = "create_room"
                                     /\ inbox'[p][j].room = f.room => j = i
    BY DEF CreationsSound
  <2>1. /\ \A k \in 1..Len(inbox'[p]) :
             \/ k \in 1..Len(inbox[p]) /\ inbox'[p][k] = inbox[p][k]
             \/ k = Len(inbox[p]) + 1 /\ inbox'[p][k] = e
    BY <1>1, <1>2, <1>3, QueueAfterPublish
  <2>2. CASE i \in 1..Len(inbox[p]) /\ inbox'[p][i] = inbox[p][i]
    <3>1. inbox[p][i] \in Event /\ inbox[p][i].event = "create_room"
          /\ inbox[p][i].creator \in Requests
      BY <1>1, <2>2, EventLemma
    <3>2. /\ reqRoom[inbox[p][i].creator] = inbox[p][i].room
          /\ reqState[inbox[p][i].creator] = "done"
          /\ inbox[p][i].room \notin ClientChosenIds =>
               /\ rooms[p][inbox[p][i].room] = None
               /\ \A j \in 1..Len(inbox[p]) :
                    inbox[p][j].event = "create_room" /\ inbox[p][j].room = inbox[p][i].room
                      => j = i
      BY <2>2, <3>1 DEF SessionInv, CreationsSound
    <3>3. inbox[p][i].room \notin ClientChosenIds => inbox[p][i].room # rid
      BY <1>6, <2>2, <3>1
    <3> QED BY <1>1, <1>2, <1>3, <2>1, <2>2, <3>1, <3>2, <3>3
  <2>3. CASE i = Len(inbox[p]) + 1 /\ inbox'[p][i] = e
    BY <1>1, <1>2, <1>3, <1>6, <2>1, <2>3
  <2> QED BY <2>1, <2>2, <2>3
<1>8. DeparturesSound'
  <2> SUFFICES ASSUME NEW p \in Replicas, NEW i \in 1..Len(inbox'[p]),
                      inbox'[p][i].event = "user_disconnect"
               PROVE  \E s \in Sockets : sockUser'[s] = inbox'[p][i].user /\ phase'[s] = "closed"
    BY DEF DeparturesSound
  <2>1. i \in 1..Len(inbox[p]) /\ inbox'[p][i] = inbox[p][i]
    BY <1>1, <1>2, <1>3, QueueAfterPublish
  <2> QED BY <1>2, <2>1 DEF SessionInv, DeparturesSound
<1>9. SessionsBacked'
  BY <1>2 DEF SessionInv, SessionsBacked, Registered, RoomOf
<1> QED BY <1>4, <1>5, <1>7, <1>8, <1>9 DEF SessionInv

LEMMA SessionJoinLobby ==
  ASSUME SessionInv, TypeOK', NEW r \in Replicas, NEW rid \in RoomIds, NEW u \in Users,
         JoinLobby(r, rid, u)
  PROVE  SessionInv'
<1>1. /\ ticketState[u] = "none"
      /\ \A v \in Users : v # u => ticketRoom'[v] = ticketRoom[v]
      /\ UNCHANGED <<rooms, inbox, reqState, reqRoom, phase, sockReplica, sockUser, sockRoom>>
  BY DEF SessionInv, TypeOK, JoinLobby, reqVars, sockVars
<1>2. \A s \in Sockets : Registered(s) => sockUser[s] \in Users /\ sockUser[s] # u
  BY <1>1 DEF SessionInv, TypeOK, Registered
<1>3. SessionsBacked'
  BY <1>1, <1>2 DEF SessionInv, SessionsBacked, Registered, RoomOf
<1> QED BY <1>1, <1>3 DEF SessionInv, RequestsDistinct, TicketsUsedOnce, CreationsSound,
                       RoomsRequested, DeparturesSound

LEMMA SessionConnect ==
  ASSUME SessionInv, TypeOK', NEW s \in Sockets, NEW r \in Replicas, NEW u \in Users,
         Connect(s, r, u)
  PROVE  SessionInv'
<1>1. /\ phase[s] = "new" /\ phase'[s] = "redeeming" /\ sockUser'[s] = u
      /\ u \in ReusedTickets \/ \A t \in Sockets : sockUser[t] # u
      /\ \A t \in Sockets : t # s => /\ phase'[t] = phase[t]
                                   /\ sockReplica'[t] = sockReplica[t]
                                   /\ sockUser'[t] = sockUser[t]
      /\ UNCHANGED <<rooms, inbox, reqState, reqRoom, ticketRoom, sockRoom>>
  BY DEF SessionInv, TypeOK, Connect, reqVars, ticketVars
<1>2. TicketsUsedOnce'
  BY <1>1 DEF SessionInv, TicketsUsedOnce
<1>3. DeparturesSound'
  <2>1. \A t \in Sockets : phase[t] = "closed" => t # s
    BY <1>1
  <2> QED BY <1>1, <2>1 DEF SessionInv, DeparturesSound
<1>4. SessionsBacked'
  BY <1>1 DEF SessionInv, SessionsBacked, Registered, RoomOf
<1> QED BY <1>1, <1>2, <1>3, <1>4 DEF SessionInv, RequestsDistinct, CreationsSound,
                                   RoomsRequested

LEMMA SessionAccept ==
  ASSUME SessionInv, TypeOK', NEW s \in Sockets, Accept(s)
  PROVE  SessionInv'
<1> DEFINE r == sockReplica[s]
           u == sockUser[s]
           rid == RoomOf(s)
           room == rooms[r][rid]
<1>1. TypeOK /\ Redeeming(s) /\ room # None
  BY DEF SessionInv, Accept, Redeemable
<1>2. /\ r \in Replicas /\ u \in Users /\ rid \in RoomIds
      /\ room \in RoomObject
  BY <1>1 DEF TypeOK, Redeeming, RoomOf
<1>3. PICK c \in Colors : /\ rooms' = [rooms EXCEPT ![r][rid] = AddUser(room, u, c)]
                          /\ Publish(UserConnectedEvent(rid, u, c))
  BY DEF Accept
<1> DEFINE new == AddUser(room, u, c)
           e == UserConnectedEvent(rid, u, c)
<1>4. /\ new \in RoomObject /\ new # None /\ new.creator = room.creator
      /\ \A v \in Users : HasUser(new, v) <=> v = u \/ HasUser(room, v)
  BY <1>2, AddUserLemma, NoneAssumption
<1>5. /\ rooms'[r][rid] = new
      /\ \A p \in Replicas, id \in RoomIds :
           p # r \/ id # rid => rooms'[p][id] = rooms[p][id]
  BY <1>1, <1>2, <1>3 DEF TypeOK
<1>6. /\ phase'[s] \in {"open", "ghost"}
      /\ sockRoom'[s] = room.creator
      /\ \A t \in Sockets : t # s => phase'[t] = phase[t] /\ sockRoom'[t] = sockRoom[t]
      /\ UNCHANGED <<reqState, reqRoom, ticketRoom, sockReplica, sockUser>>
  BY <1>1 DEF TypeOK, Accept, reqVars, ticketVars
<1>7. e \in Event /\ e.event = "user_connected"
  BY <1>2 DEF UserConnectedEvent, Event
<1>8. \A p \in Replicas :
        /\ \A i \in 1..Len(inbox'[p]) :
             \/ i \in 1..Len(inbox[p]) /\ inbox'[p][i] = inbox[p][i]
             \/ inbox'[p][i].event = "user_connected"
  BY <1>1, <1>3, <1>7, QueueAfterPublish
<1>9. CreationsSound'
  <2> SUFFICES ASSUME NEW p \in Replicas, NEW i \in 1..Len(inbox'[p]),
                      inbox'[p][i].event = "create_room"
               PROVE  LET f == inbox'[p][i]
                      IN /\ reqRoom'[f.creator] = f.room /\ reqState'[f.creator] = "done"
                         /\ f.room \notin ClientChosenIds =>
                              /\ rooms'[p][f.room] = None
                              /\ \A j \in 1..Len(inbox'[p]) :
                                   inbox'[p][j].event = "create_room"
                                     /\ inbox'[p][j].room = f.room => j = i
    BY DEF CreationsSound
  <2>1. i \in 1..Len(inbox[p]) /\ inbox'[p][i] = inbox[p][i]
    BY <1>8
  <2>2. inbox[p][i].room \in RoomIds
    BY <1>1, <2>1, EventLemma DEF TypeOK
  <2>3. rooms[p][inbox[p][i].room] = None => rooms'[p][inbox[p][i].room] = None
    BY <1>1, <1>5, <2>2
  <2>4. /\ reqRoom[inbox[p][i].creator] = inbox[p][i].room
        /\ reqState[inbox[p][i].creator] = "done"
        /\ inbox[p][i].room \notin ClientChosenIds =>
             /\ rooms[p][inbox[p][i].room] = None
             /\ \A j \in 1..Len(inbox[p]) :
                  inbox[p][j].event = "create_room" /\ inbox[p][j].room = inbox[p][i].room
                    => j = i
    BY <2>1 DEF SessionInv, CreationsSound
  <2> QED BY <1>6, <1>8, <2>1, <2>3, <2>4
<1>10. RoomsRequested'
  <2>1. reqRoom[room.creator] = rid /\ reqState[room.creator] = "done"
    BY <1>1, <1>2 DEF SessionInv, RoomsRequested
  <2> QED BY <1>2, <1>4, <1>5, <1>6, <2>1 DEF SessionInv, RoomsRequested
<1>11. DeparturesSound'
  <2>1. \A t \in Sockets : phase[t] = "closed" => phase'[t] = "closed"
    BY <1>1, <1>6 DEF Redeeming
  <2> QED BY <1>6, <1>8, <2>1 DEF SessionInv, DeparturesSound
<1>12. SessionsBacked'
  <2> SUFFICES ASSUME NEW t \in Sockets, Registered(t)', sockUser'[t] \notin ReusedTickets,
                      RoomOf(t)' \notin ClientChosenIds
               PROVE  /\ rooms'[sockReplica'[t]][RoomOf(t)'] # None
                      /\ rooms'[sockReplica'[t]][RoomOf(t)'].creator = sockRoom'[t]
                      /\ HasUser(rooms'[sockReplica'[t]][RoomOf(t)'], sockUser'[t])
    BY DEF SessionsBacked, HasUser
  <2>1. RoomOf(t)' = RoomOf(t) /\ sockReplica'[t] = sockReplica[t] /\ sockUser'[t] = sockUser[t]
    BY <1>6 DEF RoomOf
  <2>2. CASE t = s
    BY <1>2, <1>4, <1>5, <1>6, <2>1, <2>2
  <2>3. CASE t # s
    <3>1. Registered(t)
      BY <1>6, <2>3 DEF Registered
    <3>2. sockReplica[t] \in Replicas /\ sockUser[t] \in Users /\ RoomOf(t) \in RoomIds
      BY <1>1, <3>1 DEF TypeOK, Registered, RoomOf
    <3>3. /\ rooms[sockReplica[t]][RoomOf(t)] # None
          /\ rooms[sockReplica[t]][RoomOf(t)].creator = sockRoom[t]
          /\ HasUser(rooms[sockReplica[t]][RoomOf(t)], sockUser[t])
      BY <2>1, <3>1 DEF SessionInv, SessionsBacked
    <3>4. CASE sockReplica[t] = r /\ RoomOf(t) = rid
      BY <1>4, <1>5, <1>6, <2>1, <2>3, <3>2, <3>3, <3>4
    <3>5. CASE sockReplica[t] # r \/ RoomOf(t) # rid
      BY <1>5, <1>6, <2>1, <2>3, <3>2, <3>3, <3>5
    <3> QED BY <3>4, <3>5
  <2> QED BY <2>2, <2>3
<1>13. RequestsDistinct' /\ TicketsUsedOnce'
  BY <1>6 DEF SessionInv, RequestsDistinct, TicketsUsedOnce
<1> QED BY <1>9, <1>10, <1>11, <1>12, <1>13 DEF SessionInv

LEMMA SessionRefuse ==
  ASSUME SessionInv, TypeOK', NEW s \in Sockets, Refuse(s) \/ DropEarly(s)
  PROVE  SessionInv'
<1>1. /\ Redeeming(s) /\ ~ Registered(s)' /\ phase[s] # "closed"
      /\ \A t \in Sockets : t # s => phase'[t] = phase[t]
      /\ UNCHANGED <<rooms, inbox, reqState, reqRoom, ticketRoom, sockReplica, sockUser,
                     sockRoom>>
  BY DEF SessionInv, TypeOK, Refuse, DropEarly, Redeeming, Registered, reqVars, ticketVars
<1>2. DeparturesSound'
  BY <1>1 DEF SessionInv, DeparturesSound
<1>3. SessionsBacked'
  BY <1>1 DEF SessionInv, SessionsBacked, Registered, RoomOf
<1> QED BY <1>1, <1>2, <1>3 DEF SessionInv, RequestsDistinct, TicketsUsedOnce, CreationsSound,
                             RoomsRequested

LEMMA SessionDisconnect ==
  ASSUME SessionInv, TypeOK', NEW s \in Sockets, Disconnect(s)
  PROVE  SessionInv'
<1> DEFINE e == UserDisconnectedEvent(RoomOf(s), sockUser[s])
<1>1. /\ TypeOK /\ phase[s] = "open" /\ phase'[s] = "closed"
      /\ \A t \in Sockets : t # s => phase'[t] = phase[t]
      /\ Publish(e)
      /\ UNCHANGED <<rooms, reqState, reqRoom, ticketRoom, sockReplica, sockUser, sockRoom>>
  BY DEF SessionInv, TypeOK, Disconnect, Unregister, reqVars, ticketVars
<1>2. e \in Event /\ e.event = "user_disconnect" /\ e.user = sockUser[s]
  BY <1>1 DEF TypeOK, RoomOf, UserDisconnectedEvent, Event
<1>3. \A p \in Replicas :
        \A i \in 1..Len(inbox'[p]) :
             \/ i \in 1..Len(inbox[p]) /\ inbox'[p][i] = inbox[p][i]
             \/ inbox'[p][i] = e
  BY <1>1, <1>2, QueueAfterPublish
<1>4. CreationsSound'
  <2>1. \A p \in Replicas : \A i \in 1..Len(inbox'[p]) :
          inbox'[p][i].event = "create_room" =>
            i \in 1..Len(inbox[p]) /\ inbox'[p][i] = inbox[p][i]
    BY <1>2, <1>3
  <2> QED BY <1>1, <2>1 DEF SessionInv, CreationsSound
<1>5. DeparturesSound'
  <2>1. \A t \in Sockets : phase[t] = "closed" => phase'[t] = "closed"
    BY <1>1
  <2> QED BY <1>1, <1>2, <1>3, <2>1 DEF SessionInv, DeparturesSound
<1>6. SessionsBacked'
  BY <1>1 DEF SessionInv, SessionsBacked, Registered, RoomOf
<1> QED BY <1>1, <1>4, <1>5, <1>6 DEF SessionInv, RequestsDistinct, TicketsUsedOnce,
                                   RoomsRequested

(* What an event handler that touches one room of its replica disturbs.    *)
LEMMA SessionConsume ==
  ASSUME SessionInv, NEW r \in Replicas, inbox[r] # <<>>, Consume(r),
         UNCHANGED <<status, reqVars, ticketVars, sockVars>>,
         \A p \in Replicas, rid \in RoomIds :
           p # r \/ rid # Next1(r).room => rooms'[p][rid] = rooms[p][rid],
         Next1(r).event # "create_room" =>
           \/ rooms[r][Next1(r).room] # None
           \/ rooms'[r][Next1(r).room] = None
  PROVE  /\ RequestsDistinct' /\ TicketsUsedOnce' /\ CreationsSound' /\ DeparturesSound'
<1> DEFINE e == Next1(r)
<1>1. TypeOK /\ UNCHANGED <<reqState, reqRoom, phase, sockUser>>
  BY DEF SessionInv, reqVars, sockVars
<1>2. /\ e \in Event
      /\ 1 \in 1..Len(inbox[r]) /\ e = inbox[r][1]
      /\ \A i \in 1..Len(inbox'[r]) :
           /\ i \in Nat \ {0}
           /\ i + 1 \in 1..Len(inbox[r]) /\ inbox'[r][i] = inbox[r][i + 1]
      /\ \A p \in Replicas : p # r => inbox'[p] = inbox[p]
  BY <1>1, QueueAfterConsume
<1>3. RequestsDistinct' /\ TicketsUsedOnce'
  BY <1>1 DEF SessionInv, RequestsDistinct, TicketsUsedOnce
<1>4. DeparturesSound'
  BY <1>1, <1>2 DEF SessionInv, DeparturesSound
<1>5. CreationsSound'
  <2> SUFFICES ASSUME NEW p \in Replicas, NEW i \in 1..Len(inbox'[p]),
                      inbox'[p][i].event = "create_room"
               PROVE  LET f == inbox'[p][i]
                      IN /\ reqRoom'[f.creator] = f.room /\ reqState'[f.creator] = "done"
                         /\ f.room \notin ClientChosenIds =>
                              /\ rooms'[p][f.room] = None
                              /\ \A j \in 1..Len(inbox'[p]) :
                                   inbox'[p][j].event = "create_room"
                                     /\ inbox'[p][j].room = f.room => j = i
    BY DEF CreationsSound
  <2>1. CASE p # r
    <3>1. inbox[p][i].room \in RoomIds
      BY <1>1, <1>2, <2>1, EventLemma DEF TypeOK
    <3>2. inbox'[p] = inbox[p] /\ rooms'[p][inbox[p][i].room] = rooms[p][inbox[p][i].room]
      BY <1>2, <2>1, <3>1
    <3>3. /\ reqRoom[inbox[p][i].creator] = inbox[p][i].room
          /\ reqState[inbox[p][i].creator] = "done"
          /\ inbox[p][i].room \notin ClientChosenIds =>
               /\ rooms[p][inbox[p][i].room] = None
               /\ \A j \in 1..Len(inbox[p]) :
                    inbox[p][j].event = "create_room" /\ inbox[p][j].room = inbox[p][i].room
                      => j = i
      BY <3>2 DEF SessionInv, CreationsSound
    <3> QED BY <1>1, <3>2, <3>3
  <2>2. CASE p = r
    <3> DEFINE f == inbox[r][i + 1]
    <3>1. i \in Nat \ {0} /\ i + 1 \in 1..Len(inbox[r]) /\ inbox'[p][i] = f
      BY <1>2, <2>2
    <3>2. f.room \in RoomIds
      BY <1>1, <3>1, EventLemma DEF TypeOK
    <3>3. /\ reqRoom[f.creator] = f.room /\ reqState[f.creator] = "done"
          /\ f.room \notin ClientChosenIds =>
               /\ rooms[r][f.room] = None
               /\ \A j \in 1..Len(inbox[r]) :
                    inbox[r][j].event = "create_room" /\ inbox[r][j].room = f.room => j = i + 1
      BY <2>2, <3>1 DEF SessionInv, CreationsSound
    <3>4. ASSUME f.room \notin ClientChosenIds
          PROVE  /\ rooms'[r][f.room] = None
                 /\ \A j \in 1..Len(inbox'[r]) :
                      inbox'[r][j].event = "create_room" /\ inbox'[r][j].room = f.room => j = i
      <4>1. ASSUME e.event = "create_room" PROVE e.room # f.room
        BY <1>2, <3>1, <3>3, <3>4, <4>1
      <4>2. rooms'[r][f.room] = None
        BY <3>2, <3>3, <3>4, <4>1
      <4>3. ASSUME NEW j \in 1..Len(inbox'[r]),
                   inbox'[r][j].event = "create_room", inbox'[r][j].room = f.room
            PROVE  j = i
        <5>1. j \in Nat /\ j + 1 \in 1..Len(inbox[r]) /\ inbox'[r][j] = inbox[r][j + 1]
          BY <1>2
        <5>2. j + 1 = i + 1
          BY <3>3, <3>4, <4>3, <5>1
        <5> QED BY <3>1, <5>1, <5>2
      <4> QED BY <4>2, <4>3
    <3> QED BY <1>1, <2>2, <3>1, <3>3, <3>4
  <2> QED BY <2>1, <2>2
<1> QED BY <1>3, <1>4, <1>5

LEMMA SessionHandleCreateRoom ==
  ASSUME SessionInv, TypeOK', NEW r \in Replicas, HandleCreateRoom(r)
  PROVE  SessionInv'
<1> DEFINE e == Next1(r)
<1>1. /\ TypeOK /\ inbox[r] # <<>> /\ Consume(r)
      /\ e.event = "create_room"
      /\ rooms' = [rooms EXCEPT ![r][e.room] = EmptyRoom(e.creator)]
      /\ UNCHANGED <<status, reqVars, ticketVars, sockVars>>
      /\ UNCHANGED <<reqState, reqRoom, ticketRoom, phase, sockReplica, sockUser, sockRoom>>
  BY DEF SessionInv, HandleCreateRoom, Receives, Next1, reqVars, ticketVars, sockVars
<1>2. /\ e \in Event /\ 1 \in 1..Len(inbox[r]) /\ e = inbox[r][1]
  BY <1>1, QueueAfterConsume
<1>3. e.room \in RoomIds /\ e.creator \in Requests
  BY <1>1, <1>2, EventLemma
<1>4. /\ rooms'[r][e.room] = EmptyRoom(e.creator)
      /\ \A p \in Replicas, rid \in RoomIds :
           p # r \/ rid # e.room => rooms'[p][rid] = rooms[p][rid]
  BY <1>1, <1>3 DEF TypeOK
<1>5. RequestsDistinct' /\ TicketsUsedOnce' /\ CreationsSound' /\ DeparturesSound'
  BY <1>1, <1>4, SessionConsume
<1>6. /\ reqRoom[e.creator] = e.room /\ reqState[e.creator] = "done"
      /\ e.room \notin ClientChosenIds => rooms[r][e.room] = None
  BY <1>1, <1>2 DEF SessionInv, CreationsSound
<1>7. RoomsRequested'
  <2>1. EmptyRoom(e.creator).creator = e.creator
    BY <1>3, EmptyRoomLemma
  <2> QED BY <1>1, <1>4, <1>6, <2>1 DEF SessionInv, RoomsRequested
<1>8. SessionsBacked'
  <2> SUFFICES ASSUME NEW t \in Sockets, Registered(t), sockUser[t] \notin ReusedTickets,
                      RoomOf(t) \notin ClientChosenIds
               PROVE  /\ rooms'[sockReplica[t]][RoomOf(t)] # None
                      /\ rooms'[sockReplica[t]][RoomOf(t)].creator = sockRoom[t]
                      /\ HasUser(rooms'[sockReplica[t]][RoomOf(t)], sockUser[t])
    BY <1>1 DEF SessionsBacked, Registered, RoomOf, HasUser
  <2>1. /\ rooms[sockReplica[t]][RoomOf(t)] # None
        /\ rooms[sockReplica[t]][RoomOf(t)].creator = sockRoom[t]
        /\ HasUser(rooms[sockReplica[t]][RoomOf(t)], sockUser[t])
    BY DEF SessionInv, SessionsBacked
  <2>2. sockReplica[t] \in Replicas /\ RoomOf(t) \in RoomIds
    BY <1>1 DEF TypeOK, Registered, RoomOf
  <2>3. sockReplica[t] # r \/ RoomOf(t) # e.room
    BY <1>6, <2>1
  <2> QED BY <1>4, <2>1, <2>2, <2>3
<1> QED BY <1>5, <1>7, <1>8 DEF SessionInv

LEMMA SessionHandleUserConnected ==
  ASSUME SessionInv, TypeOK', NEW r \in Replicas, HandleUserConnected(r)
  PROVE  SessionInv'
<1> DEFINE e == Next1(r)
           room == rooms[r][e.room]
           new == Join(room, e.user, e.color)
<1>1. /\ TypeOK /\ inbox[r] # <<>> /\ Consume(r)
      /\ e.event = "user_connected"
      /\ room # None
      /\ rooms' = [rooms EXCEPT ![r][e.room] = new]
      /\ UNCHANGED <<status, reqVars, ticketVars, sockVars>>
      /\ UNCHANGED <<reqState, reqRoom, ticketRoom, phase, sockReplica, sockUser, sockRoom>>
  BY DEF SessionInv, HandleUserConnected, Receives, Next1, reqVars, ticketVars, sockVars
<1>2. e \in Event
  BY <1>1, QueueAfterConsume
<1>3. e.room \in RoomIds /\ e.user \in Users /\ e.color \in Colors
  BY <1>1, <1>2, EventLemma
<1>4. /\ rooms'[r][e.room] = new
      /\ \A p \in Replicas, rid \in RoomIds :
           p # r \/ rid # e.room => rooms'[p][rid] = rooms[p][rid]
  BY <1>1, <1>3 DEF TypeOK
<1>5. RequestsDistinct' /\ TicketsUsedOnce' /\ CreationsSound' /\ DeparturesSound'
  BY <1>1, <1>4, SessionConsume
<1>6. room \in RoomObject
  BY <1>1, <1>3 DEF TypeOK
<1>7. /\ new # None /\ new.creator = room.creator
      /\ \A v \in Users : HasUser(room, v) => HasUser(new, v)
  BY <1>3, <1>6, JoinLemma, NoneAssumption
<1>8. RoomsRequested'
  BY <1>1, <1>3, <1>4, <1>7 DEF SessionInv, RoomsRequested
<1>9. SessionsBacked'
  <2> SUFFICES ASSUME NEW t \in Sockets, Registered(t), sockUser[t] \notin ReusedTickets,
                      RoomOf(t) \notin ClientChosenIds
               PROVE  /\ rooms'[sockReplica[t]][RoomOf(t)] # None
                      /\ rooms'[sockReplica[t]][RoomOf(t)].creator = sockRoom[t]
                      /\ HasUser(rooms'[sockReplica[t]][RoomOf(t)], sockUser[t])
    BY <1>1 DEF SessionsBacked, Registered, RoomOf, HasUser
  <2>1. /\ rooms[sockReplica[t]][RoomOf(t)] # None
        /\ rooms[sockReplica[t]][RoomOf(t)].creator = sockRoom[t]
        /\ HasUser(rooms[sockReplica[t]][RoomOf(t)], sockUser[t])
    BY DEF SessionInv, SessionsBacked
  <2>2. sockReplica[t] \in Replicas /\ RoomOf(t) \in RoomIds /\ sockUser[t] \in Users
    BY <1>1 DEF TypeOK, Registered, RoomOf
  <2>3. CASE sockReplica[t] = r /\ RoomOf(t) = e.room
    BY <1>4, <1>7, <2>1, <2>2, <2>3
  <2>4. CASE sockReplica[t] # r \/ RoomOf(t) # e.room
    BY <1>4, <2>1, <2>2, <2>4
  <2> QED BY <2>3, <2>4
<1> QED BY <1>5, <1>8, <1>9 DEF SessionInv

(* A departure takes nobody out of a room but a user whose session is over *)
(* (DeparturesSound), so that it neither removes the user of a registered  *)
(* session nor empties its room.                                           *)
LEMMA SessionHandleUserDisconnected ==
  ASSUME SessionInv, TypeOK', NEW r \in Replicas, HandleUserDisconnected(r)
  PROVE  SessionInv'
<1> DEFINE e == Next1(r)
           room == rooms[r][e.room]
           new == Leave(room, e.user)
<1>1. /\ TypeOK /\ inbox[r] # <<>> /\ Consume(r)
      /\ e.event = "user_disconnect"
      /\ room # None
      /\ rooms' = [rooms EXCEPT ![r][e.room] = new]
      /\ UNCHANGED <<status, reqVars, ticketVars, sockVars>>
      /\ UNCHANGED <<reqState, reqRoom, ticketRoom, phase, sockReplica, sockUser, sockRoom>>
  BY DEF SessionInv, HandleUserDisconnected, Receives, Next1, reqVars, ticketVars, sockVars
<1>2. e \in Event /\ 1 \in 1..Len(inbox[r]) /\ e = inbox[r][1]
  BY <1>1, QueueAfterConsume
<1>3. e.room \in RoomIds /\ e.user \in Users
  BY <1>1, <1>2, EventLemma
<1>4. /\ rooms'[r][e.room] = new
      /\ \A p \in Replicas, rid \in RoomIds :
           p # r \/ rid # e.room => rooms'[p][rid] = rooms[p][rid]
  BY <1>1, <1>3 DEF TypeOK
<1>5. RequestsDistinct' /\ TicketsUsedOnce' /\ CreationsSound' /\ DeparturesSound'
  BY <1>1, <1>4, SessionConsume
<1>6. room \in RoomObject
  BY <1>1, <1>3 DEF TypeOK
<1>7. /\ new = None => \A v \in Users : HasUser(room, v) => v = e.user
      /\ new # None => /\ new.creator = room.creator
                       /\ \A v \in Users : HasUser(new, v) <=> v # e.user /\ HasUser(room, v)
  BY <1>3, <1>6, LeaveLemma
<1>8. RoomsRequested'
  BY <1>1, <1>3, <1>4, <1>7 DEF SessionInv, RoomsRequested
<1>9. SessionsBacked'
  <2> SUFFICES ASSUME NEW t \in Sockets, Registered(t), sockUser[t] \notin ReusedTickets,
                      RoomOf(t) \notin ClientChosenIds
               PROVE  /\ rooms'[sockReplica[t]][RoomOf(t)] # None
                      /\ rooms'[sockReplica[t]][RoomOf(t)].creator = sockRoom[t]
                      /\ HasUser(rooms'[sockReplica[t]][RoomOf(t)], sockUser[t])
    BY <1>1 DEF SessionsBacked, Registered, RoomOf, HasUser
  <2>1. /\ rooms[sockReplica[t]][RoomOf(t)] # None
        /\ rooms[sockReplica[t]][RoomOf(t)].creator = sockRoom[t]
        /\ HasUser(rooms[sockReplica[t]][RoomOf(t)], sockUser[t])
    BY DEF SessionInv, SessionsBacked
  <2>2. sockReplica[t] \in Replicas /\ RoomOf(t) \in RoomIds /\ sockUser[t] \in Users
    BY <1>1 DEF TypeOK, Registered, RoomOf
  <2>3. sockUser[t] # e.user
    <3> SUFFICES ASSUME sockUser[t] = e.user PROVE FALSE
      OBVIOUS
    <3>1. PICK s \in Sockets : sockUser[s] = e.user /\ phase[s] = "closed"
      BY <1>1, <1>2 DEF SessionInv, DeparturesSound
    <3>2. s = t
      BY <1>3, <3>1 DEF SessionInv, TicketsUsedOnce
    <3> QED BY <3>1, <3>2 DEF Registered
  <2>4. CASE sockReplica[t] = r /\ RoomOf(t) = e.room
    BY <1>4, <1>7, <2>1, <2>2, <2>3, <2>4
  <2>5. CASE sockReplica[t] # r \/ RoomOf(t) # e.room
    BY <1>4, <2>1, <2>2, <2>5
  <2> QED BY <2>4, <2>5
<1> QED BY <1>5, <1>8, <1>9 DEF SessionInv

LEMMA SessionProcessEnds ==
  ASSUME SessionInv, TypeOK', NEW r \in Replicas, ProcessEnds(r)
  PROVE  SessionInv'
<1>1. /\ \A rid \in RoomIds : rooms'[r][rid] = None
      /\ \A p \in Replicas : p # r => rooms'[p] = rooms[p]
      /\ inbox'[r] = <<>> /\ 1..Len(inbox'[r]) = {}
      /\ \A p \in Replicas : p # r => inbox'[p] = inbox[p]
      /\ \A q \in Requests : reqState[q] = "done" => reqState'[q] = "done"
      /\ \A s \in Sockets : phase[s] = "closed" => phase'[s] = "closed"
      /\ \A s \in Sockets : Registered(s)' => Registered(s) /\ sockReplica[s] # r
      /\ UNCHANGED <<reqRoom, ticketRoom, sockReplica, sockUser, sockRoom>>
  BY DEF SessionInv, TypeOK, ProcessEnds, Registered, Redeeming, ticketVars
<1>2. RequestsDistinct' /\ TicketsUsedOnce'
  BY <1>1 DEF SessionInv, RequestsDistinct, TicketsUsedOnce
<1>3. CreationsSound'
  <2>1. \A p \in Replicas : \A i \in 1..Len(inbox[p]) :
          inbox[p][i].event = "create_room" => inbox[p][i].creator \in Requests
    BY EventLemma DEF SessionInv, TypeOK
  <2> QED BY <1>1, <2>1 DEF SessionInv, CreationsSound
<1>4. RoomsRequested'
  <2>1. \A p \in Replicas, id \in RoomIds : rooms[p][id] # None =>
          rooms[p][id].creator \in Requests
    BY DEF SessionInv, TypeOK, RoomObject
  <2> QED BY <1>1, <2>1 DEF SessionInv, RoomsRequested
<1>5. DeparturesSound'
  BY <1>1 DEF SessionInv, DeparturesSound
<1>6. SessionsBacked'
  <2>1. \A s \in Sockets : Registered(s) => sockReplica[s] \in Replicas
    BY DEF SessionInv, TypeOK, Registered
  <2> QED BY <1>1, <2>1 DEF SessionInv, SessionsBacked, RoomOf
<1> QED BY <1>2, <1>3, <1>4, <1>5, <1>6 DEF SessionInv

LEMMA SessionNext == SessionInv /\ [Next]_vars => SessionInv'
<1> SUFFICES ASSUME SessionInv, [Next]_vars PROVE SessionInv'
  OBVIOUS
<1>1. TypeOK'
  BY NextType DEF SessionInv
<1>2. ASSUME NEW u \in Users, StoreTicket(u) \/ ExpireTicket(u)
      PROVE  SessionInv'
  BY <1>1, <1>2, SessionFrame DEF StoreTicket, ExpireTicket, reqVars, sockVars
<1>3. ASSUME NEW r \in Replicas, Restart(r)
      PROVE  SessionInv'
  BY <1>1, <1>3, SessionFrame DEF Restart, reqVars, ticketVars, sockVars
<1>4. ASSUME NEW r \in Replicas, HandlerThrows(r) \/ Stop(r)
      PROVE  SessionInv'
  BY <1>1, <1>4, SessionProcessEnds DEF HandlerThrows, Stop
<1>5. CASE UNCHANGED vars
  BY <1>1, <1>5, SessionFrame DEF vars, reqVars, ticketVars, sockVars
<1> QED
  BY <1>1, <1>2, <1>3, <1>4, <1>5, SessionAddRoom, SessionPublishCreateRoom,
     SessionJoinLobby, SessionConnect, SessionAccept, SessionRefuse, SessionDisconnect,
     SessionHandleCreateRoom, SessionHandleUserConnected, SessionHandleUserDisconnected
  DEF Next, Deliver, Redeem

(* A registered session is backed by its replica's room as long as the     *)
(* session lives, whatever the other clients, the crashes and the order of *)
(* the events are: if its ticket is used once and its room's id comes from *)
(* IdGenerationService.                                                    *)
THEOREM SessionsAreBacked == Spec => []SessionsBacked
<1>1. SessionInv => SessionsBacked
  BY DEF SessionInv
<1> QED BY <1>1, SessionInit, SessionNext, PTL DEF Spec
=============================================================================
