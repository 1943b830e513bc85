-------------------------- MODULE RoomMembersProofs --------------------------
(***************************************************************************)
(* Theorems about who is in the rooms of RoomLifecycle: no user stays      *)
(* behind, none is missing, the colours are counted right, the sockets of  *)
(* the sessions are found, and replicas agree.                             *)
(***************************************************************************)
EXTENDS RoomLifecycleProofs, EventLogProofs

-----------------------------------------------------------------------------
(* What the actions do, as far as the members of rooms are concerned *)

(* An accepted ticket: the user is in its room at this replica, its        *)
(* arrival is published and its session registered.                        *)
LEMMA AcceptEffect ==
  ASSUME TypeOK, NEW s \in Sockets, Accept(s)
  PROVE  LET r == sockReplica[s]
             u == sockUser[s]
             rid == RoomOf(s)
         IN /\ r \in Replicas /\ u \in Users /\ rid \in RoomIds
            /\ rid = ticketRoom[u] /\ ticketState[u] # "none"
            /\ Redeeming(s) /\ rooms[r][rid] # None /\ rooms[r][rid] \in RoomObject
            /\ \E c \in Colors :
                 /\ rooms'[r][rid] = AddUser(rooms[r][rid], u, c)
                 /\ UserConnectedEvent(rid, u, c) \in Event
                 /\ Publish(UserConnectedEvent(rid, u, c))
            /\ \A p \in Replicas, id \in RoomIds :
                 p # r \/ id # rid => rooms'[p][id] = rooms[p][id]
            /\ phase'[s] \in {"open", "ghost"}
            /\ \A t \in Sockets : t # s => phase'[t] = phase[t]
            /\ socketByUserId'[r][u] = s
            /\ \A p \in Replicas, v \in Users :
                 p # r \/ v # u => socketByUserId'[p][v] = socketByUserId[p][v]
            /\ UNCHANGED <<status, ticketState, ticketRoom, sockReplica, sockUser>>
<1> DEFINE r == sockReplica[s]
           u == sockUser[s]
           rid == RoomOf(s)
           room == rooms[r][rid]
<1>1. Redeeming(s) /\ room # None
  BY DEF Accept, Redeemable
<1>2. /\ r \in Replicas /\ u \in Users /\ rid \in RoomIds /\ rid = ticketRoom[u]
      /\ room \in RoomObject /\ ticketState[u] # "none"
  BY <1>1 DEF TypeOK, Redeeming, RoomOf
<1>3. PICK c \in Colors : /\ rooms' = [rooms EXCEPT ![r][rid] = AddUser(room, u, c)]
                          /\ Publish(UserConnectedEvent(rid, u, c))
  BY DEF Accept
<1>4. /\ rooms'[r][rid] = AddUser(room, u, c)
      /\ \A p \in Replicas, id \in RoomIds :
           p # r \/ id # rid => rooms'[p][id] = rooms[p][id]
  BY <1>2, <1>3 DEF TypeOK
<1>5. /\ phase'[s] \in {"open", "ghost"}
      /\ \A t \in Sockets : t # s => phase'[t] = phase[t]
      /\ UNCHANGED <<status, ticketState, ticketRoom, sockReplica, sockUser>>
  BY <1>1 DEF TypeOK, Accept, ticketVars
<1>6. /\ socketByUserId'[r][u] = s
      /\ \A p \in Replicas, v \in Users :
           p # r \/ v # u => socketByUserId'[p][v] = socketByUserId[p][v]
  BY <1>2 DEF TypeOK, Accept
<1>7. UserConnectedEvent(rid, u, c) \in Event
  BY <1>2 DEF UserConnectedEvent, Event
<1> QED BY <1>1, <1>2, <1>3, <1>4, <1>5, <1>6, <1>7

(* A session that ends: its departure is published, nobody leaves a room.  *)
LEMMA DisconnectEffect ==
  ASSUME TypeOK, NEW s \in Sockets, Disconnect(s)
  PROVE  LET r == sockReplica[s]
             u == sockUser[s]
             e == UserDisconnectedEvent(RoomOf(s), u)
         IN /\ r \in Replicas /\ u \in Users
            /\ RoomOf(s) = ticketRoom[u] /\ ticketState[u] # "none"
            /\ phase[s] = "open" /\ phase'[s] = "closed"
            /\ \A t \in Sockets : t # s => phase'[t] = phase[t]
            /\ e \in Event /\ Publish(e)
            /\ e.event = "user_disconnect" /\ e.user = u /\ e.room = ticketRoom[u]
            /\ socketByUserId'[r][u] = None
            /\ \A p \in Replicas, v \in Users :
                 p # r \/ v # u => socketByUserId'[p][v] = socketByUserId[p][v]
            /\ UNCHANGED <<status, rooms, ticketState, ticketRoom, sockReplica, sockUser>>
<1> DEFINE r == sockReplica[s]
           u == sockUser[s]
           e == UserDisconnectedEvent(RoomOf(s), u)
<1>1. /\ phase[s] = "open" /\ phase'[s] = "closed"
      /\ \A t \in Sockets : t # s => phase'[t] = phase[t]
      /\ Publish(e)
      /\ UNCHANGED <<status, rooms, ticketState, ticketRoom, sockReplica, sockUser>>
  BY DEF TypeOK, Disconnect, Unregister, ticketVars
<1>2. /\ r \in Replicas /\ u \in Users /\ RoomOf(s) \in RoomIds
      /\ RoomOf(s) = ticketRoom[u] /\ ticketState[u] # "none"
  BY <1>1 DEF TypeOK, RoomOf
<1>3. e \in Event /\ e.event = "user_disconnect" /\ e.user = u /\ e.room = ticketRoom[u]
  BY <1>2 DEF UserDisconnectedEvent, Event
<1>4. /\ socketByUserId'[r][u] = None
      /\ \A p \in Replicas, v \in Users :
           p # r \/ v # u => socketByUserId'[p][v] = socketByUserId[p][v]
  BY <1>2 DEF TypeOK, Disconnect, Unregister
<1> QED BY <1>1, <1>2, <1>3, <1>4

(* The handlers of the three events that change rooms.                     *)
HandlesEvent(r) ==
  \/ HandleCreateRoom(r) \/ HandleUserConnected(r) \/ HandleUserDisconnected(r)

(* They take the first event and change the one room that it names.        *)
LEMMA HandlerEffect ==
  ASSUME TypeOK, NEW r \in Replicas, HandlesEvent(r)
  PROVE  LET e == Next1(r)
         IN /\ Live(r) /\ inbox[r] # <<>> /\ Consume(r) /\ e \in Event
            /\ 1 \in 1..Len(inbox[r]) /\ e = inbox[r][1]
            /\ e.room \in RoomIds
            /\ e.event = "create_room" =>
                 e.creator \in Requests /\ rooms'[r][e.room] = EmptyRoom(e.creator)
            /\ e.event = "user_connected" =>
                 /\ e.user \in Users /\ e.color \in Colors
                 /\ rooms[r][e.room] # None /\ rooms[r][e.room] \in RoomObject
                 /\ rooms'[r][e.room] = Join(rooms[r][e.room], e.user, e.color)
            /\ e.event = "user_disconnect" =>
                 /\ e.user \in Users
                 /\ rooms[r][e.room] # None /\ rooms[r][e.room] \in RoomObject
                 /\ rooms'[r][e.room] = Leave(rooms[r][e.room], e.user)
            /\ \A p \in Replicas, id \in RoomIds :
                 p # r \/ id # e.room => rooms'[p][id] = rooms[p][id]
            /\ UNCHANGED <<status, ticketState, ticketRoom, phase, sockReplica, sockUser,
                           socketByUserId>>
            /\ e.event \in {"create_room", "user_connected", "user_disconnect"}
<1> DEFINE e == Next1(r)
<1>1. /\ Live(r) /\ inbox[r] # <<>> /\ Consume(r)
      /\ UNCHANGED <<status, ticketState, ticketRoom, phase, sockReplica, sockUser,
                     socketByUserId>>
  BY DEF HandlesEvent, HandleCreateRoom, HandleUserConnected, HandleUserDisconnected,
         Receives, ticketVars, sockVars
<1>2. e \in Event /\ 1 \in 1..Len(inbox[r]) /\ e = inbox[r][1]
  BY <1>1, QueueAfterConsume
<1>3. e.event \in {"create_room", "user_connected", "user_disconnect"} /\ e.room \in RoomIds
  BY <1>2 DEF Event
<1>4. CASE HandleCreateRoom(r)
  <2>1. e.event = "create_room" /\ rooms' = [rooms EXCEPT ![r][e.room] = EmptyRoom(e.creator)]
    BY <1>4 DEF HandleCreateRoom, Receives, Next1
  <2>2. e.creator \in Requests
    BY <1>2, <2>1, EventLemma
  <2>3. /\ rooms'[r][e.room] = EmptyRoom(e.creator)
        /\ \A p \in Replicas, id \in RoomIds :
             p # r \/ id # e.room => rooms'[p][id] = rooms[p][id]
    BY <1>3, <2>1 DEF TypeOK
  <2> QED BY <1>1, <1>2, <1>3, <2>1, <2>2, <2>3
<1>5. CASE HandleUserConnected(r)
  <2> DEFINE room == rooms[r][e.room]
  <2>1. /\ e.event = "user_connected" /\ room # None
        /\ rooms' = [rooms EXCEPT ![r][e.room] = Join(room, e.user, e.color)]
    BY <1>5 DEF HandleUserConnected, Receives, Next1
  <2>2. e.user \in Users /\ e.color \in Colors
    BY <1>2, <2>1, EventLemma
  <2>3. /\ rooms'[r][e.room] = Join(room, e.user, e.color) /\ room \in RoomObject
        /\ \A p \in Replicas, id \in RoomIds :
             p # r \/ id # e.room => rooms'[p][id] = rooms[p][id]
    BY <1>3, <2>1 DEF TypeOK
  <2> QED BY <1>1, <1>2, <1>3, <2>1, <2>2, <2>3
<1>6. CASE HandleUserDisconnected(r)
  <2> DEFINE room == rooms[r][e.room]
  <2>1. /\ e.event = "user_disconnect" /\ room # None
        /\ rooms' = [rooms EXCEPT ![r][e.room] = Leave(room, e.user)]
    BY <1>6 DEF HandleUserDisconnected, Receives, Next1
  <2>2. e.user \in Users
    BY <1>2, <2>1, EventLemma
  <2>3. /\ rooms'[r][e.room] = Leave(room, e.user) /\ room \in RoomObject
        /\ \A p \in Replicas, id \in RoomIds :
             p # r \/ id # e.room => rooms'[p][id] = rooms[p][id]
    BY <1>3, <2>1 DEF TypeOK
  <2> QED BY <1>1, <1>2, <1>3, <2>1, <2>2, <2>3
<1> QED BY <1>4, <1>5, <1>6 DEF HandlesEvent

(* A replica that ends loses its rooms, its queue and its sessions.        *)
LEMMA ProcessEndsEffect ==
  ASSUME TypeOK, NEW r \in Replicas, ProcessEnds(r)
  PROVE  /\ status'[r] = "down" /\ \A p \in Replicas : p # r => status'[p] = status[p]
         /\ \A rid \in RoomIds : rooms'[r][rid] = None
         /\ \A p \in Replicas : p # r => rooms'[p] = rooms[p]
         /\ inbox'[r] = <<>> /\ 1..Len(inbox'[r]) = {}
         /\ \A p \in Replicas : p # r => inbox'[p] = inbox[p]
         /\ \A s \in Sockets : phase'[s] =
              IF sockReplica[s] = r /\ phase[s] \in {"open", "ghost"} THEN "killed"
              ELSE IF sockReplica[s] = r /\ Redeeming(s) THEN "closed"
              ELSE phase[s]
         /\ \A v \in Users : socketByUserId'[r][v] = None
         /\ \A p \in Replicas : p # r => socketByUserId'[p] = socketByUserId[p]
         /\ UNCHANGED <<ticketState, ticketRoom, sockReplica, sockUser>>
BY DEF TypeOK, ProcessEnds, Registered, Redeeming, ticketVars

(* A new connection: no session yet.                                       *)
LEMMA ConnectEffect ==
  ASSUME TypeOK, NEW s \in Sockets, NEW r \in Replicas, NEW u \in Users, Connect(s, r, u)
  PROVE  /\ phase[s] = "new" /\ phase'[s] = "redeeming"
         /\ \A t \in Sockets : t # s => /\ phase'[t] = phase[t]
                                        /\ sockReplica'[t] = sockReplica[t]
                                        /\ sockUser'[t] = sockUser[t]
         /\ UNCHANGED <<status, rooms, inbox, ticketState, ticketRoom, socketByUserId>>
BY DEF TypeOK, Connect, ticketVars

(* Refuse and DropEarly: a session that was not there is not there either. *)
LEMMA RefuseEffect ==
  ASSUME TypeOK, NEW s \in Sockets, Refuse(s) \/ DropEarly(s)
  PROVE  /\ Redeeming(s) /\ phase'[s] \in {"closed", "dropped"}
         /\ \A t \in Sockets : t # s => phase'[t] = phase[t]
         /\ UNCHANGED <<status, rooms, inbox, ticketState, ticketRoom, sockReplica, sockUser,
                        socketByUserId>>
BY DEF TypeOK, Refuse, DropEarly, Redeeming, ticketVars

(* AddRoom and the steps of a ticket: no session, room or event changes,   *)
(* and a ticket gets its room when it is drawn.                            *)
TicketStep ==
  \/ \E q \in Requests, r \in Replicas, rid \in RoomIds : AddRoom(q, r, rid)
  \/ \E r \in Replicas, rid \in RoomIds, u \in Users : JoinLobby(r, rid, u)
  \/ \E u \in Users : StoreTicket(u) \/ ExpireTicket(u)

LEMMA TicketStepEffect ==
  ASSUME TypeOK, TicketsRoomless, TicketStep
  PROVE  /\ \A u \in Users : ticketRoom[u] # None => ticketRoom'[u] = ticketRoom[u]
         /\ \A u \in Users : ticketState[u] # "none" =>
              ticketState'[u] # "none" /\ ticketRoom'[u] = ticketRoom[u]
         /\ TicketsRoomless'
         /\ UNCHANGED <<status, rooms, inbox, phase, sockReplica, sockUser, socketByUserId>>
<1>1. ASSUME NEW q \in Requests, NEW r \in Replicas, NEW rid \in RoomIds, AddRoom(q, r, rid)
      PROVE  /\ UNCHANGED <<ticketState, ticketRoom>>
             /\ UNCHANGED <<status, rooms, inbox, phase, sockReplica, sockUser, socketByUserId>>
  BY <1>1 DEF AddRoom, ticketVars, sockVars
<1>2. ASSUME NEW r \in Replicas, NEW rid \in RoomIds, NEW u \in Users, JoinLobby(r, rid, u)
      PROVE  /\ ticketState[u] = "none" /\ ticketState'[u] = "drawn"
             /\ \A v \in Users : v # u =>
                  ticketState'[v] = ticketState[v] /\ ticketRoom'[v] = ticketRoom[v]
             /\ UNCHANGED <<status, rooms, inbox, phase, sockReplica, sockUser, socketByUserId>>
  BY <1>2 DEF TypeOK, JoinLobby, sockVars
<1>3. ASSUME NEW u \in Users, StoreTicket(u) \/ ExpireTicket(u)
      PROVE  /\ \A v \in Users : ticketState[v] # "none" <=> ticketState'[v] # "none"
             /\ ticketRoom' = ticketRoom
             /\ UNCHANGED <<status, rooms, inbox, phase, sockReplica, sockUser, socketByUserId>>
  BY <1>3 DEF TypeOK, StoreTicket, ExpireTicket, sockVars
<1> QED BY <1>1, <1>2, <1>3 DEF TicketStep, TicketsRoomless

(* Every step is one of these.                                             *)
LEMMA StepKinds ==
  ASSUME TypeOK, [Next]_vars
  PROVE  \/ TicketStep
         \/ \E q \in Requests : PublishCreateRoom(q)
         \/ \E s \in Sockets, r \in Replicas, u \in Users : Connect(s, r, u)
         \/ \E s \in Sockets : Accept(s) \/ Disconnect(s) \/ Refuse(s) \/ DropEarly(s)
         \/ \E r \in Replicas : HandlesEvent(r) \/ ProcessEnds(r) \/ Restart(r)
         \/ UNCHANGED vars
BY DEF Next, Deliver, Redeem, HandlesEvent, HandlerThrows, Stop, TicketStep

(* PublishCreateRoom changes nothing but the queues,                       *)
LEMMA PublishCreateRoomEffect ==
  ASSUME TypeOK, NEW q \in Requests, PublishCreateRoom(q)
  PROVE  LET e == CreateRoomEvent(reqRoom[q], q)
         IN /\ e \in Event /\ e.event = "create_room" /\ Publish(e)
            /\ UNCHANGED <<status, rooms, ticketState, ticketRoom, phase, sockReplica,
                           sockUser, socketByUserId>>
BY DEF TypeOK, PublishCreateRoom, CreateRoomEvent, Event, ticketVars, sockVars

(* Restart nothing but the status,                                         *)
LEMMA RestartEffect ==
  ASSUME TypeOK, NEW r \in Replicas, Restart(r)
  PROVE  /\ ~ Live(r) /\ status'[r] = "restarted"
         /\ \A p \in Replicas : p # r => status'[p] = status[p]
         /\ UNCHANGED <<rooms, inbox, ticketState, ticketRoom, phase, sockReplica, sockUser,
                        socketByUserId>>
BY DEF TypeOK, Restart, ticketVars, sockVars

(* and stuttering nothing.                                                 *)
LEMMA StutterEffect ==
  ASSUME UNCHANGED vars
  PROVE  UNCHANGED <<status, rooms, inbox, ticketState, ticketRoom, phase, sockReplica,
                     sockUser, socketByUserId>>
BY DEF vars, ticketVars, sockVars

-----------------------------------------------------------------------------
(* Places: what DownEmpty, TicketsRoomless and UserEventsPlaced say *)

PlacesInv == TypeOK /\ DownEmpty /\ TicketsRoomless /\ UserEventsPlaced

(* Every ticket that has been drawn keeps its room.                        *)
LEMMA TicketsKept ==
  ASSUME TypeOK, TicketsRoomless, [Next]_vars
  PROVE  /\ TicketsRoomless'
         /\ \A u \in Users : ticketRoom[u] # None => ticketRoom'[u] = ticketRoom[u]
         /\ \A u \in Users : ticketState[u] # "none" =>
              ticketState'[u] # "none" /\ ticketRoom'[u] = ticketRoom[u]
<1>1. CASE TicketStep
  BY <1>1, TicketStepEffect
<1>2. CASE ~ TicketStep
  <2>1. UNCHANGED <<ticketState, ticketRoom>>
    BY <1>2, StepKinds, PublishCreateRoomEffect, ConnectEffect, AcceptEffect,
       DisconnectEffect, RefuseEffect, HandlerEffect, ProcessEndsEffect, RestartEffect,
       StutterEffect
  <2> QED BY <2>1 DEF TicketsRoomless
<1> QED BY <1>1, <1>2

(* What a replica that is up has in its rooms it put there itself.         *)
LEMMA DownEmptyNext ==
  ASSUME PlacesInv, TypeOK', [Next]_vars
  PROVE  DownEmpty'
<1> TypeOK /\ DownEmpty /\ TicketsRoomless
  BY DEF PlacesInv
<1> USE DEF DownEmpty, Live
<1>1. CASE TicketStep
  BY <1>1, TicketStepEffect
<1>2. ASSUME NEW q \in Requests, PublishCreateRoom(q) PROVE DownEmpty'
  BY <1>2, PublishCreateRoomEffect
<1>3. ASSUME NEW s \in Sockets, NEW r \in Replicas, NEW u \in Users, Connect(s, r, u)
      PROVE  DownEmpty'
  BY <1>3, ConnectEffect
<1>4. ASSUME NEW s \in Sockets, Accept(s) PROVE DownEmpty'
  BY <1>4, AcceptEffect
<1>5. ASSUME NEW s \in Sockets, Disconnect(s) PROVE DownEmpty'
  BY <1>5, DisconnectEffect
<1>6. ASSUME NEW s \in Sockets, Refuse(s) \/ DropEarly(s) PROVE DownEmpty'
  BY <1>6, RefuseEffect
<1>7. ASSUME NEW r \in Replicas, HandlesEvent(r) PROVE DownEmpty'
  BY <1>7, HandlerEffect
<1>8. ASSUME NEW r \in Replicas, ProcessEnds(r) PROVE DownEmpty'
  BY <1>8, ProcessEndsEffect
<1>9. ASSUME NEW r \in Replicas, Restart(r) PROVE DownEmpty'
  BY <1>9, RestartEffect
<1>10. CASE UNCHANGED vars
  BY <1>10, StutterEffect
<1> QED BY StepKinds, <1>1, <1>2, <1>3, <1>4, <1>5, <1>6, <1>7, <1>8, <1>9, <1>10

(* An event of a queue was there before, or was published by this step.    *)
LEMMA QueuesNext ==
  ASSUME TypeOK, TicketsRoomless, [Next]_vars, NEW r \in Replicas, NEW i \in 1..Len(inbox'[r])
  PROVE  LET e == inbox'[r][i]
         IN \/ \E k \in 1..Len(inbox[r]) : e = inbox[r][k]
            \/ e.event = "create_room"
            \/ e.user \in Users /\ ticketState[e.user] # "none" /\ e.room = ticketRoom[e.user]
<1> DEFINE e == inbox'[r][i]
           old == \E k \in 1..Len(inbox[r]) : e = inbox[r][k]
           placed == e.user \in Users /\ ticketState[e.user] # "none"
                     /\ e.room = ticketRoom[e.user]
<1>1. CASE UNCHANGED inbox
  BY <1>1
<1>2. ASSUME NEW q \in Requests, PublishCreateRoom(q) PROVE old \/ e.event = "create_room"
  <2>1. PICK f \in Event : f.event = "create_room" /\ Publish(f)
    BY <1>2, PublishCreateRoomEffect
  <2> QED BY <2>1, QueueAfterPublish
<1>3. ASSUME NEW s \in Sockets, Accept(s) PROVE old \/ placed
  <2> DEFINE u == sockUser[s]
  <2>1. u \in Users /\ ticketState[u] # "none" /\ RoomOf(s) = ticketRoom[u]
    BY <1>3, AcceptEffect
  <2>2. PICK c \in Colors : /\ UserConnectedEvent(RoomOf(s), u, c) \in Event
                            /\ Publish(UserConnectedEvent(RoomOf(s), u, c))
    BY <1>3, AcceptEffect
  <2>3. old \/ e = UserConnectedEvent(RoomOf(s), u, c)
    BY <2>2, QueueAfterPublish
  <2> QED BY <2>1, <2>3 DEF UserConnectedEvent
<1>4. ASSUME NEW s \in Sockets, Disconnect(s) PROVE old \/ placed
  <2> DEFINE f == UserDisconnectedEvent(RoomOf(s), sockUser[s])
  <2>1. /\ f \in Event /\ Publish(f)
        /\ sockUser[s] \in Users /\ ticketState[sockUser[s]] # "none"
        /\ f.user = sockUser[s] /\ f.room = ticketRoom[sockUser[s]]
    BY <1>4, DisconnectEffect
  <2>2. old \/ e = f
    BY <2>1, QueueAfterPublish
  <2> QED BY <2>1, <2>2
<1>5. ASSUME NEW p \in Replicas, HandlesEvent(p) PROVE old
  <2>1. inbox[p] # <<>> /\ Consume(p)
    BY <1>5, HandlerEffect
  <2> QED BY <2>1, QueueAfterConsume
<1>6. ASSUME NEW p \in Replicas, ProcessEnds(p) PROVE old
  <2>1. inbox'[r] = inbox[r]
    BY <1>6, ProcessEndsEffect
  <2> QED BY <2>1
<1>7. CASE TicketStep
  BY <1>1, <1>7, TicketStepEffect
<1> QED
  BY StepKinds, <1>1, <1>2, <1>3, <1>4, <1>5, <1>6, <1>7, ConnectEffect, RefuseEffect,
     RestartEffect, StutterEffect

LEMMA PlacesNext == PlacesInv /\ [Next]_vars => PlacesInv'
<1> SUFFICES ASSUME PlacesInv, [Next]_vars PROVE PlacesInv'
  OBVIOUS
<1>1. TypeOK' /\ TypeOK
  BY NextType DEF PlacesInv
<1>2. TicketsRoomless' /\ TicketsRoomless
  BY <1>1, TicketsKept DEF PlacesInv
<1>3. DownEmpty'
  BY <1>1, DownEmptyNext
<1>4. UserEventsPlaced'
  <2> SUFFICES ASSUME NEW r \in Replicas, NEW i \in 1..Len(inbox'[r]),
                      inbox'[r][i].event # "create_room"
               PROVE  /\ ticketState'[inbox'[r][i].user] # "none"
                      /\ inbox'[r][i].room = ticketRoom'[inbox'[r][i].user]
    BY DEF UserEventsPlaced
  <2> DEFINE e == inbox'[r][i]
  <2>1. e.user \in Users /\ ticketState[e.user] # "none" /\ e.room = ticketRoom[e.user]
    <3>1. CASE \E k \in 1..Len(inbox[r]) : e = inbox[r][k]
      <4>1. e \in Event
        BY <1>1, <3>1 DEF TypeOK
      <4>2. e.user \in Users
        BY <4>1 DEF Event
      <4> QED BY <3>1, <4>2 DEF PlacesInv, UserEventsPlaced
    <3> QED BY <1>1, <1>2, <3>1, QueuesNext
  <2> QED BY <1>1, <1>2, <2>1, TicketsKept
<1> QED BY <1>1, <1>2, <1>3, <1>4 DEF PlacesInv

LEMMA PlacesInit == Init => PlacesInv
<1> SUFFICES ASSUME Init PROVE PlacesInv
  OBVIOUS
<1>1. \A r \in Replicas : inbox[r] = <<>> /\ 1..Len(inbox[r]) = {}
  BY DEF Init
<1>2. UserEventsPlaced
  BY <1>1 DEF UserEventsPlaced
<1> QED BY <1>2, InitType DEF Init, PlacesInv, DownEmpty, TicketsRoomless

-----------------------------------------------------------------------------
(* Sockets *)

LEMMA LookupInit == Init => LookupSocketExact
BY DEF Init, LookupSocketExact, Registered

(* The two halves of LookupSocketExact: an entry is of a session of its    *)
(* user on its replica, and a session of a ticket used once has its entry. *)
EntriesRight ==
  \A r \in Replicas, u \in Users, s \in Sockets : socketByUserId[r][u] = s =>
    phase[s] \in {"open", "ghost"} /\ sockReplica[s] = r /\ sockUser[s] = u

SessionsFound ==
  \A s \in Sockets : phase[s] \in {"open", "ghost"} /\ sockUser[s] \notin ReusedTickets =>
    socketByUserId[sockReplica[s]][sockUser[s]] = s

LEMMA LookupHalves ==
  ASSUME TypeOK
  PROVE  LookupSocketExact <=> EntriesRight /\ SessionsFound
<1>1. \A r \in Replicas, u \in Users :
        socketByUserId[r][u] # None <=> socketByUserId[r][u] \in Sockets
  BY NoneAssumption DEF TypeOK
<1> QED BY <1>1 DEF LookupSocketExact, EntriesRight, SessionsFound, Registered

LEMMA EntriesNext ==
  ASSUME TypeOK, EntriesRight, [Next]_vars
  PROVE  EntriesRight'
<1> USE DEF EntriesRight
<1>1. CASE UNCHANGED <<phase, sockReplica, sockUser, socketByUserId>>
  BY <1>1
<1>2. ASSUME NEW s \in Sockets, NEW r \in Replicas, NEW u \in Users, Connect(s, r, u)
      PROVE  EntriesRight'
  <2>1. /\ phase[s] = "new" /\ UNCHANGED socketByUserId
        /\ \A t \in Sockets : t # s => /\ phase'[t] = phase[t]
                                       /\ sockReplica'[t] = sockReplica[t]
                                       /\ sockUser'[t] = sockUser[t]
    BY <1>2, ConnectEffect
  <2> QED BY <2>1
<1>3. ASSUME NEW s \in Sockets, Accept(s) PROVE EntriesRight'
  <2> DEFINE r == sockReplica[s]
             u == sockUser[s]
  <2>1. /\ Redeeming(s) /\ phase'[s] \in {"open", "ghost"}
        /\ \A t \in Sockets : t # s => phase'[t] = phase[t]
        /\ socketByUserId'[r][u] = s
        /\ \A p \in Replicas, v \in Users :
             p # r \/ v # u => socketByUserId'[p][v] = socketByUserId[p][v]
        /\ UNCHANGED <<sockReplica, sockUser>>
    BY <1>3, AcceptEffect
  <2> SUFFICES ASSUME NEW p \in Replicas, NEW v \in Users, NEW t \in Sockets,
                      socketByUserId'[p][v] = t
               PROVE  phase'[t] \in {"open", "ghost"} /\ sockReplica[t] = p /\ sockUser[t] = v
    BY <2>1
  <2>2. CASE p = r /\ v = u
    BY <2>1, <2>2
  <2>3. CASE p # r \/ v # u
    BY <2>1, <2>3
  <2> QED BY <2>2, <2>3
<1>4. ASSUME NEW s \in Sockets, Disconnect(s) PROVE EntriesRight'
  <2> DEFINE r == sockReplica[s]
             u == sockUser[s]
  <2>1. /\ \A t \in Sockets : t # s => phase'[t] = phase[t]
        /\ socketByUserId'[r][u] = None
        /\ \A p \in Replicas, v \in Users :
             p # r \/ v # u => socketByUserId'[p][v] = socketByUserId[p][v]
        /\ UNCHANGED <<sockReplica, sockUser>>
    BY <1>4, DisconnectEffect
  <2> QED BY <2>1, NoneAssumption
<1>5. ASSUME NEW s \in Sockets, Refuse(s) \/ DropEarly(s) PROVE EntriesRight'
  <2>1. /\ Redeeming(s)
        /\ \A t \in Sockets : t # s => phase'[t] = phase[t]
        /\ UNCHANGED <<sockReplica, sockUser, socketByUserId>>
    BY <1>5, RefuseEffect
  <2> QED BY <2>1 DEF Redeeming
<1>6. ASSUME NEW r \in Replicas, ProcessEnds(r) PROVE EntriesRight'
  <2>1. /\ \A s \in Sockets : sockReplica[s] # r => phase'[s] = phase[s]
        /\ \A v \in Users : socketByUserId'[r][v] = None
        /\ \A p \in Replicas : p # r => socketByUserId'[p] = socketByUserId[p]
        /\ UNCHANGED <<sockReplica, sockUser>>
    BY <1>6, ProcessEndsEffect
  <2> QED BY <2>1, NoneAssumption
<1>7. CASE TicketStep
  BY <1>1, <1>7 DEF TicketStep, AddRoom, JoinLobby, StoreTicket, ExpireTicket, sockVars
<1> QED
  BY StepKinds, <1>1, <1>2, <1>3, <1>4, <1>5, <1>6, <1>7, PublishCreateRoomEffect,
     HandlerEffect, RestartEffect, StutterEffect

(* Unregistering a session takes away the entry of its user only, and the  *)
(* user of a ticket that is used once has no other session.                *)
LEMMA FoundNext ==
  ASSUME TypeOK, TicketsUsedOnce, SessionsFound, [Next]_vars
  PROVE  SessionsFound'
<1> DEFINE Session(t) == phase[t] \in {"open", "ghost"} /\ sockUser[t] \notin ReusedTickets
<1>1. \A s \in Sockets : phase[s] # "new" => sockReplica[s] \in Replicas /\ sockUser[s] \in Users
  BY DEF TypeOK
<1>2. ASSUME NEW s \in Sockets, NEW t \in Sockets, Session(t), t # s
      PROVE  /\ sockReplica[t] \in Replicas /\ sockUser[t] \in Users /\ sockUser[t] # sockUser[s]
             /\ socketByUserId[sockReplica[t]][sockUser[t]] = t
  BY <1>1, <1>2 DEF TicketsUsedOnce, SessionsFound
<1>3. CASE UNCHANGED <<phase, sockReplica, sockUser, socketByUserId>>
  BY <1>3 DEF SessionsFound
<1>4. ASSUME NEW s \in Sockets, NEW r \in Replicas, NEW u \in Users, Connect(s, r, u)
      PROVE  SessionsFound'
  <2>1. /\ phase'[s] = "redeeming" /\ UNCHANGED socketByUserId
        /\ \A t \in Sockets : t # s => /\ phase'[t] = phase[t]
                                       /\ sockReplica'[t] = sockReplica[t]
                                       /\ sockUser'[t] = sockUser[t]
    BY <1>4, ConnectEffect
  <2> QED BY <2>1 DEF SessionsFound
<1>5. ASSUME NEW s \in Sockets, Accept(s) \/ Disconnect(s) PROVE SessionsFound'
  <2> DEFINE r == sockReplica[s]
             u == sockUser[s]
  <2>1. /\ \A t \in Sockets : t # s => phase'[t] = phase[t]
        /\ phase'[s] \in {"open", "ghost"} => socketByUserId'[r][u] = s
        /\ \A p \in Replicas, v \in Users :
             p # r \/ v # u => socketByUserId'[p][v] = socketByUserId[p][v]
        /\ UNCHANGED <<sockReplica, sockUser>>
    BY <1>5, AcceptEffect, DisconnectEffect
  <2>2. ASSUME NEW t \in Sockets, phase'[t] \in {"open", "ghost"},
               sockUser[t] \notin ReusedTickets
        PROVE  socketByUserId'[sockReplica[t]][sockUser[t]] = t
    <3>1. CASE t = s
      BY <2>1, <2>2, <3>1
    <3>2. CASE t # s
      BY <1>2, <2>1, <2>2, <3>2
    <3> QED BY <3>1, <3>2
  <2> QED BY <2>1, <2>2 DEF SessionsFound
<1>6. ASSUME NEW s \in Sockets, Refuse(s) \/ DropEarly(s) PROVE SessionsFound'
  <2>1. /\ phase'[s] \in {"closed", "dropped"}
        /\ \A t \in Sockets : t # s => phase'[t] = phase[t]
        /\ UNCHANGED <<sockReplica, sockUser, socketByUserId>>
    BY <1>6, RefuseEffect
  <2> QED BY <2>1 DEF SessionsFound
<1>7. ASSUME NEW r \in Replicas, ProcessEnds(r) PROVE SessionsFound'
  <2>1. /\ \A s \in Sockets : phase'[s] \in {"open", "ghost"} =>
             phase[s] \in {"open", "ghost"} /\ sockReplica[s] # r
        /\ \A p \in Replicas : p # r => socketByUserId'[p] = socketByUserId[p]
        /\ UNCHANGED <<sockReplica, sockUser>>
    BY <1>7, ProcessEndsEffect DEF Redeeming
  <2> QED BY <1>1, <2>1 DEF SessionsFound
<1>8. CASE TicketStep
  BY <1>3, <1>8 DEF TicketStep, AddRoom, JoinLobby, StoreTicket, ExpireTicket, sockVars
<1> QED
  BY StepKinds, <1>3, <1>4, <1>5, <1>6, <1>7, <1>8, PublishCreateRoomEffect,
     HandlerEffect, RestartEffect, StutterEffect

(* A user's socket is found as long as its session lives, and never        *)
(* another's: what broadcasts rely on to leave out the sender.             *)
THEOREM SocketsAreFound == Spec => []LookupSocketExact
<1> DEFINE Inv == SessionInv /\ EntriesRight /\ SessionsFound
<1>1. Init => Inv
  BY SessionInit, LookupInit, LookupHalves, InitType
<1>2. Inv /\ [Next]_vars => Inv'
  BY SessionNext, EntriesNext, FoundNext DEF SessionInv
<1>3. Inv => LookupSocketExact
  BY LookupHalves DEF SessionInv
<1> QED BY <1>1, <1>2, <1>3, PTL DEF Spec

-----------------------------------------------------------------------------
(* Nobody stays behind *)

(* A publication leaves what is queued queued.                             *)
LEMMA QueuedAfterPublish ==
  ASSUME TypeOK, NEW e \in Event, Publish(e), NEW r \in Replicas, NEW ev, NEW u,
         Queued(r, ev, u)
  PROVE  Queued(r, ev, u)'
BY QueueAfterPublish DEF Queued

(* What is published is queued at every live replica.                      *)
LEMMA QueuedPublished ==
  ASSUME TypeOK, NEW e \in Event, Publish(e), NEW r \in Replicas, Live(r),
         NEW ev, NEW u, e.event = ev, e.user = u
  PROVE  Queued(r, ev, u)'
BY QueueAfterPublish DEF Queued

(* An event that is queued stays so until it is the first and is handled.  *)
LEMMA QueuedAfterConsume ==
  ASSUME TypeOK, NEW r \in Replicas, inbox[r] # <<>>, Consume(r), NEW p \in Replicas,
         NEW ev, NEW u, Queued(p, ev, u),
         ~ (p = r /\ Next1(r).event = ev /\ Next1(r).user = u)
  PROVE  Queued(p, ev, u)'
<1>1. CASE p # r
  BY <1>1, QueueAfterConsume DEF Queued
<1>2. CASE p = r
  <2>1. PICK i \in 1..Len(inbox[r]) : inbox[r][i].event = ev /\ inbox[r][i].user = u
    BY <1>2 DEF Queued
  <2>2. i # 1
    BY <1>2, <2>1, QueueAfterConsume
  <2>3. i - 1 \in 1..Len(inbox'[r]) /\ inbox'[r][i - 1] = inbox[r][i]
    BY <2>2, QueueAfterConsume
  <2> QED BY <1>2, <2>1, <2>3 DEF Queued
<1> QED BY <1>1, <1>2

(* A session ends, for its user, by handleDisconnect only.                 *)
LEMMA HostedNext ==
  ASSUME TypeOK, [Next]_vars, NEW u \in Users, Hosted(u)
  PROVE  \/ Hosted(u)'
         \/ \E s \in Sockets : Disconnect(s) /\ sockUser[s] = u
<1>1. PICK t \in Sockets : sockUser[t] = u /\ phase[t] \in {"open", "ghost", "killed"}
  BY DEF Hosted
<1> USE DEF Hosted
<1>2. CASE UNCHANGED <<phase, sockUser>>
  BY <1>1, <1>2
<1>3. ASSUME NEW s \in Sockets, NEW r \in Replicas, NEW v \in Users, Connect(s, r, v)
      PROVE  Hosted(u)'
  BY <1>1, <1>3, ConnectEffect
<1>4. ASSUME NEW s \in Sockets, Accept(s) PROVE Hosted(u)'
  BY <1>1, <1>4, AcceptEffect DEF Redeeming
<1>5. ASSUME NEW s \in Sockets, Disconnect(s) PROVE Hosted(u)' \/ sockUser[s] = u
  BY <1>1, <1>5, DisconnectEffect
<1>6. ASSUME NEW s \in Sockets, Refuse(s) \/ DropEarly(s) PROVE Hosted(u)'
  BY <1>1, <1>6, RefuseEffect DEF Redeeming
<1>7. ASSUME NEW r \in Replicas, ProcessEnds(r) PROVE Hosted(u)'
  BY <1>1, <1>7, ProcessEndsEffect DEF Redeeming
<1>8. CASE TicketStep
  BY <1>2, <1>8 DEF TicketStep, AddRoom, JoinLobby, StoreTicket, ExpireTicket, sockVars
<1> QED
  BY StepKinds, <1>2, <1>3, <1>4, <1>5, <1>6, <1>7, <1>8, PublishCreateRoomEffect,
     HandlerEffect, RestartEffect, StutterEffect

(* The departure of a user whose session ends is queued behind all that    *)
(* is queued at a replica, its arrival included.                           *)
LEMMA ArrivalsNext ==
  ASSUME TypeOK, TypeOK', ArrivalsHosted, [Next]_vars
  PROVE  ArrivalsHosted'
<1> DEFINE Behind(r, i, u) ==
             \E j \in 1..Len(inbox[r]) :
               j > i /\ inbox[r][j].event = "user_disconnect" /\ inbox[r][j].user = u
           BehindNext(r, i, u) ==
             \E j \in 1..Len(inbox'[r]) :
               j > i /\ inbox'[r][j].event = "user_disconnect" /\ inbox'[r][j].user = u
<1> SUFFICES ASSUME NEW r \in Replicas, NEW i \in 1..Len(inbox'[r]), NEW u \in Users,
                    inbox'[r][i].event = "user_connected", inbox'[r][i].user = u
             PROVE  Hosted(u)' \/ BehindNext(r, i, u)
  <2>1. \A r \in Replicas : \A i \in 1..Len(inbox'[r]) :
          inbox'[r][i].event = "user_connected" => inbox'[r][i].user \in Users
    BY EventLemma DEF TypeOK
  <2> QED BY <2>1 DEF ArrivalsHosted, Hosted
<1>0. \A k \in 1..Len(inbox[r]) : inbox[r][k].event = "user_connected" =>
        inbox[r][k].user \in Users /\ (Hosted(inbox[r][k].user) \/ Behind(r, k, inbox[r][k].user))
  BY EventLemma DEF ArrivalsHosted, TypeOK
<1>1. ASSUME NEW e \in Event, Publish(e), e.event # "user_connected"
      PROVE  u \in Users /\ (Hosted(u) \/ BehindNext(r, i, u))
  <2>1. i \in 1..Len(inbox[r]) /\ inbox'[r][i] = inbox[r][i]
    BY <1>1, QueueAfterPublish
  <2>2. Behind(r, i, u) => BehindNext(r, i, u)
    BY <1>1, QueueAfterPublish
  <2> QED BY <1>0, <2>1, <2>2
<1>2. CASE UNCHANGED inbox
  <2>1. u \in Users /\ (Hosted(u) \/ BehindNext(r, i, u))
    BY <1>0, <1>2
  <2>2. ASSUME NEW s \in Sockets, Disconnect(s) PROVE inbox'[r] # inbox[r]
    <3>1. PICK e \in Event : Publish(e)
      BY <2>2, DisconnectEffect
    <3>2. inbox[r] # <<>>
      BY <1>2, QueueAfterPublish, <3>1 DEF TypeOK
    <3>3. Live(r)
      BY <3>2 DEF TypeOK
    <3> QED BY <3>1, <3>3, QueueAfterPublish
  <2> QED BY <1>2, <2>1, <2>2, HostedNext
<1>3. ASSUME NEW q \in Requests, PublishCreateRoom(q)
      PROVE  Hosted(u)' \/ BehindNext(r, i, u)
  <2>1. PICK e \in Event : e.event = "create_room" /\ Publish(e)
    BY <1>3, PublishCreateRoomEffect
  <2>2. UNCHANGED <<phase, sockUser>>
    BY <1>3, PublishCreateRoomEffect
  <2> QED BY <1>1, <2>1, <2>2 DEF Hosted
<1>4. ASSUME NEW s \in Sockets, Accept(s)
      PROVE  Hosted(u)' \/ BehindNext(r, i, u)
  <2>1. /\ phase'[s] \in {"open", "ghost"} /\ Redeeming(s) /\ sockUser[s] \in Users
        /\ \A t \in Sockets : t # s => phase'[t] = phase[t]
        /\ UNCHANGED sockUser
    BY <1>4, AcceptEffect
  <2>2. PICK c \in Colors : /\ UserConnectedEvent(RoomOf(s), sockUser[s], c) \in Event
                            /\ Publish(UserConnectedEvent(RoomOf(s), sockUser[s], c))
    BY <1>4, AcceptEffect
  <2> DEFINE e == UserConnectedEvent(RoomOf(s), sockUser[s], c)
  <2>3. e.user = sockUser[s]
    BY DEF UserConnectedEvent
  <2>4. CASE inbox'[r][i] = e
    BY <2>1, <2>3, <2>4 DEF Hosted
  <2>5. CASE i \in 1..Len(inbox[r]) /\ inbox'[r][i] = inbox[r][i]
    <3>1. Behind(r, i, u) => BehindNext(r, i, u)
      BY <2>2, QueueAfterPublish
    <3>2. Hosted(u) => Hosted(u)'
      BY <2>1 DEF Hosted, Redeeming
    <3> QED BY <1>0, <2>5, <3>1, <3>2
  <2> QED BY <2>2, <2>4, <2>5, QueueAfterPublish
<1>5. ASSUME NEW s \in Sockets, Disconnect(s)
      PROVE  Hosted(u)' \/ BehindNext(r, i, u)
  <2> DEFINE e == UserDisconnectedEvent(RoomOf(s), sockUser[s])
  <2>1. /\ e \in Event /\ Publish(e) /\ e.event = "user_disconnect" /\ e.user = sockUser[s]
        /\ UNCHANGED sockUser
        /\ \A t \in Sockets : t # s => phase'[t] = phase[t]
    BY <1>5, DisconnectEffect
  <2>2. i \in 1..Len(inbox[r]) /\ inbox'[r][i] = inbox[r][i]
    BY <2>1, QueueAfterPublish
  <2>3. u \in Users /\ (Hosted(u) \/ BehindNext(r, i, u))
    BY <1>1, <2>1
  <2>4. CASE u = sockUser[s]
    <3>1. Live(r)
      <4>1. inbox[r] # <<>>
        BY <2>2 DEF TypeOK
      <4> QED BY <4>1 DEF TypeOK
    <3>2. /\ Len(inbox[r]) + 1 \in 1..Len(inbox'[r]) /\ inbox'[r][Len(inbox[r]) + 1] = e
          /\ Len(inbox[r]) \in Nat
      BY <2>1, <3>1, QueueAfterPublish
    <3>3. Len(inbox[r]) + 1 > i
      BY <2>2, <3>2
    <3> QED BY <2>1, <2>4, <3>2, <3>3
  <2>5. CASE u # sockUser[s]
    <3>1. Hosted(u) => Hosted(u)'
      BY <2>1, <2>5 DEF Hosted
    <3> QED BY <2>3, <3>1
  <2> QED BY <2>4, <2>5
<1>6. ASSUME NEW p \in Replicas, HandlesEvent(p)
      PROVE  Hosted(u)' \/ BehindNext(r, i, u)
  <2>1. inbox[p] # <<>> /\ Consume(p) /\ UNCHANGED <<phase, sockUser>>
    BY <1>6, HandlerEffect
  <2>2. CASE p # r
    <3>1. inbox'[r] = inbox[r]
      BY <2>1, <2>2, QueueAfterConsume
    <3> QED BY <1>0, <2>1, <3>1 DEF Hosted
  <2>3. CASE p = r
    <3>1. i \in Nat \ {0} /\ i + 1 \in 1..Len(inbox[r]) /\ inbox'[r][i] = inbox[r][i + 1]
      BY <2>1, <2>3, QueueAfterConsume
    <3>2. Hosted(u) \/ Behind(r, i + 1, u)
      BY <1>0, <3>1
    <3>3. ASSUME Behind(r, i + 1, u) PROVE BehindNext(r, i, u)
      <4>1. PICK j \in 1..Len(inbox[r]) :
              /\ j > i + 1
              /\ inbox[r][j].event = "user_disconnect" /\ inbox[r][j].user = u
        BY <3>3
      <4>2. j # 1 /\ j - 1 > i
        BY <3>1, <4>1
      <4>3. j - 1 \in 1..Len(inbox'[r]) /\ inbox'[r][j - 1] = inbox[r][j]
        BY <2>1, <2>3, <4>2, QueueAfterConsume
      <4> QED BY <4>1, <4>2, <4>3
    <3> QED BY <2>1, <3>2, <3>3 DEF Hosted
  <2> QED BY <2>2, <2>3
<1>7. ASSUME NEW p \in Replicas, ProcessEnds(p)
      PROVE  Hosted(u)' \/ BehindNext(r, i, u)
  <2>1. inbox'[r] = inbox[r]
    BY <1>7, ProcessEndsEffect
  <2>2. \A v \in Users : Hosted(v) => Hosted(v)'
    BY <1>7, ProcessEndsEffect DEF Hosted, Redeeming
  <2> QED BY <1>0, <2>1, <2>2
<1>8. CASE TicketStep
  BY <1>2, <1>8 DEF TicketStep, AddRoom, JoinLobby, StoreTicket, ExpireTicket
<1> QED
  BY StepKinds, <1>2, <1>3, <1>4, <1>5, <1>6, <1>7, <1>8, ConnectEffect, RefuseEffect,
     RestartEffect, StutterEffect

(* A user is a member of the room of its ticket, and has a session or a    *)
(* departure on the way: one replica, room and user of NoOrphanMember.     *)
Accounted(r, rid, u) ==
  rid = ticketRoom[u] /\ (Hosted(u) \/ Queued(r, "user_disconnect", u))

(* Steps that leave the members alone leave them accounted for.            *)
LEMMA AccountedKept ==
  ASSUME PlacesInv, [Next]_vars, NEW r \in Replicas, NEW rid \in RoomIds, NEW u \in Users,
         Accounted(r, rid, u),
         Hosted(u) => Hosted(u)' \/ Queued(r, "user_disconnect", u)',
         Queued(r, "user_disconnect", u) => Queued(r, "user_disconnect", u)'
  PROVE  Accounted(r, rid, u)'
<1>1. TypeOK /\ TicketsRoomless /\ rid # None
  BY NoneAssumption DEF PlacesInv
<1>2. ticketRoom'[u] = rid
  BY <1>1, TicketsKept DEF Accounted
<1> QED BY <1>2 DEF Accounted

LEMMA OrphansNext ==
  ASSUME PlacesInv, TypeOK', ArrivalsHosted, NoOrphanMember, [Next]_vars
  PROVE  NoOrphanMember'
<1> DEFINE Dep(p, u) == Queued(p, "user_disconnect", u)
<1> SUFFICES ASSUME NEW r \in Replicas, NEW rid \in RoomIds, NEW u \in Users,
                    Member(r, rid, u)'
             PROVE  Accounted(r, rid, u)'
  BY DEF NoOrphanMember, Accounted
<1>0. TypeOK /\ TicketsRoomless /\ DownEmpty /\ UserEventsPlaced
  BY DEF PlacesInv
<1>1. Member(r, rid, u) => Accounted(r, rid, u)
  BY DEF NoOrphanMember, Accounted
<1>2. CASE UNCHANGED <<rooms, inbox>> /\ ~ \E s \in Sockets : Disconnect(s)
  <2>1. Accounted(r, rid, u)
    BY <1>1, <1>2 DEF Member
  <2>2. Dep(r, u) => Dep(r, u)'
    BY <1>2 DEF Queued
  <2> QED BY <1>0, <1>2, <2>1, <2>2, HostedNext, AccountedKept
<1>3. ASSUME NEW q \in Requests, PublishCreateRoom(q) PROVE Accounted(r, rid, u)'
  <2>1. PICK e \in Event : Publish(e)
    BY <1>0, <1>3, PublishCreateRoomEffect
  <2>2. UNCHANGED <<rooms, phase, sockUser>>
    BY <1>0, <1>3, PublishCreateRoomEffect
  <2>3. Accounted(r, rid, u)
    BY <1>1, <2>2 DEF Member
  <2>4. Dep(r, u) => Dep(r, u)'
    BY <1>0, <2>1, QueuedAfterPublish
  <2> QED BY <2>2, <2>3, <2>4, AccountedKept DEF Hosted
<1>4. ASSUME NEW s \in Sockets, Accept(s) PROVE Accounted(r, rid, u)'
  <2> DEFINE p == sockReplica[s]
             v == sockUser[s]
             id == RoomOf(s)
  <2>1. /\ p \in Replicas /\ v \in Users /\ id \in RoomIds /\ id = ticketRoom[v]
        /\ Redeeming(s) /\ rooms[p][id] # None /\ rooms[p][id] \in RoomObject
        /\ \A p2 \in Replicas, id2 \in RoomIds :
             p2 # p \/ id2 # id => rooms'[p2][id2] = rooms[p2][id2]
        /\ phase'[s] \in {"open", "ghost"}
        /\ \A t \in Sockets : t # s => phase'[t] = phase[t]
        /\ UNCHANGED <<ticketRoom, sockUser>>
    BY <1>0, <1>4, AcceptEffect
  <2>2. PICK c \in Colors : /\ rooms'[p][id] = AddUser(rooms[p][id], v, c)
                            /\ UserConnectedEvent(id, v, c) \in Event
                            /\ Publish(UserConnectedEvent(id, v, c))
    BY <1>0, <1>4, AcceptEffect
  <2>3. CASE rid = id /\ u = v
    BY <2>1, <2>3 DEF Accounted, Hosted
  <2>4. CASE ~ (rid = id /\ u = v)
    <3>1. Member(r, rid, u)
      <4>1. CASE r = p /\ rid = id
        BY <2>1, <2>2, <2>4, <4>1, AddUserLemma DEF Member, HasUser
      <4>2. CASE r # p \/ rid # id
        BY <2>1, <4>2 DEF Member, HasUser
      <4> QED BY <4>1, <4>2
    <3>2. Hosted(u) => Hosted(u)'
      BY <2>1 DEF Hosted, Redeeming
    <3>3. Dep(r, u) => Dep(r, u)'
      BY <1>0, <2>2, QueuedAfterPublish
    <3> QED BY <1>1, <3>1, <3>2, <3>3, AccountedKept
  <2> QED BY <2>3, <2>4
<1>5. ASSUME NEW s \in Sockets, Disconnect(s) PROVE Accounted(r, rid, u)'
  <2> DEFINE e == UserDisconnectedEvent(RoomOf(s), sockUser[s])
  <2>1. /\ e \in Event /\ Publish(e) /\ e.event = "user_disconnect" /\ e.user = sockUser[s]
        /\ UNCHANGED <<rooms, sockUser>>
        /\ \A t \in Sockets : t # s => phase'[t] = phase[t]
    BY <1>0, <1>5, DisconnectEffect
  <2>2. Member(r, rid, u)
    BY <2>1 DEF Member
  <2>3. Live(r)
    BY <1>0, <2>2 DEF DownEmpty, Member
  <2>4. u = sockUser[s] => Dep(r, u)'
    BY <1>0, <2>1, <2>3, QueuedPublished
  <2>5. u # sockUser[s] /\ Hosted(u) => Hosted(u)'
    BY <2>1 DEF Hosted
  <2>6. Dep(r, u) => Dep(r, u)'
    BY <1>0, <2>1, QueuedAfterPublish
  <2> QED BY <1>1, <2>2, <2>4, <2>5, <2>6, AccountedKept
<1>6. ASSUME NEW p \in Replicas, HandlesEvent(p) PROVE Accounted(r, rid, u)'
  <2> DEFINE e == Next1(p)
             room == rooms[p][e.room]
  <2>1. /\ inbox[p] # <<>> /\ Consume(p) /\ e \in Event
        /\ 1 \in 1..Len(inbox[p]) /\ e = inbox[p][1] /\ e.room \in RoomIds
        /\ \A p2 \in Replicas, id \in RoomIds :
             p2 # p \/ id # e.room => rooms'[p2][id] = rooms[p2][id]
        /\ UNCHANGED <<ticketRoom, phase, sockUser>>
        /\ e.event \in {"create_room", "user_connected", "user_disconnect"}
    BY <1>0, <1>6, HandlerEffect
  <2>2. Hosted(u) => Hosted(u)'
    BY <2>1 DEF Hosted
  <2>3. e.event # "create_room" => e.user \in Users /\ e.room = ticketRoom[e.user]
    BY <1>0, <2>1, EventLemma DEF UserEventsPlaced
  <2>4. ASSUME Member(r, rid, u), ~ (p = r /\ e.event = "user_disconnect" /\ e.user = u)
        PROVE  Accounted(r, rid, u)'
    <3>1. Dep(r, u) => Dep(r, u)'
      BY <1>0, <2>1, <2>4, QueuedAfterConsume
    <3> QED BY <1>1, <2>2, <2>4, <3>1, AccountedKept
  <2>5. CASE ~ (r = p /\ rid = e.room)
    <3>1. Member(r, rid, u)
      BY <2>1, <2>5 DEF Member, HasUser
    <3>2. rid = ticketRoom[u]
      BY <1>1, <3>1 DEF Accounted
    <3> QED BY <2>3, <2>4, <2>5, <3>1, <3>2
  <2>6. CASE r = p /\ rid = e.room /\ e.event = "create_room"
    <3>1. e.creator \in Requests /\ rooms'[p][e.room] = EmptyRoom(e.creator)
      BY <1>0, <1>6, <2>6, HandlerEffect
    <3> QED BY <2>6, <3>1, EmptyRoomLemma DEF Member, HasUser
  <2>7. CASE r = p /\ rid = e.room /\ e.event = "user_connected"
    <3>1. /\ e.user \in Users /\ e.color \in Colors /\ room \in RoomObject /\ room # None
          /\ rooms'[p][e.room] = Join(room, e.user, e.color)
      BY <1>0, <1>6, <2>7, HandlerEffect
    <3>2. u = e.user \/ Member(r, rid, u)
      BY <2>7, <3>1, JoinLemma DEF Member, HasUser
    <3>3. CASE u = e.user
      <4>1. \/ Hosted(u)
            \/ \E j \in 1..Len(inbox[p]) :
                 j > 1 /\ inbox[p][j].event = "user_disconnect" /\ inbox[p][j].user = u
        BY <2>1, <2>7, <3>3 DEF ArrivalsHosted
      <4>2. Hosted(u) \/ Dep(r, u)
        BY <2>7, <4>1 DEF Queued
      <4>3. Dep(r, u) => Dep(r, u)'
        BY <1>0, <2>1, <2>7, QueuedAfterConsume
      <4>4. rid = ticketRoom[u]
        BY <2>3, <2>7, <3>3
      <4> QED BY <2>1, <2>2, <4>2, <4>3, <4>4 DEF Accounted
    <3> QED BY <2>4, <2>7, <3>2, <3>3
  <2>8. CASE r = p /\ rid = e.room /\ e.event = "user_disconnect"
    <3>1. /\ e.user \in Users /\ room \in RoomObject /\ room # None
          /\ rooms'[p][e.room] = Leave(room, e.user)
      BY <1>0, <1>6, <2>8, HandlerEffect
    <3>2. u # e.user /\ Member(r, rid, u)
      BY <2>8, <3>1, LeaveLemma DEF Member, HasUser
    <3> QED BY <2>4, <3>2
  <2> QED BY <2>1, <2>5, <2>6, <2>7, <2>8
<1>7. ASSUME NEW p \in Replicas, ProcessEnds(p) PROVE Accounted(r, rid, u)'
  <2>1. /\ r # p /\ rooms'[r] = rooms[r] /\ inbox'[r] = inbox[r]
    BY <1>0, <1>7, ProcessEndsEffect DEF Member
  <2>2. Hosted(u) => Hosted(u)'
    BY <1>0, <1>7, ProcessEndsEffect DEF Hosted, Redeeming
  <2>3. Member(r, rid, u) /\ (Dep(r, u) => Dep(r, u)')
    BY <2>1 DEF Member, Queued
  <2> QED BY <1>1, <2>2, <2>3, AccountedKept
<1>8. CASE ~ \E s \in Sockets : Disconnect(s)
  BY <1>0, <1>2, <1>3, <1>4, <1>6, <1>7, <1>8, StepKinds, TicketStepEffect, ConnectEffect,
     RefuseEffect, RestartEffect, StutterEffect
<1> QED BY <1>5, <1>8

(* No replica keeps a user that nothing will remove, whatever the clients  *)
(* do and whichever replicas stop: every member of a room has a session,   *)
(* or its departure is queued.                                             *)
THEOREM NobodyStaysBehind == Spec => []NoOrphanMember
<1> DEFINE Inv == PlacesInv /\ ArrivalsHosted /\ NoOrphanMember
<1>1. Init => Inv
  <2> SUFFICES ASSUME Init PROVE Inv
    OBVIOUS
  <2>1. \A r \in Replicas : 1..Len(inbox[r]) = {}
    BY DEF Init
  <2>2. ArrivalsHosted
    BY <2>1 DEF ArrivalsHosted
  <2>3. NoOrphanMember
    BY DEF Init, NoOrphanMember, Member
  <2> QED BY <2>2, <2>3, PlacesInit
<1>2. Inv /\ [Next]_vars => Inv'
  BY PlacesNext, ArrivalsNext, OrphansNext DEF PlacesInv
<1> QED BY <1>1, <1>2, PTL DEF Spec

-----------------------------------------------------------------------------
(* Nobody is missing *)

(* A session of a ticket that is used once, in a room whose id the service *)
(* chose.                                                                  *)
Promised(s) == /\ phase[s] \in {"open", "ghost"}
               /\ sockUser[s] \notin ReusedTickets
               /\ ticketRoom[sockUser[s]] \notin ClientChosenIds

(* A replica knows a user in its ticket's room, or its arrival is queued.  *)
Known(r, u) == Member(r, ticketRoom[u], u) \/ Queued(r, "user_connected", u)

(* UsersKnownEverywhere, with its operators expanded.                      *)
Reached == \A s \in Sockets, r \in Replicas :
             Promised(s) /\ status[r] = "up" => Known(r, sockUser[s])

LEMMA KnownEverywhere == UsersKnownEverywhere <=> Reached
BY DEF UsersKnownEverywhere, Reached, Promised, Known, Registered, RoomOf

(* The user of a promised session has no departure queued anywhere.        *)
LEMMA NoDeparture ==
  ASSUME SessionInv, NEW s \in Sockets, phase[s] # "closed",
         sockUser[s] \in Users \ ReusedTickets, NEW r \in Replicas
  PROVE  ~ Queued(r, "user_disconnect", sockUser[s])
<1> SUFFICES ASSUME NEW i \in 1..Len(inbox[r]), inbox[r][i].event = "user_disconnect",
                    inbox[r][i].user = sockUser[s]
             PROVE  FALSE
  BY DEF Queued
<1>1. PICK t \in Sockets : sockUser[t] = sockUser[s] /\ phase[t] = "closed"
  BY DEF SessionInv, DeparturesSound
<1> QED BY <1>1 DEF SessionInv, TicketsUsedOnce

LEMMA KnownNext ==
  ASSUME PlacesInv, SessionInv, Reached, [Next]_vars
  PROVE  Reached'
<1>0. TypeOK /\ TicketsRoomless /\ UserEventsPlaced
  BY DEF PlacesInv
<1> SUFFICES ASSUME NEW t \in Sockets, NEW r \in Replicas, NEW u \in Users,
                    Promised(t)', status'[r] = "up", sockUser'[t] = u
             PROVE  Known(r, u)'
  <2>1. TypeOK'
    BY NextType, <1>0
  <2>2. \A t \in Sockets : Promised(t)' => sockUser'[t] \in Users
    BY <2>1 DEF TypeOK, Promised
  <2> QED BY <2>2 DEF Reached, Known, Member, Queued
<1> DEFINE Arr(p, v) == Queued(p, "user_connected", v)
           Before == Promised(t) /\ status[r] = "up" /\ sockUser[t] = u
<1>1. ASSUME phase[t] \in {"open", "ghost"}, sockUser[t] = u
      PROVE  ticketRoom'[u] = ticketRoom[u] /\ ticketRoom[u] \in RoomIds
             /\ u \notin ReusedTickets /\ ticketRoom[u] \notin ClientChosenIds
  <2>1. ticketState[u] # "none"
    BY <1>0, <1>1 DEF TypeOK
  <2> QED BY <1>0, <2>1, TicketsKept DEF TypeOK, Promised
<1>2. Before => Known(r, u)
  BY DEF Reached
<1>3. ASSUME Before, UNCHANGED rooms, Arr(r, u) => Arr(r, u)'
      PROVE  Known(r, u)'
  BY <1>1, <1>2, <1>3 DEF Known, Member, Promised
<1>4. CASE UNCHANGED <<rooms, inbox, phase, sockUser>> /\ status[r] = "up"
  BY <1>1, <1>3, <1>4 DEF Promised, Queued
<1>5. ASSUME NEW q \in Requests, PublishCreateRoom(q) PROVE Known(r, u)'
  <2>1. PICK e \in Event : Publish(e)
    BY <1>0, <1>5, PublishCreateRoomEffect
  <2>2. UNCHANGED <<status, rooms, phase, sockUser, ticketRoom>>
    BY <1>0, <1>5, PublishCreateRoomEffect
  <2> QED BY <1>0, <1>3, <2>1, <2>2, QueuedAfterPublish DEF Promised
<1>6. ASSUME NEW s \in Sockets, NEW p \in Replicas, NEW v \in Users, Connect(s, p, v)
      PROVE  Known(r, u)'
  <2>1. /\ phase'[s] = "redeeming"
        /\ \A w \in Sockets : w # s => phase'[w] = phase[w] /\ sockUser'[w] = sockUser[w]
        /\ UNCHANGED <<status, rooms, inbox, ticketRoom>>
    BY <1>0, <1>6, ConnectEffect
  <2>2. Before
    BY <2>1 DEF Promised
  <2> QED BY <1>3, <2>1, <2>2 DEF Queued
<1>7. ASSUME NEW s \in Sockets, Accept(s) PROVE Known(r, u)'
  <2> DEFINE p == sockReplica[s]
             v == sockUser[s]
             id == RoomOf(s)
  <2>1. /\ p \in Replicas /\ v \in Users /\ id \in RoomIds
        /\ rooms[p][id] # None /\ rooms[p][id] \in RoomObject
        /\ \A p2 \in Replicas, id2 \in RoomIds :
             p2 # p \/ id2 # id => rooms'[p2][id2] = rooms[p2][id2]
        /\ \A w \in Sockets : w # s => phase'[w] = phase[w]
        /\ UNCHANGED <<status, ticketRoom, sockUser>>
    BY <1>0, <1>7, AcceptEffect
  <2>2. PICK c \in Colors : /\ rooms'[p][id] = AddUser(rooms[p][id], v, c)
                            /\ UserConnectedEvent(id, v, c) \in Event
                            /\ Publish(UserConnectedEvent(id, v, c))
    BY <1>0, <1>7, AcceptEffect
  <2>3. CASE t = s
    <3>1. Live(r)
      BY <2>1 DEF Live
    <3>2. UserConnectedEvent(id, v, c).event = "user_connected"
          /\ UserConnectedEvent(id, v, c).user = u
      BY <2>1, <2>3 DEF UserConnectedEvent
    <3>3. Arr(r, u)'
      BY <1>0, <2>2, <3>1, <3>2, QueuedPublished
    <3> QED BY <3>3 DEF Known
  <2>4. CASE t # s
    <3>1. Before /\ phase[t] \in {"open", "ghost"}
      BY <2>1, <2>4 DEF Promised
    <3>2. ticketRoom[u] \in RoomIds /\ ticketRoom'[u] = ticketRoom[u]
      BY <1>1, <3>1
    <3>3. Member(r, ticketRoom[u], u) => Member(r, ticketRoom[u], u)'
      <4>1. CASE r = p /\ ticketRoom[u] = id
        <5>1. /\ rooms'[p][id] # None
              /\ HasUser(rooms[p][id], u) => HasUser(rooms'[p][id], u)
          BY <2>1, <2>2, AddUserLemma, NoneAssumption
        <5> QED BY <2>1, <4>1, <5>1 DEF Member, HasUser
      <4>2. CASE ~ (r = p /\ ticketRoom[u] = id)
        BY <2>1, <3>2, <4>2 DEF Member, HasUser
      <4> QED BY <4>1, <4>2
    <3>4. Arr(r, u) => Arr(r, u)'
      BY <1>0, <2>2, QueuedAfterPublish
    <3> QED BY <1>2, <3>1, <3>2, <3>3, <3>4 DEF Known, Member
  <2> QED BY <2>3, <2>4
<1>8. ASSUME NEW s \in Sockets, Disconnect(s) PROVE Known(r, u)'
  <2>1. /\ phase'[s] = "closed"
        /\ \A w \in Sockets : w # s => phase'[w] = phase[w]
        /\ UNCHANGED <<status, rooms, sockUser, ticketRoom>>
    BY <1>0, <1>8, DisconnectEffect
  <2>2. PICK e \in Event : Publish(e)
    BY <1>0, <1>8, DisconnectEffect
  <2>3. Before
    BY <2>1 DEF Promised
  <2> QED BY <1>0, <1>3, <2>1, <2>2, <2>3, QueuedAfterPublish
<1>9. ASSUME NEW s \in Sockets, Refuse(s) \/ DropEarly(s) PROVE Known(r, u)'
  <2>1. /\ phase'[s] \in {"closed", "dropped"}
        /\ \A w \in Sockets : w # s => phase'[w] = phase[w]
        /\ UNCHANGED <<status, rooms, inbox, sockUser, ticketRoom>>
    BY <1>0, <1>9, RefuseEffect
  <2>2. Before
    BY <2>1 DEF Promised
  <2> QED BY <1>3, <2>1, <2>2 DEF Queued
<1>10. ASSUME NEW p \in Replicas, HandlesEvent(p) PROVE Known(r, u)'
  <2> DEFINE e == Next1(p)
             room == rooms[p][e.room]
             id == ticketRoom[u]
  <2>1. /\ inbox[p] # <<>> /\ Consume(p) /\ e \in Event
        /\ 1 \in 1..Len(inbox[p]) /\ e = inbox[p][1] /\ e.room \in RoomIds
        /\ \A p2 \in Replicas, rid \in RoomIds :
             p2 # p \/ rid # e.room => rooms'[p2][rid] = rooms[p2][rid]
        /\ UNCHANGED <<status, ticketRoom, phase, sockUser>>
        /\ e.event \in {"create_room", "user_connected", "user_disconnect"}
    BY <1>0, <1>10, HandlerEffect
  <2>2. Before /\ phase[t] \in {"open", "ghost"} /\ phase[t] # "closed"
    BY <2>1 DEF Promised
  <2>3. /\ id \in RoomIds /\ ticketRoom'[u] = id
        /\ id \notin ClientChosenIds /\ u \notin ReusedTickets
    BY <1>1, <2>2
  <2>4. ASSUME ~ (p = r /\ e.event = "user_connected" /\ e.user = u),
               Member(r, id, u) => Member(r, id, u)'
        PROVE  Known(r, u)'
    <3>1. Arr(r, u) => Arr(r, u)'
      BY <1>0, <2>1, <2>4, QueuedAfterConsume
    <3> QED BY <1>2, <2>2, <2>3, <2>4, <3>1 DEF Known, Member
  <2>5. CASE ~ (r = p /\ id = e.room)
    <3>1. Member(r, id, u) => Member(r, id, u)'
      BY <2>1, <2>3, <2>5 DEF Member, HasUser
    <3>2. e.event = "user_connected" /\ e.user = u => e.room = id
      BY <1>0, <2>1 DEF UserEventsPlaced
    <3> QED BY <2>4, <2>5, <3>1, <3>2
  <2>6. CASE r = p /\ id = e.room /\ e.event = "create_room"
    <3>1. rooms[r][id] = None
      BY <2>1, <2>3, <2>6 DEF SessionInv, CreationsSound
    <3> QED BY <2>4, <2>6, <3>1 DEF Member
  <2>7. CASE r = p /\ id = e.room /\ e.event = "user_connected"
    <3>1. /\ e.user \in Users /\ e.color \in Colors /\ room \in RoomObject /\ room # None
          /\ rooms'[p][e.room] = Join(room, e.user, e.color)
      BY <1>0, <1>10, <2>7, HandlerEffect
    <3>2. /\ rooms'[p][e.room] # None
          /\ u = e.user \/ HasUser(room, u) => HasUser(rooms'[p][e.room], u)
      BY <3>1, JoinLemma, NoneAssumption
    <3>3. u = e.user \/ Member(r, id, u) => Member(r, id, u)'
      BY <2>3, <2>7, <3>2 DEF Member, HasUser
    <3>4. CASE u = e.user
      BY <2>3, <3>3, <3>4 DEF Known, Member
    <3>5. CASE u # e.user
      BY <2>4, <3>3, <3>5
    <3> QED BY <3>4, <3>5
  <2>8. CASE r = p /\ id = e.room /\ e.event = "user_disconnect"
    <3>1. /\ e.user \in Users /\ room \in RoomObject /\ room # None
          /\ rooms'[p][e.room] = Leave(room, e.user)
      BY <1>0, <1>10, <2>8, HandlerEffect
    <3>2. u # e.user
      <4>1. ~ Queued(p, "user_disconnect", u)
        BY <2>2, <2>3, NoDeparture
      <4> QED BY <2>1, <2>8, <4>1 DEF Queued
    <3>3. HasUser(room, u) =>
            rooms'[p][e.room] # None /\ HasUser(rooms'[p][e.room], u)
      BY <3>1, <3>2, LeaveLemma
    <3>4. Member(r, id, u) => Member(r, id, u)'
      BY <2>3, <2>8, <3>3 DEF Member, HasUser
    <3> QED BY <2>4, <2>8, <3>4
  <2> QED BY <2>1, <2>5, <2>6, <2>7, <2>8
<1>11. ASSUME NEW p \in Replicas, ProcessEnds(p) PROVE Known(r, u)'
  <2>1. /\ r # p /\ rooms'[r] = rooms[r] /\ inbox'[r] = inbox[r] /\ status[r] = "up"
        /\ phase'[t] \in {"open", "ghost"} => phase[t] \in {"open", "ghost"}
        /\ UNCHANGED <<ticketRoom, sockUser>>
    BY <1>0, <1>11, ProcessEndsEffect DEF Redeeming
  <2>2. Before
    BY <2>1 DEF Promised
  <2> QED BY <1>2, <2>1, <2>2 DEF Known, Member, Queued
<1>12. ASSUME NEW p \in Replicas, Restart(p) PROVE Known(r, u)'
  <2>1. /\ status[r] = "up"
        /\ UNCHANGED <<rooms, inbox, phase, sockUser>>
    BY <1>0, <1>12, RestartEffect
  <2> QED BY <1>4, <2>1
<1>13. CASE TicketStep
  BY <1>0, <1>4, <1>13, TicketStepEffect
<1> QED
  BY <1>0, StepKinds, <1>4, <1>5, <1>6, <1>7, <1>8, <1>9, <1>10, <1>11, <1>12, <1>13,
     StutterEffect

(* The user of a session is known at every replica that has never stopped, *)
(* or will be once the replica has handled what it was sent.               *)
THEOREM NobodyIsMissing == Spec => []UsersKnownEverywhere
<1> DEFINE Inv == PlacesInv /\ SessionInv /\ Reached
<1>1. Init => Inv
  BY PlacesInit, SessionInit DEF Init, Reached, Promised
<1>2. Inv /\ [Next]_vars => Inv'
  BY PlacesNext, SessionNext, KnownNext
<1>3. Inv => UsersKnownEverywhere
  BY KnownEverywhere
<1> QED BY <1>1, <1>2, <1>3, PTL DEF Spec

-----------------------------------------------------------------------------
(* Colours *)

SingleUse(rid) == \A u \in Users : Shared(u) => ticketRoom[u] # rid

(* A connection keeps the ticket that it has presented.                    *)
LEMMA PresentedKept ==
  ASSUME TypeOK, TicketsRoomless, [Next]_vars, NEW w \in Sockets, phase[w] # "new"
  PROVE  phase'[w] # "new" /\ sockUser'[w] = sockUser[w]
<1>1. CASE TicketStep
  BY <1>1, TicketStepEffect
<1>2. CASE \E q \in Requests : PublishCreateRoom(q)
  BY <1>2, PublishCreateRoomEffect
<1>3. CASE \E s \in Sockets, r \in Replicas, u \in Users : Connect(s, r, u)
  BY <1>3, ConnectEffect
<1>4. ASSUME NEW s \in Sockets, Accept(s) \/ Disconnect(s)
      PROVE  phase'[w] # "new" /\ sockUser'[w] = sockUser[w]
  BY <1>4 DEF TypeOK, Accept, Disconnect, Unregister, Redeeming
<1>5. ASSUME NEW s \in Sockets, Refuse(s) \/ DropEarly(s)
      PROVE  phase'[w] # "new" /\ sockUser'[w] = sockUser[w]
  BY <1>5, RefuseEffect
<1>6. CASE \E r \in Replicas : HandlesEvent(r)
  BY <1>6, HandlerEffect
<1>7. CASE \E r \in Replicas : ProcessEnds(r)
  BY <1>7 DEF TypeOK, ProcessEnds
<1>8. CASE \E r \in Replicas : Restart(r)
  BY <1>8, RestartEffect
<1> QED BY <1>1, <1>2, <1>3, <1>4, <1>5, <1>6, <1>7, <1>8, StepKinds, StutterEffect

(* A ticket that two connections have presented stays one.                 *)
LEMMA SharedKept ==
  ASSUME TypeOK, TicketsRoomless, [Next]_vars, NEW u \in Users, Shared(u)
  PROVE  Shared(u)'
<1>1. PICK s, t \in Sockets : /\ s # t /\ phase[s] # "new" /\ phase[t] # "new"
                             /\ sockUser[s] = u /\ sockUser[t] = u
  BY DEF Shared
<1>2. \A w \in Sockets : phase[w] # "new" =>
        phase'[w] # "new" /\ sockUser'[w] = sockUser[w]
  BY PresentedKept
<1> QED BY <1>1, <1>2 DEF Shared

(* What a user that joins finds: it is not in the room yet.  Members have  *)
(* a session or a departure, and a ticket that nobody else has presented   *)
(* has neither when it is redeemed.                                        *)
LEMMA NewcomerUnknown ==
  ASSUME SessionInv, NoOrphanMember, NEW s \in Sockets, Redeeming(s),
         sockUser[s] \in Users, ~ Shared(sockUser[s]), NEW r \in Replicas, NEW rid \in RoomIds,
         rooms[r][rid] # None
  PROVE  ~ HasUser(rooms[r][rid], sockUser[s])
<1> SUFFICES ASSUME HasUser(rooms[r][rid], sockUser[s]) PROVE FALSE
  OBVIOUS
<1>1. Hosted(sockUser[s]) \/ Queued(r, "user_disconnect", sockUser[s])
  BY DEF NoOrphanMember, Member
<1>2. phase[s] \in {"redeeming", "dropped"}
  BY DEF Redeeming
<1>3. ~ Hosted(sockUser[s])
  BY <1>2 DEF Hosted, Shared
<1>4. ~ Queued(r, "user_disconnect", sockUser[s])
  <2>1. Queued(r, "user_disconnect", sockUser[s]) =>
          \E t \in Sockets : sockUser[t] = sockUser[s] /\ phase[t] = "closed"
    BY DEF Queued, SessionInv, DeparturesSound
  <2> QED BY <1>2, <2>1 DEF Shared
<1> QED BY <1>1, <1>3, <1>4

LEMMA ColorsNext ==
  ASSUME PlacesInv, SessionInv, NoOrphanMember, ColorsBalanced, [Next]_vars
  PROVE  ColorsBalanced'
<1>0. TypeOK /\ TicketsRoomless
  BY DEF PlacesInv
<1> SUFFICES ASSUME NEW r \in Replicas, NEW rid \in RoomIds,
                    rooms'[r][rid] # None, SingleUse(rid)'
             PROVE  Balanced(rooms'[r][rid])
  BY DEF ColorsBalanced, SingleUse, Balanced, UsersOfColor
<1>1. SingleUse(rid)
  <2> SUFFICES ASSUME NEW u \in Users, Shared(u), ticketRoom[u] = rid PROVE FALSE
    BY DEF SingleUse
  <2>1. Shared(u)' /\ rid # None
    BY <1>0, SharedKept, NoneAssumption
  <2>2. ticketRoom'[u] = rid
    BY <1>0, <2>1, TicketsKept
  <2> QED BY <2>1, <2>2 DEF SingleUse
<1>2. rooms[r][rid] # None => Balanced(rooms[r][rid])
  BY <1>1 DEF ColorsBalanced, SingleUse
<1>3. CASE rooms'[r][rid] = rooms[r][rid]
  BY <1>2, <1>3
<1>4. ASSUME NEW s \in Sockets, Accept(s) PROVE Balanced(rooms'[r][rid])
  <2> DEFINE p == sockReplica[s]
             u == sockUser[s]
             id == RoomOf(s)
  <2>1. /\ p \in Replicas /\ u \in Users /\ id \in RoomIds /\ id = ticketRoom[u]
        /\ Redeeming(s) /\ rooms[p][id] # None /\ rooms[p][id] \in RoomObject
        /\ \A p2 \in Replicas, id2 \in RoomIds :
             p2 # p \/ id2 # id => rooms'[p2][id2] = rooms[p2][id2]
    BY <1>0, <1>4, AcceptEffect
  <2>2. PICK c \in Colors : rooms'[p][id] = AddUser(rooms[p][id], u, c)
    BY <1>0, <1>4, AcceptEffect
  <2>3. CASE r = p /\ rid = id
    <3>1. ~ Shared(u)
      BY <1>1, <2>1, <2>3 DEF SingleUse
    <3>2. ~ HasUser(rooms[p][id], u)
      BY <2>1, <3>1, NewcomerUnknown
    <3>3. Balanced(AddUser(rooms[p][id], u, c))
      BY <1>2, <2>1, <2>3, <3>2, AddUserBalanced
    <3> QED BY <2>2, <2>3, <3>3
  <2>4. CASE r # p \/ rid # id
    BY <1>3, <2>1, <2>4
  <2> QED BY <2>3, <2>4
<1>5. ASSUME NEW p \in Replicas, HandlesEvent(p) PROVE Balanced(rooms'[r][rid])
  <2> DEFINE e == Next1(p)
             room == rooms[p][e.room]
  <2>1. /\ e.room \in RoomIds
        /\ \A p2 \in Replicas, id \in RoomIds :
             p2 # p \/ id # e.room => rooms'[p2][id] = rooms[p2][id]
        /\ e.event \in {"create_room", "user_connected", "user_disconnect"}
    BY <1>0, <1>5, HandlerEffect
  <2>2. CASE ~ (r = p /\ rid = e.room)
    BY <1>3, <2>1, <2>2
  <2>3. CASE r = p /\ rid = e.room /\ e.event = "create_room"
    <3>1. e.creator \in Requests /\ rooms'[p][e.room] = EmptyRoom(e.creator)
      BY <1>0, <1>5, <2>3, HandlerEffect
    <3> QED BY <2>3, <3>1, EmptyRoomLemma
  <2>4. CASE r = p /\ rid = e.room /\ e.event = "user_connected"
    <3>1. /\ e.user \in Users /\ e.color \in Colors /\ room \in RoomObject /\ room # None
          /\ rooms'[p][e.room] = Join(room, e.user, e.color)
      BY <1>0, <1>5, <2>4, HandlerEffect
    <3>2. Balanced(Join(room, e.user, e.color))
      BY <1>2, <2>4, <3>1, AddUserBalanced DEF Join
    <3> QED BY <2>4, <3>1, <3>2
  <2>5. CASE r = p /\ rid = e.room /\ e.event = "user_disconnect"
    <3>1. /\ e.user \in Users /\ room \in RoomObject /\ room # None
          /\ rooms'[p][e.room] = Leave(room, e.user)
      BY <1>0, <1>5, <2>5, HandlerEffect
    <3>2. Balanced(RemoveUser(room, e.user))
      BY <1>2, <2>5, <3>1, RemoveUserBalanced
    <3>3. rooms'[p][e.room] = RemoveUser(room, e.user)
      BY <2>5, <3>1 DEF Leave
    <3> QED BY <2>5, <3>2, <3>3
  <2> QED BY <2>1, <2>2, <2>3, <2>4, <2>5
<1>6. ASSUME NEW p \in Replicas, ProcessEnds(p) PROVE Balanced(rooms'[r][rid])
  <2>1. rooms'[r] = rooms[r]
    BY <1>0, <1>6, ProcessEndsEffect
  <2> QED BY <1>3, <2>1
<1>7. CASE UNCHANGED rooms
  BY <1>3, <1>7
<1> QED
  BY <1>0, StepKinds, <1>4, <1>5, <1>6, <1>7, TicketStepEffect, PublishCreateRoomEffect,
     ConnectEffect, DisconnectEffect, RefuseEffect, RestartEffect, StutterEffect

(* The colour counts of a room are right at every replica, so that         *)
(* getNextColorId hands out the colour that is worn least: whichever order *)
(* users come and go in, as long as no two connections have presented one  *)
(* ticket of the room.                                                     *)
THEOREM ColorsAreBalanced == Spec => []ColorsBalanced
<1>1. Init => ColorsBalanced
  BY DEF Init, ColorsBalanced
<1>2. Spec => []NoOrphanMember
  BY NobodyStaysBehind
<1> DEFINE Inv == PlacesInv /\ SessionInv /\ ColorsBalanced
<1>3. Init => Inv
  BY <1>1, PlacesInit, SessionInit
<1>4. Inv /\ NoOrphanMember /\ [Next]_vars => Inv'
  BY PlacesNext, SessionNext, ColorsNext
<1> QED BY <1>2, <1>3, <1>4, PTL DEF Spec

-----------------------------------------------------------------------------
(* One log: what SurvivorsAgree rests on *)

(* What the events alone make of the rooms: a room object without local    *)
(* additions.                                                              *)
LogEntry == [members : [RoomIds -> SUBSET Users], there : SUBSET RoomIds]

AfterEvent(l, e) ==
  [members |-> [l.members EXCEPT ![e.room] =
                  IF e.event = "create_room" THEN {}
                  ELSE IF e.event = "user_connected" THEN @ \cup {e.user}
                  ELSE @ \ {e.user}],
   there   |-> IF e.event = "user_disconnect" /\ l.members[e.room] \subseteq {e.user}
               THEN l.there \ {e.room} ELSE l.there \cup {e.room}]

Steps == {t \in LogEntry \X Event \X LogEntry : t[3] = AfterEvent(t[1], t[2])}

Arriving(r, rid, u) ==
  \E i \in 1..Len(inbox[r]) : /\ inbox[r][i].event = "user_connected"
                              /\ inbox[r][i].room = rid /\ inbox[r][i].user = u

(* A replica has what the events it has handled make of the rooms, and the *)
(* users that it has accepted itself and whose arrivals it has not handled.*)
AtEntry(r, l) ==
  \A rid \in RoomIds :
    /\ \A u \in Users : u \in l.members[rid] => Member(r, rid, u)
    /\ \A u \in Users : Member(r, rid, u) => u \in l.members[rid] \/ Arriving(r, rid, u)
    /\ rid \in l.there => rooms[r][rid] # None
    /\ rooms[r][rid] # None => rid \in l.there \/ \E u \in Users : Member(r, rid, u)

FollowsLog(r, log, n) ==
  Replays(Steps, log, n, inbox[r]) /\ AtEntry(r, log[Position(n, inbox[r])])

OneLog ==
  \E n \in Nat, log \in Log(LogEntry) :
    \A r \in Replicas : status[r] = "up" => FollowsLog(r, log, n)

LEMMA AfterEventType ==
  ASSUME NEW l \in LogEntry, NEW e \in Event
  PROVE  /\ AfterEvent(l, e) \in LogEntry
         /\ <<l, e, AfterEvent(l, e)>> \in Steps
<1>1. /\ l.members \in [RoomIds -> SUBSET Users] /\ l.there \subseteq RoomIds
      /\ e.room \in RoomIds
      /\ e.event \in {"create_room", "user_connected", "user_disconnect"}
  BY DEF LogEntry, Event
<1>2. e.event # "create_room" => e.user \in Users
  BY <1>1, EventLemma
<1>3. l.members[e.room] \subseteq Users
  BY <1>1
<1>4. (IF e.event = "create_room" THEN {}
       ELSE IF e.event = "user_connected" THEN l.members[e.room] \cup {e.user}
       ELSE l.members[e.room] \ {e.user}) \in SUBSET Users
  BY <1>1, <1>2, <1>3
<1>5. AfterEvent(l, e).members \in [RoomIds -> SUBSET Users]
  BY <1>1, <1>4 DEF AfterEvent
<1>6. AfterEvent(l, e).there \in SUBSET RoomIds
  BY <1>1 DEF AfterEvent
<1>7. AfterEvent(l, e) \in LogEntry
  BY <1>5, <1>6 DEF AfterEvent, LogEntry
<1> QED BY <1>7 DEF Steps

LEMMA StepsLemma ==
  ASSUME NEW l, NEW e, NEW m, <<l, e, m>> \in Steps
  PROVE  l \in LogEntry /\ m \in LogEntry /\ m = AfterEvent(l, e)
<1>1. PICK t \in LogEntry \X Event \X LogEntry : t = <<l, e, m>> /\ t[3] = AfterEvent(t[1], t[2])
  BY DEF Steps
<1> QED BY <1>1

(* What an event does to an entry, room by room.                           *)
LEMMA AfterEventFields ==
  ASSUME NEW l \in LogEntry, NEW e \in Event, NEW rid \in RoomIds, NEW u \in Users
  PROVE  LET m == AfterEvent(l, e)
         IN /\ rid # e.room => /\ m.members[rid] = l.members[rid]
                               /\ rid \in m.there <=> rid \in l.there
            /\ rid = e.room /\ e.event = "create_room" =>
                 u \notin m.members[rid] /\ rid \in m.there
            /\ rid = e.room /\ e.event = "user_connected" =>
                 /\ u \in m.members[rid] <=> u \in l.members[rid] \/ u = e.user
                 /\ rid \in m.there
            /\ rid = e.room /\ e.event = "user_disconnect" =>
                 /\ u \in m.members[rid] <=> u \in l.members[rid] /\ u # e.user
                 /\ rid \in m.there <=>
                      \E v \in Users : v \in l.members[rid] /\ v # e.user
<1>1. /\ l.members \in [RoomIds -> SUBSET Users] /\ l.there \subseteq RoomIds
      /\ e.room \in RoomIds
  BY DEF LogEntry, Event
<1>2. l.members[rid] \subseteq Users
  BY <1>1
<1>3. AfterEvent(l, e).members =
        [l.members EXCEPT ![e.room] = IF e.event = "create_room" THEN {}
                                      ELSE IF e.event = "user_connected" THEN @ \cup {e.user}
                                      ELSE @ \ {e.user}]
  BY DEF AfterEvent
<1>4. AfterEvent(l, e).there =
        IF e.event = "user_disconnect" /\ l.members[e.room] \subseteq {e.user}
        THEN l.there \ {e.room} ELSE l.there \cup {e.room}
  BY DEF AfterEvent
<1>5. CASE rid # e.room
  BY <1>1, <1>3, <1>4, <1>5
<1>6. CASE rid = e.room
  BY <1>1, <1>2, <1>3, <1>4, <1>6
<1> QED BY <1>5, <1>6

(* Handling an event takes a replica from one entry to the next.           *)
LEMMA HandledEntry ==
  ASSUME PlacesInv, NEW r \in Replicas, HandlesEvent(r), NEW l \in LogEntry, AtEntry(r, l),
         NEW m, m = AfterEvent(l, Next1(r))
  PROVE  AtEntry(r, m)'
<1> DEFINE e == Next1(r)
           room == rooms[r][e.room]
<1>0. TypeOK
  BY DEF PlacesInv
<1>1. /\ inbox[r] # <<>> /\ Consume(r) /\ e \in Event /\ e.room \in RoomIds
      /\ e = inbox[r][1]
      /\ e.event \in {"create_room", "user_connected", "user_disconnect"}
      /\ \A rid \in RoomIds : rid # e.room => rooms'[r][rid] = rooms[r][rid]
  BY <1>0, HandlerEffect
<1>2. ASSUME NEW rid \in RoomIds, NEW u \in Users, Arriving(r, rid, u),
             ~ (e.event = "user_connected" /\ rid = e.room /\ u = e.user)
      PROVE  Arriving(r, rid, u)'
  <2>1. PICK i \in 1..Len(inbox[r]) : /\ inbox[r][i].event = "user_connected"
                                      /\ inbox[r][i].room = rid /\ inbox[r][i].user = u
    BY <1>2 DEF Arriving
  <2>2. i # 1
    BY <1>1, <1>2, <2>1
  <2>3. i - 1 \in 1..Len(inbox'[r]) /\ inbox'[r][i - 1] = inbox[r][i]
    BY <1>0, <1>1, <2>2, QueueAfterConsume
  <2> QED BY <2>1, <2>3 DEF Arriving
<1>3. \A rid \in RoomIds, u \in Users :
        Member(r, rid, u)' <=> rooms'[r][rid] # None /\ HasUser(rooms'[r][rid], u)
  BY DEF Member, HasUser
<1>4. \A rid \in RoomIds, u \in Users :
        Member(r, rid, u) <=> rooms[r][rid] # None /\ HasUser(rooms[r][rid], u)
  BY DEF Member
<1> SUFFICES ASSUME NEW rid \in RoomIds
             PROVE  /\ \A u \in Users : u \in m.members[rid] => Member(r, rid, u)'
                    /\ \A u \in Users : Member(r, rid, u)' =>
                         u \in m.members[rid] \/ Arriving(r, rid, u)'
                    /\ rid \in m.there => rooms'[r][rid] # None
                    /\ rooms'[r][rid] # None =>
                         rid \in m.there \/ \E u \in Users : Member(r, rid, u)'
  BY DEF AtEntry
<1>5. /\ \A u \in Users : u \in l.members[rid] => Member(r, rid, u)
      /\ \A u \in Users : Member(r, rid, u) => u \in l.members[rid] \/ Arriving(r, rid, u)
      /\ rid \in l.there => rooms[r][rid] # None
      /\ rooms[r][rid] # None => rid \in l.there \/ \E u \in Users : Member(r, rid, u)
  BY DEF AtEntry
<1>10. m = AfterEvent(l, e)
  OBVIOUS
<1> HIDE DEF e
<1>6. CASE rid # e.room
  <2>1. \A u \in Users : Member(r, rid, u)' <=> Member(r, rid, u)
    BY <1>1, <1>3, <1>4, <1>6
  <2>2. rooms'[r][rid] = rooms[r][rid]
    BY <1>1, <1>6
  <2>3. m.members[rid] = l.members[rid] /\ (rid \in m.there <=> rid \in l.there)
    BY <1>1, <1>6, <1>10 DEF AfterEvent, LogEntry
  <2> QED BY <1>2, <1>5, <1>6, <2>1, <2>2, <2>3
<1>7. CASE rid = e.room /\ e.event = "create_room"
  <2>1. rooms'[r][rid] = EmptyRoom(e.creator) /\ e.creator \in Requests
    BY <1>0, <1>7, HandlerEffect DEF e
  <2>2. rooms'[r][rid] # None /\ \A u \in Users : ~ HasUser(rooms'[r][rid], u)
    BY <2>1, EmptyRoomLemma, NoneAssumption
  <2>3. rid \in m.there /\ \A u \in Users : u \notin m.members[rid]
    BY <1>1, <1>7, <1>10 DEF AfterEvent, LogEntry
  <2> QED BY <1>3, <2>2, <2>3
<1>8. CASE rid = e.room /\ e.event = "user_connected"
  <2>1. /\ e.user \in Users /\ e.color \in Colors
        /\ rooms[r][rid] # None /\ rooms[r][rid] \in RoomObject
        /\ rooms'[r][rid] = Join(rooms[r][rid], e.user, e.color)
    BY <1>0, <1>8, HandlerEffect DEF e
  <2>2. /\ rooms'[r][rid] # None
        /\ \A u \in Users : HasUser(rooms'[r][rid], u) <=> u = e.user \/ HasUser(rooms[r][rid], u)
    BY <2>1, JoinLemma, NoneAssumption
  <2>3. \A u \in Users : Member(r, rid, u)' <=> Member(r, rid, u) \/ u = e.user
    BY <1>3, <1>4, <2>1, <2>2
  <2>4. /\ rid \in m.there
        /\ \A u \in Users : u \in m.members[rid] <=> u \in l.members[rid] \/ u = e.user
    BY <1>1, <1>8, <2>1, <1>10, AfterEventFields
  <2> QED BY <1>2, <1>5, <2>2, <2>3, <2>4
<1>9. CASE rid = e.room /\ e.event = "user_disconnect"
  <2>1. /\ e.user \in Users /\ rooms[r][rid] # None /\ rooms[r][rid] \in RoomObject
        /\ rooms'[r][rid] = Leave(rooms[r][rid], e.user)
    BY <1>0, <1>9, HandlerEffect DEF e
  <2>2. \A u \in Users : Member(r, rid, u)' <=> Member(r, rid, u) /\ u # e.user
    BY <1>3, <1>4, <2>1, LeaveLemma
  <2>3. rooms'[r][rid] # None => \E u \in Users : Member(r, rid, u)'
    <3>1. Leave(rooms[r][rid], e.user) # None =>
            Members(RemoveUser(rooms[r][rid], e.user)) # {}
      BY DEF Leave
    <3>2. Leave(rooms[r][rid], e.user) # None =>
            Leave(rooms[r][rid], e.user) = RemoveUser(rooms[r][rid], e.user)
      BY DEF Leave
    <3> QED BY <1>3, <2>1, <3>1, <3>2 DEF Members
  <2>4. /\ \A u \in Users : u \in m.members[rid] <=> u \in l.members[rid] /\ u # e.user
        /\ rid \in m.there <=> \E v \in Users : v \in l.members[rid] /\ v # e.user
    BY <1>1, <1>9, <2>1, <1>10, AfterEventFields
  <2>5. rid \in m.there => rooms'[r][rid] # None
    BY <1>3, <1>5, <2>2, <2>4
  <2> QED BY <1>2, <1>5, <1>9, <2>2, <2>3, <2>4, <2>5
<1> QED BY <1>1, <1>6, <1>7, <1>8, <1>9

(* An entry does not look at more than the rooms and the arrivals queued.  *)
LEMMA EntryKept ==
  ASSUME NEW r \in Replicas, NEW l, AtEntry(r, l), rooms'[r] = rooms[r],
         \A rid \in RoomIds, u \in Users : Arriving(r, rid, u) => Arriving(r, rid, u)'
  PROVE  AtEntry(r, l)'
<1>1. \A rid \in RoomIds, u \in Users : Member(r, rid, u)' <=> Member(r, rid, u)
  BY DEF Member, HasUser
<1> QED BY <1>1 DEF AtEntry

LEMMA ArrivingPublished ==
  ASSUME TypeOK, NEW e \in Event, Publish(e), NEW r \in Replicas
  PROVE  /\ \A rid \in RoomIds, u \in Users : Arriving(r, rid, u) => Arriving(r, rid, u)'
         /\ Live(r) /\ e.event = "user_connected" => Arriving(r, e.room, e.user)'
BY QueueAfterPublish DEF Arriving

(* A publication makes the log one entry longer, and moves no replica.     *)
LEMMA PublishFollows ==
  ASSUME TypeOK, NEW e \in Event, Publish(e), NEW n \in Nat, NEW log \in Log(LogEntry),
         NEW r \in Replicas, Live(r), FollowsLog(r, log, n),
         AtEntry(r, log[Position(n, inbox[r])]) =>
           \A l : l = log[Position(n, inbox[r])] => AtEntry(r, l)',
         NEW log2, log2 = Extended(log, n, AfterEvent(log[n], e))
  PROVE  FollowsLog(r, log2, n + 1)'
<1>1. log[n] \in LogEntry /\ AfterEvent(log[n], e) \in LogEntry
      /\ <<log[n], e, AfterEvent(log[n], e)>> \in Steps
  BY AfterEventType DEF Log
<1>2. inbox[r] \in Seq(Event) /\ inbox'[r] = Append(inbox[r], e)
  BY DEF TypeOK, Publish
<1>3. Replays(Steps, log, n, inbox[r])
  BY DEF FollowsLog
<1>4. /\ Replays(Steps, log2, n + 1, inbox'[r])
      /\ log2[Position(n + 1, inbox'[r])] = log[Position(n, inbox[r])]
  <2>1. PICK s \in LogEntry : s = AfterEvent(log[n], e) /\ <<log[n], e, s>> \in Steps
    BY <1>1
  <2>2. log2 = Extended(log, n, s)
    BY <2>1
  <2>3. /\ Replays(Steps, Extended(log, n, s), n + 1, Append(inbox[r], e))
        /\ Position(n + 1, Append(inbox[r], e)) = Position(n, inbox[r])
        /\ Extended(log, n, s)[Position(n, inbox[r])] = log[Position(n, inbox[r])]
    <3>1. Len(inbox[r]) <= n
      BY <1>3 DEF Replays
    <3>2. /\ Position(n + 1, Append(inbox[r], e)) = Position(n, inbox[r])
          /\ Position(n, inbox[r]) \in Nat /\ Position(n, inbox[r]) # n + 1
      BY <1>2, <3>1, PositionAppend
    <3>3. Replays(Steps, Extended(log, n, s), n + 1, Append(inbox[r], e))
      BY <1>2, <1>3, <2>1, ReplaysAppend
    <3>4. \A i \in Nat : i # n + 1 => Extended(log, n, s)[i] = log[i]
      BY ExtendedLemma
    <3> QED BY <3>2, <3>3, <3>4
  <2> QED BY <1>2, <2>2, <2>3
<1>5. PICK l : l = log[Position(n, inbox[r])]
  OBVIOUS
<1>6. AtEntry(r, l)'
  BY <1>5 DEF FollowsLog
<1>7. AtEntry(r, log2[Position(n + 1, inbox[r])])'
  BY <1>4, <1>5, <1>6 DEF AtEntry
<1> QED BY <1>4, <1>7 DEF FollowsLog

LEMMA PublishKeepsLog ==
  ASSUME TypeOK, NEW e \in Event, Publish(e), UNCHANGED status, OneLog,
         \A r \in Replicas : \A l : AtEntry(r, l) => AtEntry(r, l)'
  PROVE  OneLog'
<1>1. PICK n \in Nat, log \in Log(LogEntry) :
        \A r \in Replicas : status[r] = "up" => FollowsLog(r, log, n)
  BY DEF OneLog
<1>2. PICK log2 : log2 = Extended(log, n, AfterEvent(log[n], e))
  OBVIOUS
<1>3. log2 \in Log(LogEntry) /\ n + 1 \in Nat
  <2>1. AfterEvent(log[n], e) \in LogEntry
    BY AfterEventType DEF Log
  <2> QED BY <1>2, <2>1 DEF Extended, Log
<1>4. ASSUME NEW r \in Replicas, status'[r] = "up" PROVE FollowsLog(r, log2, n + 1)'
  <2>1. status[r] = "up" /\ Live(r)
    BY <1>4 DEF Live
  <2> QED BY <1>1, <1>2, <2>1, PublishFollows
<1> QED BY <1>3, <1>4 DEF OneLog

(* The log stays when no replica that is up moves,                         *)
LEMMA QuietKeepsLog ==
  ASSUME OneLog,
         \A r \in Replicas : status'[r] = "up" =>
           status[r] = "up" /\ rooms'[r] = rooms[r] /\ inbox'[r] = inbox[r]
  PROVE  OneLog'
<1>1. PICK n \in Nat, log \in Log(LogEntry) :
        \A r \in Replicas : status[r] = "up" => FollowsLog(r, log, n)
  BY DEF OneLog
<1>2. ASSUME NEW r \in Replicas, status'[r] = "up" PROVE FollowsLog(r, log, n)'
  <2>1. FollowsLog(r, log, n) /\ rooms'[r] = rooms[r] /\ inbox'[r] = inbox[r]
    BY <1>1, <1>2
  <2>2. \A rid \in RoomIds, u \in Users : Arriving(r, rid, u) => Arriving(r, rid, u)'
    BY <2>1 DEF Arriving
  <2>3. PICK l : l = log[Position(n, inbox[r])]
    OBVIOUS
  <2>4. AtEntry(r, l)'
    BY <2>1, <2>2, <2>3, EntryKept DEF FollowsLog
  <2>5. AtEntry(r, log[Position(n, inbox[r])])'
    BY <2>1, <2>3, <2>4 DEF AtEntry
  <2> QED BY <2>1, <2>5 DEF FollowsLog
<1> QED BY <1>1, <1>2 DEF OneLog

(* and when one of them handles an event.                                  *)
LEMMA HandlerKeepsLog ==
  ASSUME PlacesInv, OneLog, NEW p \in Replicas, HandlesEvent(p)
  PROVE  OneLog'
<1>0. TypeOK
  BY DEF PlacesInv
<1>1. PICK n \in Nat, log \in Log(LogEntry) :
        \A r \in Replicas : status[r] = "up" => FollowsLog(r, log, n)
  BY DEF OneLog
<1>2. /\ inbox[p] # <<>> /\ Consume(p) /\ status' = status
      /\ inbox \in [Replicas -> Seq(Event)] /\ rooms' \in [Replicas -> [RoomIds -> RoomObject \cup {None}]]
      /\ \A r \in Replicas : r # p =>
           inbox'[r] = inbox[r] /\ \A rid \in RoomIds : rooms'[r][rid] = rooms[r][rid]
  BY <1>0, HandlerEffect, QueueAfterConsume, NextType DEF TypeOK, Next, Deliver, HandlesEvent
<1>3. inbox'[p] = Tail(inbox[p]) /\ Next1(p) = Head(inbox[p]) /\ Next1(p) \in Event
  BY <1>0, <1>2, QueueAfterConsume DEF Consume, Next1
<1>4. ASSUME NEW r \in Replicas, status'[r] = "up" PROVE FollowsLog(r, log, n)'
  <2>1. FollowsLog(r, log, n)
    BY <1>1, <1>2, <1>4
  <2>2. PICK k : k = Position(n, inbox[r])
    OBVIOUS
  <2>3. CASE r = p
    <3>1. /\ Replays(Steps, log, n, inbox'[p]) /\ Position(n, inbox'[p]) = k + 1
          /\ <<log[k], Next1(p), log[k + 1]>> \in Steps
      <4>1. /\ inbox[p] \in Seq(Event) /\ inbox[p] # <<>> /\ Replays(Steps, log, n, inbox[p])
            /\ k = Position(n, inbox[p])
        BY <1>2, <2>1, <2>2, <2>3 DEF FollowsLog
      <4>2. Replays(Steps, log, n, Tail(inbox[p]))
        BY <4>1, ReplaysTail
      <4>3. Position(n, Tail(inbox[p])) = k + 1
        BY <4>1, PositionTail DEF Replays
      <4>4. <<log[k], Head(inbox[p]), log[k + 1]>> \in Steps
        BY <4>1, ReplaysHead
      <4> QED BY <1>3, <4>2, <4>3, <4>4
    <3>2. PICK l \in LogEntry, m \in LogEntry :
            l = log[k] /\ m = log[k + 1] /\ m = AfterEvent(l, Next1(p))
      <4>1. log[k] \in LogEntry /\ log[k + 1] \in LogEntry
            /\ log[k + 1] = AfterEvent(log[k], Next1(p))
        BY <3>1, StepsLemma
      <4> QED BY <4>1
    <3>3. AtEntry(p, l)
      BY <2>1, <2>2, <2>3, <3>2 DEF FollowsLog
    <3>4. AtEntry(p, m)'
      BY <3>2, <3>3, HandledEntry
    <3>5. AtEntry(r, log[Position(n, inbox[r])])'
      BY <2>3, <3>1, <3>2, <3>4 DEF AtEntry
    <3> QED BY <2>3, <3>1, <3>5 DEF FollowsLog
  <2>4. CASE r # p
    <3>1. inbox'[r] = inbox[r] /\ rooms'[r] = rooms[r]
      BY <1>0, <1>2, <2>4 DEF TypeOK
    <3>2. \A rid \in RoomIds, u \in Users : Arriving(r, rid, u) => Arriving(r, rid, u)'
      BY <3>1 DEF Arriving
    <3>3. PICK l : l = log[k]
      OBVIOUS
    <3>4. AtEntry(r, l)'
      BY <2>1, <2>2, <3>1, <3>2, <3>3, EntryKept DEF FollowsLog
    <3>5. AtEntry(r, log[Position(n, inbox[r])])'
      BY <2>2, <3>1, <3>3, <3>4 DEF AtEntry
    <3> QED BY <2>1, <3>1, <3>5 DEF FollowsLog
  <2> QED BY <2>3, <2>4
<1> QED BY <1>1, <1>4 DEF OneLog

(* A user that a replica accepts is ahead of its arrival.                  *)
LEMMA AcceptKeepsEntries ==
  ASSUME PlacesInv, NEW s \in Sockets, Accept(s),
         NEW r \in Replicas, NEW l, AtEntry(r, l)
  PROVE  AtEntry(r, l)'
<1>1. PICK p \in Replicas, u \in Users, id \in RoomIds :
        p = sockReplica[s] /\ u = sockUser[s] /\ id = RoomOf(s)
  BY AcceptEffect DEF PlacesInv
<1>2. /\ TypeOK /\ rooms[p][id] # None /\ rooms[p][id] \in RoomObject
      /\ \A p2 \in Replicas, id2 \in RoomIds :
           p2 # p \/ id2 # id => rooms'[p2][id2] = rooms[p2][id2]
      /\ \E c \in Colors : /\ rooms'[p][id] = AddUser(rooms[p][id], u, c)
                           /\ UserConnectedEvent(id, u, c) \in Event
                           /\ Publish(UserConnectedEvent(id, u, c))
  BY <1>1, AcceptEffect DEF PlacesInv
<1>3. \A rid \in RoomIds, v \in Users : Arriving(r, rid, v) => Arriving(r, rid, v)'
  BY <1>2, ArrivingPublished
<1>4. CASE r # p
  <2>1. \A rid \in RoomIds : rooms'[r][rid] = rooms[r][rid]
    BY <1>2, <1>4
  <2>2. \A rid \in RoomIds, v \in Users : Member(r, rid, v)' <=> Member(r, rid, v)
    BY <2>1 DEF Member, HasUser
  <2> QED BY <1>3, <2>1, <2>2 DEF AtEntry
<1>5. CASE r = p
  <2>1. Live(r)
    BY <1>2, <1>5 DEF PlacesInv, DownEmpty
  <2>2. Arriving(r, id, u)'
    <3>1. PICK c \in Colors, e \in Event : e = UserConnectedEvent(id, u, c) /\ Publish(e)
      BY <1>2
    <3>2. e.event = "user_connected" /\ e.room = id /\ e.user = u
      BY <3>1 DEF UserConnectedEvent
    <3>3. Arriving(r, e.room, e.user)'
      BY <1>2, <2>1, <3>1, <3>2, ArrivingPublished
    <3> QED BY <3>2, <3>3
  <2>3. /\ rooms'[r][id] # None
        /\ \A v \in Users : HasUser(rooms'[r][id], v) <=> v = u \/ HasUser(rooms[r][id], v)
    BY <1>2, <1>5, AddUserLemma, NoneAssumption
  <2>4. \A v \in Users : Member(r, id, v)' <=> v = u \/ Member(r, id, v)
    BY <1>2, <1>5, <2>3 DEF Member, HasUser
  <2>5. \A rid \in RoomIds : rid # id => rooms'[r][rid] = rooms[r][rid]
    BY <1>2, <1>5
  <2>6. \A rid \in RoomIds, v \in Users : rid # id => (Member(r, rid, v)' <=> Member(r, rid, v))
    BY <2>5 DEF Member, HasUser
  <2> SUFFICES ASSUME NEW rid \in RoomIds
               PROVE  /\ \A v \in Users : v \in l.members[rid] => Member(r, rid, v)'
                      /\ \A v \in Users : Member(r, rid, v)' =>
                           v \in l.members[rid] \/ Arriving(r, rid, v)'
                      /\ rid \in l.there => rooms'[r][rid] # None
                      /\ rooms'[r][rid] # None =>
                           rid \in l.there \/ \E v \in Users : Member(r, rid, v)'
    BY DEF AtEntry
  <2>7. /\ \A v \in Users : v \in l.members[rid] => Member(r, rid, v)
        /\ \A v \in Users : Member(r, rid, v) => v \in l.members[rid] \/ Arriving(r, rid, v)
        /\ rid \in l.there => rooms[r][rid] # None
        /\ rooms[r][rid] # None => rid \in l.there \/ \E v \in Users : Member(r, rid, v)
    BY DEF AtEntry
  <2>8. CASE rid = id
    BY <1>2, <1>3, <1>5, <2>2, <2>3, <2>4, <2>7, <2>8
  <2>9. CASE rid # id
    BY <1>3, <2>5, <2>6, <2>7, <2>9
  <2> QED BY <2>8, <2>9
<1> QED BY <1>4, <1>5

LEMMA OneLogInit == Init => OneLog
<1> SUFFICES ASSUME Init PROVE OneLog
  OBVIOUS
<1> DEFINE l == [members |-> [rid \in RoomIds |-> {}], there |-> {}]
           log == [k \in Nat |-> l]
<1>1. l \in LogEntry
  BY DEF LogEntry
<1>2. log \in Log(LogEntry) /\ log[0] = l
  BY <1>1 DEF Log
<1>3. ASSUME NEW r \in Replicas PROVE FollowsLog(r, log, 0)
  <2>1. inbox[r] = <<>> /\ \A rid \in RoomIds : rooms[r][rid] = None
    BY DEF Init
  <2>2. Replays(Steps, log, 0, inbox[r]) /\ Position(0, inbox[r]) = 0
    BY <2>1, ReplaysNothing
  <2>3. \A rid \in RoomIds : l.members[rid] = {} /\ rid \notin l.there
    OBVIOUS
  <2>4. \A rid \in RoomIds, u \in Users : ~ Member(r, rid, u)
    BY <2>1 DEF Member
  <2>5. AtEntry(r, l)
    BY <2>1, <2>3, <2>4 DEF AtEntry
  <2> QED BY <1>2, <2>2, <2>5 DEF FollowsLog
<1>4. 0 \in Nat
  OBVIOUS
<1> HIDE DEF log
<1> QED BY <1>2, <1>3, <1>4 DEF OneLog

LEMMA OneLogNext == PlacesInv /\ OneLog /\ [Next]_vars => OneLog'
<1> SUFFICES ASSUME PlacesInv, OneLog, [Next]_vars PROVE OneLog'
  OBVIOUS
<1>0. TypeOK /\ TicketsRoomless
  BY DEF PlacesInv
<1>1. ASSUME UNCHANGED <<status, rooms, inbox>> PROVE OneLog'
  BY <1>1, QuietKeepsLog
<1>2. ASSUME NEW e \in Event, Publish(e), UNCHANGED <<status, rooms>> PROVE OneLog'
  <2>1. \A r \in Replicas : \A l : AtEntry(r, l) => AtEntry(r, l)'
    BY <1>0, <1>2, ArrivingPublished, EntryKept
  <2> QED BY <1>0, <1>2, <2>1, PublishKeepsLog
<1>3. ASSUME NEW q \in Requests, PublishCreateRoom(q) PROVE OneLog'
  BY <1>0, <1>2, <1>3, PublishCreateRoomEffect
<1>4. ASSUME NEW s \in Sockets, Disconnect(s) PROVE OneLog'
  BY <1>0, <1>2, <1>4, DisconnectEffect
<1>5. ASSUME NEW s \in Sockets, Accept(s) PROVE OneLog'
  <2>1. UNCHANGED status /\ \E e \in Event : Publish(e)
    BY <1>0, <1>5, AcceptEffect
  <2>2. \A r \in Replicas : \A l : AtEntry(r, l) => AtEntry(r, l)'
    BY <1>5, AcceptKeepsEntries
  <2> QED BY <1>0, <2>1, <2>2, PublishKeepsLog
<1>6. ASSUME NEW r \in Replicas, HandlesEvent(r) PROVE OneLog'
  BY <1>6, HandlerKeepsLog
<1>7. ASSUME NEW p \in Replicas, ProcessEnds(p) PROVE OneLog'
  <2>1. \A r \in Replicas : status'[r] = "up" =>
          status[r] = "up" /\ rooms'[r] = rooms[r] /\ inbox'[r] = inbox[r]
    BY <1>0, <1>7, ProcessEndsEffect
  <2> QED BY <2>1, QuietKeepsLog
<1>8. ASSUME NEW p \in Replicas, Restart(p) PROVE OneLog'
  <2>1. \A r \in Replicas : status'[r] = "up" =>
          status[r] = "up" /\ rooms'[r] = rooms[r] /\ inbox'[r] = inbox[r]
    BY <1>0, <1>8, RestartEffect
  <2> QED BY <2>1, QuietKeepsLog
<1>9. CASE TicketStep
  BY <1>0, <1>1, <1>9, TicketStepEffect
<1>10. ASSUME NEW s \in Sockets, NEW r \in Replicas, NEW u \in Users, Connect(s, r, u)
       PROVE  OneLog'
  BY <1>0, <1>1, <1>10, ConnectEffect
<1>11. ASSUME NEW s \in Sockets, Refuse(s) \/ DropEarly(s) PROVE OneLog'
  BY <1>0, <1>1, <1>11, RefuseEffect
<1>12. CASE UNCHANGED vars
  BY <1>1, <1>12, StutterEffect
<1> QED
  BY <1>0, StepKinds, <1>3, <1>4, <1>5, <1>6, <1>7, <1>8, <1>9, <1>10, <1>11, <1>12

(* Two replicas at the end of the log have its last entry.                 *)
LEMMA OneLogAgrees == OneLog => SurvivorsAgree
<1> SUFFICES ASSUME OneLog,
                    NEW r1 \in Replicas, status[r1] = "up", inbox[r1] = <<>>,
                    NEW r2 \in Replicas, status[r2] = "up", inbox[r2] = <<>>,
                    NEW rid \in RoomIds
             PROVE  /\ (rooms[r1][rid] = None) <=> (rooms[r2][rid] = None)
                    /\ rooms[r1][rid] # None => Members(rooms[r1][rid]) = Members(rooms[r2][rid])
  BY DEF SurvivorsAgree
<1>1. PICK n \in Nat, log \in Log(LogEntry) :
        \A r \in Replicas : status[r] = "up" => FollowsLog(r, log, n)
  BY DEF OneLog
<1>2. PICK l : l = log[n]
  OBVIOUS
<1>3. ASSUME NEW r \in Replicas, status[r] = "up", inbox[r] = <<>>
      PROVE  /\ \A u \in Users : Member(r, rid, u) <=> u \in l.members[rid]
             /\ rooms[r][rid] # None <=> rid \in l.there \/ \E u \in Users : u \in l.members[rid]
  <2>1. AtEntry(r, l)
    BY <1>1, <1>2, <1>3, ReplaysNothing DEF FollowsLog
  <2>2. \A u \in Users : ~ Arriving(r, rid, u)
    BY <1>3 DEF Arriving
  <2>3. \A u \in Users : Member(r, rid, u) => rooms[r][rid] # None
    BY DEF Member
  <2> QED BY <2>1, <2>2, <2>3 DEF AtEntry
<1>4. \A u \in Users : Member(r1, rid, u) <=> Member(r2, rid, u)
  BY <1>3
<1>5. rooms[r1][rid] # None <=> rooms[r2][rid] # None
  BY <1>3
<1> QED BY <1>4, <1>5 DEF Member, Members

(* Replicas that never stopped agree on the rooms and on who is in them    *)
(* when they have handled everything published, whatever clients, tickets  *)
(* and other replicas did.  This is what the service rests on, since       *)
(* replicas never compare what they have.                                  *)
THEOREM ReplicasAgree == Spec => []SurvivorsAgree
<1>1. Init => PlacesInv /\ OneLog
  BY PlacesInit, OneLogInit
<1>2. PlacesInv /\ OneLog /\ [Next]_vars => (PlacesInv /\ OneLog)'
  BY PlacesNext, OneLogNext
<1>3. PlacesInv /\ OneLog => SurvivorsAgree
  BY OneLogAgrees
<1> QED BY <1>1, <1>2, <1>3, PTL DEF Spec
=============================================================================
