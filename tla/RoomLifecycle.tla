---------------------------- MODULE RoomLifecycle ----------------------------
(***************************************************************************)
(* Rooms, tickets and sessions of the replicated collaboration service.    *)
(*                                                                         *)
(* Every replica is a single-threaded process with its own RoomService and *)
(* SessionService.  Replicas agree through Redis only: a replica publishes *)
(* events, and every live replica (the publisher too) handles the events   *)
(* in the order in which Redis got them.  One action is what a replica     *)
(* runs between two awaits.                                                *)
(*                                                                         *)
(* Publishing is one step: the event enters the inbox of every live        *)
(* replica.  A publish that a crash loses on its way to Redis is a crash   *)
(* before the handler ran.                                                 *)
(***************************************************************************)
EXTENDS RoomUsers, Sequences

CONSTANTS Replicas,
          Sockets,          \* WebSocket connections, each used once
          RoomIds,
          None,
          ClientChosenIds,  \* room ids that clients put in the body of addRoom
          ReusedTickets,    \* users whose client presents its ticket repeatedly
          MayStop,          \* replicas that the operator may kill
          MayDropEarly      \* sockets that may fail while the ticket is redeemed

ASSUME NoneAssumption ==
  None \notin Replicas \cup Sockets \cup RoomIds \cup Users \cup Requests \cup RoomObject
ASSUME EnvironmentAssumption ==
  /\ ClientChosenIds \subseteq RoomIds
  /\ ReusedTickets \subseteq Users
  /\ MayStop \subseteq Replicas
  /\ MayDropEarly \subseteq Sockets

VARIABLES status,         \* replica -> "up" (since the start), "down", "restarted"
          rooms,          \* replica -> room id -> Room object or None
          inbox,          \* replica -> published events it has not handled yet
          reqState,       \* addRoom request -> "new", "creating", "done"
          reqReplica,     \* ... the replica that serves it
          reqRoom,        \* ... the room id it asks for
          ticketState,    \* user -> "none", "drawn", "stored", "expired"
          ticketRoom,     \* user -> the room its ticket is for
          phase,          \* socket -> where its connection stands
          sockReplica,    \* socket -> the replica it is connected to
          sockUser,       \* socket -> the user (the ticket) it came with
          sockRoom,       \* socket -> the creator of its session's Room object
          socketByUserId  \* replica -> user -> socket or None

reqVars    == <<reqState, reqReplica, reqRoom>>
ticketVars == <<ticketState, ticketRoom>>
sockVars   == <<phase, sockReplica, sockUser, sockRoom, socketByUserId>>
vars       == <<status, rooms, inbox, reqVars, ticketVars, sockVars>>

-----------------------------------------------------------------------------
(* Events *)

CreateRoomEvent(rid, q) ==
  [event |-> "create_room", room |-> rid, creator |-> q]
UserConnectedEvent(rid, u, c) ==
  [event |-> "user_connected", room |-> rid, user |-> u, color |-> c]
UserDisconnectedEvent(rid, u) ==
  [event |-> "user_disconnect", room |-> rid, user |-> u]

Event == [event : {"create_room"}, room : RoomIds, creator : Requests]
         \cup [event : {"user_connected"}, room : RoomIds, user : Users, color : Colors]
         \cup [event : {"user_disconnect"}, room : RoomIds, user : Users]

Live(r) == status[r] # "down"

(* Mutant: Redis keeps events for a subscriber that is gone.               *)
PublishToAll(e) == inbox' = [r \in Replicas |-> Append(inbox[r], e)]

Publish(e) ==
  inbox' = [r \in Replicas |-> IF Live(r) THEN Append(inbox[r], e) ELSE inbox[r]]

Next1(r) == Head(inbox[r])

Consume(r) == inbox' = [inbox EXCEPT ![r] = Tail(@)]

(* The event handler that runs is the first of the replica's inbox.        *)
Receives(r, event) ==
  /\ Live(r)
  /\ inbox[r] # <<>>
  /\ Head(inbox[r]).event = event

-----------------------------------------------------------------------------
(* Sessions *)

(* "new"        not connected yet                                          *)
(* "redeeming"  handleConnection awaits the ticket                         *)
(* "dropped"    the same, and the socket has gone: handleDisconnect found  *)
(*              no session                                                 *)
(* "open"       a registered session of a connected socket                 *)
(* "ghost"      a registered session of a socket that has gone             *)
(* "closed"     refused, or disconnected                                   *)
(* "killed"     its replica stopped while the session was registered       *)
Phases == {"new", "redeeming", "dropped", "open", "ghost", "closed", "killed"}

(* handleConnection awaits redeemTicket.                                   *)
Redeeming(s) == phase[s] \in {"redeeming", "dropped"}

(* The socket is a key of SessionService.sessions of its replica.          *)
Registered(s) == phase[s] \in {"open", "ghost"}

RoomOf(s) == ticketRoom[sockUser[s]]

-----------------------------------------------------------------------------
Init ==
  /\ status = [r \in Replicas |-> "up"]
  /\ rooms = [r \in Replicas |-> [rid \in RoomIds |-> None]]
  /\ inbox = [r \in Replicas |-> <<>>]
  /\ reqState = [q \in Requests |-> "new"]
  /\ reqReplica = [q \in Requests |-> None]
  /\ reqRoom = [q \in Requests |-> None]
  /\ ticketState = [u \in Users |-> "none"]
  /\ ticketRoom = [u \in Users |-> None]
  /\ phase = [s \in Sockets |-> "new"]
  /\ sockReplica = [s \in Sockets |-> None]
  /\ sockUser = [s \in Sockets |-> None]
  /\ sockRoom = [s \in Sockets |-> None]
  /\ socketByUserId = [r \in Replicas |-> [u \in Users |-> None]]

-----------------------------------------------------------------------------
(* HTTP: AppController *)

(* IdGenerationService.nextId never returns an id twice; an id that the    *)
(* client chose may be asked for again.                                    *)
MayRequest(rid) == rid \in ClientChosenIds \/ \A q \in Requests : reqRoom[q] # rid

(* addRoom up to the await of the landscape id: an existing room answers   *)
(* the request.                                                            *)
AddRoom(q, r, rid) ==
  /\ Live(r)
  /\ reqState[q] = "new"
  /\ MayRequest(rid)
  /\ reqState' = [reqState EXCEPT ![q] = IF rooms[r][rid] = None THEN "creating" ELSE "done"]
  /\ reqReplica' = [reqReplica EXCEPT ![q] = r]
  /\ reqRoom' = [reqRoom EXCEPT ![q] = rid]
  /\ UNCHANGED <<status, rooms, inbox, ticketVars, sockVars>>

(* addRoom after its last await: the rooms are not looked at again.        *)
PublishCreateRoom(q) ==
  /\ reqState[q] = "creating"
  /\ reqState' = [reqState EXCEPT ![q] = "done"]
  /\ Publish(CreateRoomEvent(reqRoom[q], q))
  /\ UNCHANGED <<status, rooms, reqReplica, reqRoom, ticketVars, sockVars>>

(* joinLobby: a ticket with a fresh user id.  A user stands for the ticket *)
(* drawn with it.                                                          *)
JoinLobby(r, rid, u) ==
  /\ Live(r)
  /\ rooms[r][rid] # None
  /\ ticketState[u] = "none"
  /\ ticketState' = [ticketState EXCEPT ![u] = "drawn"]
  /\ ticketRoom' = [ticketRoom EXCEPT ![u] = rid]
  /\ UNCHANGED <<status, rooms, inbox, reqVars, sockVars>>

(* TicketService.storeTicket, which drawTicket does not await.             *)
StoreTicket(u) ==
  /\ ticketState[u] = "drawn"
  /\ ticketState' = [ticketState EXCEPT ![u] = "stored"]
  /\ UNCHANGED <<status, rooms, inbox, reqVars, ticketRoom, sockVars>>

(* validUntil of a stored ticket passes.                                   *)
ExpireTicket(u) ==
  /\ ticketState[u] = "stored"
  /\ ticketState' = [ticketState EXCEPT ![u] = "expired"]
  /\ UNCHANGED <<status, rooms, inbox, reqVars, ticketRoom, sockVars>>

-----------------------------------------------------------------------------
(* WebSocket: WebsocketGateway *)

(* A client that got a ticket connects to any replica; handleConnection    *)
(* runs up to the await of redeemTicket.                                   *)
Connect(s, r, u) ==
  /\ Live(r)
  /\ phase[s] = "new"
  /\ ticketState[u] # "none"
  /\ u \in ReusedTickets \/ \A t \in Sockets : sockUser[t] # u
  /\ phase' = [phase EXCEPT ![s] = "redeeming"]
  /\ sockReplica' = [sockReplica EXCEPT ![s] = r]
  /\ sockUser' = [sockUser EXCEPT ![s] = u]
  /\ UNCHANGED <<status, rooms, inbox, reqVars, ticketVars, sockRoom, socketByUserId>>

(* The checks of redeemTicket.                                             *)
Redeemable(s) == /\ ticketState[sockUser[s]] = "stored"
                 /\ rooms[sockReplica[s]][RoomOf(s)] # None

(* handleConnection after the await, the ticket being valid: the user gets *)
(* a colour and joins the local room, the event is published, the session  *)
(* is registered.  Nothing looks at whether the socket is still connected. *)
(* The ticket stays valid.                                                 *)
Accept(s) ==
  LET r    == sockReplica[s]
      u    == sockUser[s]
      rid  == RoomOf(s)
      room == rooms[r][rid]
  IN /\ Redeeming(s)
     /\ Redeemable(s)
     /\ \E c \in Colors :
          /\ IsNextColorId(room, c)
          /\ rooms' = [rooms EXCEPT ![r][rid] = AddUser(room, u, c)]
          /\ Publish(UserConnectedEvent(rid, u, c))
     /\ phase' = [phase EXCEPT ![s] = IF @ = "redeeming" THEN "open" ELSE "ghost"]
     /\ sockRoom' = [sockRoom EXCEPT ![s] = room.creator]
     /\ socketByUserId' = [socketByUserId EXCEPT ![r][u] = s]
     /\ UNCHANGED <<status, reqVars, ticketVars, sockReplica, sockUser>>

(* handleConnection after the await, redeemTicket having thrown.           *)
Refuse(s) ==
  /\ Redeeming(s)
  /\ ~ Redeemable(s)
  /\ phase' = [phase EXCEPT ![s] = "closed"]
  /\ UNCHANGED <<status, rooms, inbox, reqVars, ticketVars, sockReplica, sockUser,
                 sockRoom, socketByUserId>>

(* Mutant: the session goes, its user's socket stays.                      *)
UnregisterSessionOnly(s) ==
  /\ phase' = [phase EXCEPT ![s] = "closed"]
  /\ UNCHANGED socketByUserId

(* SessionService.unregister: the user's entry goes, whosever socket it    *)
(* holds.                                                                  *)
Unregister(s) ==
  /\ phase' = [phase EXCEPT ![s] = "closed"]
  /\ socketByUserId' = [socketByUserId EXCEPT ![sockReplica[s]][sockUser[s]] = None]

(* handleDisconnect of a registered session.                               *)
Disconnect(s) ==
  /\ phase[s] = "open"
  /\ Unregister(s)
  /\ Publish(UserDisconnectedEvent(RoomOf(s), sockUser[s]))
  /\ UNCHANGED <<status, rooms, reqVars, ticketVars, sockReplica, sockUser, sockRoom>>

(* handleDisconnect while handleConnection awaits: there is no session yet *)
(* and it returns at once.                                                 *)
DropEarly(s) ==
  /\ s \in MayDropEarly
  /\ phase[s] = "redeeming"
  /\ phase' = [phase EXCEPT ![s] = "dropped"]
  /\ UNCHANGED <<status, rooms, inbox, reqVars, ticketVars, sockReplica, sockUser,
                 sockRoom, socketByUserId>>

-----------------------------------------------------------------------------
(* Redis: SubscriberService *)

(* handleCreateRoomEvent: an existing room of that id is overwritten.      *)
HandleCreateRoom(r) ==
  LET e == Next1(r)
  IN /\ Receives(r, "create_room")
     /\ rooms' = [rooms EXCEPT ![r][e.room] = EmptyRoom(e.creator)]
     /\ Consume(r)
     /\ UNCHANGED <<status, reqVars, ticketVars, sockVars>>

(* Mutants: no check whether this replica added the user already; a user   *)
(* model that is never added.                                              *)
JoinUnchecked(room, u, c) == AddUser(room, u, c)
JoinWithoutAdding(room, u, c) ==
  IF HasUser(room, u) THEN room ELSE [room EXCEPT !.count[c] = @ + 1]

(* handleUserConnectedEvent on its room: done if this replica has added    *)
(* the user already.                                                       *)
Join(room, u, c) == IF HasUser(room, u) THEN room ELSE AddUser(room, u, c)

HandleUserConnected(r) ==
  LET e    == Next1(r)
      room == rooms[r][e.room]
  IN /\ Receives(r, "user_connected")
     /\ room # None
     /\ rooms' = [rooms EXCEPT ![r][e.room] = Join(room, e.user, e.color)]
     /\ Consume(r)
     /\ UNCHANGED <<status, reqVars, ticketVars, sockVars>>

(* Mutant: a room is deleted with its last user still in it.               *)
LeaveTooEmpty(room, u) ==
  LET left == RemoveUser(room, u) IN IF Cardinality(Members(left)) <= 1 THEN None ELSE left

(* handleUserDisconnectedEvent on its room: an empty room is deleted.      *)
Leave(room, u) ==
  LET left == RemoveUser(room, u) IN IF Members(left) = {} THEN None ELSE left

HandleUserDisconnected(r) ==
  LET e    == Next1(r)
      room == rooms[r][e.room]
  IN /\ Receives(r, "user_disconnect")
     /\ room # None
     /\ rooms' = [rooms EXCEPT ![r][e.room] = Leave(room, e.user)]
     /\ Consume(r)
     /\ UNCHANGED <<status, reqVars, ticketVars, sockVars>>

(* The process of a replica ends: all it kept in memory is gone, and what  *)
(* its handlers were about to do.                                          *)
ProcessEnds(r) ==
  /\ status' = [status EXCEPT ![r] = "down"]
  /\ rooms' = [rooms EXCEPT ![r] = [rid \in RoomIds |-> None]]
  /\ inbox' = [inbox EXCEPT ![r] = <<>>]
  /\ reqState' = [q \in Requests |->
                    IF reqReplica[q] = r /\ reqState[q] = "creating" THEN "done"
                                                                     ELSE reqState[q]]
  /\ phase' = [s \in Sockets |->
                 IF sockReplica[s] = r /\ Registered(s) THEN "killed"
                 ELSE IF sockReplica[s] = r /\ Redeeming(s) THEN "closed"
                 ELSE phase[s]]
  /\ socketByUserId' = [socketByUserId EXCEPT ![r] = [u \in Users |-> None]]
  /\ UNCHANGED <<reqReplica, reqRoom, ticketVars, sockReplica, sockUser, sockRoom>>

(* A user event for a room that this replica does not have: the handler    *)
(* dereferences undefined inside the Redis client's message callback, and  *)
(* the uncaught TypeError ends the process.                                *)
HandlerThrows(r) ==
  /\ Receives(r, "user_connected") \/ Receives(r, "user_disconnect")
  /\ rooms[r][Next1(r).room] = None
  /\ ProcessEnds(r)

Stop(r) ==
  /\ r \in MayStop
  /\ Live(r)
  /\ ProcessEnds(r)

(* A new process: no rooms, subscribed to what is published from now on.   *)
Restart(r) ==
  /\ ~ Live(r)
  /\ status' = [status EXCEPT ![r] = "restarted"]
  /\ UNCHANGED <<rooms, inbox, reqVars, ticketVars, sockVars>>

-----------------------------------------------------------------------------
Deliver(r) == \/ HandleCreateRoom(r)
              \/ HandleUserConnected(r)
              \/ HandleUserDisconnected(r)
              \/ HandlerThrows(r)

Redeem(s) == Accept(s) \/ Refuse(s)

Next ==
  \/ \E q \in Requests, r \in Replicas, rid \in RoomIds : AddRoom(q, r, rid)
  \/ \E q \in Requests : PublishCreateRoom(q)
  \/ \E r \in Replicas, rid \in RoomIds, u \in Users : JoinLobby(r, rid, u)
  \/ \E u \in Users : StoreTicket(u) \/ ExpireTicket(u)
  \/ \E s \in Sockets, r \in Replicas, u \in Users : Connect(s, r, u)
  \/ \E s \in Sockets : Redeem(s) \/ Disconnect(s) \/ DropEarly(s)
  \/ \E r \in Replicas : Deliver(r) \/ Stop(r) \/ Restart(r)

Spec == Init /\ [][Next]_vars

(* A live replica keeps handling its events, and an awaited ticket look-up *)
(* is answered.  Clients and the operator owe nothing.                     *)
Fairness == /\ \A r \in Replicas : WF_vars(Deliver(r))
            /\ \A s \in Sockets : WF_vars(Redeem(s))

FairSpec == Spec /\ Fairness

-----------------------------------------------------------------------------
(* Properties *)

(* The values of every variable.                                           *)
TypeOK ==
  /\ status \in [Replicas -> {"up", "down", "restarted"}]
  /\ rooms \in [Replicas -> [RoomIds -> RoomObject \cup {None}]]
  /\ inbox \in [Replicas -> Seq(Event)]
  /\ reqState \in [Requests -> {"new", "creating", "done"}]
  /\ reqReplica \in [Requests -> Replicas \cup {None}]
  /\ reqRoom \in [Requests -> RoomIds \cup {None}]
  /\ ticketState \in [Users -> {"none", "drawn", "stored", "expired"}]
  /\ ticketRoom \in [Users -> RoomIds \cup {None}]
  /\ phase \in [Sockets -> Phases]
  /\ sockReplica \in [Sockets -> Replicas \cup {None}]
  /\ sockUser \in [Sockets -> Users \cup {None}]
  /\ sockRoom \in [Sockets -> Requests \cup {None}]
  /\ socketByUserId \in [Replicas -> [Users -> Sockets \cup {None}]]
  /\ \A q \in Requests : reqState[q] = "creating" =>
        reqRoom[q] \in RoomIds /\ reqReplica[q] \in Replicas
  /\ \A u \in Users : ticketState[u] # "none" => ticketRoom[u] \in RoomIds
  /\ \A s \in Sockets : phase[s] # "new" =>
        /\ sockReplica[s] \in Replicas
        /\ sockUser[s] \in Users
        /\ ticketState[sockUser[s]] # "none"
  /\ \A r \in Replicas : ~ Live(r) => inbox[r] = <<>>

(* SessionService.lookupSocket, which broadcasts use to leave out the      *)
(* sender, finds only the socket of a session registered on the same       *)
(* replica for that very user; and it finds every session whose ticket is  *)
(* used once.                                                              *)
LookupSocketExact ==
  /\ \A r \in Replicas, u \in Users : socketByUserId[r][u] # None =>
       LET s == socketByUserId[r][u]
       IN Registered(s) /\ sockReplica[s] = r /\ sockUser[s] = u
  /\ \A s \in Sockets : Registered(s) /\ sockUser[s] \notin ReusedTickets =>
       socketByUserId[sockReplica[s]][sockUser[s]] = s

Member(r, rid, u) == rooms[r][rid] # None /\ HasUser(rooms[r][rid], u)

Queued(r, event, u) ==
  \E i \in 1..Len(inbox[r]) : inbox[r][i].event = event /\ inbox[r][i].user = u

(* The user has a session, a ghost's or one its replica took down included.*)
Hosted(u) == \E s \in Sockets : sockUser[s] = u /\ phase[s] \in {"open", "ghost", "killed"}

(* No replica keeps a user that nothing will remove: a member of a room    *)
(* still has a session, or its departure is on the way to this replica.    *)
(* It is a member of the room of its ticket.                               *)
NoOrphanMember ==
  \A r \in Replicas, rid \in RoomIds, u \in Users : Member(r, rid, u) =>
    /\ rid = ticketRoom[u]
    /\ Hosted(u) \/ Queued(r, "user_disconnect", u)

(* What a session relies on: the Room object it holds is the one its       *)
(* replica has under that id, and its user is in it.  Promised to tickets  *)
(* used once, in rooms whose id the service chose.                         *)
SessionsBacked ==
  \A s \in Sockets :
    (Registered(s) /\ sockUser[s] \notin ReusedTickets /\ RoomOf(s) \notin ClientChosenIds)
      => /\ rooms[sockReplica[s]][RoomOf(s)] # None
         /\ rooms[sockReplica[s]][RoomOf(s)].creator = sockRoom[s]
         /\ HasUser(rooms[sockReplica[s]][RoomOf(s)], sockUser[s])

(* The user of a registered session is known at every replica that never   *)
(* stopped, or will be: its arrival is queued there.                       *)
UsersKnownEverywhere ==
  \A s \in Sockets, r \in Replicas :
    (/\ Registered(s) /\ sockUser[s] \notin ReusedTickets
     /\ RoomOf(s) \notin ClientChosenIds
     /\ status[r] = "up")
      => \/ Member(r, RoomOf(s), sockUser[s])
         \/ Queued(r, "user_connected", sockUser[s])

(* Two replicas that never stopped and have handled everything published   *)
(* have the same rooms with the same users, whatever the clients did.      *)
SurvivorsAgree ==
  \A r1, r2 \in {r \in Replicas : status[r] = "up" /\ inbox[r] = <<>>} :
    \A rid \in RoomIds :
      /\ (rooms[r1][rid] = None) <=> (rooms[r2][rid] = None)
      /\ rooms[r1][rid] # None => Members(rooms[r1][rid]) = Members(rooms[r2][rid])

(* Two connections have presented the ticket of this user.                 *)
Shared(u) ==
  \E s, t \in Sockets : /\ s # t /\ phase[s] # "new" /\ phase[t] # "new"
                        /\ sockUser[s] = u /\ sockUser[t] = u

(* The colour counts of a room say how many of its users wear each colour, *)
(* also if two users who join at two replicas at once get the same one.    *)
(* Promised to rooms none of whose tickets two connections have presented: *)
(* accepting a user twice counts a colour twice.                           *)
ColorsBalanced ==
  \A r \in Replicas, rid \in RoomIds :
    (rooms[r][rid] # None /\ \A u \in Users : Shared(u) => ticketRoom[u] # rid)
      => Balanced(rooms[r][rid])

(* A user whose client has gone disappears from every room of every        *)
(* replica, if the replica that the client was connected to has run        *)
(* handleDisconnect for it.  If that replica has ended ("killed") nobody   *)
(* publishes the departure, and the other replicas keep the user for ever; *)
(* the property does not speak of those users.                             *)
DisconnectHandled(s) == phase[s] \in {"dropped", "ghost", "closed"}
UserKnown(s) == \E r \in Replicas, rid \in RoomIds, u \in Users :
                  sockUser[s] = u /\ Member(r, rid, u)
LeaversRemoved == \A s \in Sockets : DisconnectHandled(s) ~> ~ UserKnown(s)

(* What addRoom's comment says of a new room, "available at all replicas": *)
(* a replica that has handled everything published has every room that     *)
(* another replica has.                                                    *)
RoomAvailableAtAllReplicas ==
  \A r1, r2 \in {r \in Replicas : Live(r) /\ inbox[r] = <<>>} :
    \A rid \in RoomIds : rooms[r1][rid] # None => rooms[r2][rid] # None

-----------------------------------------------------------------------------
(* What SessionsBacked rests on *)

(* nextId never hands out a room id twice.                                 *)
RequestsDistinct ==
  \A p, q \in Requests :
    (reqRoom[p] = reqRoom[q] /\ reqRoom[p] \in RoomIds \ ClientChosenIds) => p = q

(* A ticket that is used once belongs to one socket.                       *)
TicketsUsedOnce ==
  \A s, t \in Sockets :
    (sockUser[s] = sockUser[t] /\ sockUser[s] \in Users \ ReusedTickets) => s = t

(* A queued creation was asked for; if the service chose the id, it is the *)
(* only one queued and the room is not there yet.                          *)
CreationsSound ==
  \A r \in Replicas : \A i \in 1..Len(inbox[r]) :
    LET e == inbox[r][i]
    IN e.event = "create_room" =>
         /\ reqRoom[e.creator] = e.room /\ reqState[e.creator] = "done"
         /\ e.room \notin ClientChosenIds =>
              /\ rooms[r][e.room] = None
              /\ \A j \in 1..Len(inbox[r]) :
                   inbox[r][j].event = "create_room" /\ inbox[r][j].room = e.room => j = i

(* A room was asked for by the request that is its creator.                *)
RoomsRequested ==
  \A r \in Replicas, rid \in RoomIds : rooms[r][rid] # None =>
    reqRoom[rooms[r][rid].creator] = rid /\ reqState[rooms[r][rid].creator] = "done"

(* A queued departure is that of a closed session.                         *)
DeparturesSound ==
  \A r \in Replicas : \A i \in 1..Len(inbox[r]) :
    LET e == inbox[r][i]
    IN e.event = "user_disconnect" =>
         \E s \in Sockets : sockUser[s] = e.user /\ phase[s] = "closed"

SessionInv == /\ TypeOK
              /\ RequestsDistinct
              /\ TicketsUsedOnce
              /\ CreationsSound
              /\ RoomsRequested
              /\ DeparturesSound
              /\ SessionsBacked

-----------------------------------------------------------------------------
(* What NoOrphanMember rests on *)

(* A replica that is down has nothing in memory.                           *)
DownEmpty ==
  \A r \in Replicas, rid \in RoomIds : ~ Live(r) => rooms[r][rid] = None

(* A ticket has a room from when it is drawn.                              *)
TicketsRoomless == \A u \in Users : ticketState[u] = "none" => ticketRoom[u] = None

(* A queued arrival or departure is one of a user with a ticket, in the    *)
(* room of that ticket.                                                    *)
UserEventsPlaced ==
  \A r \in Replicas : \A i \in 1..Len(inbox[r]) :
    LET e == inbox[r][i]
    IN e.event # "create_room" =>
         ticketState[e.user] # "none" /\ e.room = ticketRoom[e.user]

(* A queued arrival is that of a user with a session, or its departure is  *)
(* queued behind.                                                          *)
ArrivalsHosted ==
  \A r \in Replicas : \A i \in 1..Len(inbox[r]) :
    LET e == inbox[r][i]
    IN e.event = "user_connected" =>
         \/ Hosted(e.user)
         \/ \E j \in 1..Len(inbox[r]) :
              j > i /\ inbox[r][j].event = "user_disconnect" /\ inbox[r][j].user = e.user
=============================================================================
