----------------------------- MODULE UserActivity ----------------------------
(***************************************************************************)
(* What the users of a room do besides changing its contents: they         *)
(* highlight entities, connect controllers, spectate each other and move.  *)
(* Every replica records it in its own UserModels when the event arrives,  *)
(* and tells the clients connected to it.  A client that joins is told     *)
(* what its replica has recorded, and of every event from then on.         *)
(*                                                                         *)
(* Some users stay, so that the room is never deleted and every replica    *)
(* has it; creation and deletion of rooms, tickets and the end of replicas *)
(* are RoomLifecycle.  Every ticket is used by one connection: of two with  *)
(* the same ticket, the first to go would take the user with it, and what  *)
(* the second sends would find no user.  Poses, names and colours are left *)
(* out.                                                                    *)
(*                                                                         *)
(* A client may name users of other rooms as spectators.  The gateway      *)
(* looks sockets up by user, not by room, and lets them pass; the handlers *)
(* of the event throw, and end the process of every replica.               *)
(***************************************************************************)
EXTENDS EventBus

CONSTANTS Users,
          Outsiders,       \* users of other rooms, whose sockets come and go
          Stayers,         \* users who are in the room from the start, and stay
          Entities,        \* what can be highlighted
          Listed,          \* entities that the initial landscape message lists
          Controllers,     \* controller ids of one user
          SpectatorLists,  \* values of spectatingUserIds that clients send
          None,
          MaxSteps         \* bound on what clients do: join, leave, send a message

ASSUME ActivityAssumption ==
  /\ Stayers \subseteq Users
  /\ Outsiders \cap Users = {}
  /\ Listed \subseteq Entities
  /\ SpectatorLists \subseteq SUBSET (Users \cup Outsiders)
  /\ None \notin Replicas
  /\ MaxSteps \in Nat

(* UserModel: highlightedEntities, the keys of controllers, and whether    *)
(* the state is SPECTATING.                                                *)
UserModel == [highlighted : SUBSET Entities,
              controllers : SUBSET Controllers,
              spectating  : BOOLEAN]

ASSUME NoneIsNoUser == None \notin UserModel

NewUser == [highlighted |-> {}, controllers |-> {}, spectating |-> FALSE]

VARIABLES users,      \* replica -> user -> UserModel or None
          presence,   \* user -> "new", "in", "left"
          home,       \* user -> the replica it is connected to
          ended,      \* replicas whose process an event has ended
          awaited,    \* <<user, controller>> -> connects whose id is not drawn yet
          spectatingRoom,  \* users whose socket is in the spectating room
          view,       \* user -> what its client has been told of the others
          steps,      \* how much clients have done
          wanted,     \* user -> history: controllers its client connected last
          overtaken,  \* history: controllers disconnected while awaited
          halfDone,   \* history: users moved by a spectating update that failed
          resetters   \* history: users that have reset all highlights

clientVars  == <<presence, home, ended, awaited, spectatingRoom>>
historyVars == <<wanted, overtaken, halfDone, resetters>>
vars == <<users, inbox, clientVars, view, steps, historyVars>>

-----------------------------------------------------------------------------
(* Events *)

UserEvent(event, u) == [event |-> event, user |-> u]

(* isHighlighted, not isHighlighted, and that with multiSelected.          *)
HighlightingChanges == {"add", "remove", "removeAll"}

PlainEvents == {"user_connected", "user_disconnect", "all_highlights_reset", "user_positions"}

Event == [event : PlainEvents, user : Users]
         \cup [event : {"highlighting_update"}, user : Users, entity : Entities,
               change : HighlightingChanges]
         \cup [event : {"spectating_update"}, user : Users, spectators : SpectatorLists,
               isSpectating : BOOLEAN]
         \cup [event : {"user_controller_connect", "user_controller_disconnect"},
               user : Users, controller : Controllers]

(* The users of the room whose UserModel the handler of an event           *)
(* dereferences.                                                           *)
Needs(e) == IF e.event = "spectating_update" THEN e.spectators \cap Users
            ELSE IF e.event \in {"user_connected", "user_disconnect", "all_highlights_reset"}
            THEN {} ELSE {e.user}

(* getUserById finds nobody of that name in the room, at any replica.      *)
NamesOutsider(e) == e.event = "spectating_update" /\ e.spectators \cap Outsiders # {}

Knows(r, u) == users[r][u] # None

(* A session of user u is registered at replica r: lookupSocket finds it.  *)
ClientAt(r, u) == presence[u] = "in" /\ home[u] = r

(* lookupSocket(v) may find a socket at r.  A user of another room may be  *)
(* connected there or not.                                                 *)
MayHaveSocket(r, v) == v \in Users => ClientAt(r, v)

-----------------------------------------------------------------------------
(* What clients are told *)

View == [known : SUBSET Users,
         controllers : SUBSET (Users \X Controllers),
         highlights  : SUBSET (Users \X Entities)]

NoView == [known |-> {}, controllers |-> {}, highlights |-> {}]

ControllersAt(r, u) == IF Knows(r, u) THEN users[r][u].controllers ELSE {}
HighlightsAt(r, u)  == IF Knows(r, u) THEN users[r][u].highlighted ELSE {}

(* makeSelfConnectedMessage and makeInitialLandscapeMessage for user u,    *)
(* from the users that were there before it.                               *)
Snapshot(r, u) ==
  [known       |-> {v \in Users \ {u} : Knows(r, v)},
   controllers |-> {p \in (Users \ {u}) \X Controllers : p[2] \in ControllersAt(r, p[1])},
   highlights  |-> {p \in (Users \ {u}) \X Listed : p[2] \in HighlightsAt(r, p[1])}]

(* sendBroadcastExceptOneMessage: to the clients of this replica but for   *)
(* user u.                                                                 *)
BroadcastExcept(r, u, Told(_)) ==
  view' = [w \in Users |-> IF ClientAt(r, w) /\ w # u THEN Told(view[w]) ELSE view[w]]

Without(S, u) == {p \in S : p[1] # u}

-----------------------------------------------------------------------------
(* The stayers have joined, and every replica knows them.                  *)
Init ==
  /\ home \in [Users -> Replicas \cup {None}]
  /\ \A u \in Users : home[u] # None <=> u \in Stayers
  /\ users = [r \in Replicas |-> [u \in Users |-> IF u \in Stayers THEN NewUser ELSE None]]
  /\ NoEvents
  /\ presence = [u \in Users |-> IF u \in Stayers THEN "in" ELSE "new"]
  /\ ended = {}
  /\ awaited = [p \in Users \X Controllers |-> 0]
  /\ spectatingRoom = {}
  /\ view = [u \in Users |-> IF u \in Stayers THEN [NoView EXCEPT !.known = Stayers \ {u}]
                                              ELSE NoView]
  /\ steps = 0
  /\ wanted = [u \in Users |-> {}]
  /\ overtaken = {}
  /\ halfDone = {}
  /\ resetters = {}

-----------------------------------------------------------------------------
(* Connections: WebsocketGateway *)

Step == steps < MaxSteps /\ steps' = steps + 1

(* Mutant: the session is not registered.                                  *)
ConnectUnregistered(u, r) ==
  /\ Step
  /\ presence[u] = "new"
  /\ r \notin ended
  /\ presence' = [presence EXCEPT ![u] = "in"]
  /\ users' = [users EXCEPT ![r][u] = NewUser]
  /\ Publish(UserEvent("user_connected", u))
  /\ view' = [view EXCEPT ![u] = Snapshot(r, u)]
  /\ UNCHANGED <<home, ended, awaited, spectatingRoom, historyVars>>

(* handleConnection after the ticket: the user enters the local Room, the  *)
(* others will hear of it by the event, and the client is told of them.    *)
Connect(u, r) ==
  /\ Step
  /\ presence[u] = "new"
  /\ r \notin ended
  /\ presence' = [presence EXCEPT ![u] = "in"]
  /\ home' = [home EXCEPT ![u] = r]
  /\ users' = [users EXCEPT ![r][u] = NewUser]
  /\ Publish(UserEvent("user_connected", u))
  /\ view' = [view EXCEPT ![u] = Snapshot(r, u)]
  /\ UNCHANGED <<ended, awaited, spectatingRoom, historyVars>>

(* handleDisconnect; Socket.IO takes the socket out of its rooms.  It does *)
(* not run for the clients of a process that has ended.                    *)
Disconnect(u) ==
  /\ Step
  /\ presence[u] = "in"
  /\ home[u] \notin ended
  /\ u \notin Stayers
  /\ presence' = [presence EXCEPT ![u] = "left"]
  /\ spectatingRoom' = spectatingRoom \ {u}
  /\ Publish(UserEvent("user_disconnect", u))
  /\ UNCHANGED <<users, home, ended, awaited, view, historyVars>>

-----------------------------------------------------------------------------
(* Client messages: WebsocketGateway *)

(* A client with a session sends a message.                                *)
Sends(u) == presence[u] = "in" /\ home[u] \notin ended /\ Step

HighlightingUpdate(u, entity, change) ==
  /\ Sends(u)
  /\ Publish([event |-> "highlighting_update", user |-> u, entity |-> entity,
              change |-> change])
  /\ UNCHANGED <<users, clientVars, view, historyVars>>

AllHighlightsReset(u) ==
  /\ Sends(u)
  /\ Publish(UserEvent("all_highlights_reset", u))
  /\ resetters' = resetters \cup {u}
  /\ UNCHANGED <<users, clientVars, view, wanted, overtaken, halfDone>>

UserPositions(u) ==
  /\ Sends(u)
  /\ Publish(UserEvent("user_positions", u))
  /\ UNCHANGED <<users, clientVars, view, historyVars>>

(* The sockets of these users after join or leave; those of outsiders are  *)
(* left out.                                                               *)
Moved(S, isSpectating) ==
  spectatingRoom' = IF isSpectating THEN spectatingRoom \cup (S \cap Users)
                                    ELSE spectatingRoom \ S

(* Mutant: users without a socket on this replica are skipped.             *)
SpectatingUpdateUnchecked(u, spectators, isSpectating) ==
  /\ Sends(u)
  /\ Moved({v \in spectators : MayHaveSocket(home[u], v)}, isSpectating)
  /\ Publish([event |-> "spectating_update", user |-> u, spectators |-> spectators,
              isSpectating |-> isSpectating])
  /\ UNCHANGED <<users, presence, home, ended, awaited, view, historyVars>>

(* handleSpectatingUpdateMessage: the users that are named all have a      *)
(* socket on this replica, in whatever room.                               *)
SpectatingUpdate(u, spectators, isSpectating) ==
  /\ Sends(u)
  /\ \A v \in spectators : MayHaveSocket(home[u], v)
  /\ Moved(spectators, isSpectating)
  /\ Publish([event |-> "spectating_update", user |-> u, spectators |-> spectators,
              isSpectating |-> isSpectating])
  /\ UNCHANGED <<users, presence, home, ended, awaited, view, historyVars>>

(* ... or it throws on the way, and nothing is published.  At a user       *)
(* without a socket, lookupSocket having given undefined, it throws after  *)
(* those that the client named before; without a configuration file of     *)
(* the given name, after all of them.                                      *)
SpectatingUpdateFails(u, spectators, isSpectating) ==
  /\ Sends(u)
  /\ \E before \in SUBSET {v \in spectators : MayHaveSocket(home[u], v)} :
       /\ (\A v \in spectators : v \in Users /\ ClientAt(home[u], v)) => before = spectators
       /\ Moved(before, isSpectating)
       /\ halfDone' = halfDone \cup (before \cap Users)
  /\ UNCHANGED <<users, inbox, presence, home, ended, awaited, view, wanted, overtaken,
                 resetters>>

(* handleUserControllerConnectMessage up to the await of the id.           *)
UserControllerConnect(u, c) ==
  /\ Sends(u)
  /\ awaited' = [awaited EXCEPT ![<<u, c>>] = @ + 1]
  /\ wanted' = [wanted EXCEPT ![u] = @ \cup {c}]
  /\ overtaken' = overtaken \ {<<u, c>>}
  /\ UNCHANGED <<users, inbox, presence, home, ended, spectatingRoom, view, halfDone, resetters>>

(* ... and after it: makeRoomForwardMessage looks the session up again,    *)
(* and throws if it has gone.                                              *)
PublishController(u, c) ==
  /\ awaited[<<u, c>>] > 0
  /\ home[u] \notin ended
  /\ awaited' = [awaited EXCEPT ![<<u, c>>] = @ - 1]
  /\ IF presence[u] = "in"
       THEN Publish([event |-> "user_controller_connect", user |-> u, controller |-> c])
       ELSE UNCHANGED inbox
  /\ UNCHANGED <<users, presence, home, ended, spectatingRoom, view, steps, historyVars>>

(* handleUserControllerDisconnectMessage awaits nothing.                   *)
UserControllerDisconnect(u, c) ==
  /\ Sends(u)
  /\ Publish([event |-> "user_controller_disconnect", user |-> u, controller |-> c])
  /\ wanted' = [wanted EXCEPT ![u] = @ \ {c}]
  /\ overtaken' = IF awaited[<<u, c>>] > 0 THEN overtaken \cup {<<u, c>>} ELSE overtaken
  /\ UNCHANGED <<users, clientVars, view, halfDone, resetters>>

-----------------------------------------------------------------------------
(* Events: SubscriberService *)

(* The next event of the replica is of that kind, and the UserModels that  *)
(* its handler dereferences are there.  Without them it throws inside the  *)
(* Redis client's callback and ends the process: EventsFindUsers says that *)
(* for users of the room this never happens here.                          *)
Handles(r, event) == /\ Receives(r, event)
                     /\ r \notin ended
                     /\ ~ NamesOutsider(Head(inbox[r]))
                     /\ \A u \in Needs(Head(inbox[r])) : Knows(r, u)
                     /\ Consume(r)

UnchangedByHandlers == UNCHANGED <<clientVars, steps, historyVars>>

(* Mutant: the clients are told only if the user is new to the replica.    *)
HandleUserConnectedOnce(r) ==
  LET u == Head(inbox[r]).user
  IN /\ Handles(r, "user_connected")
     /\ users' = [users EXCEPT ![r][u] = IF Knows(r, u) THEN @ ELSE NewUser]
     /\ IF Knows(r, u) THEN UNCHANGED view
        ELSE BroadcastExcept(r, u, LAMBDA v : [v EXCEPT !.known = @ \cup {u}])
     /\ UnchangedByHandlers

(* handleUserConnectedEvent: the replica that the user is connected to has *)
(* added it already, but its other clients are told now.                   *)
HandleUserConnected(r) ==
  LET u == Head(inbox[r]).user
  IN /\ Handles(r, "user_connected")
     /\ users' = [users EXCEPT ![r][u] = IF Knows(r, u) THEN @ ELSE NewUser]
     /\ BroadcastExcept(r, u, LAMBDA v : [v EXCEPT !.known = @ \cup {u}])
     /\ UnchangedByHandlers

(* handleUserDisconnectedEvent; a stayer keeps the room.                   *)
HandleUserDisconnected(r) ==
  LET u == Head(inbox[r]).user
  IN /\ Handles(r, "user_disconnect")
     /\ users' = [users EXCEPT ![r][u] = None]
     /\ BroadcastExcept(r, u, LAMBDA v :
          [known       |-> v.known \ {u},
           controllers |-> Without(v.controllers, u),
           highlights  |-> Without(v.highlights, u)])
     /\ UnchangedByHandlers

(* Mutant: the two ways of removing highlights mixed up.                   *)
UpdateHighlightingSwapped(model, e) ==
  CASE e.change = "add"       -> [model EXCEPT !.highlighted = @ \cup {e.entity}]
    [] e.change = "remove"    -> [model EXCEPT !.highlighted = {}]
    [] e.change = "removeAll" -> model

(* UserModifier.updateHighlighting on the user's model.  The loops over    *)
(* Object.values(this.users) find nobody, this.users being a Map: what is  *)
(* not multi-selected is never taken away, and other users keep theirs.    *)
UpdateHighlighting(model, e) ==
  CASE e.change = "add"       -> [model EXCEPT !.highlighted = @ \cup {e.entity}]
    [] e.change = "remove"    -> model
    [] e.change = "removeAll" -> [model EXCEPT !.highlighted = {}]

(* A client takes an entity that is no longer highlighted from its user,   *)
(* or all of them if they were multi-selected.                             *)
ShowHighlighting(shown, e) ==
  CASE e.change = "add"       -> shown \cup {<<e.user, e.entity>>}
    [] e.change = "remove"    -> shown \ {<<e.user, e.entity>>}
    [] e.change = "removeAll" -> Without(shown, e.user)

(* Mutant: the replica of the sender is taken to have made the change.     *)
HandleHighlightingUpdateOfOthers(r) ==
  LET e == Head(inbox[r])
  IN /\ Handles(r, "highlighting_update")
     /\ users' = [users EXCEPT ![r][e.user] =
                    IF ClientAt(r, e.user) THEN @ ELSE UpdateHighlighting(@, e)]
     /\ BroadcastExcept(r, e.user,
          LAMBDA v : [v EXCEPT !.highlights = ShowHighlighting(@, e)])
     /\ UnchangedByHandlers

HandleHighlightingUpdate(r) ==
  LET e == Head(inbox[r])
  IN /\ Handles(r, "highlighting_update")
     /\ users' = [users EXCEPT ![r][e.user] = UpdateHighlighting(@, e)]
     /\ BroadcastExcept(r, e.user,
          LAMBDA v : [v EXCEPT !.highlights = ShowHighlighting(@, e)])
     /\ UnchangedByHandlers

(* UserModifier.resetAllHighlights                                         *)
HandleAllHighlightsReset(r) ==
  /\ Handles(r, "all_highlights_reset")
  /\ users' = [users EXCEPT ![r] = [u \in Users |->
                 IF Knows(r, u) THEN [users[r][u] EXCEPT !.highlighted = {}] ELSE None]]
  /\ BroadcastExcept(r, Head(inbox[r]).user, LAMBDA v : [v EXCEPT !.highlights = {}])
  /\ UnchangedByHandlers

(* Mutant: the sender is taken for the one who spectates.                  *)
HandleSpectatingUpdateOfSender(r) ==
  LET e == Head(inbox[r])
  IN /\ Handles(r, "spectating_update")
     /\ users' = [users EXCEPT ![r] = [u \in Users |->
                    IF u = e.user /\ Knows(r, u)
                      THEN [users[r][u] EXCEPT !.spectating = e.isSpectating] ELSE users[r][u]]]
     /\ UNCHANGED view
     /\ UnchangedByHandlers

HandleSpectatingUpdate(r) ==
  LET e == Head(inbox[r])
  IN /\ Handles(r, "spectating_update")
     /\ users' = [users EXCEPT ![r] = [u \in Users |->
                    IF u \in e.spectators
                      THEN [users[r][u] EXCEPT !.spectating = e.isSpectating] ELSE users[r][u]]]
     /\ UNCHANGED view
     /\ UnchangedByHandlers

(* updateSpectating(undefined) throws, and the process ends.               *)
HandleSpectatingUpdateThrows(r) ==
  /\ Receives(r, "spectating_update")
  /\ r \notin ended
  /\ NamesOutsider(Head(inbox[r]))
  /\ ended' = ended \cup {r}
  /\ UNCHANGED <<users, inbox, presence, home, awaited, spectatingRoom, view, steps, historyVars>>

(* UserModel.addController: the Map has one controller per id.             *)
HandleUserControllerConnect(r) ==
  LET e == Head(inbox[r])
  IN /\ Handles(r, "user_controller_connect")
     /\ users' = [users EXCEPT ![r][e.user].controllers = @ \cup {e.controller}]
     /\ BroadcastExcept(r, e.user,
          LAMBDA v : [v EXCEPT !.controllers = @ \cup {<<e.user, e.controller>>}])
     /\ UnchangedByHandlers

(* Mutant: the controller is looked up by its unique id, and not found.    *)
HandleUserControllerDisconnectById(r) ==
  LET e == Head(inbox[r])
  IN /\ Handles(r, "user_controller_disconnect")
     /\ UNCHANGED users
     /\ BroadcastExcept(r, e.user,
          LAMBDA v : [v EXCEPT !.controllers = @ \ {<<e.user, e.controller>>}])
     /\ UnchangedByHandlers

HandleUserControllerDisconnect(r) ==
  LET e == Head(inbox[r])
  IN /\ Handles(r, "user_controller_disconnect")
     /\ users' = [users EXCEPT ![r][e.user].controllers = @ \ {e.controller}]
     /\ BroadcastExcept(r, e.user,
          LAMBDA v : [v EXCEPT !.controllers = @ \ {<<e.user, e.controller>>}])
     /\ UnchangedByHandlers

(* handleUserPositionsEvent changes poses only, but needs the user.        *)
HandleUserPositions(r) ==
  /\ Handles(r, "user_positions")
  /\ UNCHANGED <<users, view>>
  /\ UnchangedByHandlers

-----------------------------------------------------------------------------
ClientMessage(u) ==
  \/ \E entity \in Entities, change \in HighlightingChanges :
       HighlightingUpdate(u, entity, change)
  \/ AllHighlightsReset(u)
  \/ UserPositions(u)
  \/ \E spectators \in SpectatorLists, isSpectating \in BOOLEAN :
       \/ SpectatingUpdate(u, spectators, isSpectating)
       \/ SpectatingUpdateFails(u, spectators, isSpectating)
  \/ \E c \in Controllers : UserControllerConnect(u, c) \/ UserControllerDisconnect(u, c)

Handle(r) == \/ HandleUserConnected(r)
             \/ HandleUserDisconnected(r)
             \/ HandleHighlightingUpdate(r)
             \/ HandleAllHighlightsReset(r)
             \/ HandleSpectatingUpdate(r)
             \/ HandleUserControllerConnect(r)
             \/ HandleUserControllerDisconnect(r)
             \/ HandleUserPositions(r)

Next == \/ \E u \in Users, r \in Replicas : Connect(u, r)
        \/ \E u \in Users : Disconnect(u) \/ ClientMessage(u)
        \/ \E u \in Users, c \in Controllers : PublishController(u, c)
        \/ \E r \in Replicas : Handle(r) \/ HandleSpectatingUpdateThrows(r)

Spec == Init /\ [][Next]_vars

-----------------------------------------------------------------------------
(* Properties *)

(* The values of every variable.                                           *)
TypeOK ==
  /\ users \in [Replicas -> [Users -> UserModel \cup {None}]]
  /\ inbox \in [Replicas -> Seq(Event)]
  /\ presence \in [Users -> {"new", "in", "left"}]
  /\ home \in [Users -> Replicas \cup {None}]
  /\ \A u \in Users : presence[u] # "new" => home[u] \in Replicas
  /\ ended \subseteq Replicas
  /\ awaited \in [Users \X Controllers -> Nat]
  /\ spectatingRoom \subseteq Users
  /\ view \in [Users -> View]
  /\ steps \in Nat
  /\ wanted \in [Users -> SUBSET Controllers]
  /\ overtaken \subseteq Users \X Controllers
  /\ halfDone \subseteq Users
  /\ resetters \subseteq Users

(* Every queued event will find, of the users of the room that its handler *)
(* dereferences, the UserModel: each is there, or arrives by an event      *)
(* ahead in the queue, and no departure is ahead.  Users of other rooms    *)
(* are not found: an event that names one ends the process.                *)
EventsFindUsers ==
  \A r \in Replicas : \A i \in 1..Len(inbox[r]) : \A u \in Needs(inbox[r][i]) :
    /\ Knows(r, u) \/ WaitingBefore(r, i, "user_connected", u)
    /\ ~ WaitingBefore(r, i, "user_disconnect", u)

(* Replicas that have handled the same events have recorded the same of    *)
(* every user that both know; one may know a user that the other learns of *)
(* later only while its arrival is on the way.                             *)
ActivityAgrees ==
  \A r, q \in Replicas : inbox[r] = inbox[q] =>
    \A u \in Users : \/ users[r][u] = users[q][u]
                     \/ Waiting(r, "user_connected", u)

(* What a client was told when it joined, and since, is who else is in the *)
(* room, except for those whose arrival is still on the way; and it is     *)
(* their controllers.                                                      *)
ClientsKnowRoom ==
  \A r \in Replicas, u \in Users : ClientAt(r, u) =>
    /\ \A v \in Users \ {u} :
         /\ v \in view[u].known => Knows(r, v)
         /\ Knows(r, v) => v \in view[u].known \/ Waiting(r, "user_connected", v)
    /\ view[u].controllers =
         {p \in (Users \ {u}) \X Controllers : p[2] \in ControllersAt(r, p[1])}

(* What a client shows as highlighted is recorded at its replica, so that  *)
(* whoever joins there can be told.  A client that has reset all           *)
(* highlights itself is not told of it, and may show one that came between *)
(* its reset and the event.                                                *)
HighlightsRecorded ==
  \A r \in Replicas, u \in Users : ClientAt(r, u) /\ u \notin resetters =>
    \A p \in view[u].highlights : p[2] \in HighlightsAt(r, p[1])

(* A replica with no more news of a user's controllers has the controllers *)
(* that the client wants connected, unless a disconnect overtook the       *)
(* connect that awaited its id.                                            *)
ControllersFollow ==
  \A r \in Replicas, u \in Users, c \in Controllers :
    (/\ presence[u] = "in" /\ Knows(r, u)
     /\ awaited[<<u, c>>] = 0 /\ <<u, c>> \notin overtaken
     /\ ~ Waiting(r, "user_controller_connect", u)
     /\ ~ Waiting(r, "user_controller_disconnect", u))
      => (c \in users[r][u].controllers <=> c \in wanted[u])

(* A replica with no more news of it takes a user for a spectator exactly  *)
(* if its socket is in the spectating room, unless an update failed        *)
(* half-way.                                                               *)
SpectatorsInRoom ==
  \A r \in Replicas, u \in Users :
    (/\ presence[u] = "in" /\ Knows(r, u) /\ u \notin halfDone
     /\ \A i \in 1..Len(inbox[r]) :
          inbox[r][i].event = "spectating_update" => u \notin inbox[r][i].spectators)
      => (users[r][u].spectating <=> u \in spectatingRoom)

-----------------------------------------------------------------------------
(* What these rest on *)

(* A user in the room is known at every replica, or will be, and its       *)
(* departure is not on the way.                                            *)
MembersKnown ==
  \A r \in Replicas, u \in Users : presence[u] = "in" =>
    /\ Knows(r, u) \/ Waiting(r, "user_connected", u)
    /\ ~ Waiting(r, "user_disconnect", u)

(* Of a user to come no replica knows or hears.                            *)
NewcomersUnknown ==
  \A r \in Replicas, u \in Users : presence[u] = "new" =>
    /\ ~ Knows(r, u)
    /\ ~ Waiting(r, "user_connected", u)
    /\ ~ Waiting(r, "user_disconnect", u)

(* No client is told of its own highlights.                                *)
OwnHighlightsUntold ==
  \A u \in Users : \A p \in view[u].highlights : p[1] # u

ResetsRemembered ==
  \A r \in Replicas, u \in Users :
    Waiting(r, "all_highlights_reset", u) => u \in resetters

KnownInv == TypeOK /\ MembersKnown /\ NewcomersUnknown /\ EventsFindUsers

ActivityInv == /\ KnownInv
               /\ ClientsKnowRoom
               /\ OwnHighlightsUntold
               /\ ResetsRemembered
               /\ HighlightsRecorded
=============================================================================
