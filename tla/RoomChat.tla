------------------------------ MODULE RoomChat -------------------------------
(***************************************************************************)
(* The chat of one room.  Every replica has a ChatService of its own: the  *)
(* messages that were sent to it, with ids that it counts itself, and the  *)
(* users muted at it.  Messages, deletions and whole histories reach the   *)
(* clients of all replicas as events.                                      *)
(*                                                                         *)
(* The room has been created at every replica.  It is deleted with its     *)
(* last user, and a replica that handles a user event without the room     *)
(* ends; tickets, sessions and restarts are RoomLifecycle.  Texts, times   *)
(* and the event types of messages are left out.  The list of messages is  *)
(* the set of its members: their ids give the order.                       *)
(***************************************************************************)
EXTENDS EventBus, FiniteSets

CONSTANTS Users,
          None,
          MaxSteps   \* bound on what clients do: join, leave, send a message

ASSUME ChatAssumption == None \notin Replicas /\ MaxSteps \in Nat

VARIABLES live,      \* the replicas whose process runs
          hasRoom,   \* the replicas that have the room
          members,   \* replica -> the users of the room
          history,   \* replica -> ChatService.messages of the room
          muted,     \* replica -> ChatService.mutedUser of the room
          msgId,     \* replica -> ChatService.msgId, the next id
          presence,  \* user -> "new", "in", "left", "killed"
          home,      \* user -> the replica it is connected to
          told,      \* user -> messages sent to its client and not deleted since
          steps,     \* how much clients have done
          since,     \* user -> history: the next ids when it joined
          erased,    \* history: messages deleted at the replica that has them
          deletedIds,\* history: ids in deletions
          current    \* history: messages sent, alone or in a history, after the
                     \*   last deletion of their id

roomVars    == <<hasRoom, members>>
serviceVars == <<history, muted, msgId>>
clientVars  == <<presence, home, told>>
historyVars == <<since, erased, deletedIds, current>>
vars == <<live, roomVars, inbox, serviceVars, clientVars, steps, historyVars>>

(* An id means something at its replica only.                              *)
Message == [at : Replicas, id : Nat, by : Users]

Event == [event : {"user_connected", "user_disconnect"}, user : Users]
         \cup [event : {"chat_message"}, user : Users, message : Message]
         \cup [event : {"chat_synchronization"}, user : Users, messages : SUBSET Message]
         \cup [event : {"delete_message"}, user : Users, id : Nat]

UserEvent(event, u) == [event |-> event, user |-> u]

(* A session of user u is registered at replica r.                         *)
ClientAt(r, u) == presence[u] = "in" /\ home[u] = r

(* sendBroadcastMessage: to the clients of this replica, the sender's too. *)
Broadcast(r, Told(_)) ==
  told' = [u \in Users |-> IF ClientAt(r, u) THEN Told(told[u]) ELSE told[u]]

-----------------------------------------------------------------------------
(* ChatService *)

isUserMuted(r, u) == u \in muted[r]

(* Mutant: ids by the length of the history.                               *)
NewMessageOfLength(r, u) == [at |-> r, id |-> Cardinality(history[r]) + 1, by |-> u]

NewMessage(r, u) == [at |-> r, id |-> msgId[r], by |-> u]

(* addMessage, after getNewMessageId                                       *)
AddMessage(r, u) ==
  /\ history' = [history EXCEPT ![r] = @ \cup {NewMessage(r, u)}]
  /\ msgId' = [msgId EXCEPT ![r] = @ + 1]
  /\ current' = current \cup {NewMessage(r, u)}

ChatEvent(r, u) == [event |-> "chat_message", user |-> u, message |-> NewMessage(r, u)]

(* Mutant: messages are left to the clients.                               *)
RemoveNothing(r, id) == history[r]

(* removeMessage                                                           *)
RemoveMessage(r, id) == {m \in history[r] : m.id # id}

-----------------------------------------------------------------------------
Init ==
  /\ live = Replicas
  /\ hasRoom = Replicas
  /\ members = [r \in Replicas |-> {}]
  /\ NoEvents
  /\ history = [r \in Replicas |-> {}]
  /\ muted = [r \in Replicas |-> {}]
  /\ msgId = [r \in Replicas |-> 1]
  /\ presence = [u \in Users |-> "new"]
  /\ home = [u \in Users |-> None]
  /\ told = [u \in Users |-> {}]
  /\ steps = 0
  /\ since = [u \in Users |-> [r \in Replicas |-> 0]]
  /\ erased = {}
  /\ deletedIds = {}
  /\ current = {}

-----------------------------------------------------------------------------
(* WebsocketGateway *)

Step == steps < MaxSteps /\ steps' = steps + 1

(* Mutant: the session is not registered.                                  *)
ConnectUnregistered(u, r) ==
  /\ Step
  /\ presence[u] = "new"
  /\ r \in live \cap hasRoom
  /\ members' = [members EXCEPT ![r] = @ \cup {u}]
  /\ PublishTo(live, UserEvent("user_connected", u))
  /\ presence' = [presence EXCEPT ![u] = "in"]
  /\ since' = [since EXCEPT ![u] = msgId]
  /\ UNCHANGED <<live, hasRoom, serviceVars, home, told, erased, deletedIds, current>>

(* handleConnection after the ticket, which needs the room.                *)
Connect(u, r) ==
  /\ Step
  /\ presence[u] = "new"
  /\ r \in live \cap hasRoom
  /\ members' = [members EXCEPT ![r] = @ \cup {u}]
  /\ PublishTo(live, UserEvent("user_connected", u))
  /\ presence' = [presence EXCEPT ![u] = "in"]
  /\ home' = [home EXCEPT ![u] = r]
  /\ since' = [since EXCEPT ![u] = msgId]
  /\ UNCHANGED <<live, hasRoom, serviceVars, told, erased, deletedIds, current>>

(* Mutant: the chat hears of it last.                                      *)
DisconnectThenChat(u) ==
  LET r == home[u]
  IN /\ Step
     /\ presence[u] = "in"
     /\ IF isUserMuted(r, u)
          THEN /\ PublishTo(live, UserEvent("user_disconnect", u))
               /\ UNCHANGED <<history, msgId, current>>
          ELSE /\ PublishBothTo(live, UserEvent("user_disconnect", u), ChatEvent(r, u))
               /\ AddMessage(r, u)
     /\ presence' = [presence EXCEPT ![u] = "left"]
     /\ UNCHANGED <<live, roomVars, muted, home, told, since, erased, deletedIds>>

(* handleDisconnect: a notice goes through handleChatMessage, and is       *)
(* dropped if the user is muted, then the others hear of the departure.    *)
Disconnect(u) ==
  LET r == home[u]
  IN /\ Step
     /\ presence[u] = "in"
     /\ IF isUserMuted(r, u)
          THEN /\ PublishTo(live, UserEvent("user_disconnect", u))
               /\ UNCHANGED <<history, msgId, current>>
          ELSE /\ PublishBothTo(live, ChatEvent(r, u), UserEvent("user_disconnect", u))
               /\ AddMessage(r, u)
     /\ presence' = [presence EXCEPT ![u] = "left"]
     /\ UNCHANGED <<live, roomVars, muted, home, told, since, erased, deletedIds>>

Sends(u) == presence[u] = "in" /\ Step

(* handleChatMessage; of a muted user it forgets the message.              *)
ChatMessage(u) ==
  LET r == home[u]
  IN /\ Sends(u)
     /\ ~ isUserMuted(r, u)
     /\ AddMessage(r, u)
     /\ PublishTo(live, ChatEvent(r, u))
     /\ UNCHANGED <<live, roomVars, muted, clientVars, since, erased, deletedIds>>

(* handleMuteEvent: a toggle, at this replica only.                        *)
Mute(u, v) ==
  LET r == home[u]
  IN /\ Sends(u)
     /\ muted' = [muted EXCEPT ![r] = IF isUserMuted(r, v) THEN @ \ {v} ELSE @ \cup {v}]
     /\ UNCHANGED <<live, roomVars, inbox, history, msgId, clientVars, historyVars>>

(* handleChatSyncEvent: the history of this replica, sent to everybody.    *)
ChatSync(u) ==
  /\ Sends(u)
  /\ PublishTo(live, [event |-> "chat_synchronization", user |-> u,
                      messages |-> history[home[u]]])
  /\ current' = current \cup history[home[u]]
  /\ UNCHANGED <<live, roomVars, serviceVars, clientVars, since, erased, deletedIds>>

(* handleMessageDeleteEvent of one id.  The clients of all replicas take   *)
(* away what has this id, but of the histories only the one of this        *)
(* replica changes: a message of another replica stays in its own.         *)
MessageDelete(u, id) ==
  LET r == home[u]
  IN /\ Sends(u)
     /\ history' = [history EXCEPT ![r] = RemoveMessage(r, id)]
     /\ PublishTo(live, [event |-> "delete_message", user |-> u, id |-> id])
     /\ erased' = erased \cup {m \in history[r] : m.id = id}
     /\ deletedIds' = deletedIds \cup {id}
     /\ current' = {m \in current : m.id # id}
     /\ UNCHANGED <<live, roomVars, muted, msgId, clientVars, since>>

-----------------------------------------------------------------------------
(* SubscriberService *)

Handles(r, event) == r \in live /\ Receives(r, event)

HandleUserConnected(r) ==
  /\ Handles(r, "user_connected")
  /\ r \in hasRoom
  /\ members' = [members EXCEPT ![r] = @ \cup {Head(inbox[r]).user}]
  /\ Consume(r)
  /\ UNCHANGED <<live, hasRoom, serviceVars, clientVars, steps, historyVars>>

(* Mutant: the chat of an empty room is kept.                              *)
HandleUserDisconnectedKeepingChat(r) ==
  LET left == members[r] \ {Head(inbox[r]).user}
  IN /\ Handles(r, "user_disconnect")
     /\ r \in hasRoom
     /\ members' = [members EXCEPT ![r] = left]
     /\ hasRoom' = IF left = {} THEN hasRoom \ {r} ELSE hasRoom
     /\ Consume(r)
     /\ UNCHANGED <<live, serviceVars, clientVars, steps, historyVars>>

(* handleUserDisconnectedEvent: an empty room goes, with its chat; its     *)
(* mutes stay.                                                             *)
HandleUserDisconnected(r) ==
  LET left == members[r] \ {Head(inbox[r]).user}
  IN /\ Handles(r, "user_disconnect")
     /\ r \in hasRoom
     /\ members' = [members EXCEPT ![r] = left]
     /\ hasRoom' = IF left = {} THEN hasRoom \ {r} ELSE hasRoom
     /\ history' = [history EXCEPT ![r] = IF left = {} THEN {} ELSE @]
     /\ Consume(r)
     /\ UNCHANGED <<live, muted, msgId, clientVars, steps, historyVars>>

(* The same two handlers without the room: the process ends.               *)
HandlerThrows(r) ==
  /\ Handles(r, "user_connected") \/ Handles(r, "user_disconnect")
  /\ r \notin hasRoom
  /\ live' = live \ {r}
  /\ inbox' = [inbox EXCEPT ![r] = <<>>]
  /\ history' = [history EXCEPT ![r] = {}]
  /\ muted' = [muted EXCEPT ![r] = {}]
  /\ presence' = [u \in Users |-> IF ClientAt(r, u) THEN "killed" ELSE presence[u]]
  /\ UNCHANGED <<roomVars, msgId, home, told, steps, historyVars>>

(* The chat handlers broadcast, and touch neither room nor ChatService.    *)
Broadcasts == UNCHANGED <<live, roomVars, serviceVars, presence, home, steps, historyVars>>

(* Mutant: the sender is left out.                                         *)
HandleChatMessageToOthers(r) ==
  LET e == Head(inbox[r])
  IN /\ Handles(r, "chat_message")
     /\ told' = [u \in Users |-> IF ClientAt(r, u) /\ u # e.user
                                 THEN told[u] \cup {e.message} ELSE told[u]]
     /\ Consume(r)
     /\ Broadcasts

HandleChatMessage(r) ==
  /\ Handles(r, "chat_message")
  /\ Broadcast(r, LAMBDA S : S \cup {Head(inbox[r]).message})
  /\ Consume(r)
  /\ Broadcasts

HandleChatSync(r) ==
  /\ Handles(r, "chat_synchronization")
  /\ Broadcast(r, LAMBDA S : S \cup Head(inbox[r]).messages)
  /\ Consume(r)
  /\ Broadcasts

(* A client knows a message by its id only.                                *)
HandleMessageDelete(r) ==
  /\ Handles(r, "delete_message")
  /\ Broadcast(r, LAMBDA S : {m \in S : m.id # Head(inbox[r]).id})
  /\ Consume(r)
  /\ Broadcasts

-----------------------------------------------------------------------------
(* A client asks for the deletion of a message that it was shown.          *)
ShownIds(u) == {m.id : m \in told[u]}

Next ==
  \/ \E u \in Users, r \in Replicas : Connect(u, r)
  \/ \E u \in Users : \/ Disconnect(u)
                      \/ ChatMessage(u)
                      \/ \E v \in Users : Mute(u, v)
                      \/ ChatSync(u)
                      \/ \E id \in ShownIds(u) : MessageDelete(u, id)
  \/ \E r \in Replicas : \/ HandleUserConnected(r)
                         \/ HandleUserDisconnected(r)
                         \/ HandlerThrows(r)
                         \/ HandleChatMessage(r)
                         \/ HandleChatSync(r)
                         \/ HandleMessageDelete(r)

Spec == Init /\ [][Next]_vars

-----------------------------------------------------------------------------
(* Properties *)

(* The values of every variable.                                           *)
TypeOK ==
  /\ live \subseteq Replicas
  /\ hasRoom \subseteq Replicas
  /\ members \in [Replicas -> SUBSET Users]
  /\ inbox \in [Replicas -> Seq(Event)]
  /\ history \in [Replicas -> SUBSET Message]
  /\ muted \in [Replicas -> SUBSET Users]
  /\ msgId \in [Replicas -> Nat]
  /\ presence \in [Users -> {"new", "in", "left", "killed"}]
  /\ home \in [Users -> Replicas \cup {None}]
  /\ \A u \in Users : presence[u] = "in" => home[u] \in live
  /\ told \in [Users -> SUBSET Message]
  /\ steps \in Nat
  /\ since \in [Users -> [Replicas -> Nat]]
  /\ erased \subseteq Message
  /\ deletedIds \subseteq Nat
  /\ current \subseteq Message

(* deleteEmptyChatRoom loses nothing and leaves nothing: a replica has     *)
(* messages of the room only while it has the room.                        *)
ChatDiesWithRoom == \A r \in Replicas : history[r] # {} => r \in hasRoom

(* An id names one message of its replica, however messages are deleted in *)
(* between, and the next id is beyond all of them, so that the list is in  *)
(* the order of its ids.                                                   *)
IdsUnique ==
  \A r \in Replicas : \A m \in history[r] :
    /\ m.at = r
    /\ m.id < msgId[r]
    /\ \A n \in history[r] : m.id = n.id => m = n

(* Whoever is told of a message knows its author: at every replica the     *)
(* author is in the room, or its arrival is queued ahead of the message,   *)
(* and its departure is not.  This includes the notice of a disconnect.    *)
AuthorsKnown ==
  \A r \in live : \A i \in 1..Len(inbox[r]) : inbox[r][i].event = "chat_message" =>
    LET u == inbox[r][i].message.by
    IN /\ u \in members[r] \/ WaitingBefore(r, i, "user_connected", u)
       /\ ~ WaitingBefore(r, i, "user_disconnect", u)

(* The deletion of this id is on its way to the replica.                   *)
DeletionWaiting(r, id) ==
  \E i \in 1..Len(inbox[r]) : inbox[r][i].event = "delete_message" /\ inbox[r][i].id = id

(* What was deleted comes back only if somebody sends it again: once the   *)
(* deletion of an id has been handled, through whatever replica it was     *)
(* made, a client shows no message of that id but those sent after it, by  *)
(* their author or in the history of a replica that still has them;        *)
(* messages and histories that were on their way do not bring it back.     *)
(* And a message that was deleted at the replica that had it is never      *)
(* sent again.                                                             *)
NoResurrection ==
  \A r \in live, u \in Users : ClientAt(r, u) =>
    \A m \in told[u] : DeletionWaiting(r, m.id) \/ m \in current \ erased

MessageWaiting(r, m) ==
  \E i \in 1..Len(inbox[r]) :
    inbox[r][i].event = "chat_message" /\ inbox[r][i].message = m

(* What a replica has in its history has been heard: every client that was *)
(* there when the message was sent has been told, or will be, unless a     *)
(* message of that id, be it another replica's, was deleted.               *)
HistoryIsHeard ==
  \A r \in Replicas : \A m \in history[r], u \in Users :
    (presence[u] = "in" /\ m.id >= since[u][r] /\ m.id \notin deletedIds)
      => m \in told[u] \/ MessageWaiting(home[u], m)

-----------------------------------------------------------------------------
(* What these rest on *)

(* A user in the room is in it at its replica, which has it, and wherever  *)
(* its arrival has been handled; its departure is not on the way.          *)
MembersKnown ==
  \A u \in Users : presence[u] = "in" =>
    /\ home[u] \in hasRoom /\ u \in members[home[u]]
    /\ \A r \in live : /\ u \in members[r] \/ Waiting(r, "user_connected", u)
                       /\ ~ Waiting(r, "user_disconnect", u)

(* A user to come has been told nothing, and has not departed.             *)
NewcomersUntold ==
  \A u \in Users : presence[u] = "new" =>
    told[u] = {} /\ \A r \in live : ~ Waiting(r, "user_disconnect", u)

(* A message deleted where it was is out of the history, its id is used,   *)
(* and it is not sent again.                                               *)
ErasedGone == \A m \in erased : /\ m.id < msgId[m.at]
                                /\ m \notin history[m.at]
                                /\ m \notin current

(* The messages that an event shows to clients.                            *)
Shown(e) == IF e.event = "chat_message" THEN {e.message}
            ELSE IF e.event = "chat_synchronization" THEN e.messages ELSE {}

(* Whatever would show a message that is not current is followed by the    *)
(* deletion of its id.                                                     *)
DeletionsFollow ==
  \A r \in live : \A i \in 1..Len(inbox[r]) : \A m \in Shown(inbox[r][i]) :
    m \notin current =>
      \E j \in 1..Len(inbox[r]) : /\ j > i
                                  /\ inbox[r][j].event = "delete_message"
                                  /\ inbox[r][j].id = m.id

DeletionsRecorded ==
  \A r \in live : \A i \in 1..Len(inbox[r]) :
    inbox[r][i].event = "delete_message" => inbox[r][i].id \in deletedIds

ChatInv == /\ TypeOK
           /\ MembersKnown
           /\ NewcomersUntold
           /\ ChatDiesWithRoom
           /\ IdsUnique
           /\ AuthorsKnown
           /\ ErasedGone
           /\ DeletionsFollow
           /\ NoResurrection
           /\ DeletionsRecorded
           /\ HistoryIsHeard
=============================================================================
