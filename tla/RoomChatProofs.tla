---------------------------- MODULE RoomChatProofs ----------------------------
(***************************************************************************)
(* Theorems about RoomChat.                                                *)
(***************************************************************************)
EXTENDS RoomChat, EventBusProofs

(* The events in S have been published, to the replicas that run.          *)
Sent(S) ==
  \A r \in Replicas :
    /\ Len(inbox[r]) \in Nat /\ Len(inbox'[r]) \in Nat /\ Len(inbox[r]) <= Len(inbox'[r])
    /\ \A i \in 1..Len(inbox[r]) : inbox'[r][i] = inbox[r][i]
    /\ r \notin live => inbox'[r] = inbox[r]
    /\ r \in live =>
         /\ \A i \in 1..Len(inbox'[r]) : i > Len(inbox[r]) => inbox'[r][i] \in S
         /\ \A e \in S : \E i \in 1..Len(inbox'[r]) : i > Len(inbox[r]) /\ inbox'[r][i] = e

LEMMA SentOne ==
  ASSUME inbox \in [Replicas -> Seq(Event)], NEW e \in Event, PublishTo(live, e)
  PROVE  inbox' \in [Replicas -> Seq(Event)] /\ Sent({e})
<1>1. /\ inbox' \in [Replicas -> Seq(Event)]
      /\ \A r \in Replicas :
           /\ inbox'[r] = IF r \in live THEN Append(inbox[r], e) ELSE inbox[r]
           /\ Len(inbox'[r]) = IF r \in live THEN Len(inbox[r]) + 1 ELSE Len(inbox[r])
           /\ Len(inbox[r]) \in Nat
           /\ \A i \in 1..Len(inbox[r]) : inbox'[r][i] = inbox[r][i]
           /\ r \in live => inbox'[r][Len(inbox[r]) + 1] = e
  BY PublishToQueues
<1>2. ASSUME NEW r \in Replicas
      PROVE  /\ Len(inbox[r]) \in Nat /\ Len(inbox'[r]) \in Nat /\ Len(inbox[r]) <= Len(inbox'[r])
             /\ r \notin live => inbox'[r] = inbox[r]
             /\ r \in live => /\ Len(inbox[r]) + 1 \in 1..Len(inbox'[r])
                              /\ \A i \in 1..Len(inbox'[r]) :
                                   i > Len(inbox[r]) => i = Len(inbox[r]) + 1
  BY <1>1
<1> QED BY <1>1, <1>2 DEF Sent

LEMMA SentBoth ==
  ASSUME inbox \in [Replicas -> Seq(Event)], NEW e \in Event, NEW f \in Event,
         PublishBothTo(live, e, f)
  PROVE  /\ inbox' \in [Replicas -> Seq(Event)] /\ Sent({e, f})
         /\ \A r \in live \cap Replicas : /\ inbox'[r][Len(inbox[r]) + 1] = e
                                          /\ inbox'[r][Len(inbox[r]) + 2] = f
                                          /\ Len(inbox'[r]) = Len(inbox[r]) + 2
<1>1. /\ inbox' \in [Replicas -> Seq(Event)]
      /\ \A r \in Replicas :
           /\ inbox'[r] = IF r \in live THEN Append(Append(inbox[r], e), f) ELSE inbox[r]
           /\ Len(inbox'[r]) = IF r \in live THEN Len(inbox[r]) + 2 ELSE Len(inbox[r])
           /\ Len(inbox[r]) \in Nat
           /\ \A i \in 1..Len(inbox[r]) : inbox'[r][i] = inbox[r][i]
           /\ r \in live => /\ inbox'[r][Len(inbox[r]) + 1] = e
                            /\ inbox'[r][Len(inbox[r]) + 2] = f
  <2> DEFINE T(x, y) ==
        /\ inbox' \in [Replicas -> Seq(Event)]
        /\ \A r \in Replicas :
             /\ inbox'[r] = IF r \in live THEN Append(Append(inbox[r], x), y) ELSE inbox[r]
             /\ Len(inbox'[r]) = IF r \in live THEN Len(inbox[r]) + 2 ELSE Len(inbox[r])
             /\ Len(inbox[r]) \in Nat
             /\ \A i \in 1..Len(inbox[r]) : inbox'[r][i] = inbox[r][i]
             /\ r \in live => /\ inbox'[r][Len(inbox[r]) + 1] = x
                              /\ inbox'[r][Len(inbox[r]) + 2] = y
  <2>1. \A x, y \in Event : PublishBothTo(live, x, y) => T(x, y)
    BY PublishBothToQueues
  <2> QED BY <2>1
<1>2. ASSUME NEW r \in Replicas
      PROVE  /\ Len(inbox[r]) \in Nat /\ Len(inbox'[r]) \in Nat /\ Len(inbox[r]) <= Len(inbox'[r])
             /\ r \notin live => inbox'[r] = inbox[r]
             /\ r \in live => /\ Len(inbox[r]) + 1 \in 1..Len(inbox'[r])
                              /\ Len(inbox[r]) + 2 \in 1..Len(inbox'[r])
                              /\ \A i \in 1..Len(inbox'[r]) : i > Len(inbox[r]) =>
                                   i = Len(inbox[r]) + 1 \/ i = Len(inbox[r]) + 2
  BY <1>1
<1>3. Sent({e, f})
  <2> SUFFICES ASSUME NEW r \in Replicas
               PROVE  /\ \A i \in 1..Len(inbox[r]) : inbox'[r][i] = inbox[r][i]
                      /\ r \in live =>
                           /\ \A i \in 1..Len(inbox'[r]) : i > Len(inbox[r]) => inbox'[r][i] \in {e, f}
                           /\ \A d \in {e, f} :
                                \E i \in 1..Len(inbox'[r]) : i > Len(inbox[r]) /\ inbox'[r][i] = d
    BY <1>2 DEF Sent
  <2>1. Len(inbox[r]) + 1 > Len(inbox[r]) /\ Len(inbox[r]) + 2 > Len(inbox[r])
    BY <1>2
  <2>2. ASSUME r \in live, NEW i \in 1..Len(inbox'[r]), i > Len(inbox[r])
        PROVE  inbox'[r][i] \in {e, f}
    BY <1>1, <1>2, <2>2
  <2>3. ASSUME r \in live
        PROVE  \A d \in {e, f} :
                 \E i \in 1..Len(inbox'[r]) : i > Len(inbox[r]) /\ inbox'[r][i] = d
    BY <1>1, <1>2, <2>1, <2>3
  <2> QED BY <1>1, <2>2, <2>3
<1> QED BY <1>1, <1>3

(* What is waiting after a publication, and what waits ahead of an event.  *)
LEMMA SentWaiting ==
  ASSUME NEW S, Sent(S), NEW r \in Replicas
  PROVE  \A event, u :
           /\ Waiting(r, event, u) => Waiting(r, event, u)'
           /\ Waiting(r, event, u)' /\ ~ Waiting(r, event, u) =>
                \E e \in S : e.event = event /\ e.user = u
           /\ \A i \in 1..Len(inbox[r]) :
                WaitingBefore(r, i, event, u)' <=> WaitingBefore(r, i, event, u)
           /\ \A i \in 1..Len(inbox'[r]) : i > Len(inbox[r]) =>
                (Waiting(r, event, u) => WaitingBefore(r, i, event, u)')
<1>0. PICK n : n = Len(inbox[r])
  OBVIOUS
<1>1. /\ n \in Nat /\ Len(inbox'[r]) \in Nat /\ n <= Len(inbox'[r])
      /\ \A i \in 1..n : inbox'[r][i] = inbox[r][i]
      /\ r \notin live => inbox'[r] = inbox[r]
      /\ r \in live => \A i \in 1..Len(inbox'[r]) : i > n => inbox'[r][i] \in S
  BY <1>0 DEF Sent
<1> SUFFICES ASSUME NEW event, NEW u
             PROVE  /\ Waiting(r, event, u) => Waiting(r, event, u)'
                    /\ Waiting(r, event, u)' /\ ~ Waiting(r, event, u) =>
                         \E e \in S : e.event = event /\ e.user = u
                    /\ \A i \in 1..n :
                         WaitingBefore(r, i, event, u)' <=> WaitingBefore(r, i, event, u)
                    /\ \A i \in 1..Len(inbox'[r]) : i > n =>
                         (Waiting(r, event, u) => WaitingBefore(r, i, event, u)')
  BY <1>0
<1>2. \A i \in 1..n : Queued(r, i, event, u)' <=> Queued(r, i, event, u)
  BY <1>0, <1>1 DEF Queued
<1>3. /\ Waiting(r, event, u)' <=> \E i \in 1..Len(inbox'[r]) : Queued(r, i, event, u)'
      /\ Waiting(r, event, u) <=> \E i \in 1..n : Queued(r, i, event, u)
  BY <1>0 DEF Waiting
<1>4. \A i : /\ WaitingBefore(r, i, event, u)' <=> \E j \in 1..(i - 1) : Queued(r, j, event, u)'
             /\ WaitingBefore(r, i, event, u) <=> \E j \in 1..(i - 1) : Queued(r, j, event, u)
  BY DEF WaitingBefore
<1>5. Waiting(r, event, u) => Waiting(r, event, u)'
  BY <1>1, <1>2, <1>3
<1>6. Waiting(r, event, u)' /\ ~ Waiting(r, event, u) =>
        \E e \in S : e.event = event /\ e.user = u
  <2> SUFFICES ASSUME Waiting(r, event, u)', ~ Waiting(r, event, u)
               PROVE  \E e \in S : e.event = event /\ e.user = u
    OBVIOUS
  <2>1. PICK i \in 1..Len(inbox'[r]) : Queued(r, i, event, u)'
    BY <1>3
  <2>2. i \notin 1..n
    BY <1>2, <1>3, <2>1
  <2>3. inbox'[r][i].event = event /\ inbox'[r][i].user = u
    BY <2>1 DEF Queued
  <2>4. i > n
    BY <1>1, <2>1, <2>2
  <2>5. r \in live
    BY <1>0, <1>1, <2>1, <2>2
  <2> QED BY <1>1, <2>1, <2>3, <2>4, <2>5
<1>7. \A i \in 1..n : WaitingBefore(r, i, event, u)' <=> WaitingBefore(r, i, event, u)
  BY <1>1, <1>2, <1>4
<1>8. \A i \in 1..Len(inbox'[r]) : i > n =>
        (Waiting(r, event, u) => WaitingBefore(r, i, event, u)')
  <2>1. \A i \in 1..Len(inbox'[r]) : i > n => \A j \in 1..n : j \in 1..(i - 1)
    BY <1>1
  <2> QED BY <1>2, <1>3, <1>4, <2>1
<1> QED BY <1>5, <1>6, <1>7, <1>8

-----------------------------------------------------------------------------
(* Types *)

LEMMA EventsTyped ==
  ASSUME NEW u \in Users
  PROVE  /\ \A event \in {"user_connected", "user_disconnect"} : UserEvent(event, u) \in Event
         /\ \A m \in Message :
              [event |-> "chat_message", user |-> u, message |-> m] \in Event
         /\ \A M \in SUBSET Message :
              [event |-> "chat_synchronization", user |-> u, messages |-> M] \in Event
         /\ \A id \in Nat : [event |-> "delete_message", user |-> u, id |-> id] \in Event
BY DEF Event, UserEvent

(* What an event has, by its kind.                                         *)
LEMMA EventFields ==
  ASSUME NEW e \in Event
  PROVE  /\ e.event \in {"user_connected", "user_disconnect", "chat_message",
                         "chat_synchronization", "delete_message"}
         /\ e.user \in Users
         /\ e.event = "chat_message" => e.message \in Message
         /\ e.event = "chat_synchronization" => e.messages \in SUBSET Message
         /\ e.event = "delete_message" => e.id \in Nat
BY DEF Event

(* A message made for a user of a running replica.                         *)
LEMMA NewMessageTyped ==
  ASSUME TypeOK, NEW r \in Replicas, NEW u \in Users
  PROVE  /\ NewMessage(r, u) \in Message
         /\ NewMessage(r, u).at = r /\ NewMessage(r, u).id = msgId[r] /\ NewMessage(r, u).by = u
         /\ ChatEvent(r, u) \in Event
         /\ ChatEvent(r, u).event = "chat_message" /\ ChatEvent(r, u).user = u
         /\ ChatEvent(r, u).message = NewMessage(r, u)
<1>1. /\ NewMessage(r, u) \in Message
      /\ NewMessage(r, u).at = r /\ NewMessage(r, u).id = msgId[r] /\ NewMessage(r, u).by = u
  BY DEF NewMessage, Message, TypeOK
<1>2. /\ ChatEvent(r, u).event = "chat_message" /\ ChatEvent(r, u).user = u
      /\ ChatEvent(r, u).message = NewMessage(r, u)
  BY DEF ChatEvent
<1>3. ChatEvent(r, u) \in Event
  BY <1>1, EventsTyped DEF ChatEvent
<1> QED BY <1>1, <1>2, <1>3

LEMMA AddMessageTyped ==
  ASSUME TypeOK, NEW r \in Replicas, NEW u \in Users, AddMessage(r, u)
  PROVE  /\ history' \in [Replicas -> SUBSET Message] /\ msgId' \in [Replicas -> Nat]
         /\ current' \subseteq Message
<1>1. NewMessage(r, u) \in Message
  BY NewMessageTyped
<1> QED BY <1>1 DEF AddMessage, TypeOK

LEMMA HandledEvent ==
  ASSUME TypeOK, NEW r \in Replicas, NEW event, Handles(r, event)
  PROVE  /\ r \in live /\ inbox[r] # <<>>
         /\ Head(inbox[r]) \in Event /\ Head(inbox[r]).event = event
         /\ Head(inbox[r]).user \in Users
<1>1. inbox[r] \in Seq(Event) /\ inbox[r] # <<>>
  BY DEF TypeOK, Handles, Receives
<1>2. Head(inbox[r]) \in Event
  BY <1>1
<1> QED BY <1>1, <1>2, EventFields DEF Handles, Receives

LEMMA ConsumedTyped ==
  ASSUME TypeOK, NEW r \in Replicas, NEW event, Handles(r, event), Consume(r)
  PROVE  inbox' \in [Replicas -> Seq(Event)]
BY HandledEvent, ConsumeQueues DEF TypeOK

LEMMA InitType == Init => TypeOK
BY ChatAssumption DEF Init, NoEvents, TypeOK

LEMMA StepType == TypeOK /\ [Next]_vars => TypeOK'
<1> SUFFICES ASSUME TypeOK, [Next]_vars PROVE TypeOK'
  OBVIOUS
<1> USE ChatAssumption
<1>1. ASSUME NEW u \in Users, NEW r \in Replicas, Connect(u, r) PROVE TypeOK'
  <2>1. inbox' \in [Replicas -> Seq(Event)]
    BY <1>1, EventsTyped, SentOne DEF TypeOK, Connect
  <2>2. \A v \in Users : presence'[v] = "in" => home'[v] \in live'
    BY <1>1 DEF TypeOK, Connect
  <2>3. since' \in [Users -> [Replicas -> Nat]]
    BY <1>1 DEF TypeOK, Connect
  <2>4. presence' \in [Users -> {"new", "in", "left", "killed"}]
        /\ members' \in [Replicas -> SUBSET Users] /\ home' \in [Users -> Replicas \cup {None}]
    BY <1>1 DEF TypeOK, Connect
  <2> QED BY <1>1, <2>1, <2>2, <2>3, <2>4 DEF TypeOK, Connect, Step, serviceVars
<1>2. ASSUME NEW u \in Users, Disconnect(u) PROVE TypeOK'
  <2>1. home[u] \in Replicas
    BY <1>2 DEF TypeOK, Disconnect
  <2>2. inbox' \in [Replicas -> Seq(Event)]
    <3>1. CASE isUserMuted(home[u], u)
      BY <1>2, <2>1, <3>1, EventsTyped, SentOne DEF TypeOK, Disconnect
    <3>2. CASE ~ isUserMuted(home[u], u)
      BY <1>2, <2>1, <3>2, EventsTyped, NewMessageTyped, SentBoth DEF TypeOK, Disconnect
    <3> QED BY <3>1, <3>2
  <2>3. /\ history' \in [Replicas -> SUBSET Message] /\ msgId' \in [Replicas -> Nat]
        /\ current' \subseteq Message
    BY <1>2, <2>1, AddMessageTyped DEF TypeOK, Disconnect
  <2> QED BY <1>2, <2>2, <2>3 DEF TypeOK, Disconnect, Step, roomVars
<1>3. ASSUME NEW u \in Users, ChatMessage(u) PROVE TypeOK'
  <2>1. home[u] \in Replicas
    BY <1>3 DEF TypeOK, ChatMessage, Sends
  <2>2. inbox' \in [Replicas -> Seq(Event)]
    BY <1>3, <2>1, NewMessageTyped, SentOne DEF TypeOK, ChatMessage
  <2>3. /\ history' \in [Replicas -> SUBSET Message] /\ msgId' \in [Replicas -> Nat]
        /\ current' \subseteq Message
    BY <1>3, <2>1, AddMessageTyped DEF ChatMessage
  <2> QED BY <1>3, <2>2, <2>3
          DEF TypeOK, ChatMessage, Sends, Step, roomVars, clientVars
<1>4. ASSUME NEW u \in Users, NEW v \in Users, Mute(u, v) PROVE TypeOK'
  BY <1>4 DEF TypeOK, Mute, Sends, Step, roomVars, clientVars, historyVars
<1>5. ASSUME NEW u \in Users, ChatSync(u) PROVE TypeOK'
  <2>1. home[u] \in Replicas
    BY <1>5 DEF TypeOK, ChatSync, Sends
  <2>2. inbox' \in [Replicas -> Seq(Event)]
    BY <1>5, <2>1, EventsTyped, SentOne DEF TypeOK, ChatSync
  <2>3. current' \subseteq Message
    BY <1>5, <2>1 DEF TypeOK, ChatSync
  <2> QED BY <1>5, <2>2, <2>3
          DEF TypeOK, ChatSync, Sends, Step, roomVars, serviceVars, clientVars
<1>6. ASSUME NEW u \in Users, NEW id \in ShownIds(u), MessageDelete(u, id) PROVE TypeOK'
  <2>1. home[u] \in Replicas /\ id \in Nat
    BY <1>6 DEF TypeOK, MessageDelete, Sends, ShownIds, Message
  <2>2. inbox' \in [Replicas -> Seq(Event)]
    BY <1>6, <2>1, EventsTyped, SentOne DEF TypeOK, MessageDelete
  <2>3. history' \in [Replicas -> SUBSET Message] /\ erased' \subseteq Message
        /\ deletedIds' \subseteq Nat /\ current' \subseteq Message
    BY <1>6, <2>1 DEF TypeOK, MessageDelete, RemoveMessage
  <2> QED BY <1>6, <2>2, <2>3 DEF TypeOK, MessageDelete, Sends, Step, roomVars, clientVars
<1>7. ASSUME NEW r \in Replicas, HandleUserConnected(r) PROVE TypeOK'
  BY <1>7, HandledEvent, ConsumedTyped
     DEF TypeOK, HandleUserConnected, serviceVars, clientVars, historyVars
<1>8. ASSUME NEW r \in Replicas, HandleUserDisconnected(r) PROVE TypeOK'
  <2>1. inbox' \in [Replicas -> Seq(Event)]
    BY <1>8, ConsumedTyped DEF HandleUserDisconnected
  <2>2. /\ members' \in [Replicas -> SUBSET Users] /\ hasRoom' \subseteq Replicas
        /\ history' \in [Replicas -> SUBSET Message]
    BY <1>8 DEF TypeOK, HandleUserDisconnected
  <2> QED BY <1>8, <2>1, <2>2 DEF TypeOK, HandleUserDisconnected, clientVars, historyVars
<1>9. ASSUME NEW r \in Replicas, HandlerThrows(r) PROVE TypeOK'
  <2>1. inbox' \in [Replicas -> Seq(Event)]
    BY <1>9 DEF TypeOK, HandlerThrows
  <2>2. /\ presence' \in [Users -> {"new", "in", "left", "killed"}]
        /\ \A u \in Users : presence'[u] = "in" => home'[u] \in live'
    BY <1>9 DEF TypeOK, HandlerThrows, ClientAt
  <2>3. /\ history' \in [Replicas -> SUBSET Message] /\ muted' \in [Replicas -> SUBSET Users]
        /\ live' \subseteq Replicas
    BY <1>9 DEF TypeOK, HandlerThrows
  <2> QED BY <1>9, <2>1, <2>2, <2>3 DEF TypeOK, HandlerThrows, roomVars, historyVars
<1>10. ASSUME NEW r \in Replicas, HandleChatMessage(r) PROVE TypeOK'
  <2>1. Head(inbox[r]).message \in Message
    BY <1>10, HandledEvent, EventFields DEF HandleChatMessage
  <2>2. told' \in [Users -> SUBSET Message]
    BY <1>10, <2>1 DEF TypeOK, HandleChatMessage, Broadcast
  <2> QED BY <1>10, <2>2, ConsumedTyped
          DEF TypeOK, HandleChatMessage, Broadcasts, roomVars, serviceVars, historyVars
<1>11. ASSUME NEW r \in Replicas, HandleChatSync(r) PROVE TypeOK'
  <2>1. Head(inbox[r]).messages \in SUBSET Message
    BY <1>11, HandledEvent, EventFields DEF HandleChatSync
  <2>2. told' \in [Users -> SUBSET Message]
    BY <1>11, <2>1 DEF TypeOK, HandleChatSync, Broadcast
  <2> QED BY <1>11, <2>2, ConsumedTyped
          DEF TypeOK, HandleChatSync, Broadcasts, roomVars, serviceVars, historyVars
<1>12. ASSUME NEW r \in Replicas, HandleMessageDelete(r) PROVE TypeOK'
  <2>1. told' \in [Users -> SUBSET Message]
    BY <1>12 DEF TypeOK, HandleMessageDelete, Broadcast
  <2> QED BY <1>12, <2>1, ConsumedTyped
          DEF TypeOK, HandleMessageDelete, Broadcasts, roomVars, serviceVars, historyVars
<1>13. CASE UNCHANGED vars
  BY <1>13 DEF TypeOK, vars, roomVars, serviceVars, clientVars, historyVars
<1> QED BY <1>1, <1>2, <1>3, <1>4, <1>5, <1>6, <1>7, <1>8, <1>9, <1>10, <1>11, <1>12, <1>13
        DEF Next

(* TypeOK holds of every state, for any number of replicas and users.      *)
THEOREM ChatTypeCorrect == Spec => []TypeOK
BY InitType, StepType, PTL DEF Spec

-----------------------------------------------------------------------------
(* Histories and their ids *)

(* What a step does to histories: a user in the room has sent a message,   *)
(* or messages have been taken away, or sent again.                        *)
MessageAdded == \E u \in Users : /\ presence[u] = "in"
                                 /\ AddMessage(home[u], u)
                                 /\ hasRoom' = hasRoom /\ erased' = erased

(* Nothing becomes current but what a history has, and what is deleted     *)
(* there is not current.                                                   *)
MessagesTaken ==
  /\ \A q \in Replicas : /\ history'[q] \subseteq history[q]
                         /\ q \in hasRoom /\ history'[q] # {} => q \in hasRoom'
  /\ msgId' = msgId
  /\ \A m \in erased' :
       \/ m \in erased
       \/ m \notin current' /\ \E q \in Replicas : m \in history[q] /\ m \notin history'[q]
  /\ \A m \in current' : m \in current \/ \E q \in Replicas : m \in history'[q]

LEMMA HistoryStep == TypeOK /\ [Next]_vars => MessageAdded \/ MessagesTaken
<1> SUFFICES ASSUME TypeOK, [Next]_vars PROVE MessageAdded \/ MessagesTaken
  OBVIOUS
<1>1. (/\ history' = history /\ msgId' = msgId /\ hasRoom' = hasRoom
       /\ erased' = erased /\ current' = current) => MessagesTaken
  BY DEF MessagesTaken
<1>2. ASSUME NEW u \in Users, NEW r \in Replicas, Connect(u, r)
      PROVE  MessagesTaken
  BY <1>1, <1>2 DEF Connect, serviceVars
<1>3. ASSUME NEW u \in Users, Disconnect(u)
      PROVE  MessageAdded \/ MessagesTaken
  <2>1. CASE isUserMuted(home[u], u)
    BY <1>1, <1>3, <2>1 DEF Disconnect, roomVars
  <2>2. CASE ~ isUserMuted(home[u], u)
    BY <1>3, <2>2 DEF Disconnect, roomVars, MessageAdded
  <2> QED BY <2>1, <2>2
<1>4. ASSUME NEW u \in Users, ChatMessage(u)
      PROVE  MessageAdded
  BY <1>4 DEF ChatMessage, Sends, roomVars, MessageAdded
<1>5. ASSUME NEW u \in Users, NEW v \in Users, Mute(u, v)
      PROVE  MessagesTaken
  BY <1>1, <1>5 DEF Mute, roomVars, historyVars
<1>6. ASSUME NEW u \in Users, ChatSync(u)
      PROVE  MessagesTaken
  <2>1. /\ history' = history /\ msgId' = msgId /\ hasRoom' = hasRoom /\ erased' = erased
        /\ current' = current \cup history[home[u]] /\ home[u] \in Replicas
    BY <1>6 DEF ChatSync, Sends, TypeOK, roomVars, serviceVars
  <2> QED BY <2>1 DEF MessagesTaken
<1>7. ASSUME NEW u \in Users, NEW id \in ShownIds(u), MessageDelete(u, id)
      PROVE  MessagesTaken
  <2> DEFINE r == home[u]
  <2>1. r \in Replicas
    BY <1>7 DEF TypeOK, MessageDelete, Sends
  <2>2. \A q \in Replicas :
          history'[q] = IF q = r THEN {m \in history[r] : m.id # id} ELSE history[q]
    BY <1>7, <2>1 DEF TypeOK, MessageDelete, RemoveMessage
  <2>3. /\ erased' = erased \cup {m \in history[r] : m.id = id}
        /\ msgId' = msgId /\ hasRoom' = hasRoom /\ current' = {m \in current : m.id # id}
    BY <1>7 DEF MessageDelete, roomVars
  <2> QED BY <2>1, <2>2, <2>3 DEF MessagesTaken
<1>8. ASSUME NEW r \in Replicas, HandleUserConnected(r)
      PROVE  MessagesTaken
  BY <1>1, <1>8 DEF HandleUserConnected, serviceVars, historyVars
<1>9. ASSUME NEW r \in Replicas, HandleUserDisconnected(r)
      PROVE  MessagesTaken
  BY <1>9 DEF TypeOK, HandleUserDisconnected, historyVars, MessagesTaken
<1>10. ASSUME NEW r \in Replicas, HandlerThrows(r)
       PROVE  MessagesTaken
  BY <1>10 DEF TypeOK, HandlerThrows, roomVars, historyVars, MessagesTaken
<1>11. ASSUME NEW r \in Replicas, HandleChatMessage(r) \/ HandleChatSync(r) \/ HandleMessageDelete(r)
       PROVE  MessagesTaken
  BY <1>1, <1>11 DEF HandleChatMessage, HandleChatSync, HandleMessageDelete, Broadcasts,
                     roomVars, serviceVars, historyVars
<1>12. CASE UNCHANGED vars
  BY <1>1, <1>12 DEF vars, roomVars, serviceVars, historyVars
<1> QED BY <1>2, <1>3, <1>4, <1>5, <1>6, <1>7, <1>8, <1>9, <1>10, <1>11, <1>12 DEF Next

LEMMA StepHistory ==
  ASSUME TypeOK, MembersKnown, ChatDiesWithRoom, IdsUnique, ErasedGone, [Next]_vars
  PROVE  ChatDiesWithRoom' /\ IdsUnique' /\ ErasedGone'
<1>1. CASE MessageAdded
  <2>1. PICK u \in Users : /\ presence[u] = "in"
                           /\ AddMessage(home[u], u)
                           /\ hasRoom' = hasRoom /\ erased' = erased
                           /\ current' = current \cup {NewMessage(home[u], u)}
    BY <1>1 DEF MessageAdded, AddMessage
  <2> DEFINE r == home[u]
             n == NewMessage(r, u)
  <2>2. r \in Replicas /\ r \in hasRoom
    BY <2>1 DEF TypeOK, MembersKnown
  <2>3. n.at = r /\ n.id = msgId[r]
    BY <2>2, NewMessageTyped
  <2>4. \A q \in Replicas : /\ history'[q] = IF q = r THEN history[q] \cup {n} ELSE history[q]
                            /\ msgId'[q] = IF q = r THEN msgId[q] + 1 ELSE msgId[q]
                            /\ msgId[q] \in Nat
    BY <2>1, <2>2 DEF AddMessage, TypeOK
  <2> HIDE DEF n, r
  <2>5. \A q \in Replicas : \A m \in history[q] : m.id \in Nat
    BY DEF TypeOK, Message
  <2>6. ChatDiesWithRoom'
    BY <2>1, <2>2, <2>4 DEF ChatDiesWithRoom
  <2>7. IdsUnique'
    <3> SUFFICES ASSUME NEW q \in Replicas, NEW m \in history'[q]
                 PROVE  /\ m.at = q
                        /\ m.id < msgId'[q]
                        /\ \A k \in history'[q] : m.id = k.id => m = k
      BY DEF IdsUnique
    <3>1. \A k \in history[q] : /\ k.at = q /\ k.id < msgId[q] /\ k.id \in Nat
                                /\ \A l \in history[q] : k.id = l.id => k = l
      BY <2>5 DEF IdsUnique
    <3>2. CASE q # r
      BY <2>4, <3>1, <3>2
    <3>3. CASE q = r
      <4>1. history'[q] = history[q] \cup {n} /\ msgId'[q] = msgId[q] + 1 /\ msgId[q] \in Nat
        BY <2>4, <3>3
      <4>2. n.at = q /\ n.id = msgId[q]
        BY <2>3, <3>3
      <4> QED BY <3>1, <4>1, <4>2
    <3> QED BY <3>2, <3>3
  <2>8. \A m \in erased : m.at \in Replicas /\ m.id \in Nat
    BY DEF TypeOK, Message
  <2>9. ErasedGone'
    <3> SUFFICES ASSUME NEW m \in erased
                 PROVE  m.id < msgId'[m.at] /\ m \notin history'[m.at] /\ m \notin current'
      BY <2>1 DEF ErasedGone
    <3>1. /\ m.id < msgId[m.at] /\ m \notin history[m.at]
          /\ m.at \in Replicas /\ m.id \in Nat /\ msgId[m.at] \in Nat /\ m \notin current
      BY <2>4, <2>8 DEF ErasedGone
    <3>2. m # n
      BY <2>3, <3>1
    <3>3. PICK q \in Replicas : q = m.at
      BY <3>1
    <3>4. /\ history'[q] = IF q = r THEN history[q] \cup {n} ELSE history[q]
          /\ msgId'[q] = IF q = r THEN msgId[q] + 1 ELSE msgId[q]
      BY <2>4
    <3>5. m \notin history'[q] /\ m.id < msgId'[q]
      BY <3>1, <3>2, <3>3, <3>4
    <3>6. m \notin current'
      BY <2>1, <3>1, <3>2 DEF n, r
    <3> QED BY <3>3, <3>5, <3>6
  <2> QED BY <2>6, <2>7, <2>9
<1>2. CASE MessagesTaken
  <2>1. ChatDiesWithRoom'
    BY <1>2 DEF MessagesTaken, ChatDiesWithRoom
  <2>2. IdsUnique'
    BY <1>2 DEF MessagesTaken, IdsUnique
  <2>3. \A m \in erased : m.at \in Replicas
    BY DEF TypeOK, Message
  <2>4. ErasedGone'
    <3> SUFFICES ASSUME NEW m \in erased'
                 PROVE  m.id < msgId'[m.at] /\ m \notin history'[m.at] /\ m \notin current'
      BY DEF ErasedGone
    <3>1. /\ msgId' = msgId /\ \A q \in Replicas : history'[q] \subseteq history[q]
          /\ m \in current' => m \in current \/ \E q \in Replicas : m \in history'[q]
          /\ \/ m \in erased
             \/ m \notin current' /\ \E q \in Replicas : m \in history[q] /\ m \notin history'[q]
      BY <1>2 DEF MessagesTaken
    <3>2. CASE m \in erased
      <4>1. /\ m.id < msgId[m.at] /\ m \notin history[m.at] /\ m \notin current
            /\ m.at \in Replicas
        BY <2>3, <3>2 DEF ErasedGone
      <4>2. \A q \in Replicas : m \notin history'[q]
        BY <3>1, <4>1 DEF IdsUnique
      <4> QED BY <3>1, <4>1, <4>2
    <3>3. CASE m \notin erased
      <4>1. PICK q \in Replicas : m \in history[q] /\ m \notin history'[q]
        BY <3>1, <3>3
      <4>2. m.at = q /\ m.id < msgId[q]
        BY <4>1 DEF IdsUnique
      <4> QED BY <3>1, <3>3, <4>1, <4>2
    <3> QED BY <3>2, <3>3
  <2> QED BY <2>1, <2>2, <2>4
<1> QED BY <1>1, <1>2, HistoryStep

-----------------------------------------------------------------------------
(* Members and authors *)

LEMMA SentNothing ==
  ASSUME inbox \in [Replicas -> Seq(Event)], inbox' = inbox
  PROVE  Sent({})
BY DEF Sent

(* Publishing, when only those who leave depart.                           *)
LEMMA SentMembers ==
  ASSUME TypeOK, MembersKnown, NewcomersUntold, NEW S \in SUBSET Event, Sent(S),
         live' = live, hasRoom' = hasRoom, members' = members, home' = home, told' = told,
         \A v \in Users : presence'[v] \in {"in", "new"} => presence[v] = presence'[v],
         \A e \in S : e.event = "user_disconnect" => presence'[e.user] \notin {"in", "new"}
  PROVE  MembersKnown' /\ NewcomersUntold'
<1>1. \A r \in live, v \in Users :
        /\ Waiting(r, "user_connected", v) => Waiting(r, "user_connected", v)'
        /\ Waiting(r, "user_disconnect", v)' /\ ~ Waiting(r, "user_disconnect", v) =>
             presence'[v] \notin {"in", "new"}
  <2> SUFFICES ASSUME NEW r \in live, NEW v \in Users
               PROVE  /\ Waiting(r, "user_connected", v) => Waiting(r, "user_connected", v)'
                      /\ Waiting(r, "user_disconnect", v)' /\ ~ Waiting(r, "user_disconnect", v) =>
                           presence'[v] \notin {"in", "new"}
    OBVIOUS
  <2>1. r \in Replicas
    BY DEF TypeOK
  <2>2. Waiting(r, "user_connected", v) => Waiting(r, "user_connected", v)'
    BY <2>1, SentWaiting
  <2>3. Waiting(r, "user_disconnect", v)' /\ ~ Waiting(r, "user_disconnect", v) =>
          \E e \in S : e.event = "user_disconnect" /\ e.user = v
    BY <2>1, SentWaiting
  <2> QED BY <2>2, <2>3
<1>2. MembersKnown'
  BY <1>1 DEF MembersKnown
<1>3. NewcomersUntold'
  BY <1>1 DEF NewcomersUntold
<1> QED BY <1>2, <1>3

(* Publishing messages of users in the room, no departure ahead of them.   *)
LEMMA SentAuthors ==
  ASSUME TypeOK, MembersKnown, AuthorsKnown, NEW S \in SUBSET Event, Sent(S), live' = live,
         \A r \in Replicas : members[r] \subseteq members'[r],
         \A r \in live : \A i \in 1..Len(inbox'[r]) :
           i > Len(inbox[r]) /\ inbox'[r][i].event = "chat_message" =>
             /\ presence[inbox'[r][i].message.by] = "in"
             /\ \A j \in 1..(i - 1) : j > Len(inbox[r]) => inbox'[r][j].event # "user_disconnect"
  PROVE  AuthorsKnown'
<1> SUFFICES ASSUME NEW r \in live, NEW i \in 1..Len(inbox'[r]),
                    inbox'[r][i].event = "chat_message",
                    NEW u, u = inbox'[r][i].message.by
             PROVE  /\ u \in members'[r] \/ WaitingBefore(r, i, "user_connected", u)'
                    /\ ~ WaitingBefore(r, i, "user_disconnect", u)'
  BY DEF AuthorsKnown
<1>1. r \in Replicas
  BY DEF TypeOK
<1>2. PICK n : n = Len(inbox[r])
  OBVIOUS
<1>3. /\ n \in Nat /\ Len(inbox'[r]) \in Nat /\ n <= Len(inbox'[r])
      /\ \A j \in 1..n : inbox'[r][j] = inbox[r][j]
      /\ \A j \in 1..Len(inbox'[r]) : j > n => inbox'[r][j] \in S
  BY <1>1, <1>2 DEF Sent
<1>4. CASE i \in 1..n
  <2>1. /\ u \in members[r] \/ WaitingBefore(r, i, "user_connected", u)
        /\ ~ WaitingBefore(r, i, "user_disconnect", u)
    BY <1>2, <1>3, <1>4 DEF AuthorsKnown
  <2>2. /\ WaitingBefore(r, i, "user_connected", u)' <=> WaitingBefore(r, i, "user_connected", u)
        /\ WaitingBefore(r, i, "user_disconnect", u)' <=> WaitingBefore(r, i, "user_disconnect", u)
    BY <1>1, <1>2, <1>4, SentWaiting
  <2> QED BY <1>1, <2>1, <2>2
<1>5. CASE i \notin 1..n
  <2>1. i > n
    BY <1>3, <1>5
  <2>2. u \in Users
    BY <1>3, <2>1, EventFields DEF Message
  <2>3. presence[u] = "in"
    BY <1>2, <2>1
  <2>4. /\ u \in members[r] \/ Waiting(r, "user_connected", u)
        /\ ~ Waiting(r, "user_disconnect", u)
    BY <2>2, <2>3 DEF MembersKnown
  <2>5. Waiting(r, "user_connected", u) => WaitingBefore(r, i, "user_connected", u)'
    BY <1>1, <1>2, <2>1, SentWaiting
  <2>6. ASSUME NEW j \in 1..(i - 1), Queued(r, j, "user_disconnect", u)'
        PROVE  FALSE
    <3>1. j \in 1..n \/ j > n
      BY <1>3
    <3>2. CASE j \in 1..n
      <4>1. Queued(r, j, "user_disconnect", u)
        BY <1>2, <1>3, <2>6, <3>2 DEF Queued
      <4> QED BY <1>2, <2>4, <3>2, <4>1 DEF Waiting
    <3>3. CASE j > n
      BY <1>2, <2>1, <2>6, <3>3 DEF Queued
    <3> QED BY <3>1, <3>2, <3>3
  <2>7. ~ WaitingBefore(r, i, "user_disconnect", u)'
    BY <2>6 DEF WaitingBefore
  <2> QED BY <1>1, <2>4, <2>5, <2>7
<1> QED BY <1>4, <1>5

(* Handling an event: only an arrival or a departure changes who is in the *)
(* room, and only a departure that empties it deletes it.                  *)
LEMMA ConsumedMembers ==
  ASSUME TypeOK, MembersKnown, NewcomersUntold, AuthorsKnown,
         NEW r \in Replicas, NEW event, Handles(r, event), Consume(r),
         live' = live, presence' = presence, home' = home,
         \A q \in Replicas, v \in Users :
           v \in members'[q] <=>
             IF q # r \/ Head(inbox[r]).user # v
                \/ Head(inbox[r]).event \notin {"user_connected", "user_disconnect"}
             THEN v \in members[q] ELSE Head(inbox[r]).event = "user_connected",
         \A q \in Replicas : q \in hasRoom => q \in hasRoom' \/ (q = r /\ members'[r] = {}),
         \A v \in Users : presence[v] = "new" => told'[v] = told[v]
  PROVE  MembersKnown' /\ NewcomersUntold' /\ AuthorsKnown'
<1> DEFINE h == Head(inbox[r])
<1>1. /\ inbox \in [Replicas -> Seq(Event)] /\ inbox[r] # <<>>
      /\ h \in Event /\ h.user \in Users /\ r \in live
  BY HandledEvent DEF TypeOK
<1>2. \A q \in Replicas, v \in Users :
        v \in members'[q] <=>
          IF q # r \/ h.user # v \/ h.event \notin {"user_connected", "user_disconnect"}
          THEN v \in members[q] ELSE h.event = "user_connected"
  OBVIOUS
<1> HIDE DEF h
<1>3. \A k, v :
        /\ \A q \in Replicas : q # r => (Waiting(q, k, v)' <=> Waiting(q, k, v))
        /\ Waiting(r, k, v) <=> Waiting(r, k, v)' \/ (h.event = k /\ h.user = v)
  BY <1>1, ConsumeWaiting DEF h
<1>4. \A u \in Users : presence[u] = "in" =>
        /\ home[u] \in Replicas /\ u \in members[home[u]] /\ home[u] \in hasRoom /\ home[u] \in live
        /\ \A q \in live : /\ u \in members[q] \/ Waiting(q, "user_connected", u)
                           /\ ~ Waiting(q, "user_disconnect", u)
  BY DEF TypeOK, MembersKnown
<1>5. \A q \in live : q \in Replicas
  BY DEF TypeOK
<1>6. ASSUME NEW u \in Users, presence[u] = "in"
      PROVE  /\ home[u] \in hasRoom' /\ u \in members'[home[u]]
             /\ \A q \in live : /\ u \in members'[q] \/ Waiting(q, "user_connected", u)'
                                /\ ~ Waiting(q, "user_disconnect", u)'
  <2>1. ~ (h.event = "user_disconnect" /\ h.user = u)
    BY <1>1, <1>3, <1>4, <1>6
  <2>2. u \in members'[home[u]]
    BY <1>2, <1>4, <1>6, <2>1
  <2>3. home[u] \in hasRoom'
    BY <1>4, <1>6, <2>2
  <2>4. ASSUME NEW q \in live
        PROVE  /\ u \in members'[q] \/ Waiting(q, "user_connected", u)'
               /\ ~ Waiting(q, "user_disconnect", u)'
    <3>1. q \in Replicas /\ (u \in members[q] \/ Waiting(q, "user_connected", u))
          /\ ~ Waiting(q, "user_disconnect", u)
      BY <1>4, <1>5, <1>6
    <3>2. CASE q = r
      BY <1>2, <1>3, <2>1, <3>1, <3>2
    <3>3. CASE q # r
      BY <1>2, <1>3, <3>1, <3>3
    <3> QED BY <3>2, <3>3
  <2> QED BY <2>2, <2>3, <2>4
<1>7. MembersKnown'
  BY <1>6 DEF MembersKnown
<1>8. NewcomersUntold'
  <2>1. \A q \in live, u \in Users :
          Waiting(q, "user_disconnect", u)' => Waiting(q, "user_disconnect", u)
    BY <1>3, <1>5
  <2> QED BY <2>1 DEF NewcomersUntold
<1>9. ASSUME NEW q \in live, NEW i \in 1..Len(inbox'[q]), inbox'[q][i].event = "chat_message",
             NEW u, u = inbox'[q][i].message.by
      PROVE  /\ u \in members'[q] \/ WaitingBefore(q, i, "user_connected", u)'
             /\ ~ WaitingBefore(q, i, "user_disconnect", u)'
  <2>1. CASE q # r
    <3>1. q \in Replicas /\ inbox'[q] = inbox[q]
      BY <1>1, <1>5, <2>1, ConsumeQueues
    <3>2. inbox[q][i] \in Event /\ i \in 1..Len(inbox[q])
      BY <1>1, <3>1
    <3>3. u \in Users
      BY <1>9, <3>1, <3>2, EventFields DEF Message
    <3>4. /\ u \in members[q] \/ WaitingBefore(q, i, "user_connected", u)
          /\ ~ WaitingBefore(q, i, "user_disconnect", u)
      BY <1>9, <3>1, <3>2 DEF AuthorsKnown
    <3>5. /\ WaitingBefore(q, i, "user_connected", u)' <=> WaitingBefore(q, i, "user_connected", u)
          /\ WaitingBefore(q, i, "user_disconnect", u)' <=> WaitingBefore(q, i, "user_disconnect", u)
      BY <3>1 DEF WaitingBefore, Queued
    <3> QED BY <1>2, <2>1, <3>1, <3>3, <3>4, <3>5
  <2>2. CASE q = r
    <3>1. /\ i + 1 \in 1..Len(inbox[r]) /\ inbox'[r][i] = inbox[r][i + 1]
          /\ inbox[r][i + 1] \in Event
      BY <1>1, <2>2, ConsumeQueues
    <3>2. u \in Users
      BY <1>9, <2>2, <3>1, EventFields DEF Message
    <3>3. /\ u \in members[r] \/ WaitingBefore(r, i + 1, "user_connected", u)
          /\ ~ WaitingBefore(r, i + 1, "user_disconnect", u)
      BY <1>1, <1>9, <2>2, <3>1 DEF AuthorsKnown
    <3>4. \A k : WaitingBefore(r, i + 1, k, u) <=>
                   WaitingBefore(r, i, k, u)' \/ (h.event = k /\ h.user = u)
      BY <1>1, <2>2, ConsumeWaiting DEF h
    <3> QED BY <1>2, <2>2, <3>2, <3>3, <3>4
  <2> QED BY <2>1, <2>2
<1>10. AuthorsKnown'
  BY <1>9 DEF AuthorsKnown
<1> QED BY <1>7, <1>8, <1>10

MembersInv == MembersKnown /\ NewcomersUntold /\ AuthorsKnown

LEMMA InitMembers == Init => MembersInv
BY DEF Init, NoEvents, MembersInv, MembersKnown, NewcomersUntold, AuthorsKnown, Waiting

LEMMA StepMembers == TypeOK /\ MembersInv /\ [Next]_vars => MembersInv'
<1> SUFFICES ASSUME TypeOK, MembersInv, [Next]_vars PROVE MembersInv'
  OBVIOUS
<1>1. /\ inbox \in [Replicas -> Seq(Event)] /\ live \subseteq Replicas
      /\ MembersKnown /\ NewcomersUntold /\ AuthorsKnown
  BY DEF TypeOK, MembersInv
<1>2. ASSUME NEW u \in Users, NEW r \in Replicas, Connect(u, r)
      PROVE  MembersInv'
  <2> DEFINE e == UserEvent("user_connected", u)
  <2>1. e \in Event /\ e.event = "user_connected" /\ e.user = u
    BY EventsTyped DEF UserEvent
  <2>2. Sent({e})
    BY <1>1, <1>2, <2>1, SentOne DEF Connect
  <2> HIDE DEF e
  <2>3. /\ presence[u] = "new" /\ presence' = [presence EXCEPT ![u] = "in"]
        /\ home' = [home EXCEPT ![u] = r] /\ r \in hasRoom
        /\ live' = live /\ hasRoom' = hasRoom /\ told' = told
    BY <1>2 DEF Connect
  <2>4. \A q \in Replicas : members'[q] = IF q = r THEN members[q] \cup {u} ELSE members[q]
    BY <1>2 DEF TypeOK, Connect
  <2>5. ASSUME NEW q \in live
        PROVE  /\ \A v \in Users : Waiting(q, "user_connected", v) => Waiting(q, "user_connected", v)'
               /\ \A v \in Users : Waiting(q, "user_disconnect", v)' => Waiting(q, "user_disconnect", v)
               /\ Waiting(q, "user_connected", u)'
    <3>1. PICK i \in 1..Len(inbox'[q]) : inbox'[q][i] = e
      BY <1>1, <2>2 DEF Sent
    <3>2. Waiting(q, "user_connected", u)'
      BY <2>1, <3>1 DEF Waiting, Queued
    <3>3. /\ \A v : Waiting(q, "user_connected", v) => Waiting(q, "user_connected", v)'
          /\ \A v : Waiting(q, "user_disconnect", v)' => Waiting(q, "user_disconnect", v)
      BY <1>1, <2>1, <2>2, SentWaiting
    <3> QED BY <3>2, <3>3
  <2>6. MembersKnown'
    <3> SUFFICES ASSUME NEW v \in Users, presence'[v] = "in"
                 PROVE  /\ home'[v] \in hasRoom /\ v \in members'[home'[v]]
                        /\ \A q \in live : /\ v \in members'[q] \/ Waiting(q, "user_connected", v)'
                                           /\ ~ Waiting(q, "user_disconnect", v)'
      BY <2>3 DEF MembersKnown
    <3>1. CASE v = u
      <4>1. home'[v] = r
        BY <2>3, <3>1 DEF TypeOK
      <4>2. \A q \in live : ~ Waiting(q, "user_disconnect", u)
        BY <1>1, <2>3 DEF NewcomersUntold
      <4> QED BY <2>3, <2>4, <2>5, <3>1, <4>1, <4>2
    <3>2. CASE v # u
      <4>1. presence[v] = "in" /\ home'[v] = home[v] /\ home[v] \in Replicas
        BY <1>1, <2>3, <3>2 DEF TypeOK
      <4>2. /\ home[v] \in hasRoom /\ v \in members[home[v]]
            /\ \A q \in live : /\ v \in members[q] \/ Waiting(q, "user_connected", v)
                               /\ ~ Waiting(q, "user_disconnect", v)
        BY <1>1, <4>1 DEF MembersKnown
      <4>3. v \in members'[home[v]]
        BY <2>4, <4>1, <4>2
      <4>4. \A q \in live : \A w \in Users : w \in members[q] => w \in members'[q]
        BY <1>1, <2>4
      <4> QED BY <2>5, <4>1, <4>2, <4>3, <4>4
    <3> QED BY <3>1, <3>2
  <2>7. NewcomersUntold'
    BY <1>1, <2>3, <2>5 DEF NewcomersUntold, TypeOK
  <2>8. AuthorsKnown'
    <3>1. \A q \in live : \A i \in 1..Len(inbox'[q]) :
            i > Len(inbox[q]) => inbox'[q][i].event # "chat_message"
      BY <1>1, <2>1, <2>2 DEF Sent
    <3> QED BY <1>1, <2>1, <2>2, <2>3, <2>4, <3>1, SentAuthors
  <2> QED BY <2>6, <2>7, <2>8 DEF MembersInv
<1>3. ASSUME NEW u \in Users, Disconnect(u)
      PROVE  MembersInv'
  <2> DEFINE r == home[u]
             d == UserEvent("user_disconnect", u)
             c == ChatEvent(r, u)
  <2>1. r \in Replicas /\ r \in live /\ presence[u] = "in"
    BY <1>3 DEF TypeOK, Disconnect
  <2>2. /\ d \in Event /\ d.event = "user_disconnect" /\ d.user = u
        /\ c \in Event /\ c.event = "chat_message" /\ c.message.by = u
    <3>1. d \in Event /\ d.event = "user_disconnect" /\ d.user = u
      BY EventsTyped DEF UserEvent
    <3>2. c \in Event /\ c.event = "chat_message" /\ c.message.by = u
      BY <2>1, NewMessageTyped
    <3> QED BY <3>1, <3>2
  <2>3. /\ live' = live /\ hasRoom' = hasRoom /\ members' = members /\ home' = home /\ told' = told
        /\ presence'[u] = "left"
        /\ \A v \in Users : presence'[v] \in {"in", "new"} => presence[v] = presence'[v]
    BY <1>3 DEF Disconnect, roomVars, TypeOK
  <2>4. CASE isUserMuted(r, u)
    <3>1. Sent({d})
      BY <1>1, <1>3, <2>2, <2>4, SentOne DEF Disconnect
    <3> HIDE DEF d, c
    <3>2. MembersKnown' /\ NewcomersUntold'
      BY <1>1, <2>2, <2>3, <3>1, SentMembers
    <3>3. \A q \in live : \A i \in 1..Len(inbox'[q]) :
            i > Len(inbox[q]) => inbox'[q][i].event # "chat_message"
      BY <1>1, <2>2, <3>1 DEF Sent
    <3>4. AuthorsKnown'
      BY <1>1, <2>2, <2>3, <3>1, <3>3, SentAuthors
    <3> QED BY <3>2, <3>4 DEF MembersInv
  <2>5. CASE ~ isUserMuted(r, u)
    <3>1. /\ Sent({c, d})
          /\ \A q \in live \cap Replicas : /\ inbox'[q][Len(inbox[q]) + 1] = c
                                           /\ inbox'[q][Len(inbox[q]) + 2] = d
                                           /\ Len(inbox'[q]) = Len(inbox[q]) + 2
      BY <1>1, <1>3, <2>2, <2>5, SentBoth DEF Disconnect
    <3> HIDE DEF d, c, r
    <3>2. MembersKnown' /\ NewcomersUntold'
      <4>1. {c, d} \in SUBSET Event
        BY <2>2
      <4> QED BY <1>1, <2>2, <2>3, <3>1, <4>1, SentMembers
    <3>3. ASSUME NEW q \in live, NEW i \in 1..Len(inbox'[q]), i > Len(inbox[q]),
                 inbox'[q][i].event = "chat_message"
          PROVE  /\ presence[inbox'[q][i].message.by] = "in"
                 /\ \A j \in 1..(i - 1) : j > Len(inbox[q]) => inbox'[q][j].event # "user_disconnect"
      <4>1. PICK n \in Nat : n = Len(inbox[q])
        BY <1>1
      <4>2. inbox'[q][n + 1] = c /\ inbox'[q][n + 2] = d /\ Len(inbox'[q]) = n + 2
        BY <1>1, <3>1, <4>1
      <4>3. i = n + 1
        BY <2>2, <3>3, <4>1, <4>2
      <4> QED BY <2>1, <2>2, <4>1, <4>2, <4>3
    <3>4. AuthorsKnown'
      <4>1. {c, d} \in SUBSET Event
        BY <2>2
      <4> QED BY <1>1, <2>3, <3>1, <3>3, <4>1, SentAuthors
    <3> QED BY <3>2, <3>4 DEF MembersInv
  <2> QED BY <2>4, <2>5
<1>4. ASSUME NEW u \in Users, presence[u] = "in", NEW S \in SUBSET Event, Sent(S),
             live' = live, roomVars' = roomVars, clientVars' = clientVars,
             \A e \in S : /\ e.event \notin {"user_connected", "user_disconnect"}
                          /\ e.event = "chat_message" => e.message.by = u
      PROVE  MembersInv'
  <2>1. /\ hasRoom' = hasRoom /\ members' = members
        /\ presence' = presence /\ home' = home /\ told' = told
    BY <1>4 DEF roomVars, clientVars
  <2>2. MembersKnown' /\ NewcomersUntold'
    BY <1>1, <1>4, <2>1, SentMembers
  <2>3. \A q \in live : \A i \in 1..Len(inbox'[q]) :
          i > Len(inbox[q]) => inbox'[q][i] \in S
    BY <1>1, <1>4 DEF Sent
  <2>4. \A q \in live : Len(inbox[q]) \in Nat /\ Len(inbox'[q]) \in Nat
    BY <1>1, <1>4 DEF Sent
  <2>5. ASSUME NEW q \in live, NEW i \in 1..Len(inbox'[q]), i > Len(inbox[q]),
               inbox'[q][i].event = "chat_message"
        PROVE  /\ presence[inbox'[q][i].message.by] = "in"
               /\ \A j \in 1..(i - 1) : j > Len(inbox[q]) => inbox'[q][j].event # "user_disconnect"
    BY <1>4, <2>3, <2>4, <2>5
  <2>6. AuthorsKnown'
    BY <1>1, <1>4, <2>1, <2>5, SentAuthors
  <2> QED BY <2>2, <2>6 DEF MembersInv
<1>5. ASSUME NEW u \in Users, ChatMessage(u)
      PROVE  MembersInv'
  <2> DEFINE c == ChatEvent(home[u], u)
  <2>1. home[u] \in Replicas /\ presence[u] = "in"
    BY <1>5 DEF TypeOK, ChatMessage, Sends
  <2>2. c \in Event /\ c.event = "chat_message" /\ c.message.by = u
    BY <2>1, NewMessageTyped
  <2>3. Sent({c})
    BY <1>1, <1>5, <2>2, SentOne DEF ChatMessage
  <2> HIDE DEF c
  <2> QED BY <1>4, <1>5, <2>1, <2>2, <2>3 DEF ChatMessage
<1>6. ASSUME NEW u \in Users, NEW v \in Users, Mute(u, v)
      PROVE  MembersInv'
  BY <1>1, <1>4, <1>6, SentNothing DEF Mute, Sends
<1>7. ASSUME NEW u \in Users, ChatSync(u)
      PROVE  MembersInv'
  <2> DEFINE c == [event |-> "chat_synchronization", user |-> u, messages |-> history[home[u]]]
  <2>1. home[u] \in Replicas /\ presence[u] = "in"
    BY <1>7 DEF TypeOK, ChatSync, Sends
  <2>2. c \in Event /\ c.event = "chat_synchronization"
    BY <2>1, EventsTyped DEF TypeOK
  <2>3. Sent({c})
    BY <1>1, <1>7, <2>2, SentOne DEF ChatSync
  <2> HIDE DEF c
  <2> QED BY <1>4, <1>7, <2>1, <2>2, <2>3 DEF ChatSync
<1>8. ASSUME NEW u \in Users, NEW id \in ShownIds(u), MessageDelete(u, id)
      PROVE  MembersInv'
  <2> DEFINE c == [event |-> "delete_message", user |-> u, id |-> id]
  <2>1. id \in Nat /\ presence[u] = "in"
    BY <1>8 DEF TypeOK, MessageDelete, Sends, ShownIds, Message
  <2>2. c \in Event /\ c.event = "delete_message"
    BY <2>1, EventsTyped
  <2>3. Sent({c})
    BY <1>1, <1>8, <2>2, SentOne DEF MessageDelete
  <2> HIDE DEF c
  <2> QED BY <1>4, <1>8, <2>1, <2>2, <2>3 DEF MessageDelete
<1>9. ASSUME NEW r \in Replicas, HandleUserConnected(r)
      PROVE  MembersInv'
  <2>1. Head(inbox[r]).event = "user_connected" /\ Handles(r, "user_connected") /\ Consume(r)
    BY <1>9 DEF HandleUserConnected, Handles, Receives
  <2>2. \A q \in Replicas :
          members'[q] = IF q = r THEN members[q] \cup {Head(inbox[r]).user} ELSE members[q]
    BY <1>9 DEF TypeOK, HandleUserConnected
  <2>3. /\ live' = live /\ presence' = presence /\ home' = home /\ hasRoom' = hasRoom
        /\ told' = told
    BY <1>9 DEF HandleUserConnected, clientVars
  <2> QED BY <1>1, <2>1, <2>2, <2>3, ConsumedMembers DEF MembersInv
<1>10. ASSUME NEW r \in Replicas, HandleUserDisconnected(r)
       PROVE  MembersInv'
  <2>1. Head(inbox[r]).event = "user_disconnect" /\ Handles(r, "user_disconnect") /\ Consume(r)
    BY <1>10 DEF HandleUserDisconnected, Handles, Receives
  <2>2. \A q \in Replicas :
          members'[q] = IF q = r THEN members[q] \ {Head(inbox[r]).user} ELSE members[q]
    BY <1>10 DEF TypeOK, HandleUserDisconnected
  <2>3. /\ live' = live /\ presence' = presence /\ home' = home /\ told' = told
        /\ hasRoom' = IF members[r] \ {Head(inbox[r]).user} = {} THEN hasRoom \ {r} ELSE hasRoom
    BY <1>10 DEF HandleUserDisconnected, clientVars
  <2> QED BY <1>1, <2>1, <2>2, <2>3, ConsumedMembers DEF MembersInv
<1>11. ASSUME NEW r \in Replicas, HandlerThrows(r)
       PROVE  MembersInv'
  <2>1. /\ live' = live \ {r} /\ home' = home /\ told' = told
        /\ hasRoom' = hasRoom /\ members' = members
        /\ \A u \in Users : presence'[u] \in {"in", "new"} =>
             presence[u] = presence'[u] /\ ~ ClientAt(r, u)
        /\ \A q \in live' : inbox'[q] = inbox[q]
    BY <1>1, <1>11 DEF HandlerThrows, roomVars, TypeOK
  <2>2. \A q \in live' : /\ \A k, u : Waiting(q, k, u)' <=> Waiting(q, k, u)
                         /\ \A i, k, u : WaitingBefore(q, i, k, u)' <=> WaitingBefore(q, i, k, u)
    BY <2>1 DEF Waiting, WaitingBefore, Queued
  <2>3. MembersKnown'
    BY <1>1, <2>1, <2>2 DEF MembersKnown
  <2>4. NewcomersUntold'
    BY <1>1, <2>1, <2>2 DEF NewcomersUntold
  <2>5. AuthorsKnown'
    BY <1>1, <2>1, <2>2 DEF AuthorsKnown
  <2> QED BY <2>3, <2>4, <2>5 DEF MembersInv
<1>12. ASSUME NEW r \in Replicas,
              HandleChatMessage(r) \/ HandleChatSync(r) \/ HandleMessageDelete(r)
       PROVE  MembersInv'
  <2>1. PICK event \in {"chat_message", "chat_synchronization", "delete_message"} :
          Handles(r, event)
    BY <1>12 DEF HandleChatMessage, HandleChatSync, HandleMessageDelete
  <2>2. /\ Head(inbox[r]).event \notin {"user_connected", "user_disconnect"} /\ Consume(r)
        /\ live' = live /\ presence' = presence /\ home' = home
        /\ hasRoom' = hasRoom /\ members' = members
    BY <1>12 DEF HandleChatMessage, HandleChatSync, HandleMessageDelete, Handles, Receives,
                 Broadcasts, roomVars
  <2>3. \A v \in Users : presence[v] = "new" => told'[v] = told[v]
    BY <1>12 DEF HandleChatMessage, HandleChatSync, HandleMessageDelete, Broadcast, ClientAt
  <2> QED BY <1>1, <2>1, <2>2, <2>3, ConsumedMembers DEF MembersInv
<1>13. CASE UNCHANGED vars
  BY <1>1, <1>13 DEF vars, roomVars, clientVars, MembersInv, MembersKnown, NewcomersUntold,
                     AuthorsKnown, Waiting, WaitingBefore, Queued
<1> QED BY <1>2, <1>3, <1>5, <1>6, <1>7, <1>8, <1>9, <1>10, <1>11, <1>12, <1>13 DEF Next

(* Wherever a message is told, its author is in the room: AuthorsKnown.    *)
THEOREM AuthorsAreKnown == Spec => []AuthorsKnown
<1>1. Init => TypeOK /\ MembersInv
  BY InitType, InitMembers
<1>2. TypeOK /\ MembersInv /\ [Next]_vars => (TypeOK /\ MembersInv)'
  BY StepType, StepMembers
<1>3. MembersInv => AuthorsKnown
  BY DEF MembersInv
<1> QED BY <1>1, <1>2, <1>3, PTL DEF Spec

BaseInv == TypeOK /\ MembersInv /\ ChatDiesWithRoom /\ IdsUnique /\ ErasedGone

LEMMA InitBase == Init => BaseInv
BY InitType, InitMembers DEF Init, BaseInv, ChatDiesWithRoom, IdsUnique, ErasedGone

LEMMA StepBase == BaseInv /\ [Next]_vars => BaseInv'
BY StepType, StepMembers, StepHistory DEF BaseInv, MembersInv

(* No replica has messages of a room that it does not have:                *)
(* ChatDiesWithRoom.                                                       *)
THEOREM ChatGoesWithRoom == Spec => []ChatDiesWithRoom
<1>1. BaseInv => ChatDiesWithRoom
  BY DEF BaseInv
<1> QED BY <1>1, InitBase, StepBase, PTL DEF Spec

(* Ids are unique at their replica, whatever is deleted: IdsUnique.        *)
THEOREM IdsStayUnique == Spec => []IdsUnique
<1>1. BaseInv => IdsUnique
  BY DEF BaseInv
<1> QED BY <1>1, InitBase, StepBase, PTL DEF Spec

-----------------------------------------------------------------------------
(* What clients are shown *)

(* What a client shows is current, or its deletion is on the way.          *)
ShownCurrent ==
  \A r \in live, u \in Users : ClientAt(r, u) =>
    \A m \in told[u] : DeletionWaiting(r, m.id) \/ m \in current

ShownInv == DeletionsFollow /\ ShownCurrent /\ DeletionsRecorded /\ HistoryIsHeard

(* Publishing events that show only what is current, the deletion of       *)
(* everything that ceases to be current among them.                        *)
LEMMA SentCurrent ==
  ASSUME TypeOK, ShownInv, NEW S \in SUBSET Event, Sent(S), live' = live, told' = told,
         \A e \in S : Shown(e) \subseteq current',
         \A m \in current : m \in current' \/
           \E e \in S : e.event = "delete_message" /\ e.id = m.id,
         \A e \in S : e.event = "delete_message" => e.id \in deletedIds',
         deletedIds \subseteq deletedIds',
         \A r \in Replicas, u \in Users : ClientAt(r, u)' => ClientAt(r, u) \/ told[u] = {}
  PROVE  DeletionsFollow' /\ ShownCurrent' /\ DeletionsRecorded'
<1>1. \A r \in live :
        /\ r \in Replicas
        /\ Len(inbox[r]) \in Nat /\ Len(inbox'[r]) \in Nat /\ Len(inbox[r]) <= Len(inbox'[r])
        /\ \A i \in 1..Len(inbox[r]) : inbox'[r][i] = inbox[r][i]
        /\ \A i \in 1..Len(inbox'[r]) : i > Len(inbox[r]) => inbox'[r][i] \in S
        /\ \A e \in S : \E i \in 1..Len(inbox'[r]) : i > Len(inbox[r]) /\ inbox'[r][i] = e
  BY DEF Sent, TypeOK
<1>2. DeletionsFollow'
  <2> SUFFICES ASSUME NEW r \in live, NEW i \in 1..Len(inbox'[r]),
                      NEW m \in Shown(inbox'[r][i]), m \notin current'
               PROVE  \E j \in 1..Len(inbox'[r]) : /\ j > i
                                                   /\ inbox'[r][j].event = "delete_message"
                                                   /\ inbox'[r][j].id = m.id
    BY DEF DeletionsFollow, Shown
  <2>1. i \in 1..Len(inbox[r]) /\ inbox'[r][i] = inbox[r][i]
    BY <1>1
  <2>2. CASE m \notin current
    <3>1. PICK j \in 1..Len(inbox[r]) : /\ j > i
                                        /\ inbox[r][j].event = "delete_message"
                                        /\ inbox[r][j].id = m.id
      BY <2>1, <2>2 DEF ShownInv, DeletionsFollow
    <3> QED BY <1>1, <3>1
  <2>3. CASE m \in current
    <3>1. PICK e \in S : e.event = "delete_message" /\ e.id = m.id
      BY <2>3
    <3>2. PICK j \in 1..Len(inbox'[r]) : j > Len(inbox[r]) /\ inbox'[r][j] = e
      BY <1>1
    <3> QED BY <1>1, <2>1, <3>1, <3>2
  <2> QED BY <2>2, <2>3
<1>3. ASSUME NEW r \in live, NEW id, DeletionWaiting(r, id)
      PROVE  DeletionWaiting(r, id)'
  BY <1>1, <1>3 DEF DeletionWaiting
<1>4. ASSUME NEW r \in live, NEW e \in S, e.event = "delete_message"
      PROVE  DeletionWaiting(r, e.id)'
  BY <1>1, <1>4 DEF DeletionWaiting
<1>5. ShownCurrent'
  <2> SUFFICES ASSUME NEW r \in live, NEW u \in Users, NEW m \in told[u], ClientAt(r, u)',
                      ~ DeletionWaiting(r, m.id)'
               PROVE  m \in current'
    BY DEF ShownCurrent
  <2>1. m \in current => m \in current'
    BY <1>4
  <2>2. ~ DeletionWaiting(r, m.id)
    BY <1>3
  <2>3. ClientAt(r, u)
    BY <1>1
  <2> QED BY <2>1, <2>2, <2>3 DEF ShownInv, ShownCurrent
<1>6. DeletionsRecorded'
  <2> SUFFICES ASSUME NEW r \in live, NEW i \in 1..Len(inbox'[r]),
                      inbox'[r][i].event = "delete_message"
               PROVE  inbox'[r][i].id \in deletedIds'
    BY DEF DeletionsRecorded
  <2>1. CASE i \in 1..Len(inbox[r])
    BY <1>1, <2>1 DEF ShownInv, DeletionsRecorded
  <2>2. CASE i \notin 1..Len(inbox[r])
    <3>1. inbox'[r][i] \in S
      BY <1>1, <2>2
    <3> QED BY <3>1
  <2> QED BY <2>1, <2>2
<1> QED BY <1>2, <1>5, <1>6

(* ... every message added to a history among them.                        *)
LEMMA SentHeard ==
  ASSUME TypeOK, ShownInv, TypeOK', IdsUnique', NEW S \in SUBSET Event, Sent(S),
         live' = live, told' = told, deletedIds \subseteq deletedIds',
         \A r \in Replicas : \A m \in history'[r] :
           m \in history[r] \/ \E e \in S : e.event = "chat_message" /\ e.message = m,
         \A u \in Users : presence'[u] = "in" =>
           \/ presence[u] = "in" /\ home'[u] = home[u] /\ since'[u] = since[u]
           \/ since'[u] = msgId'
  PROVE  HistoryIsHeard'
<1> SUFFICES ASSUME NEW r \in Replicas, NEW m \in history'[r], NEW u \in Users,
                    presence'[u] = "in", m.id >= since'[u][r], m.id \notin deletedIds',
                    NEW q, q = home'[u]
             PROVE  m \in told[u] \/ MessageWaiting(q, m)'
  BY DEF HistoryIsHeard
<1>1. /\ q \in live /\ q \in Replicas /\ m.id \in Nat /\ m.id < msgId'[r]
      /\ msgId'[r] \in Nat
  BY DEF TypeOK, IdsUnique, Message
<1>2. home'[u] = home[u] /\ presence[u] = "in" /\ since'[u] = since[u]
  BY <1>1
<1>3. /\ Len(inbox[q]) \in Nat /\ Len(inbox'[q]) \in Nat /\ Len(inbox[q]) <= Len(inbox'[q])
      /\ \A i \in 1..Len(inbox[q]) : inbox'[q][i] = inbox[q][i]
      /\ \A e \in S : \E i \in 1..Len(inbox'[q]) : i > Len(inbox[q]) /\ inbox'[q][i] = e
  BY <1>1 DEF Sent
<1>4. CASE m \in history[r]
  <2>1. m \in told[u] \/ MessageWaiting(q, m)
    BY <1>2, <1>4 DEF ShownInv, HistoryIsHeard
  <2> QED BY <1>3, <2>1 DEF MessageWaiting
<1>5. CASE m \notin history[r]
  <2>1. PICK e \in S : e.event = "chat_message" /\ e.message = m
    BY <1>5
  <2> QED BY <1>3, <2>1 DEF MessageWaiting
<1> QED BY <1>4, <1>5

(* Handling an event: what its clients are shown is what the event shows,  *)
(* or what they were shown before and the event does not delete.           *)
LEMMA ConsumedShown ==
  ASSUME TypeOK, ShownInv, NEW r \in Replicas, NEW event, Handles(r, event), Consume(r),
         live' = live, presence' = presence, home' = home, since' = since,
         current' = current, deletedIds' = deletedIds,
         \A q \in Replicas : history'[q] \subseteq history[q],
         \A u \in Users : ~ ClientAt(r, u) => told'[u] = told[u],
         \A u \in Users : ClientAt(r, u) =>
           /\ \A m \in told'[u] :
                \/ m \in told[u] /\ ~ (event = "delete_message" /\ Head(inbox[r]).id = m.id)
                \/ m \in Shown(Head(inbox[r]))
           /\ \A m : (m \in told[u] \/ (event = "chat_message" /\ Head(inbox[r]).message = m))
                       /\ ~ (event = "delete_message" /\ Head(inbox[r]).id = m.id)
                     => m \in told'[u]
  PROVE  ShownInv'
<1> DEFINE h == Head(inbox[r])
           n == Len(inbox'[r])
<1>1. /\ r \in live /\ h.event = event /\ h = inbox[r][1]
      /\ n \in Nat /\ Len(inbox[r]) = n + 1
      /\ \A i \in 1..n : inbox'[r][i] = inbox[r][i + 1]
      /\ \A q \in Replicas : q # r => inbox'[q] = inbox[q]
      /\ \A q \in live : q \in Replicas
  <2>1. /\ inbox \in [Replicas -> Seq(Event)] /\ inbox[r] # <<>>
        /\ r \in live /\ h.event = event
    BY HandledEvent DEF TypeOK
  <2>2. /\ \A q \in Replicas : q # r => inbox'[q] = inbox[q]
        /\ Len(inbox[r]) \in Nat /\ Len(inbox[r]) >= 1 /\ n = Len(inbox[r]) - 1
        /\ h = inbox[r][1] /\ \A i \in 1..n : inbox'[r][i] = inbox[r][i + 1]
    BY <2>1, ConsumeQueues
  <2>3. n \in Nat /\ Len(inbox[r]) = n + 1
    BY <2>2
  <2> QED BY <2>1, <2>2, <2>3 DEF TypeOK
<1>2. /\ \A q \in Replicas : history'[q] \subseteq history[q]
      /\ \A u \in Users : ~ ClientAt(r, u) => told'[u] = told[u]
      /\ \A u \in Users : ClientAt(r, u) =>
           /\ \A m \in told'[u] :
                \/ m \in told[u] /\ ~ (event = "delete_message" /\ h.id = m.id)
                \/ m \in Shown(h)
           /\ \A m : (m \in told[u] \/ (event = "chat_message" /\ h.message = m))
                       /\ ~ (event = "delete_message" /\ h.id = m.id) => m \in told'[u]
  OBVIOUS
<1>3. \A q \in Replicas, u \in Users : ClientAt(q, u)' <=> ClientAt(q, u)
  BY DEF ClientAt
<1> HIDE DEF h
<1> PICK k : k = n
  OBVIOUS
<1>4. \A j \in 1..(k + 1) : j > 1 => j - 1 \in 1..k /\ inbox'[r][j - 1] = inbox[r][j]
  BY <1>1
<1>5. DeletionsFollow'
  <2> SUFFICES ASSUME NEW q \in live, NEW i \in 1..Len(inbox'[q]),
                      NEW m \in Shown(inbox'[q][i]), m \notin current
               PROVE  \E j \in 1..Len(inbox'[q]) : /\ j > i
                                                   /\ inbox'[q][j].event = "delete_message"
                                                   /\ inbox'[q][j].id = m.id
    BY DEF DeletionsFollow, Shown
  <2>1. CASE q # r
    <3>1. inbox'[q] = inbox[q]
      BY <1>1, <2>1
    <3>2. i \in 1..Len(inbox[q]) /\ m \in Shown(inbox[q][i])
      BY <3>1
    <3> QED BY <3>1, <3>2 DEF ShownInv, DeletionsFollow
  <2>2. CASE q = r
    <3>1. /\ i + 1 \in 1..Len(inbox[r]) /\ i \in 1..k /\ m \in Shown(inbox[r][i + 1])
          /\ Len(inbox[r]) = k + 1
      BY <1>1, <2>2
    <3>2. PICK j \in 1..Len(inbox[r]) : /\ j > i + 1
                                        /\ inbox[r][j].event = "delete_message"
                                        /\ inbox[r][j].id = m.id
      BY <1>1, <2>2, <3>1 DEF ShownInv, DeletionsFollow
    <3>3. j \in 1..(k + 1) /\ j > 1 /\ j - 1 > i
      BY <3>1, <3>2
    <3>4. j - 1 \in 1..k /\ inbox'[r][j - 1] = inbox[r][j]
      BY <1>4, <3>3
    <3> QED BY <2>2, <3>2, <3>3, <3>4
  <2> QED BY <2>1, <2>2
<1>6. \A id : DeletionWaiting(r, id) =>
                DeletionWaiting(r, id)' \/ (event = "delete_message" /\ h.id = id)
  <2> SUFFICES ASSUME NEW id, NEW j \in 1..(k + 1), inbox[r][j].event = "delete_message",
                      inbox[r][j].id = id
               PROVE  DeletionWaiting(r, id)' \/ (event = "delete_message" /\ h.id = id)
    BY <1>1 DEF DeletionWaiting
  <2>1. CASE j = 1
    BY <1>1, <2>1
  <2>2. CASE j # 1
    <3>1. j - 1 \in 1..k /\ inbox'[r][j - 1] = inbox[r][j]
      BY <1>1, <1>4, <2>2
    <3> QED BY <3>1 DEF DeletionWaiting
  <2> QED BY <2>1, <2>2
<1>7. ShownCurrent'
  <2> SUFFICES ASSUME NEW q \in live, NEW u \in Users, NEW m \in told'[u], ClientAt(q, u),
                      ~ DeletionWaiting(q, m.id)', m \notin current
               PROVE  FALSE
    BY <1>1, <1>3 DEF ShownCurrent
  <2>1. CASE q # r
    <3>1. ~ ClientAt(r, u) /\ ~ DeletionWaiting(q, m.id)
      BY <1>1, <2>1 DEF ClientAt, DeletionWaiting
    <3> QED BY <1>2, <3>1 DEF ShownInv, ShownCurrent
  <2>2. CASE q = r
    <3>1. m \notin Shown(h)
      <4> SUFFICES ASSUME m \in Shown(h) PROVE FALSE
        OBVIOUS
      <4>1. 1 \in 1..Len(inbox[r])
        BY <1>1
      <4>2. PICK j \in 1..Len(inbox[r]) : /\ j > 1
                                          /\ inbox[r][j].event = "delete_message"
                                          /\ inbox[r][j].id = m.id
        BY <1>1, <4>1 DEF ShownInv, DeletionsFollow
      <4>3. j - 1 \in 1..k /\ inbox'[r][j - 1] = inbox[r][j]
        BY <1>1, <1>4, <4>2
      <4> QED BY <2>2, <4>2, <4>3 DEF DeletionWaiting
    <3>2. CASE event = "delete_message" /\ h.id = m.id
      BY <1>2, <2>2, <3>1, <3>2
    <3>3. CASE ~ (event = "delete_message" /\ h.id = m.id)
      <4>1. m \notin told[u]
        BY <1>6, <2>2, <3>3 DEF ShownInv, ShownCurrent
      <4> QED BY <1>2, <2>2, <3>1, <4>1
    <3> QED BY <3>2, <3>3
  <2> QED BY <2>1, <2>2
<1>8. DeletionsRecorded'
  <2> SUFFICES ASSUME NEW q \in live, NEW i \in 1..Len(inbox'[q]),
                      inbox'[q][i].event = "delete_message"
               PROVE  inbox'[q][i].id \in deletedIds
    BY DEF DeletionsRecorded
  <2>1. CASE q # r
    BY <1>1, <2>1 DEF ShownInv, DeletionsRecorded
  <2>2. CASE q = r
    <3>1. i + 1 \in 1..Len(inbox[r]) /\ inbox'[r][i] = inbox[r][i + 1]
      BY <1>1, <2>2
    <3> QED BY <1>1, <2>2, <3>1 DEF ShownInv, DeletionsRecorded
  <2> QED BY <2>1, <2>2
<1>9. HistoryIsHeard'
  <2> SUFFICES ASSUME NEW p \in Replicas, NEW m \in history[p], NEW u \in Users,
                      presence[u] = "in", m.id >= since[u][p], m.id \notin deletedIds,
                      NEW q, q = home[u]
               PROVE  m \in told'[u] \/ MessageWaiting(q, m)'
    BY <1>2 DEF HistoryIsHeard
  <2>1. q \in live /\ q \in Replicas /\ ClientAt(q, u)
    BY DEF TypeOK, ClientAt
  <2>2. m \in told[u] \/ MessageWaiting(q, m)
    BY DEF ShownInv, HistoryIsHeard
  <2>3. CASE q # r
    <3>1. ~ ClientAt(r, u) /\ (MessageWaiting(q, m) => MessageWaiting(q, m)')
      BY <1>1, <2>1, <2>3 DEF ClientAt, MessageWaiting
    <3> QED BY <1>2, <2>2, <3>1
  <2>4. CASE q = r
    <3>1. ~ (event = "delete_message" /\ h.id = m.id)
      <4>1. 1 \in 1..Len(inbox[r])
        BY <1>1
      <4> QED BY <1>1, <4>1 DEF ShownInv, DeletionsRecorded
    <3>2. CASE m \in told[u]
      BY <1>2, <2>1, <2>4, <3>1, <3>2
    <3>3. CASE MessageWaiting(q, m)
      <4>1. PICK j \in 1..(k + 1) : inbox[r][j].event = "chat_message" /\ inbox[r][j].message = m
        BY <1>1, <2>4, <3>3 DEF MessageWaiting
      <4>2. CASE j = 1
        BY <1>1, <1>2, <2>1, <2>4, <3>1, <4>1, <4>2
      <4>3. CASE j # 1
        <5>1. j - 1 \in 1..k /\ inbox'[r][j - 1] = inbox[r][j]
          BY <1>1, <1>4, <4>3
        <5> QED BY <2>4, <4>1, <5>1 DEF MessageWaiting
      <4> QED BY <4>2, <4>3
    <3> QED BY <2>2, <3>2, <3>3
  <2> QED BY <2>3, <2>4
<1> QED BY <1>5, <1>7, <1>8, <1>9 DEF ShownInv

LEMMA InitShown == Init => ShownInv
BY DEF Init, NoEvents, ShownInv, DeletionsFollow, ShownCurrent, DeletionsRecorded, HistoryIsHeard

LEMMA StepShown == BaseInv /\ ShownInv /\ [Next]_vars => ShownInv'
<1> SUFFICES ASSUME BaseInv, ShownInv, [Next]_vars PROVE ShownInv'
  OBVIOUS
<1>1. /\ inbox \in [Replicas -> Seq(Event)] /\ live \subseteq Replicas
      /\ TypeOK /\ TypeOK' /\ IdsUnique /\ IdsUnique' /\ ErasedGone
      /\ MembersKnown /\ NewcomersUntold
  BY StepBase DEF BaseInv, TypeOK, MembersInv
<1>3. ASSUME NEW u \in Users, NEW r \in Replicas, Connect(u, r)
      PROVE  ShownInv'
  <2> DEFINE e == UserEvent("user_connected", u)
  <2>1. e \in Event /\ e.event = "user_connected"
    BY EventsTyped DEF UserEvent
  <2>2. Sent({e})
    BY <1>1, <1>3, <2>1, SentOne DEF Connect
  <2> HIDE DEF e
  <2>3. /\ live' = live /\ told' = told /\ current' = current /\ deletedIds' = deletedIds
        /\ history' = history /\ msgId' = msgId
        /\ \A v \in Users : v # u =>
             presence'[v] = presence[v] /\ home'[v] = home[v] /\ since'[v] = since[v]
        /\ since'[u] = msgId /\ told[u] = {}
    BY <1>1, <1>3 DEF Connect, serviceVars, TypeOK, NewcomersUntold
  <2>4. Shown(e) = {}
    BY <2>1 DEF Shown
  <2>5. \A q \in Replicas, v \in Users : ClientAt(q, v)' => ClientAt(q, v) \/ told[v] = {}
    BY <2>3 DEF ClientAt
  <2>6. DeletionsFollow' /\ ShownCurrent' /\ DeletionsRecorded'
    BY <1>1, <2>1, <2>2, <2>3, <2>4, <2>5, SentCurrent
  <2>7. HistoryIsHeard'
    BY <1>1, <2>1, <2>2, <2>3, SentHeard
  <2> QED BY <2>6, <2>7 DEF ShownInv
(* Publishing without deleting, whatever is added to a history.            *)
<1>4. ASSUME NEW S \in SUBSET Event, Sent(S), live' = live, told' = told, home' = home,
             \A v \in Users : presence'[v] = "in" => presence[v] = "in",
             since' = since, deletedIds' = deletedIds, current \subseteq current',
             \A e \in S : e.event # "delete_message" /\ Shown(e) \subseteq current',
             \A r \in Replicas : \A m \in history'[r] :
               m \in history[r] \/ \E e \in S : e.event = "chat_message" /\ e.message = m
      PROVE  ShownInv'
  <2>2. \A q \in Replicas, v \in Users : ClientAt(q, v)' => ClientAt(q, v) \/ told[v] = {}
    BY <1>4 DEF ClientAt
  <2>3. DeletionsFollow' /\ ShownCurrent' /\ DeletionsRecorded'
    BY <1>1, <1>4, <2>2, SentCurrent
  <2>4. HistoryIsHeard'
    BY <1>1, <1>4, SentHeard
  <2> QED BY <2>3, <2>4 DEF ShownInv
<1>5. ASSUME NEW u \in Users, presence[u] = "in", AddMessage(home[u], u),
             NEW S \in SUBSET Event, ChatEvent(home[u], u) \in S
      PROVE  \A r \in Replicas : \A m \in history'[r] :
               m \in history[r] \/ \E e \in S : e.event = "chat_message" /\ e.message = m
  <2>1. home[u] \in Replicas
    BY <1>1, <1>5 DEF TypeOK
  <2>2. \A r \in Replicas : \A m \in history'[r] :
          m \in history[r] \/ m = NewMessage(home[u], u)
    BY <1>1, <1>5, <2>1 DEF AddMessage, TypeOK
  <2>3. /\ ChatEvent(home[u], u).event = "chat_message"
        /\ ChatEvent(home[u], u).message = NewMessage(home[u], u)
    BY <1>1, <2>1, NewMessageTyped
  <2>4. ASSUME NEW r \in Replicas, NEW m \in history'[r]
        PROVE  m \in history[r] \/ \E e \in S : e.event = "chat_message" /\ e.message = m
    <3>1. CASE m = NewMessage(home[u], u)
      BY <1>5, <2>3, <3>1
    <3> QED BY <2>2, <3>1
  <2> QED BY <2>4
<1>6. ASSUME NEW u \in Users, Disconnect(u)
      PROVE  ShownInv'
  <2> DEFINE d == UserEvent("user_disconnect", u)
             c == ChatEvent(home[u], u)
  <2>1. home[u] \in Replicas /\ presence[u] = "in"
    BY <1>1, <1>6 DEF TypeOK, Disconnect
  <2>2. d \in Event /\ d.event = "user_disconnect"
    BY EventsTyped DEF UserEvent
  <2>3. c \in Event /\ c.event = "chat_message" /\ c.message = NewMessage(home[u], u)
    BY <1>1, <2>1, NewMessageTyped
  <2>4. /\ live' = live /\ told' = told /\ home' = home
        /\ since' = since /\ deletedIds' = deletedIds /\ current \subseteq current'
        /\ \A v \in Users : presence'[v] = "in" => presence[v] = "in"
    BY <1>1, <1>6 DEF Disconnect, AddMessage, TypeOK
  <2>5. Shown(d) = {} /\ Shown(c) = {NewMessage(home[u], u)}
    BY <2>2, <2>3 DEF Shown
  <2>6. CASE isUserMuted(home[u], u)
    <3>1. Sent({d}) /\ history' = history
      BY <1>1, <1>6, <2>2, <2>6, SentOne DEF Disconnect
    <3> HIDE DEF d, c
    <3> QED BY <1>4, <2>2, <2>4, <2>5, <3>1
  <2>7. CASE ~ isUserMuted(home[u], u)
    <3>1. Sent({c, d}) /\ AddMessage(home[u], u)
      BY <1>1, <1>6, <2>2, <2>3, <2>7, SentBoth DEF Disconnect
    <3>2. {c, d} \in SUBSET Event /\ c \in {c, d}
      BY <2>2, <2>3
    <3>4. Shown(c) \subseteq current'
      BY <2>5, <3>1 DEF AddMessage
    <3>3. \A r \in Replicas : \A m \in history'[r] :
            m \in history[r] \/ \E e \in {c, d} : e.event = "chat_message" /\ e.message = m
      BY <1>5, <2>1, <3>1, <3>2
    <3> HIDE DEF d, c
    <3> QED BY <1>4, <2>2, <2>3, <2>4, <2>5, <3>1, <3>2, <3>3, <3>4
  <2> QED BY <2>6, <2>7
<1>7. ASSUME NEW u \in Users, ChatMessage(u)
      PROVE  ShownInv'
  <2> DEFINE c == ChatEvent(home[u], u)
  <2>1. home[u] \in Replicas /\ presence[u] = "in" /\ AddMessage(home[u], u)
    BY <1>1, <1>7 DEF TypeOK, ChatMessage, Sends
  <2>2. c \in Event /\ c.event = "chat_message" /\ c.message = NewMessage(home[u], u)
    BY <1>1, <2>1, NewMessageTyped
  <2>3. Sent({c})
    BY <1>1, <1>7, <2>2, SentOne DEF ChatMessage
  <2>4. Shown(c) \subseteq current'
    BY <2>1, <2>2 DEF Shown, AddMessage
  <2>5. \A r \in Replicas : \A m \in history'[r] :
          m \in history[r] \/ \E e \in {c} : e.event = "chat_message" /\ e.message = m
    <3>1. {c} \in SUBSET Event /\ c \in {c}
      BY <2>2
    <3> HIDE DEF c
    <3>2. ChatEvent(home[u], u) \in {c}
      BY DEF c
    <3> QED BY <1>5, <2>1, <3>1, <3>2
  <2>6. /\ live' = live /\ told' = told /\ home' = home /\ presence' = presence
        /\ since' = since /\ deletedIds' = deletedIds /\ current \subseteq current'
    BY <1>7 DEF ChatMessage, AddMessage, clientVars
  <2> HIDE DEF c
  <2> QED BY <1>4, <2>2, <2>3, <2>4, <2>5, <2>6
<1>8. ASSUME NEW u \in Users, NEW v \in Users, Mute(u, v)
      PROVE  ShownInv'
  <2>1. Sent({})
    BY <1>1, <1>8, SentNothing DEF Mute
  <2> QED BY <1>4, <1>8, <2>1 DEF Mute, clientVars, historyVars
<1>9. ASSUME NEW u \in Users, ChatSync(u)
      PROVE  ShownInv'
  <2> DEFINE c == [event |-> "chat_synchronization", user |-> u, messages |-> history[home[u]]]
  <2>1. home[u] \in Replicas
    BY <1>1, <1>9 DEF TypeOK, ChatSync, Sends
  <2>2. c \in Event /\ c.event = "chat_synchronization" /\ c.messages = history[home[u]]
    BY <1>1, <2>1, EventsTyped DEF TypeOK
  <2>3. Sent({c})
    BY <1>1, <1>9, <2>2, SentOne DEF ChatSync
  <2>4. Shown(c) \subseteq current' /\ current \subseteq current'
    BY <1>9, <2>2 DEF Shown, ChatSync
  <2>5. /\ live' = live /\ told' = told /\ home' = home
        /\ since' = since /\ deletedIds' = deletedIds
        /\ presence' = presence /\ history' = history
    BY <1>9 DEF ChatSync, clientVars, serviceVars
  <2> HIDE DEF c
  <2> QED BY <1>4, <2>2, <2>3, <2>4, <2>5
<1>10. ASSUME NEW u \in Users, NEW id \in ShownIds(u), MessageDelete(u, id)
       PROVE  ShownInv'
  <2> DEFINE c == [event |-> "delete_message", user |-> u, id |-> id]
  <2>1. id \in Nat /\ home[u] \in Replicas
    BY <1>1, <1>10 DEF TypeOK, MessageDelete, Sends, ShownIds, Message
  <2>2. c \in Event /\ c.event = "delete_message" /\ c.id = id
    BY <2>1, EventsTyped
  <2>3. Sent({c})
    BY <1>1, <1>10, <2>2, SentOne DEF MessageDelete
  <2> HIDE DEF c
  <2>4. Shown(c) = {}
    BY <2>2 DEF Shown
  <2>5. /\ live' = live /\ told' = told /\ home' = home /\ presence' = presence
        /\ current' = {m \in current : m.id # id}
        /\ deletedIds' = deletedIds \cup {id} /\ since' = since
        /\ \A r \in Replicas : history'[r] \subseteq history[r]
    BY <1>1, <1>10, <2>1 DEF MessageDelete, clientVars, RemoveMessage, TypeOK
  <2>6. \A q \in Replicas, v \in Users : ClientAt(q, v)' => ClientAt(q, v) \/ told[v] = {}
    BY <2>5 DEF ClientAt
  <2>7. DeletionsFollow' /\ ShownCurrent' /\ DeletionsRecorded'
    BY <1>1, <2>2, <2>3, <2>4, <2>5, <2>6, SentCurrent
  <2>8. HistoryIsHeard'
    BY <1>1, <2>2, <2>3, <2>5, SentHeard
  <2> QED BY <2>7, <2>8 DEF ShownInv
<1>11. ASSUME NEW r \in Replicas, HandleUserConnected(r)
       PROVE  ShownInv'
  BY <1>1, <1>11, ConsumedShown DEF HandleUserConnected, serviceVars, clientVars, historyVars
<1>12. ASSUME NEW r \in Replicas, HandleUserDisconnected(r)
       PROVE  ShownInv'
  <2>1. /\ live' = live /\ presence' = presence /\ home' = home /\ told' = told
        /\ since' = since /\ current' = current /\ deletedIds' = deletedIds
        /\ \A q \in Replicas : history'[q] \subseteq history[q]
        /\ Handles(r, "user_disconnect") /\ Consume(r)
    BY <1>1, <1>12 DEF HandleUserDisconnected, clientVars, historyVars, TypeOK
  <2> QED BY <1>1, <2>1, ConsumedShown
<1>13. ASSUME NEW r \in Replicas, HandlerThrows(r)
       PROVE  ShownInv'
  <2>1. /\ live' = live \ {r} /\ home' = home /\ told' = told
        /\ since' = since /\ current' = current /\ deletedIds' = deletedIds
        /\ \A u \in Users : presence'[u] = "in" => presence[u] = "in" /\ home[u] # r
        /\ \A q \in Replicas : q # r => inbox'[q] = inbox[q]
        /\ \A q \in Replicas : history'[q] \subseteq history[q]
    <3>1. /\ live' = live \ {r} /\ home' = home /\ told' = told
          /\ since' = since /\ current' = current /\ deletedIds' = deletedIds
      BY <1>13 DEF HandlerThrows, historyVars
    <3>2. \A u \in Users : presence'[u] = "in" => presence[u] = "in" /\ home[u] # r
      BY <1>1, <1>13 DEF HandlerThrows, TypeOK, ClientAt
    <3>3. /\ \A q \in Replicas : q # r => inbox'[q] = inbox[q]
          /\ \A q \in Replicas : history'[q] \subseteq history[q]
      BY <1>1, <1>13 DEF HandlerThrows, TypeOK
    <3> QED BY <3>1, <3>2, <3>3
  <2>2. DeletionsFollow'
    <3>1. \A q \in live' : q \in live /\ inbox'[q] = inbox[q]
      BY <1>1, <2>1
    <3>2. DeletionsFollow /\ current' = current
      BY <2>1 DEF ShownInv
    <3> QED BY <3>1, <3>2 DEF DeletionsFollow, Shown
  <2>3. DeletionsRecorded'
    BY <1>1, <2>1 DEF ShownInv, DeletionsRecorded
  <2>4. ShownCurrent'
    <3> SUFFICES ASSUME NEW q \in live', NEW u \in Users, NEW m \in told[u], ClientAt(q, u)',
                        ~ DeletionWaiting(q, m.id)'
                 PROVE  m \in current
      BY <2>1 DEF ShownCurrent
    <3>1. q \in live /\ inbox'[q] = inbox[q] /\ ClientAt(q, u)
      BY <1>1, <2>1 DEF ClientAt
    <3>2. ~ DeletionWaiting(q, m.id)
      BY <3>1 DEF DeletionWaiting
    <3> QED BY <3>1, <3>2 DEF ShownInv, ShownCurrent
  <2>5. \A u \in Users : presence'[u] = "in" => home[u] \in Replicas
    BY <1>1, <2>1 DEF TypeOK
  <2>6. HistoryIsHeard'
    <3> SUFFICES ASSUME NEW p \in Replicas, NEW m \in history'[p], NEW u \in Users,
                        presence'[u] = "in", m.id >= since[u][p], m.id \notin deletedIds,
                        NEW q, q = home[u]
                 PROVE  m \in told[u] \/ MessageWaiting(q, m)'
      BY <2>1 DEF HistoryIsHeard
    <3>1. q \in Replicas /\ inbox'[q] = inbox[q] /\ m \in history[p] /\ presence[u] = "in"
      BY <2>1, <2>5
    <3>2. MessageWaiting(q, m) => MessageWaiting(q, m)'
      BY <3>1 DEF MessageWaiting
    <3>3. m \in told[u] \/ MessageWaiting(q, m)
      BY <3>1 DEF ShownInv, HistoryIsHeard
    <3> QED BY <3>2, <3>3
  <2> QED BY <2>2, <2>3, <2>4, <2>6 DEF ShownInv
<1>14. ASSUME NEW r \in Replicas, Broadcasts
       PROVE  /\ live' = live /\ presence' = presence /\ home' = home /\ since' = since
              /\ current' = current /\ deletedIds' = deletedIds /\ history' = history
  BY <1>14 DEF Broadcasts, serviceVars, historyVars
<1>15. ASSUME NEW r \in Replicas, HandleChatMessage(r)
       PROVE  ShownInv'
  <2> DEFINE h == Head(inbox[r])
  <2>1. Handles(r, "chat_message") /\ Consume(r) /\ Broadcasts /\ h.event = "chat_message"
    BY <1>15 DEF HandleChatMessage, Handles, Receives
  <2>2. \A u \in Users : told'[u] = IF ClientAt(r, u) THEN told[u] \cup {h.message} ELSE told[u]
    BY <1>1, <1>15 DEF HandleChatMessage, Broadcast, TypeOK
  <2>3. \A u \in Users : ClientAt(r, u) =>
          /\ \A m \in told'[u] : m \in told[u] \/ m \in Shown(h)
          /\ \A m : m \in told[u] \/ h.message = m => m \in told'[u]
    BY <2>1, <2>2 DEF Shown
  <2> QED BY <1>1, <1>14, <2>1, <2>2, <2>3, ConsumedShown
<1>16. ASSUME NEW r \in Replicas, HandleChatSync(r)
       PROVE  ShownInv'
  <2> DEFINE h == Head(inbox[r])
  <2>1. /\ Handles(r, "chat_synchronization") /\ Consume(r) /\ Broadcasts
        /\ h.event = "chat_synchronization"
    BY <1>16 DEF HandleChatSync, Handles, Receives
  <2>2. \A u \in Users : told'[u] = IF ClientAt(r, u) THEN told[u] \cup h.messages ELSE told[u]
    BY <1>1, <1>16 DEF HandleChatSync, Broadcast, TypeOK
  <2> QED BY <1>1, <1>14, <2>1, <2>2, ConsumedShown DEF Shown
<1>17. ASSUME NEW r \in Replicas, HandleMessageDelete(r)
       PROVE  ShownInv'
  <2> DEFINE h == Head(inbox[r])
  <2>1. Handles(r, "delete_message") /\ Consume(r) /\ Broadcasts
    BY <1>17 DEF HandleMessageDelete
  <2>2. \A u \in Users : told'[u] = IF ClientAt(r, u) THEN {m \in told[u] : m.id # h.id}
                                                      ELSE told[u]
    BY <1>1, <1>17 DEF HandleMessageDelete, Broadcast, TypeOK
  <2>3. \A u \in Users : ClientAt(r, u) =>
          /\ \A m \in told'[u] : m \in told[u] /\ h.id # m.id
          /\ \A m : m \in told[u] /\ h.id # m.id => m \in told'[u]
    BY <2>2
  <2>4. \A u \in Users : ~ ClientAt(r, u) => told'[u] = told[u]
    BY <2>2
  <2> QED BY <1>1, <1>14, <2>1, <2>3, <2>4, ConsumedShown
<1>18. CASE UNCHANGED vars
  BY <1>1, <1>4, <1>18, SentNothing DEF vars, serviceVars, clientVars, historyVars, Shown
<1> QED BY <1>3, <1>6, <1>7, <1>8, <1>9, <1>10, <1>11, <1>12, <1>13, <1>15, <1>16, <1>17, <1>18
        DEF Next

(* What was deleted comes back only if somebody sends it again after the   *)
(* deletion, whatever messages and histories with it were on their way,    *)
(* and never if it was deleted at the replica that had it: NoResurrection. *)
THEOREM DeletedStaysDeleted == Spec => []NoResurrection
<1>1. Init => BaseInv /\ ShownInv
  BY InitBase, InitShown
<1>2. BaseInv /\ ShownInv /\ [Next]_vars => (BaseInv /\ ShownInv)'
  BY StepBase, StepShown
<1>3. BaseInv /\ ShownInv => NoResurrection
  BY DEF BaseInv, ShownInv, ErasedGone, ShownCurrent, NoResurrection
<1> QED BY <1>1, <1>2, <1>3, PTL DEF Spec

(* Every message that a replica has kept was or will be told to all the    *)
(* clients that were in the room when it was sent: HistoryIsHeard.         *)
THEOREM ChatIsHeard == Spec => []HistoryIsHeard
<1>1. Init => BaseInv /\ ShownInv
  BY InitBase, InitShown
<1>2. BaseInv /\ ShownInv /\ [Next]_vars => (BaseInv /\ ShownInv)'
  BY StepBase, StepShown
<1>3. ShownInv => HistoryIsHeard
  BY DEF ShownInv
<1> QED BY <1>1, <1>2, <1>3, PTL DEF Spec
=============================================================================
