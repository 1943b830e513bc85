-------------------------- MODULE UserActivityProofs --------------------------
(***************************************************************************)
(* Theorems about UserActivity.                                            *)
(***************************************************************************)
EXTENDS UserActivity, EventBusProofs, EventLogProofs

-----------------------------------------------------------------------------
(* Types *)

LEMMA EventsTyped ==
  ASSUME NEW u \in Users
  PROVE  /\ \A event \in PlainEvents : UserEvent(event, u) \in Event
         /\ \A entity \in Entities, change \in HighlightingChanges :
              [event |-> "highlighting_update", user |-> u, entity |-> entity,
               change |-> change] \in Event
         /\ \A S \in SpectatorLists, b \in BOOLEAN :
              [event |-> "spectating_update", user |-> u, spectators |-> S,
               isSpectating |-> b] \in Event
         /\ \A c \in Controllers :
              /\ [event |-> "user_controller_connect", user |-> u, controller |-> c] \in Event
              /\ [event |-> "user_controller_disconnect", user |-> u, controller |-> c] \in Event
BY DEF Event, UserEvent

(* What the first event of a queue has, by its kind.                       *)
LEMMA EventFields ==
  ASSUME NEW e \in Event
  PROVE  /\ e.event \in PlainEvents \cup {"highlighting_update", "spectating_update",
                          "user_controller_connect", "user_controller_disconnect"}
         /\ e.user \in Users
         /\ e.event = "highlighting_update" =>
              e.entity \in Entities /\ e.change \in HighlightingChanges
         /\ e.event = "spectating_update" =>
              e.spectators \in SpectatorLists /\ e.isSpectating \in BOOLEAN
         /\ e.event \in {"user_controller_connect", "user_controller_disconnect"} =>
              e.controller \in Controllers
BY DEF Event, PlainEvents

(* What may be put into a view.                                            *)
LEMMA ViewUpdates ==
  ASSUME NEW v \in View, NEW K \in SUBSET Users, NEW C \in SUBSET (Users \X Controllers),
         NEW H \in SUBSET (Users \X Entities)
  PROVE  /\ v.known \in SUBSET Users
         /\ v.controllers \in SUBSET (Users \X Controllers)
         /\ v.highlights \in SUBSET (Users \X Entities)
         /\ [v EXCEPT !.known = K] \in View
         /\ [v EXCEPT !.controllers = C] \in View
         /\ [v EXCEPT !.highlights = H] \in View
         /\ [known |-> K, controllers |-> C, highlights |-> H] \in View
BY DEF View

LEMMA SnapshotType ==
  ASSUME NEW r \in Replicas, NEW u \in Users
  PROVE  Snapshot(r, u) \in View
<1> DEFINE K == {v \in Users \ {u} : Knows(r, v)}
           C == {p \in (Users \ {u}) \X Controllers : p[2] \in ControllersAt(r, p[1])}
           H == {p \in (Users \ {u}) \X Listed : p[2] \in HighlightsAt(r, p[1])}
<1>1. K \in SUBSET Users
  OBVIOUS
<1>2. C \in SUBSET (Users \X Controllers)
  OBVIOUS
<1>3. H \in SUBSET (Users \X Entities)
  BY ActivityAssumption
<1>4. Snapshot(r, u) = [known |-> K, controllers |-> C, highlights |-> H]
  BY DEF Snapshot
<1> HIDE DEF K, C, H
<1> QED BY <1>1, <1>2, <1>3, <1>4 DEF View

LEMMA HandledEvent ==
  ASSUME TypeOK, NEW r \in Replicas, NEW event, Handles(r, event)
  PROVE  /\ inbox' \in [Replicas -> Seq(Event)]
         /\ inbox[r] # <<>> /\ Head(inbox[r]) \in Event /\ Head(inbox[r]).event = event
         /\ \A u \in Needs(Head(inbox[r])) : Knows(r, u)
<1>1. /\ inbox[r] # <<>> /\ Head(inbox[r]).event = event
      /\ Consume(r)
      /\ \A u \in Needs(Head(inbox[r])) : Knows(r, u)
  BY DEF Handles, Receives
<1>2. inbox \in [Replicas -> Seq(Event)]
  BY DEF TypeOK
<1>3. inbox' \in [Replicas -> Seq(Event)] /\ Head(inbox[r]) \in Event
  BY <1>1, <1>2, ConsumeQueues
<1> QED BY <1>1, <1>3

LEMMA SenderKnown ==
  ASSUME TypeOK, NEW r \in Replicas,
         NEW event \in {"highlighting_update", "user_controller_connect",
                        "user_controller_disconnect", "user_positions"},
         Handles(r, event)
  PROVE  users[r][Head(inbox[r]).user] \in UserModel
<1>1. Head(inbox[r]) \in Event /\ Head(inbox[r]).event = event
  BY HandledEvent
<1>2. Head(inbox[r]).user \in Users
  BY <1>1, EventFields
<1>3. Head(inbox[r]).user \in Needs(Head(inbox[r]))
  BY <1>1 DEF Needs
<1>4. users[r][Head(inbox[r]).user] # None
  BY <1>3, HandledEvent DEF Knows
<1> QED BY <1>2, <1>4 DEF TypeOK

LEMMA InitType == Init => TypeOK
<1> SUFFICES ASSUME Init PROVE TypeOK
  OBVIOUS
<1> USE ActivityAssumption
<1>1. NewUser \in UserModel
  BY DEF NewUser, UserModel
<1>2. users \in [Replicas -> [Users -> UserModel \cup {None}]]
  BY <1>1 DEF Init
<1>3. inbox \in [Replicas -> Seq(Event)]
  BY DEF Init, NoEvents
<1>4. view \in [Users -> View]
  BY DEF Init, NoView, View
<1>5. /\ presence \in [Users -> {"new", "in", "left"}]
      /\ home \in [Users -> Replicas \cup {None}]
      /\ \A u \in Users : presence[u] # "new" => home[u] \in Replicas
  BY DEF Init
<1> QED BY <1>2, <1>3, <1>4, <1>5 DEF Init, TypeOK

LEMMA StepType == TypeOK /\ [Next]_vars => TypeOK'
<1> SUFFICES ASSUME TypeOK, [Next]_vars PROVE TypeOK'
  OBVIOUS
<1> USE ActivityAssumption
<1>1. ASSUME NEW u \in Users, NEW r \in Replicas, Connect(u, r) PROVE TypeOK'
  <2>1. NewUser \in UserModel
    BY DEF NewUser, UserModel
  <2>2. users' \in [Replicas -> [Users -> UserModel \cup {None}]]
    BY <1>1, <2>1 DEF TypeOK, Connect
  <2>3. inbox' \in [Replicas -> Seq(Event)]
    BY <1>1, EventsTyped, PublishToQueues DEF TypeOK, Connect, Publish, PlainEvents
  <2>4. view' \in [Users -> View]
    BY <1>1, SnapshotType DEF TypeOK, Connect
  <2> QED BY <1>1, <2>2, <2>3, <2>4 DEF TypeOK, Connect, Step, historyVars
<1>2. ASSUME NEW u \in Users, Disconnect(u) PROVE TypeOK'
  <2>1. inbox' \in [Replicas -> Seq(Event)]
    BY <1>2, EventsTyped, PublishToQueues DEF TypeOK, Disconnect, Publish, PlainEvents
  <2> QED BY <1>2, <2>1 DEF TypeOK, Disconnect, Step, historyVars
<1>3. ASSUME NEW u \in Users, ClientMessage(u) PROVE TypeOK'
  <2>1. ASSUME NEW entity \in Entities, NEW change \in HighlightingChanges,
               HighlightingUpdate(u, entity, change)
        PROVE  TypeOK'
    <3>1. inbox' \in [Replicas -> Seq(Event)]
      BY <2>1, EventsTyped, PublishToQueues DEF TypeOK, HighlightingUpdate, Publish
    <3> QED BY <2>1, <3>1 DEF TypeOK, HighlightingUpdate, Sends, Step, clientVars, historyVars
  <2>2. CASE AllHighlightsReset(u)
    <3>1. inbox' \in [Replicas -> Seq(Event)]
      BY <2>2, EventsTyped, PublishToQueues DEF TypeOK, AllHighlightsReset, Publish, PlainEvents
    <3> QED BY <2>2, <3>1 DEF TypeOK, AllHighlightsReset, Sends, Step, clientVars
  <2>3. CASE UserPositions(u)
    <3>1. inbox' \in [Replicas -> Seq(Event)]
      BY <2>3, EventsTyped, PublishToQueues DEF TypeOK, UserPositions, Publish, PlainEvents
    <3> QED BY <2>3, <3>1 DEF TypeOK, UserPositions, Sends, Step, clientVars, historyVars
  <2>4. ASSUME NEW S \in SpectatorLists, NEW b \in BOOLEAN, SpectatingUpdate(u, S, b)
        PROVE  TypeOK'
    <3>1. inbox' \in [Replicas -> Seq(Event)]
      BY <2>4, EventsTyped, PublishToQueues DEF TypeOK, SpectatingUpdate, Publish
    <3>2. spectatingRoom' \subseteq Users
      BY <2>4 DEF TypeOK, SpectatingUpdate, Moved
    <3> QED BY <2>4, <3>1, <3>2 DEF TypeOK, SpectatingUpdate, Sends, Step, historyVars
  <2>5. ASSUME NEW S \in SpectatorLists, NEW b \in BOOLEAN, SpectatingUpdateFails(u, S, b)
        PROVE  TypeOK'
    <3>1. spectatingRoom' \subseteq Users /\ halfDone' \subseteq Users
      BY <2>5 DEF TypeOK, SpectatingUpdateFails, Moved
    <3> QED BY <2>5, <3>1 DEF TypeOK, SpectatingUpdateFails, Sends, Step
  <2>6. ASSUME NEW c \in Controllers, UserControllerConnect(u, c) PROVE TypeOK'
    BY <2>6 DEF TypeOK, UserControllerConnect, Sends, Step
  <2>7. ASSUME NEW c \in Controllers, UserControllerDisconnect(u, c) PROVE TypeOK'
    <3>1. inbox' \in [Replicas -> Seq(Event)]
      BY <2>7, EventsTyped, PublishToQueues DEF TypeOK, UserControllerDisconnect, Publish
    <3> QED BY <2>7, <3>1 DEF TypeOK, UserControllerDisconnect, Sends, Step, clientVars
  <2> QED BY <1>3, <2>1, <2>2, <2>3, <2>4, <2>5, <2>6, <2>7 DEF ClientMessage
<1>4. ASSUME NEW u \in Users, NEW c \in Controllers, PublishController(u, c) PROVE TypeOK'
  <2>1. inbox' \in [Replicas -> Seq(Event)]
    BY <1>4, EventsTyped, PublishToQueues DEF TypeOK, PublishController, Publish
  <2> QED BY <1>4, <2>1 DEF TypeOK, PublishController, historyVars
<1>5. ASSUME NEW r \in Replicas, Handle(r) PROVE TypeOK'
  <2> DEFINE e == Head(inbox[r])
  <2> USE DEF UnchangedByHandlers, clientVars, historyVars
  <2>1. CASE HandleUserConnected(r)
    <3>1. inbox' \in [Replicas -> Seq(Event)] /\ e.user \in Users
      BY <2>1, HandledEvent, EventFields DEF HandleUserConnected
    <3>2. users' \in [Replicas -> [Users -> UserModel \cup {None}]]
      BY <2>1, <3>1 DEF TypeOK, HandleUserConnected, NewUser, UserModel
    <3>3. view' \in [Users -> View]
      <4>1. \A v \in View : [v EXCEPT !.known = @ \cup {e.user}] \in View
        BY <3>1 DEF View
      <4> QED BY <2>1, <4>1 DEF TypeOK, HandleUserConnected, BroadcastExcept
    <3> QED BY <2>1, <3>1, <3>2, <3>3 DEF TypeOK, HandleUserConnected
  <2>2. CASE HandleUserDisconnected(r)
    <3>1. inbox' \in [Replicas -> Seq(Event)] /\ e.user \in Users
      BY <2>2, HandledEvent, EventFields DEF HandleUserDisconnected
    <3>2. users' \in [Replicas -> [Users -> UserModel \cup {None}]]
      BY <2>2, <3>1 DEF TypeOK, HandleUserDisconnected
    <3>3. view' \in [Users -> View]
      <4>1. \A v \in View : [known       |-> v.known \ {e.user},
                              controllers |-> Without(v.controllers, e.user),
                              highlights  |-> Without(v.highlights, e.user)] \in View
        BY <3>1 DEF View, Without
      <4> QED BY <2>2, <4>1 DEF TypeOK, HandleUserDisconnected, BroadcastExcept
    <3> QED BY <2>2, <3>1, <3>2, <3>3 DEF TypeOK, HandleUserDisconnected
  <2>3. CASE HandleHighlightingUpdate(r)
    <3>1. /\ inbox' \in [Replicas -> Seq(Event)] /\ e.user \in Users
          /\ e.entity \in Entities /\ e.change \in HighlightingChanges
          /\ users[r][e.user] \in UserModel
      BY <2>3, HandledEvent, EventFields, SenderKnown DEF HandleHighlightingUpdate
    <3>2. UpdateHighlighting(users[r][e.user], e) \in UserModel
      BY <3>1 DEF UpdateHighlighting, UserModel, HighlightingChanges
    <3>3. users' \in [Replicas -> [Users -> UserModel \cup {None}]]
      BY <2>3, <3>1, <3>2 DEF TypeOK, HandleHighlightingUpdate
    <3>4. view' \in [Users -> View]
      <4>1. ASSUME NEW H \in SUBSET (Users \X Entities)
            PROVE  ShowHighlighting(H, e) \in SUBSET (Users \X Entities)
        BY <3>1 DEF ShowHighlighting, Without, HighlightingChanges
      <4>2. \A v \in View : [v EXCEPT !.highlights = ShowHighlighting(@, e)] \in View
        BY <4>1 DEF View
      <4> QED BY <2>3, <4>2 DEF TypeOK, HandleHighlightingUpdate, BroadcastExcept
    <3> QED BY <2>3, <3>1, <3>3, <3>4 DEF TypeOK, HandleHighlightingUpdate
  <2>4. CASE HandleAllHighlightsReset(r)
    <3>1. inbox' \in [Replicas -> Seq(Event)]
      BY <2>4, HandledEvent DEF HandleAllHighlightsReset
    <3>2. users' \in [Replicas -> [Users -> UserModel \cup {None}]]
      <4>1. \A m \in UserModel : [m EXCEPT !.highlighted = {}] \in UserModel
        BY DEF UserModel
      <4>2. \A u \in Users : Knows(r, u) => users[r][u] \in UserModel
        BY DEF TypeOK, Knows
      <4> QED BY <2>4, <4>1, <4>2 DEF TypeOK, HandleAllHighlightsReset
    <3>3. view' \in [Users -> View]
      <4>1. \A v \in View : [v EXCEPT !.highlights = {}] \in View
        BY DEF View
      <4> QED BY <2>4, <4>1 DEF TypeOK, HandleAllHighlightsReset, BroadcastExcept
    <3> QED BY <2>4, <3>1, <3>2, <3>3 DEF TypeOK, HandleAllHighlightsReset
  <2>5. CASE HandleSpectatingUpdate(r)
    <3>1. /\ inbox' \in [Replicas -> Seq(Event)]
          /\ e.isSpectating \in BOOLEAN
          /\ \A u \in e.spectators \cap Users : users[r][u] # None
      BY <2>5, HandledEvent, EventFields DEF HandleSpectatingUpdate, Needs, Knows
    <3>2. users' \in [Replicas -> [Users -> UserModel \cup {None}]]
      <4>1. \A m \in UserModel : [m EXCEPT !.spectating = e.isSpectating] \in UserModel
        BY <3>1 DEF UserModel
      <4>2. \A u \in Users : u \in e.spectators => users[r][u] \in UserModel
        BY <3>1 DEF TypeOK
      <4> QED BY <2>5, <4>1, <4>2 DEF TypeOK, HandleSpectatingUpdate
    <3> QED BY <2>5, <3>1, <3>2 DEF TypeOK, HandleSpectatingUpdate
  <2>6. CASE HandleUserControllerConnect(r)
    <3>1. /\ inbox' \in [Replicas -> Seq(Event)] /\ e.user \in Users
          /\ e.controller \in Controllers
          /\ users[r][e.user] \in UserModel
      BY <2>6, HandledEvent, EventFields, SenderKnown DEF HandleUserControllerConnect
    <3>2. users' \in [Replicas -> [Users -> UserModel \cup {None}]]
      <4>1. [users[r][e.user] EXCEPT !.controllers = @ \cup {e.controller}] \in UserModel
        BY <3>1 DEF UserModel
      <4>2. users' = [users EXCEPT ![r] = [users[r] EXCEPT ![e.user] =
                        [users[r][e.user] EXCEPT !.controllers = @ \cup {e.controller}]]]
        BY <2>6, <3>1 DEF TypeOK, HandleUserControllerConnect
      <4> QED BY <3>1, <4>1, <4>2 DEF TypeOK
    <3>3. view' \in [Users -> View]
      <4>1. <<e.user, e.controller>> \in Users \X Controllers
        BY <3>1
      <4>2. \A v \in View :
              [v EXCEPT !.controllers = @ \cup {<<e.user, e.controller>>}] \in View
        BY <4>1, ViewUpdates DEF View
      <4> QED BY <2>6, <4>2 DEF TypeOK, HandleUserControllerConnect, BroadcastExcept
    <3> QED BY <2>6, <3>1, <3>2, <3>3 DEF TypeOK, HandleUserControllerConnect
  <2>7. CASE HandleUserControllerDisconnect(r)
    <3>1. /\ inbox' \in [Replicas -> Seq(Event)] /\ e.user \in Users
          /\ e.controller \in Controllers
          /\ users[r][e.user] \in UserModel
      BY <2>7, HandledEvent, EventFields, SenderKnown DEF HandleUserControllerDisconnect
    <3>2. users' \in [Replicas -> [Users -> UserModel \cup {None}]]
      <4>1. [users[r][e.user] EXCEPT !.controllers = @ \ {e.controller}] \in UserModel
        BY <3>1 DEF UserModel
      <4>2. users' = [users EXCEPT ![r] = [users[r] EXCEPT ![e.user] =
                        [users[r][e.user] EXCEPT !.controllers = @ \ {e.controller}]]]
        BY <2>7, <3>1 DEF TypeOK, HandleUserControllerDisconnect
      <4> QED BY <3>1, <4>1, <4>2 DEF TypeOK
    <3>3. view' \in [Users -> View]
      <4>1. \A v \in View :
              [v EXCEPT !.controllers = @ \ {<<e.user, e.controller>>}] \in View
        BY <3>1 DEF View
      <4> QED BY <2>7, <4>1 DEF TypeOK, HandleUserControllerDisconnect, BroadcastExcept
    <3> QED BY <2>7, <3>1, <3>2, <3>3 DEF TypeOK, HandleUserControllerDisconnect
  <2>8. CASE HandleUserPositions(r)
    BY <2>8, HandledEvent DEF TypeOK, HandleUserPositions
  <2> QED BY <1>5, <2>1, <2>2, <2>3, <2>4, <2>5, <2>6, <2>7, <2>8 DEF Handle
<1>6. ASSUME NEW r \in Replicas, HandleSpectatingUpdateThrows(r) PROVE TypeOK'
  BY <1>6 DEF TypeOK, HandleSpectatingUpdateThrows, historyVars
<1>7. CASE UNCHANGED vars
  BY <1>7 DEF TypeOK, vars, clientVars, historyVars
<1> QED BY <1>1, <1>2, <1>3, <1>4, <1>5, <1>6, <1>7 DEF Next

(* TypeOK holds of every state, for any number of replicas, users,         *)
(* entities and controllers.                                               *)
THEOREM ActivityTypeCorrect == Spec => []TypeOK
BY InitType, StepType, PTL DEF Spec

-----------------------------------------------------------------------------
(* Who is known where *)

LEMMA NeedsUsers ==
  ASSUME NEW e \in Event
  PROVE  Needs(e) \subseteq Users
BY EventFields, ActivityAssumption DEF Needs

LEMMA NewUserNotNone == NewUser # None
<1>1. NewUser \in UserModel
  BY DEF NewUser, UserModel
<1> QED BY <1>1, NoneIsNoUser

LEMMA InitKnown == Init => KnownInv
<1> SUFFICES ASSUME Init PROVE KnownInv
  OBVIOUS
<1>1. TypeOK
  BY InitType
<1>2. \A r \in Replicas : inbox[r] = <<>>
  BY DEF Init, NoEvents
<1>3. \A r \in Replicas : \A event, u : ~ Waiting(r, event, u)
  BY <1>2 DEF Waiting, Queued
<1>4. \A r \in Replicas, u \in Users : Knows(r, u) <=> u \in Stayers
  BY NewUserNotNone DEF Init, Knows
<1>5. \A u \in Users : /\ presence[u] = "in" <=> u \in Stayers
                       /\ presence[u] = "new" <=> u \notin Stayers
  BY DEF Init
<1>6. MembersKnown
  BY <1>3, <1>4, <1>5 DEF MembersKnown
<1>7. NewcomersUnknown
  BY <1>3, <1>4, <1>5 DEF NewcomersUnknown
<1>8. EventsFindUsers
  BY <1>2 DEF EventsFindUsers
<1> QED BY <1>1, <1>6, <1>7, <1>8 DEF KnownInv

(* A step that leaves queues, UserModels and presence alone.               *)
LEMMA UnchangedKnown ==
  ASSUME KnownInv, inbox' = inbox, users' = users, presence' = presence
  PROVE  MembersKnown' /\ NewcomersUnknown' /\ EventsFindUsers'
<1>1. MembersKnown'
  BY DEF KnownInv, MembersKnown, Knows, Waiting, Queued
<1>2. NewcomersUnknown'
  BY DEF KnownInv, NewcomersUnknown, Knows, Waiting, Queued
<1>3. EventsFindUsers'
  BY DEF KnownInv, EventsFindUsers, Knows, WaitingBefore, Queued
<1> QED BY <1>1, <1>2, <1>3

(* Publishing an event of users that are in the room.                      *)
LEMMA PublishKnown ==
  ASSUME KnownInv, NEW e \in Event, Publish(e),
         e.event \notin {"user_connected", "user_disconnect"},
         \A u \in Needs(e) : presence[u] = "in",
         presence' = presence, users' = users
  PROVE  MembersKnown' /\ NewcomersUnknown' /\ EventsFindUsers'
<1>1. inbox \in [Replicas -> Seq(Event)] /\ PublishTo(Replicas, e)
  BY DEF KnownInv, TypeOK, Publish
<1>2. \A r \in Replicas, u \in Users : Knows(r, u)' <=> Knows(r, u)
  BY DEF Knows
<1>3. \A r \in Replicas, u \in Users :
        /\ Waiting(r, "user_connected", u)' <=> Waiting(r, "user_connected", u)
        /\ Waiting(r, "user_disconnect", u)' <=> Waiting(r, "user_disconnect", u)
  BY <1>1, PublishToWaiting
<1>4. MembersKnown' /\ NewcomersUnknown'
  BY <1>2, <1>3 DEF KnownInv, MembersKnown, NewcomersUnknown
<1>5. ASSUME NEW r \in Replicas, NEW i \in 1..Len(inbox'[r]), NEW u \in Needs(inbox'[r][i])
      PROVE  /\ Knows(r, u)' \/ WaitingBefore(r, i, "user_connected", u)'
             /\ ~ WaitingBefore(r, i, "user_disconnect", u)'
  <2>1. CASE i \in 1..Len(inbox[r])
    <3>1. inbox'[r][i] = inbox[r][i] /\ inbox[r][i] \in Event
      BY <1>1, <2>1, PublishToQueues
    <3>2. u \in Users
      BY <3>1, NeedsUsers
    <3>3. /\ Knows(r, u) \/ WaitingBefore(r, i, "user_connected", u)
          /\ ~ WaitingBefore(r, i, "user_disconnect", u)
      BY <2>1, <3>1 DEF KnownInv, EventsFindUsers
    <3>4. \A event : WaitingBefore(r, i, event, u)' <=> WaitingBefore(r, i, event, u)
      BY <1>1, <2>1, PublishToWaiting
    <3> QED BY <1>2, <3>2, <3>3, <3>4
  <2>2. CASE i \notin 1..Len(inbox[r])
    <3>1. i = Len(inbox[r]) + 1 /\ inbox'[r][i] = e
      BY <1>1, <2>2, PublishToQueues
    <3>2. u \in Users /\ presence[u] = "in"
      BY <3>1, NeedsUsers
    <3>3. \A event : WaitingBefore(r, i, event, u)' <=> Waiting(r, event, u)
      BY <1>1, <3>1, PublishToWaiting
    <3> QED BY <1>2, <3>2, <3>3 DEF KnownInv, MembersKnown
  <2> QED BY <2>1, <2>2
<1>6. EventsFindUsers'
  BY <1>5 DEF EventsFindUsers
<1> QED BY <1>4, <1>6

(* Publishing a user's arrival or departure.                               *)
LEMMA PublishPresence ==
  ASSUME KnownInv, NEW v \in Users, NEW event \in {"user_connected", "user_disconnect"},
         Publish(UserEvent(event, v)),
         \A r \in Replicas, u \in Users : Knows(r, u) => Knows(r, u)',
         \A r \in Replicas, u \in Users \ {v} : Knows(r, u)' => Knows(r, u),
         presence[v] = IF event = "user_connected" THEN "new" ELSE "in",
         presence' = [presence EXCEPT ![v] = IF event = "user_connected" THEN "in" ELSE "left"]
  PROVE  MembersKnown' /\ NewcomersUnknown' /\ EventsFindUsers'
<1> DEFINE e == UserEvent(event, v)
<1>1. /\ inbox \in [Replicas -> Seq(Event)] /\ e \in Event /\ PublishTo(Replicas, e)
      /\ e.event = event /\ e.user = v /\ Needs(e) = {}
      /\ presence \in [Users -> {"new", "in", "left"}]
  BY EventsTyped DEF KnownInv, TypeOK, Publish, PlainEvents, UserEvent, Needs
<1> HIDE DEF e
<1>2. \A r \in Replicas, u \in Users, k \in {"user_connected", "user_disconnect"} :
        Waiting(r, k, u)' <=> Waiting(r, k, u) \/ (k = event /\ u = v)
  BY <1>1, PublishToWaiting
<1>3. MembersKnown'
  BY <1>1, <1>2 DEF KnownInv, MembersKnown, NewcomersUnknown
<1>4. NewcomersUnknown'
  BY <1>1, <1>2 DEF KnownInv, NewcomersUnknown
<1>5. ASSUME NEW r \in Replicas, NEW i \in 1..Len(inbox'[r]), NEW u \in Needs(inbox'[r][i])
      PROVE  /\ Knows(r, u)' \/ WaitingBefore(r, i, "user_connected", u)'
             /\ ~ WaitingBefore(r, i, "user_disconnect", u)'
  <2>1. i \in 1..Len(inbox[r])
    BY <1>1, PublishToQueues
  <2>2. inbox'[r][i] = inbox[r][i] /\ inbox[r][i] \in Event
    BY <1>1, <2>1, PublishToQueues
  <2>3. u \in Users
    BY <2>2, NeedsUsers
  <2>4. /\ Knows(r, u) \/ WaitingBefore(r, i, "user_connected", u)
        /\ ~ WaitingBefore(r, i, "user_disconnect", u)
    BY <2>1, <2>2 DEF KnownInv, EventsFindUsers
  <2>5. \A k : WaitingBefore(r, i, k, u)' <=> WaitingBefore(r, i, k, u)
    BY <1>1, <2>1, PublishToWaiting
  <2> QED BY <2>3, <2>4, <2>5
<1>6. EventsFindUsers'
  BY <1>5 DEF EventsFindUsers
<1> QED BY <1>3, <1>4, <1>6

(* Handling an event: only an arrival or a departure changes who is known. *)
LEMMA HandleKnown ==
  ASSUME KnownInv, NEW r \in Replicas, inbox[r] # <<>>, Consume(r), presence' = presence,
         \A q \in Replicas, u \in Users :
           Knows(q, u)' <=>
             IF q # r \/ Head(inbox[r]).user # u
                \/ Head(inbox[r]).event \notin {"user_connected", "user_disconnect"}
             THEN Knows(q, u) ELSE Head(inbox[r]).event = "user_connected"
  PROVE  MembersKnown' /\ NewcomersUnknown' /\ EventsFindUsers'
<1> DEFINE h == Head(inbox[r])
<1>1. inbox \in [Replicas -> Seq(Event)] /\ h \in Event /\ h.user \in Users
  BY ConsumeQueues, EventFields DEF KnownInv, TypeOK
<1> HIDE DEF h
<1>2. \A event, u :
        /\ \A q \in Replicas : q # r => (Waiting(q, event, u)' <=> Waiting(q, event, u))
        /\ Waiting(r, event, u) <=> Waiting(r, event, u)' \/ (h.event = event /\ h.user = u)
  BY <1>1, ConsumeWaiting DEF h
<1>3. \A q \in Replicas, u \in Users :
        Knows(q, u)' <=> IF q # r \/ h.user # u \/ h.event \notin {"user_connected", "user_disconnect"}
                         THEN Knows(q, u) ELSE h.event = "user_connected"
  BY DEF h
<1>4. MembersKnown'
  BY <1>2, <1>3 DEF KnownInv, MembersKnown
<1>5. NewcomersUnknown'
  BY <1>2, <1>3 DEF KnownInv, NewcomersUnknown
<1>6. ASSUME NEW q \in Replicas, NEW i \in 1..Len(inbox'[q]), NEW u \in Needs(inbox'[q][i])
      PROVE  /\ Knows(q, u)' \/ WaitingBefore(q, i, "user_connected", u)'
             /\ ~ WaitingBefore(q, i, "user_disconnect", u)'
  <2>1. CASE q # r
    <3>1. inbox'[q] = inbox[q]
      BY <1>1, <2>1, ConsumeQueues
    <3>2. inbox[q][i] \in Event /\ u \in Needs(inbox[q][i]) /\ i \in 1..Len(inbox[q])
      BY <1>1, <3>1
    <3>3. u \in Users
      BY <3>2, NeedsUsers
    <3>4. \A event : WaitingBefore(q, i, event, u)' <=> WaitingBefore(q, i, event, u)
      BY <3>1 DEF WaitingBefore, Queued
    <3> QED BY <1>3, <2>1, <3>2, <3>3, <3>4 DEF KnownInv, EventsFindUsers
  <2>2. CASE q = r
    <3>1. /\ i + 1 \in 1..Len(inbox[r]) /\ inbox'[r][i] = inbox[r][i + 1]
          /\ inbox[r][i + 1] \in Event
      BY <1>1, <2>2, ConsumeQueues
    <3>2. u \in Users
      BY <2>2, <3>1, NeedsUsers
    <3>3. /\ Knows(r, u) \/ WaitingBefore(r, i + 1, "user_connected", u)
          /\ ~ WaitingBefore(r, i + 1, "user_disconnect", u)
      BY <2>2, <3>1 DEF KnownInv, EventsFindUsers
    <3>4. \A event : WaitingBefore(r, i + 1, event, u) <=>
                       WaitingBefore(r, i, event, u)' \/ (h.event = event /\ h.user = u)
      BY <1>1, <2>2, ConsumeWaiting DEF h
    <3> QED BY <1>3, <2>2, <3>2, <3>3, <3>4
  <2> QED BY <2>1, <2>2
<1>7. EventsFindUsers'
  BY <1>6 DEF EventsFindUsers
<1> QED BY <1>4, <1>5, <1>7

(* Every handler takes the first event off the queue.                      *)
LEMMA HandledPlainly ==
  ASSUME NEW r \in Replicas, Handle(r)
  PROVE  \E event : Handles(r, event) /\ UnchangedByHandlers
<1>1. CASE HandleUserConnected(r)
  BY <1>1 DEF HandleUserConnected
<1>2. CASE HandleUserDisconnected(r)
  BY <1>2 DEF HandleUserDisconnected
<1>3. CASE HandleHighlightingUpdate(r)
  BY <1>3 DEF HandleHighlightingUpdate
<1>4. CASE HandleAllHighlightsReset(r)
  BY <1>4 DEF HandleAllHighlightsReset
<1>5. CASE HandleSpectatingUpdate(r)
  BY <1>5 DEF HandleSpectatingUpdate
<1>6. CASE HandleUserControllerConnect(r)
  BY <1>6 DEF HandleUserControllerConnect
<1>7. CASE HandleUserControllerDisconnect(r)
  BY <1>7 DEF HandleUserControllerDisconnect
<1>8. CASE HandleUserPositions(r)
  BY <1>8 DEF HandleUserPositions
<1> QED BY <1>1, <1>2, <1>3, <1>4, <1>5, <1>6, <1>7, <1>8 DEF Handle

LEMMA StepKnown == KnownInv /\ [Next]_vars => KnownInv'
<1> SUFFICES ASSUME KnownInv, [Next]_vars PROVE KnownInv'
  OBVIOUS
<1> USE ActivityAssumption
<1>1. TypeOK' /\ TypeOK
  BY StepType DEF KnownInv
<1> SUFFICES MembersKnown' /\ NewcomersUnknown' /\ EventsFindUsers'
  BY <1>1 DEF KnownInv
<1>2. ASSUME NEW u \in Users, NEW r \in Replicas, Connect(u, r)
      PROVE  MembersKnown' /\ NewcomersUnknown' /\ EventsFindUsers'
  <2>1. users' = [users EXCEPT ![r] = [users[r] EXCEPT ![u] = NewUser]]
    BY <1>1, <1>2 DEF TypeOK, Connect
  <2>2. /\ \A q \in Replicas, v \in Users : Knows(q, v) => Knows(q, v)'
        /\ \A q \in Replicas, v \in Users \ {u} : Knows(q, v)' => Knows(q, v)
    BY <1>1, <2>1, NewUserNotNone DEF TypeOK, Knows
  <2> QED BY <1>2, <2>2, PublishPresence DEF Connect
<1>3. ASSUME NEW u \in Users, Disconnect(u)
      PROVE  MembersKnown' /\ NewcomersUnknown' /\ EventsFindUsers'
  BY <1>3, PublishPresence DEF Disconnect, Knows
<1>4. ASSUME NEW u \in Users, ClientMessage(u)
      PROVE  MembersKnown' /\ NewcomersUnknown' /\ EventsFindUsers'
  <2>1. ASSUME NEW entity \in Entities, NEW change \in HighlightingChanges,
               HighlightingUpdate(u, entity, change)
        PROVE  MembersKnown' /\ NewcomersUnknown' /\ EventsFindUsers'
    BY <2>1, EventsTyped, PublishKnown DEF HighlightingUpdate, Sends, Needs, clientVars
  <2>2. CASE AllHighlightsReset(u)
    BY <2>2, EventsTyped, PublishKnown
       DEF AllHighlightsReset, Needs, UserEvent, PlainEvents, clientVars
  <2>3. CASE UserPositions(u)
    BY <2>3, EventsTyped, PublishKnown
       DEF UserPositions, Sends, Needs, UserEvent, PlainEvents, clientVars
  <2>4. ASSUME NEW S \in SpectatorLists, NEW b \in BOOLEAN, SpectatingUpdate(u, S, b)
        PROVE  MembersKnown' /\ NewcomersUnknown' /\ EventsFindUsers'
    BY <2>4, EventsTyped, PublishKnown DEF SpectatingUpdate, Needs, MayHaveSocket, ClientAt
  <2>5. ASSUME NEW S \in SpectatorLists, NEW b \in BOOLEAN, SpectatingUpdateFails(u, S, b)
        PROVE  MembersKnown' /\ NewcomersUnknown' /\ EventsFindUsers'
    <3>1. inbox' = inbox /\ users' = users /\ presence' = presence
      BY <2>5 DEF SpectatingUpdateFails
    <3> QED BY <3>1, UnchangedKnown
  <2>6. ASSUME NEW c \in Controllers, UserControllerConnect(u, c)
        PROVE  MembersKnown' /\ NewcomersUnknown' /\ EventsFindUsers'
    BY <2>6, UnchangedKnown DEF UserControllerConnect
  <2>7. ASSUME NEW c \in Controllers, UserControllerDisconnect(u, c)
        PROVE  MembersKnown' /\ NewcomersUnknown' /\ EventsFindUsers'
    BY <2>7, EventsTyped, PublishKnown DEF UserControllerDisconnect, Sends, Needs, clientVars
  <2> QED BY <1>4, <2>1, <2>2, <2>3, <2>4, <2>5, <2>6, <2>7 DEF ClientMessage
<1>5. ASSUME NEW u \in Users, NEW c \in Controllers, PublishController(u, c)
      PROVE  MembersKnown' /\ NewcomersUnknown' /\ EventsFindUsers'
  <2>1. CASE presence[u] = "in"
    BY <1>5, <2>1, EventsTyped, PublishKnown DEF PublishController, Needs
  <2>2. CASE presence[u] # "in"
    BY <1>5, <2>2, UnchangedKnown DEF PublishController
  <2> QED BY <2>1, <2>2
<1>6. ASSUME NEW r \in Replicas, Handle(r)
      PROVE  MembersKnown' /\ NewcomersUnknown' /\ EventsFindUsers'
  <2> DEFINE e == Head(inbox[r])
  <2>1. inbox[r] # <<>> /\ Consume(r) /\ presence' = presence /\ e \in Event /\ e.user \in Users
    <3>1. PICK event : Handles(r, event) /\ UnchangedByHandlers
      BY <1>6, HandledPlainly
    <3>2. inbox \in [Replicas -> Seq(Event)] /\ inbox[r] # <<>> /\ Consume(r)
          /\ presence' = presence
      BY <1>1, <3>1 DEF Handles, Receives, UnchangedByHandlers, clientVars, TypeOK
    <3>3. e \in Event
      BY <3>2, ConsumeQueues
    <3> QED BY <3>2, <3>3, EventFields
  <2>2. \A q \in Replicas, u \in Users :
          Knows(q, u)' <=>
            IF q # r \/ e.user # u \/ e.event \notin {"user_connected", "user_disconnect"}
            THEN Knows(q, u) ELSE e.event = "user_connected"
    <3>0. users \in [Replicas -> [Users -> UserModel \cup {None}]]
      BY <1>1 DEF TypeOK
    <3>1. CASE HandleUserConnected(r)
      <4>1. e.event = "user_connected"
        BY <3>1 DEF HandleUserConnected, Handles, Receives
      <4>2. users' = [users EXCEPT ![r][e.user] = IF Knows(r, e.user) THEN @ ELSE NewUser]
        BY <3>1 DEF HandleUserConnected
      <4> QED BY <2>1, <3>0, <4>1, <4>2, NewUserNotNone DEF Knows
    <3>2. CASE HandleUserDisconnected(r)
      <4>1. e.event = "user_disconnect"
        BY <3>2 DEF HandleUserDisconnected, Handles, Receives
      <4>2. users' = [users EXCEPT ![r][e.user] = None]
        BY <3>2 DEF HandleUserDisconnected
      <4> QED BY <2>1, <3>0, <4>1, <4>2 DEF Knows
    <3>3. CASE HandleHighlightingUpdate(r)
      <4>1. users[r][e.user] \in UserModel /\ e.change \in HighlightingChanges
                                           /\ e.entity \in Entities
        BY <1>1, <3>3, SenderKnown, HandledEvent, EventFields DEF HandleHighlightingUpdate
      <4>2. UpdateHighlighting(users[r][e.user], e) \in UserModel
        BY <4>1 DEF UpdateHighlighting, UserModel, HighlightingChanges
      <4> QED BY <1>1, <2>1, <3>3, <4>1, <4>2, NoneIsNoUser
              DEF HandleHighlightingUpdate, Handles, Receives, Knows, TypeOK
    <3>4. CASE HandleAllHighlightsReset(r)
      <4>1. \A m \in UserModel : [m EXCEPT !.highlighted = {}] # None
        BY NoneIsNoUser DEF UserModel
      <4> QED BY <1>1, <2>1, <3>4, <4>1
              DEF HandleAllHighlightsReset, Handles, Receives, Knows, TypeOK
    <3>5. CASE HandleSpectatingUpdate(r)
      <4>1. e.isSpectating \in BOOLEAN /\ \A u \in e.spectators \cap Users : Knows(r, u)
        BY <1>1, <3>5, HandledEvent, EventFields DEF HandleSpectatingUpdate, Needs
      <4>2. \A m \in UserModel : [m EXCEPT !.spectating = e.isSpectating] # None
        BY <4>1, NoneIsNoUser DEF UserModel
      <4> QED BY <1>1, <2>1, <3>5, <4>1, <4>2
              DEF HandleSpectatingUpdate, Handles, Receives, Knows, TypeOK
    <3>6. CASE HandleUserControllerConnect(r)
      <4>1. users[r][e.user] \in UserModel /\ e.controller \in Controllers
        BY <1>1, <3>6, SenderKnown, HandledEvent, EventFields DEF HandleUserControllerConnect
      <4>2. [users[r][e.user] EXCEPT !.controllers = @ \cup {e.controller}] \in UserModel
        BY <4>1 DEF UserModel
      <4>3. users' = [users EXCEPT ![r] = [users[r] EXCEPT ![e.user] =
                        [users[r][e.user] EXCEPT !.controllers = @ \cup {e.controller}]]]
        BY <1>1, <2>1, <3>6 DEF TypeOK, HandleUserControllerConnect
      <4>4. e.event = "user_controller_connect"
        BY <3>6 DEF HandleUserControllerConnect, Handles, Receives
      <4>5. users[r][e.user] # None /\ users'[r][e.user] # None
        BY <1>1, <2>1, <4>1, <4>2, <4>3, NoneIsNoUser DEF TypeOK
      <4>6. \A q \in Replicas, u \in Users : q # r \/ u # e.user => users'[q][u] = users[q][u]
        BY <1>1, <2>1, <4>3 DEF TypeOK
      <4> QED BY <2>1, <4>4, <4>5, <4>6 DEF Knows
    <3>7. CASE HandleUserControllerDisconnect(r)
      <4>1. users[r][e.user] \in UserModel /\ e.controller \in Controllers
        BY <1>1, <3>7, SenderKnown, HandledEvent, EventFields DEF HandleUserControllerDisconnect
      <4>2. [users[r][e.user] EXCEPT !.controllers = @ \ {e.controller}] \in UserModel
        BY <4>1 DEF UserModel
      <4>3. users' = [users EXCEPT ![r] = [users[r] EXCEPT ![e.user] =
                        [users[r][e.user] EXCEPT !.controllers = @ \ {e.controller}]]]
        BY <1>1, <2>1, <3>7 DEF TypeOK, HandleUserControllerDisconnect
      <4>4. e.event = "user_controller_disconnect"
        BY <3>7 DEF HandleUserControllerDisconnect, Handles, Receives
      <4>5. users[r][e.user] # None /\ users'[r][e.user] # None
        BY <1>1, <2>1, <4>1, <4>2, <4>3, NoneIsNoUser DEF TypeOK
      <4>6. \A q \in Replicas, u \in Users : q # r \/ u # e.user => users'[q][u] = users[q][u]
        BY <1>1, <2>1, <4>3 DEF TypeOK
      <4> QED BY <2>1, <4>4, <4>5, <4>6 DEF Knows
    <3>8. CASE HandleUserPositions(r)
      BY <2>1, <3>8 DEF HandleUserPositions, Handles, Receives, Knows
    <3> QED BY <1>6, <3>1, <3>2, <3>3, <3>4, <3>5, <3>6, <3>7, <3>8 DEF Handle
  <2> QED BY <2>1, <2>2, HandleKnown
<1>7. ASSUME NEW r \in Replicas, HandleSpectatingUpdateThrows(r)
      PROVE  MembersKnown' /\ NewcomersUnknown' /\ EventsFindUsers'
  BY <1>1, <1>7, UnchangedKnown DEF HandleSpectatingUpdateThrows
<1>8. CASE UNCHANGED vars
  BY <1>8, UnchangedKnown DEF vars, clientVars
<1> QED BY <1>2, <1>3, <1>4, <1>5, <1>6, <1>7, <1>8 DEF Next

(* No event of user activity finds the UserModels missing that its handler *)
(* dereferences, so that no such event ends a process: EventsFindUsers.    *)
THEOREM HandlersFindUsers == Spec => []EventsFindUsers
<1>1. KnownInv => EventsFindUsers
  BY DEF KnownInv
<1> QED BY <1>1, InitKnown, StepKnown, PTL DEF Spec

-----------------------------------------------------------------------------
(* What clients are told.  The properties, said of pairs.                  *)

Agrees(r, u) ==
  /\ \A v \in Users \ {u} :
       /\ v \in view[u].known => Knows(r, v)
       /\ Knows(r, v) => v \in view[u].known \/ Waiting(r, "user_connected", v)
  /\ \A v \in Users, c \in Controllers :
       <<v, c>> \in view[u].controllers <=> v # u /\ c \in ControllersAt(r, v)

Recorded(r, u) == \A v \in Users, x \in Entities :
                    <<v, x>> \in view[u].highlights => x \in HighlightsAt(r, v)

Untold(u) == \A x \in Entities : <<u, x>> \notin view[u].highlights

LEMMA InPairs ==
  ASSUME ActivityInv
  PROVE  /\ \A r \in Replicas, u \in Users : ClientAt(r, u) =>
              Agrees(r, u) /\ (u \notin resetters => Recorded(r, u))
         /\ \A u \in Users : Untold(u)
<1>1. TypeOK
  BY DEF ActivityInv, KnownInv
<1>2. ASSUME NEW r \in Replicas, NEW u \in Users, ClientAt(r, u)
      PROVE  Agrees(r, u)
  <2>1. \A v \in Users, c \in Controllers :
          <<v, c>> \in view[u].controllers <=> v # u /\ c \in ControllersAt(r, v)
    BY <1>2 DEF ActivityInv, ClientsKnowRoom
  <2> QED BY <1>2, <2>1 DEF ActivityInv, ClientsKnowRoom, Agrees
<1>3. ASSUME NEW r \in Replicas, NEW u \in Users, ClientAt(r, u), u \notin resetters
      PROVE  Recorded(r, u)
  BY <1>3 DEF ActivityInv, HighlightsRecorded, Recorded
<1>4. ASSUME NEW u \in Users PROVE Untold(u)
  BY DEF ActivityInv, OwnHighlightsUntold, Untold
<1> QED BY <1>2, <1>3, <1>4

LEMMA FromPairs ==
  ASSUME TypeOK',
         \A r \in Replicas, u \in Users : ClientAt(r, u)' =>
           Agrees(r, u)' /\ (u \notin resetters' => Recorded(r, u)'),
         \A u \in Users : Untold(u)'
  PROVE  ClientsKnowRoom' /\ HighlightsRecorded' /\ OwnHighlightsUntold'
<1>1. \A u \in Users : /\ view'[u].controllers \in SUBSET (Users \X Controllers)
                       /\ view'[u].highlights \in SUBSET (Users \X Entities)
  BY ViewUpdates DEF TypeOK, View
<1>2. ASSUME NEW r \in Replicas, NEW u \in Users, ClientAt(r, u)'
      PROVE  /\ \A v \in Users \ {u} :
                  /\ v \in view'[u].known => Knows(r, v)'
                  /\ Knows(r, v)' => v \in view'[u].known \/ Waiting(r, "user_connected", v)'
             /\ view'[u].controllers =
                  {p \in (Users \ {u}) \X Controllers : p[2] \in ControllersAt(r, p[1])'}
  <2>1. Agrees(r, u)'
    BY <1>2
  <2>2. \A p \in Users \X Controllers :
          p \in view'[u].controllers <=> p[1] # u /\ p[2] \in ControllersAt(r, p[1])'
    BY <2>1 DEF Agrees
  <2>3. view'[u].controllers =
          {p \in (Users \ {u}) \X Controllers : p[2] \in ControllersAt(r, p[1])'}
    BY <1>1, <2>2
  <2> QED BY <2>1, <2>3 DEF Agrees
<1>3. ClientsKnowRoom'
  BY <1>2 DEF ClientsKnowRoom
<1>4. HighlightsRecorded'
  <2> SUFFICES ASSUME NEW r \in Replicas, NEW u \in Users, ClientAt(r, u)', u \notin resetters',
                      NEW p \in view'[u].highlights
               PROVE  p[2] \in HighlightsAt(r, p[1])'
    BY DEF HighlightsRecorded
  <2>1. Recorded(r, u)' /\ p \in Users \X Entities
    BY <1>1
  <2> QED BY <2>1 DEF Recorded
<1>5. OwnHighlightsUntold'
  <2> SUFFICES ASSUME NEW u \in Users, NEW p \in view'[u].highlights
               PROVE  p[1] # u
    BY DEF OwnHighlightsUntold
  <2>1. Untold(u)' /\ p \in Users \X Entities
    BY <1>1
  <2> QED BY <2>1 DEF Untold
<1> QED BY <1>3, <1>4, <1>5

(* A user that is new to its replica brings nothing.                       *)
LEMMA NothingNew ==
  ASSUME NEW r \in Replicas, NEW u \in Users, ~ Knows(r, u)
  PROVE  ControllersAt(r, u) = {} /\ HighlightsAt(r, u) = {}
BY DEF ControllersAt, HighlightsAt

LEMMA NewUserFields == NewUser.highlighted = {} /\ NewUser.controllers = {}
BY DEF NewUser

LEMMA UpdateHighlightingFields ==
  ASSUME NEW m \in UserModel, NEW e, e.change \in HighlightingChanges
  PROVE  LET n == UpdateHighlighting(m, e)
         IN /\ n \in UserModel \/ e.entity \notin Entities
            /\ n.controllers = m.controllers
            /\ n.highlighted = CASE e.change = "add"       -> m.highlighted \cup {e.entity}
                                 [] e.change = "remove"    -> m.highlighted
                                 [] e.change = "removeAll" -> {}
<1>1. CASE e.change = "add"
  BY <1>1 DEF UpdateHighlighting, UserModel
<1>2. CASE e.change = "remove"
  BY <1>2 DEF UpdateHighlighting, UserModel
<1>3. CASE e.change = "removeAll"
  BY <1>3 DEF UpdateHighlighting, UserModel
<1> QED BY <1>1, <1>2, <1>3 DEF HighlightingChanges

(* What a handler leaves alone: other replicas, and the clients that it    *)
(* does not broadcast to.                                                  *)
LEMMA HandleLocally ==
  ASSUME TypeOK, NEW r \in Replicas, Handle(r)
  PROVE  /\ presence' = presence /\ home' = home /\ resetters' = resetters
         /\ \A q \in Replicas : q # r => users'[q] = users[q] /\ inbox'[q] = inbox[q]
         /\ \A u \in Users : ~ ClientAt(r, u) \/ u = Head(inbox[r]).user => view'[u] = view[u]
<1>1. PICK event : Handles(r, event) /\ UnchangedByHandlers
  BY HandledPlainly
<1>2. /\ presence' = presence /\ home' = home /\ resetters' = resetters
      /\ \A q \in Replicas : q # r => inbox'[q] = inbox[q]
  BY <1>1 DEF UnchangedByHandlers, clientVars, historyVars, Handles, Consume, TypeOK
<1>3. /\ \A q \in Replicas : q # r => users'[q] = users[q]
      /\ \A u \in Users : ~ ClientAt(r, u) \/ u = Head(inbox[r]).user => view'[u] = view[u]
  <2>1. CASE HandleUserConnected(r)
    BY <2>1 DEF HandleUserConnected, BroadcastExcept, TypeOK
  <2>2. CASE HandleUserDisconnected(r)
    BY <2>2 DEF HandleUserDisconnected, BroadcastExcept, TypeOK
  <2>3. CASE HandleHighlightingUpdate(r)
    BY <2>3 DEF HandleHighlightingUpdate, BroadcastExcept, TypeOK
  <2>4. CASE HandleAllHighlightsReset(r)
    BY <2>4 DEF HandleAllHighlightsReset, BroadcastExcept, TypeOK
  <2>5. CASE HandleSpectatingUpdate(r)
    BY <2>5 DEF HandleSpectatingUpdate, BroadcastExcept, TypeOK
  <2>6. CASE HandleUserControllerConnect(r)
    BY <2>6 DEF HandleUserControllerConnect, BroadcastExcept, TypeOK
  <2>7. CASE HandleUserControllerDisconnect(r)
    BY <2>7 DEF HandleUserControllerDisconnect, BroadcastExcept, TypeOK
  <2>8. CASE HandleUserPositions(r)
    BY <2>8 DEF HandleUserPositions
  <2> QED BY <2>1, <2>2, <2>3, <2>4, <2>5, <2>6, <2>7, <2>8 DEF Handle
<1> QED BY <1>2, <1>3

(* What a handler records of each user, and what it tells the clients that *)
(* it broadcasts to.                                                       *)
LEMMA ConnectedEffects ==
  ASSUME TypeOK, NEW r \in Replicas, HandleUserConnected(r)
  PROVE  LET e == Head(inbox[r]) IN
         /\ e.event = "user_connected"
         /\ \A v \in Users :
              /\ Knows(r, v)' <=> Knows(r, v) \/ v = e.user
              /\ ControllersAt(r, v)' = ControllersAt(r, v)
              /\ HighlightsAt(r, v)' = HighlightsAt(r, v)
         /\ \A u \in Users : ClientAt(r, u) /\ u # e.user =>
              /\ view'[u].known = view[u].known \cup {e.user}
              /\ view'[u].controllers = view[u].controllers
              /\ view'[u].highlights = view[u].highlights
<1> DEFINE e == Head(inbox[r])
<1>1. e \in Event /\ e.event = "user_connected" /\ e.user \in Users
  BY HandledEvent, EventFields DEF HandleUserConnected
<1>2. users' = [users EXCEPT ![r] = [users[r] EXCEPT ![e.user] =
                  IF Knows(r, e.user) THEN users[r][e.user] ELSE NewUser]]
  BY <1>1 DEF HandleUserConnected, TypeOK
<1>3. \A v \in Users : users'[r][v] = IF v = e.user /\ ~ Knows(r, v) THEN NewUser ELSE users[r][v]
  BY <1>1, <1>2 DEF TypeOK
<1>4. \A v \in Users : Knows(r, v)' <=> Knows(r, v) \/ v = e.user
  BY <1>3, NewUserNotNone DEF Knows
<1>5. \A v \in Users : /\ ControllersAt(r, v)' = ControllersAt(r, v)
                       /\ HighlightsAt(r, v)' = HighlightsAt(r, v)
  BY <1>3, <1>4, NewUserFields DEF ControllersAt, HighlightsAt
<1>6. \A u \in Users : ClientAt(r, u) /\ u # e.user =>
        view'[u] = [view[u] EXCEPT !.known = @ \cup {e.user}]
  BY DEF HandleUserConnected, BroadcastExcept
<1>7. \A u \in Users : view[u] \in View
  BY DEF TypeOK
<1>8. \A u \in Users : ClientAt(r, u) /\ u # e.user =>
              /\ view'[u].known = view[u].known \cup {e.user}
              /\ view'[u].controllers = view[u].controllers
              /\ view'[u].highlights = view[u].highlights
  BY <1>6, <1>7 DEF View
<1> QED BY <1>1, <1>4, <1>5, <1>8

LEMMA DisconnectedEffects ==
  ASSUME TypeOK, NEW r \in Replicas, HandleUserDisconnected(r)
  PROVE  LET e == Head(inbox[r]) IN
         /\ e.event = "user_disconnect"
         /\ \A v \in Users :
              /\ Knows(r, v)' <=> Knows(r, v) /\ v # e.user
              /\ ControllersAt(r, v)' = IF v = e.user THEN {} ELSE ControllersAt(r, v)
              /\ HighlightsAt(r, v)' = IF v = e.user THEN {} ELSE HighlightsAt(r, v)
         /\ \A u \in Users : ClientAt(r, u) /\ u # e.user =>
              /\ view'[u].known = view[u].known \ {e.user}
              /\ view'[u].controllers = Without(view[u].controllers, e.user)
              /\ view'[u].highlights = Without(view[u].highlights, e.user)
<1> DEFINE e == Head(inbox[r])
<1>1. e \in Event /\ e.event = "user_disconnect" /\ e.user \in Users
  BY HandledEvent, EventFields DEF HandleUserDisconnected
<1>2. users' = [users EXCEPT ![r] = [users[r] EXCEPT ![e.user] = None]]
  BY <1>1 DEF HandleUserDisconnected, TypeOK
<1>3. \A v \in Users : users'[r][v] = IF v = e.user THEN None ELSE users[r][v]
  BY <1>1, <1>2 DEF TypeOK
<1>4. \A v \in Users : Knows(r, v)' <=> Knows(r, v) /\ v # e.user
  BY <1>3 DEF Knows
<1>5. \A v \in Users :
        /\ ControllersAt(r, v)' = IF v = e.user THEN {} ELSE ControllersAt(r, v)
        /\ HighlightsAt(r, v)' = IF v = e.user THEN {} ELSE HighlightsAt(r, v)
  BY <1>3, <1>4 DEF ControllersAt, HighlightsAt
<1>6. \A u \in Users : ClientAt(r, u) /\ u # e.user =>
        view'[u] = [known       |-> view[u].known \ {e.user},
                    controllers |-> Without(view[u].controllers, e.user),
                    highlights  |-> Without(view[u].highlights, e.user)]
  BY DEF HandleUserDisconnected, BroadcastExcept
<1>7. \A u \in Users : ClientAt(r, u) /\ u # e.user =>
        /\ view'[u].known = view[u].known \ {e.user}
        /\ view'[u].controllers = Without(view[u].controllers, e.user)
        /\ view'[u].highlights = Without(view[u].highlights, e.user)
  <2> SUFFICES ASSUME NEW u \in Users, ClientAt(r, u), u # e.user
               PROVE  /\ view'[u].known = view[u].known \ {e.user}
                      /\ view'[u].controllers = Without(view[u].controllers, e.user)
                      /\ view'[u].highlights = Without(view[u].highlights, e.user)
    OBVIOUS
  <2> DEFINE C == Without(view[u].controllers, e.user)
             H == Without(view[u].highlights, e.user)
  <2>1. view'[u] = [known |-> view[u].known \ {e.user}, controllers |-> C, highlights |-> H]
    BY <1>6
  <2> HIDE DEF e, C, H
  <2>2. /\ view'[u].known = view[u].known \ {e.user}
        /\ view'[u].controllers = C
        /\ view'[u].highlights = H
    BY <2>1
  <2> QED BY <2>2 DEF C, H, e
<1> QED BY <1>1, <1>4, <1>5, <1>7

LEMMA HighlightingEffects ==
  ASSUME TypeOK, NEW r \in Replicas, HandleHighlightingUpdate(r)
  PROVE  LET e == Head(inbox[r]) IN
         /\ e.event = "highlighting_update" /\ e.change \in HighlightingChanges
         /\ \A v \in Users :
              /\ Knows(r, v)' <=> Knows(r, v)
              /\ ControllersAt(r, v)' = ControllersAt(r, v)
              /\ HighlightsAt(r, v)' =
                   IF v # e.user \/ e.change = "remove" THEN HighlightsAt(r, v)
                   ELSE IF e.change = "add" THEN HighlightsAt(r, v) \cup {e.entity} ELSE {}
         /\ \A u \in Users : ClientAt(r, u) /\ u # e.user =>
              /\ view'[u].known = view[u].known
              /\ view'[u].controllers = view[u].controllers
              /\ view'[u].highlights = ShowHighlighting(view[u].highlights, e)
<1> DEFINE e == Head(inbox[r])
<1>1. /\ e \in Event /\ e.event = "highlighting_update" /\ e.user \in Users
      /\ e.change \in HighlightingChanges /\ e.entity \in Entities
      /\ users[r][e.user] \in UserModel
  BY HandledEvent, EventFields, SenderKnown DEF HandleHighlightingUpdate
<1>2. users' = [users EXCEPT ![r] = [users[r] EXCEPT ![e.user] =
                  UpdateHighlighting(users[r][e.user], e)]]
  BY <1>1 DEF HandleHighlightingUpdate, TypeOK
<1> DEFINE n == UpdateHighlighting(users[r][e.user], e)
<1>3. \A v \in Users : users'[r][v] = IF v = e.user THEN n ELSE users[r][v]
  BY <1>1, <1>2 DEF TypeOK
<1>4. /\ n \in UserModel /\ n.controllers = users[r][e.user].controllers
      /\ n.highlighted = IF e.change = "remove" THEN users[r][e.user].highlighted
                         ELSE IF e.change = "add" THEN users[r][e.user].highlighted \cup {e.entity}
                         ELSE {}
  BY <1>1, UpdateHighlightingFields DEF HighlightingChanges
<1> HIDE DEF n
<1>5. n # None /\ users[r][e.user] # None
  BY <1>1, <1>4, NoneIsNoUser
<1>6. \A v \in Users : Knows(r, v)' <=> Knows(r, v)
  BY <1>3, <1>5 DEF Knows
<1>7. \A v \in Users : ControllersAt(r, v)' = ControllersAt(r, v)
  BY <1>3, <1>4, <1>6 DEF ControllersAt
<1>8. \A v \in Users :
        HighlightsAt(r, v)' =
          IF v # e.user \/ e.change = "remove" THEN HighlightsAt(r, v)
          ELSE IF e.change = "add" THEN HighlightsAt(r, v) \cup {e.entity} ELSE {}
  BY <1>3, <1>4, <1>5, <1>6 DEF HighlightsAt, Knows
<1>9. \A u \in Users : ClientAt(r, u) /\ u # e.user =>
        view'[u] = [view[u] EXCEPT !.highlights = ShowHighlighting(@, e)]
  BY DEF HandleHighlightingUpdate, BroadcastExcept
<1>10. \A u \in Users : view[u] \in View
  BY DEF TypeOK
<1>11. \A u \in Users : ClientAt(r, u) /\ u # e.user =>
         /\ view'[u].known = view[u].known
         /\ view'[u].controllers = view[u].controllers
         /\ view'[u].highlights = ShowHighlighting(view[u].highlights, e)
  BY <1>9, <1>10 DEF View
<1> QED BY <1>1, <1>6, <1>7, <1>8, <1>11

LEMMA ResetEffects ==
  ASSUME TypeOK, NEW r \in Replicas, HandleAllHighlightsReset(r)
  PROVE  LET e == Head(inbox[r]) IN
         /\ e.event = "all_highlights_reset"
         /\ \A v \in Users :
              /\ Knows(r, v)' <=> Knows(r, v)
              /\ ControllersAt(r, v)' = ControllersAt(r, v)
         /\ \A u \in Users : ClientAt(r, u) /\ u # e.user =>
              /\ view'[u].known = view[u].known
              /\ view'[u].controllers = view[u].controllers
              /\ view'[u].highlights = {}
<1> DEFINE e == Head(inbox[r])
<1>1. e.event = "all_highlights_reset"
  BY HandledEvent DEF HandleAllHighlightsReset
<1>2. \A v \in Users :
        users'[r][v] = IF Knows(r, v) THEN [users[r][v] EXCEPT !.highlighted = {}] ELSE None
  BY DEF HandleAllHighlightsReset, TypeOK
<1>3. \A m \in UserModel : /\ [m EXCEPT !.highlighted = {}] # None
                           /\ [m EXCEPT !.highlighted = {}].controllers = m.controllers
  BY NoneIsNoUser DEF UserModel
<1>4. \A v \in Users : Knows(r, v) => users[r][v] \in UserModel
  BY DEF Knows, TypeOK
<1>5. \A v \in Users : Knows(r, v)' <=> Knows(r, v)
  BY <1>2, <1>3, <1>4 DEF Knows
<1>6. \A v \in Users : ControllersAt(r, v)' = ControllersAt(r, v)
  BY <1>2, <1>3, <1>4, <1>5 DEF ControllersAt
<1>7. \A u \in Users : ClientAt(r, u) /\ u # e.user =>
        view'[u] = [view[u] EXCEPT !.highlights = {}]
  BY DEF HandleAllHighlightsReset, BroadcastExcept
<1>8. \A u \in Users : view[u] \in View
  BY DEF TypeOK
<1>9. \A u \in Users : ClientAt(r, u) /\ u # e.user =>
        /\ view'[u].known = view[u].known
        /\ view'[u].controllers = view[u].controllers
        /\ view'[u].highlights = {}
  BY <1>7, <1>8 DEF View
<1> QED BY <1>1, <1>5, <1>6, <1>9

LEMMA SpectatingEffects ==
  ASSUME TypeOK, NEW r \in Replicas, HandleSpectatingUpdate(r)
  PROVE  /\ Head(inbox[r]).event = "spectating_update"
         /\ \A v \in Users :
              /\ Knows(r, v)' <=> Knows(r, v)
              /\ ControllersAt(r, v)' = ControllersAt(r, v)
              /\ HighlightsAt(r, v)' = HighlightsAt(r, v)
         /\ view' = view
<1> DEFINE e == Head(inbox[r])
<1>1. /\ e \in Event /\ e.event = "spectating_update" /\ e.isSpectating \in BOOLEAN
      /\ \A v \in e.spectators \cap Users : Knows(r, v)
  BY HandledEvent, EventFields DEF HandleSpectatingUpdate, Needs
<1>2. \A v \in Users :
        users'[r][v] = IF v \in e.spectators
                         THEN [users[r][v] EXCEPT !.spectating = e.isSpectating]
                         ELSE users[r][v]
  BY DEF HandleSpectatingUpdate, TypeOK
<1>3. \A m \in UserModel : LET n == [m EXCEPT !.spectating = e.isSpectating]
                           IN /\ n # None /\ n.controllers = m.controllers
                              /\ n.highlighted = m.highlighted
  BY <1>1, NoneIsNoUser DEF UserModel
<1>4. \A v \in Users : Knows(r, v) => users[r][v] \in UserModel
  BY DEF Knows, TypeOK
<1>5. \A v \in Users : Knows(r, v)' <=> Knows(r, v)
  BY <1>1, <1>2, <1>3, <1>4 DEF Knows
<1>6. \A v \in Users : /\ ControllersAt(r, v)' = ControllersAt(r, v)
                       /\ HighlightsAt(r, v)' = HighlightsAt(r, v)
  BY <1>2, <1>3, <1>4, <1>5 DEF ControllersAt, HighlightsAt
<1>7. view' = view
  BY DEF HandleSpectatingUpdate
<1> QED BY <1>1, <1>5, <1>6, <1>7

LEMMA ControllerConnectEffects ==
  ASSUME TypeOK, NEW r \in Replicas, HandleUserControllerConnect(r)
  PROVE  LET e == Head(inbox[r]) IN
         /\ e.event = "user_controller_connect"
         /\ \A v \in Users :
              /\ Knows(r, v)' <=> Knows(r, v)
              /\ ControllersAt(r, v)' = IF v = e.user THEN ControllersAt(r, v) \cup {e.controller}
                                        ELSE ControllersAt(r, v)
              /\ HighlightsAt(r, v)' = HighlightsAt(r, v)
         /\ \A u \in Users : ClientAt(r, u) /\ u # e.user =>
              /\ view'[u].known = view[u].known
              /\ view'[u].controllers = view[u].controllers \cup {<<e.user, e.controller>>}
              /\ view'[u].highlights = view[u].highlights
<1> DEFINE e == Head(inbox[r])
<1>1. /\ e \in Event /\ e.event = "user_controller_connect" /\ e.user \in Users
      /\ e.controller \in Controllers /\ users[r][e.user] \in UserModel
  BY HandledEvent, EventFields, SenderKnown DEF HandleUserControllerConnect
<1> DEFINE m == users[r][e.user]
           n == [m EXCEPT !.controllers = @ \cup {e.controller}]
<1>2. \A v \in Users : users'[r][v] = IF v = e.user THEN n ELSE users[r][v]
  <2>1. users' = [users EXCEPT ![r] = [users[r] EXCEPT ![e.user] = n]]
    BY <1>1 DEF HandleUserControllerConnect, TypeOK
  <2> HIDE DEF n
  <2> QED BY <1>1, <2>1 DEF TypeOK
<1>3. /\ n # None /\ m # None /\ n.controllers = m.controllers \cup {e.controller}
      /\ n.highlighted = m.highlighted
  BY <1>1, NoneIsNoUser DEF UserModel
<1> HIDE DEF n
<1>4. \A v \in Users : Knows(r, v)' <=> Knows(r, v)
  BY <1>2, <1>3 DEF Knows
<1>5. \A v \in Users :
        /\ ControllersAt(r, v)' = IF v = e.user THEN ControllersAt(r, v) \cup {e.controller}
                                  ELSE ControllersAt(r, v)
        /\ HighlightsAt(r, v)' = HighlightsAt(r, v)
  BY <1>2, <1>3, <1>4 DEF ControllersAt, HighlightsAt, Knows
<1>6. \A u \in Users : ClientAt(r, u) /\ u # e.user =>
        view'[u] = [view[u] EXCEPT !.controllers = @ \cup {<<e.user, e.controller>>}]
  BY DEF HandleUserControllerConnect, BroadcastExcept
<1>7. \A u \in Users : view[u] \in View
  BY DEF TypeOK
<1>8. \A u \in Users : ClientAt(r, u) /\ u # e.user =>
        /\ view'[u].known = view[u].known
        /\ view'[u].controllers = view[u].controllers \cup {<<e.user, e.controller>>}
        /\ view'[u].highlights = view[u].highlights
  BY <1>6, <1>7 DEF View
<1> QED BY <1>1, <1>4, <1>5, <1>8

LEMMA ControllerDisconnectEffects ==
  ASSUME TypeOK, NEW r \in Replicas, HandleUserControllerDisconnect(r)
  PROVE  LET e == Head(inbox[r]) IN
         /\ e.event = "user_controller_disconnect"
         /\ \A v \in Users :
              /\ Knows(r, v)' <=> Knows(r, v)
              /\ ControllersAt(r, v)' = IF v = e.user THEN ControllersAt(r, v) \ {e.controller}
                                        ELSE ControllersAt(r, v)
              /\ HighlightsAt(r, v)' = HighlightsAt(r, v)
         /\ \A u \in Users : ClientAt(r, u) /\ u # e.user =>
              /\ view'[u].known = view[u].known
              /\ view'[u].controllers = view[u].controllers \ {<<e.user, e.controller>>}
              /\ view'[u].highlights = view[u].highlights
<1> DEFINE e == Head(inbox[r])
<1>1. /\ e \in Event /\ e.event = "user_controller_disconnect" /\ e.user \in Users
      /\ e.controller \in Controllers /\ users[r][e.user] \in UserModel
  BY HandledEvent, EventFields, SenderKnown DEF HandleUserControllerDisconnect
<1> DEFINE m == users[r][e.user]
           n == [m EXCEPT !.controllers = @ \ {e.controller}]
<1>2. \A v \in Users : users'[r][v] = IF v = e.user THEN n ELSE users[r][v]
  <2>1. users' = [users EXCEPT ![r] = [users[r] EXCEPT ![e.user] = n]]
    BY <1>1 DEF HandleUserControllerDisconnect, TypeOK
  <2> HIDE DEF n
  <2> QED BY <1>1, <2>1 DEF TypeOK
<1>3. /\ n # None /\ m # None /\ n.controllers = m.controllers \ {e.controller}
      /\ n.highlighted = m.highlighted
  BY <1>1, NoneIsNoUser DEF UserModel
<1> HIDE DEF n
<1>4. \A v \in Users : Knows(r, v)' <=> Knows(r, v)
  BY <1>2, <1>3 DEF Knows
<1>5. \A v \in Users :
        /\ ControllersAt(r, v)' = IF v = e.user THEN ControllersAt(r, v) \ {e.controller}
                                  ELSE ControllersAt(r, v)
        /\ HighlightsAt(r, v)' = HighlightsAt(r, v)
  BY <1>2, <1>3, <1>4 DEF ControllersAt, HighlightsAt, Knows
<1>6. \A u \in Users : ClientAt(r, u) /\ u # e.user =>
        view'[u] = [view[u] EXCEPT !.controllers = @ \ {<<e.user, e.controller>>}]
  BY DEF HandleUserControllerDisconnect, BroadcastExcept
<1>7. \A u \in Users : view[u] \in View
  BY DEF TypeOK
<1>8. \A u \in Users : ClientAt(r, u) /\ u # e.user =>
        /\ view'[u].known = view[u].known
        /\ view'[u].controllers = view[u].controllers \ {<<e.user, e.controller>>}
        /\ view'[u].highlights = view[u].highlights
  BY <1>6, <1>7 DEF View
<1> QED BY <1>1, <1>4, <1>5, <1>8

(* A handler keeps one client of its replica informed.                     *)
LEMMA HandleClient ==
  ASSUME ActivityInv, NEW r \in Replicas, Handle(r), NEW u \in Users, ClientAt(r, u), Untold(u)
  PROVE  /\ Agrees(r, u)'
         /\ u \notin resetters => Recorded(r, u)'
         /\ Untold(u)'
<1> DEFINE e == Head(inbox[r])
<1>1. TypeOK /\ inbox \in [Replicas -> Seq(Event)]
  BY DEF ActivityInv, KnownInv, TypeOK
<1>2. inbox[r] # <<>> /\ Consume(r)
  BY HandledPlainly DEF Handles, Receives
<1>3. e \in Event /\ e.user \in Users
  BY <1>1, <1>2, ConsumeQueues, EventFields
<1>4. \A event, v : Waiting(r, event, v) <=>
                      Waiting(r, event, v)' \/ (e.event = event /\ e.user = v)
  BY <1>1, <1>2, ConsumeWaiting
<1>5. Agrees(r, u) /\ (u \notin resetters => Recorded(r, u))
  BY InPairs
<1>6. u = e.user => e.event # "user_disconnect" /\ (u \notin resetters => e.event # "all_highlights_reset")
  <2>1. ~ Waiting(r, "user_disconnect", u)
    BY DEF ActivityInv, KnownInv, MembersKnown, ClientAt
  <2>2. u \notin resetters => ~ Waiting(r, "all_highlights_reset", u)
    BY DEF ActivityInv, ResetsRemembered
  <2> QED BY <1>4, <2>1, <2>2
<1>7. u = e.user => view'[u] = view[u]
  BY <1>1, HandleLocally
<1> HIDE DEF e
<1>8. CASE HandleUserConnected(r)
  <2>1. /\ e.event = "user_connected"
        /\ \A v \in Users : /\ Knows(r, v)' <=> Knows(r, v) \/ v = e.user
                            /\ ControllersAt(r, v)' = ControllersAt(r, v)
                            /\ HighlightsAt(r, v)' = HighlightsAt(r, v)
        /\ u # e.user => /\ view'[u].known = view[u].known \cup {e.user}
                         /\ view'[u].controllers = view[u].controllers
                         /\ view'[u].highlights = view[u].highlights
    BY <1>1, <1>8, ConnectedEffects DEF e
  <2>2. Agrees(r, u)'
    BY <1>4, <1>5, <1>7, <2>1 DEF Agrees
  <2> QED BY <1>5, <1>7, <2>1, <2>2 DEF Recorded, Untold
<1>9. CASE HandleUserDisconnected(r)
  <2>1. /\ e.event = "user_disconnect"
        /\ \A v \in Users :
             /\ Knows(r, v)' <=> Knows(r, v) /\ v # e.user
             /\ ControllersAt(r, v)' = IF v = e.user THEN {} ELSE ControllersAt(r, v)
             /\ HighlightsAt(r, v)' = IF v = e.user THEN {} ELSE HighlightsAt(r, v)
        /\ u # e.user => /\ view'[u].known = view[u].known \ {e.user}
                         /\ view'[u].controllers = Without(view[u].controllers, e.user)
                         /\ view'[u].highlights = Without(view[u].highlights, e.user)
    BY <1>1, <1>9, DisconnectedEffects DEF e
  <2>2. u # e.user
    BY <1>6, <2>1
  <2>3. Agrees(r, u)'
    BY <1>4, <1>5, <2>1, <2>2 DEF Agrees, Without
  <2> QED BY <1>5, <2>1, <2>2, <2>3 DEF Recorded, Untold, Without
<1>10. CASE HandleHighlightingUpdate(r)
  <2>1. /\ e.event = "highlighting_update" /\ e.change \in HighlightingChanges
        /\ \A v \in Users :
             /\ Knows(r, v)' <=> Knows(r, v)
             /\ ControllersAt(r, v)' = ControllersAt(r, v)
             /\ HighlightsAt(r, v)' =
                  IF v # e.user \/ e.change = "remove" THEN HighlightsAt(r, v)
                  ELSE IF e.change = "add" THEN HighlightsAt(r, v) \cup {e.entity} ELSE {}
        /\ u # e.user => /\ view'[u].known = view[u].known
                         /\ view'[u].controllers = view[u].controllers
                         /\ view'[u].highlights = ShowHighlighting(view[u].highlights, e)
    BY <1>1, <1>10, HighlightingEffects DEF e
  <2>2. Agrees(r, u)'
    BY <1>4, <1>5, <1>7, <2>1 DEF Agrees
  <2>3. CASE u = e.user
    BY <1>5, <1>7, <2>1, <2>2, <2>3 DEF Recorded, Untold
  <2>4. CASE u # e.user
    <3>1. \A v \in Users, x \in Entities : <<v, x>> \in view'[u].highlights =>
            /\ <<v, x>> \in view[u].highlights \/ (v = e.user /\ x = e.entity /\ e.change = "add")
            /\ v = e.user => e.change # "removeAll"
      BY <2>1, <2>4 DEF ShowHighlighting, Without, HighlightingChanges
    <3>2. Untold(u)'
      BY <2>4, <3>1 DEF Untold
    <3>3. u \notin resetters => Recorded(r, u)'
      BY <1>5, <2>1, <3>1 DEF Recorded, HighlightingChanges
    <3> QED BY <2>2, <3>2, <3>3
  <2> QED BY <2>3, <2>4
<1>11. CASE HandleAllHighlightsReset(r)
  <2>1. /\ e.event = "all_highlights_reset"
        /\ \A v \in Users : /\ Knows(r, v)' <=> Knows(r, v)
                            /\ ControllersAt(r, v)' = ControllersAt(r, v)
        /\ u # e.user => /\ view'[u].known = view[u].known
                         /\ view'[u].controllers = view[u].controllers
                         /\ view'[u].highlights = {}
    BY <1>1, <1>11, ResetEffects DEF e
  <2>2. Agrees(r, u)'
    BY <1>4, <1>5, <1>7, <2>1 DEF Agrees
  <2> QED BY <1>6, <1>7, <2>1, <2>2 DEF Recorded, Untold
<1>12. CASE HandleSpectatingUpdate(r)
  <2>1. /\ e.event = "spectating_update"
        /\ \A v \in Users : /\ Knows(r, v)' <=> Knows(r, v)
                            /\ ControllersAt(r, v)' = ControllersAt(r, v)
                            /\ HighlightsAt(r, v)' = HighlightsAt(r, v)
        /\ view' = view
    BY <1>1, <1>12, SpectatingEffects DEF e
  <2>2. Agrees(r, u)'
    BY <1>4, <1>5, <2>1 DEF Agrees
  <2> QED BY <1>5, <2>1, <2>2 DEF Recorded, Untold
<1>13. CASE HandleUserControllerConnect(r)
  <2>1. /\ e.event = "user_controller_connect"
        /\ \A v \in Users :
             /\ Knows(r, v)' <=> Knows(r, v)
             /\ ControllersAt(r, v)' = IF v = e.user THEN ControllersAt(r, v) \cup {e.controller}
                                       ELSE ControllersAt(r, v)
             /\ HighlightsAt(r, v)' = HighlightsAt(r, v)
        /\ u # e.user =>
             /\ view'[u].known = view[u].known
             /\ view'[u].controllers = view[u].controllers \cup {<<e.user, e.controller>>}
             /\ view'[u].highlights = view[u].highlights
    BY <1>1, <1>13, ControllerConnectEffects DEF e
  <2>2. Agrees(r, u)'
    BY <1>4, <1>5, <1>7, <2>1 DEF Agrees
  <2> QED BY <1>5, <1>7, <2>1, <2>2 DEF Recorded, Untold
<1>14. CASE HandleUserControllerDisconnect(r)
  <2>1. /\ e.event = "user_controller_disconnect"
        /\ \A v \in Users :
             /\ Knows(r, v)' <=> Knows(r, v)
             /\ ControllersAt(r, v)' = IF v = e.user THEN ControllersAt(r, v) \ {e.controller}
                                       ELSE ControllersAt(r, v)
             /\ HighlightsAt(r, v)' = HighlightsAt(r, v)
        /\ u # e.user =>
             /\ view'[u].known = view[u].known
             /\ view'[u].controllers = view[u].controllers \ {<<e.user, e.controller>>}
             /\ view'[u].highlights = view[u].highlights
    BY <1>1, <1>14, ControllerDisconnectEffects DEF e
  <2>2. Agrees(r, u)'
    BY <1>4, <1>5, <1>7, <2>1 DEF Agrees
  <2> QED BY <1>5, <1>7, <2>1, <2>2 DEF Recorded, Untold
<1>15. CASE HandleUserPositions(r)
  <2>1. users' = users /\ view' = view /\ e.event = "user_positions"
    BY <1>15 DEF HandleUserPositions, Handles, Receives, e
  <2>2. \A v \in Users : /\ Knows(r, v)' <=> Knows(r, v)
                         /\ ControllersAt(r, v)' = ControllersAt(r, v)
                         /\ HighlightsAt(r, v)' = HighlightsAt(r, v)
    BY <2>1 DEF Knows, ControllersAt, HighlightsAt
  <2>3. Agrees(r, u)'
    BY <1>4, <1>5, <2>1, <2>2 DEF Agrees
  <2> QED BY <1>5, <2>1, <2>2, <2>3 DEF Recorded, Untold
<1> QED BY <1>8, <1>9, <1>10, <1>11, <1>12, <1>13, <1>14, <1>15 DEF Handle

(* What a client is told, if it keeps its place and nothing is recorded:   *)
(* arrivals that are on their way stay so.                                 *)
LEMMA UntouchedClients ==
  ASSUME ActivityInv, users' = users, view' = view, resetters \subseteq resetters',
         \A r \in Replicas, u \in Users : ClientAt(r, u)' => ClientAt(r, u),
         \A r \in Replicas, u \in Users :
           Waiting(r, "user_connected", u) => Waiting(r, "user_connected", u)'
  PROVE  /\ \A r \in Replicas, u \in Users : ClientAt(r, u)' =>
              Agrees(r, u)' /\ (u \notin resetters' => Recorded(r, u)')
         /\ \A u \in Users : Untold(u)'
<1>1. \A r \in Replicas, u \in Users : ClientAt(r, u)' =>
        Agrees(r, u) /\ (u \notin resetters' => Recorded(r, u))
  BY InPairs
<1>2. \A r \in Replicas, v \in Users : /\ Knows(r, v)' <=> Knows(r, v)
                                       /\ ControllersAt(r, v)' = ControllersAt(r, v)
                                       /\ HighlightsAt(r, v)' = HighlightsAt(r, v)
  BY DEF Knows, ControllersAt, HighlightsAt
<1>3. \A r \in Replicas, u \in Users : Agrees(r, u) => Agrees(r, u)'
  BY <1>2 DEF Agrees
<1>4. \A r \in Replicas, u \in Users : Recorded(r, u) => Recorded(r, u)'
  BY <1>2 DEF Recorded
<1>5. \A u \in Users : Untold(u)'
  BY InPairs DEF Untold
<1> QED BY <1>1, <1>3, <1>4, <1>5

(* Publishing an event, which is a reset only if its sender is remembered. *)
LEMMA PublishTold ==
  ASSUME ActivityInv, TypeOK', NEW e \in Event, Publish(e),
         users' = users, view' = view, home' = home, resetters \subseteq resetters',
         e.event = "all_highlights_reset" => e.user \in resetters',
         \A u \in Users : presence'[u] = "in" => presence[u] = "in"
  PROVE  KnownInv' => ActivityInv'
<1>1. inbox \in [Replicas -> Seq(Event)] /\ PublishTo(Replicas, e)
  BY DEF ActivityInv, KnownInv, TypeOK, Publish
<1>2. \A r \in Replicas, u \in Users, k \in PlainEvents :
        Waiting(r, k, u)' <=> Waiting(r, k, u) \/ (e.event = k /\ e.user = u)
  BY <1>1, PublishToWaiting
<1>3. ResetsRemembered'
  BY <1>2 DEF ActivityInv, ResetsRemembered, PlainEvents
<1>4. \A r \in Replicas, u \in Users : ClientAt(r, u)' => ClientAt(r, u)
  BY DEF ClientAt
<1>5. \A r \in Replicas, u \in Users :
        Waiting(r, "user_connected", u) => Waiting(r, "user_connected", u)'
  BY <1>2 DEF PlainEvents
<1>6. ClientsKnowRoom' /\ HighlightsRecorded' /\ OwnHighlightsUntold'
  BY <1>4, <1>5, UntouchedClients, FromPairs
<1> QED BY <1>3, <1>6 DEF ActivityInv

(* A client message that publishes nothing.                                *)
LEMMA UnpublishedTold ==
  ASSUME ActivityInv, TypeOK', inbox' = inbox, users' = users, view' = view,
         presence' = presence, home' = home, resetters' = resetters
  PROVE  KnownInv' => ActivityInv'
<1>1. \A r \in Replicas, u \in Users, k \in PlainEvents : Waiting(r, k, u)' <=> Waiting(r, k, u)
  BY DEF Waiting, Queued
<1>2. ResetsRemembered'
  BY <1>1 DEF ActivityInv, ResetsRemembered, PlainEvents
<1>3. \A r \in Replicas, u \in Users : ClientAt(r, u)' => ClientAt(r, u)
  BY DEF ClientAt
<1>4. \A r \in Replicas, u \in Users :
        Waiting(r, "user_connected", u) => Waiting(r, "user_connected", u)'
  BY <1>1 DEF PlainEvents
<1>5. ClientsKnowRoom' /\ HighlightsRecorded' /\ OwnHighlightsUntold'
  BY <1>3, <1>4, UntouchedClients, FromPairs
<1> QED BY <1>2, <1>5 DEF ActivityInv

(* A client that joins is told what its replica has recorded; whoever is   *)
(* there hears of it by the event.                                         *)
LEMMA ConnectTold ==
  ASSUME ActivityInv, TypeOK', NEW u \in Users, NEW r \in Replicas, Connect(u, r)
  PROVE  KnownInv' => ActivityInv'
<1> DEFINE e == UserEvent("user_connected", u)
<1>1. /\ TypeOK /\ inbox \in [Replicas -> Seq(Event)] /\ PublishTo(Replicas, e)
      /\ e \in Event /\ e.event = "user_connected" /\ e.user = u
  BY EventsTyped DEF ActivityInv, KnownInv, TypeOK, Connect, Publish, PlainEvents, UserEvent
<1> HIDE DEF e
<1>2. \A q \in Replicas, v \in Users, k \in PlainEvents :
        Waiting(q, k, v)' <=> Waiting(q, k, v) \/ (k = "user_connected" /\ v = u)
  BY <1>1, PublishToWaiting
<1>3. ResetsRemembered'
  BY <1>2 DEF ActivityInv, ResetsRemembered, PlainEvents, Connect, historyVars
<1>4. ~ Knows(r, u) /\ ControllersAt(r, u) = {} /\ HighlightsAt(r, u) = {}
  BY NothingNew DEF ActivityInv, KnownInv, NewcomersUnknown, Connect
<1>5. \A q \in Replicas, v \in Users :
        users'[q][v] = IF q = r /\ v = u THEN NewUser ELSE users[q][v]
  BY <1>1 DEF Connect, TypeOK
<1>6. \A q \in Replicas, v \in Users :
        /\ Knows(q, v)' <=> Knows(q, v) \/ (q = r /\ v = u)
        /\ ControllersAt(q, v)' = ControllersAt(q, v)
        /\ HighlightsAt(q, v)' = HighlightsAt(q, v)
  <2>1. \A q \in Replicas, v \in Users : Knows(q, v)' <=> Knows(q, v) \/ (q = r /\ v = u)
    BY <1>5, NewUserNotNone DEF Knows
  <2> QED BY <1>4, <1>5, <2>1, NewUserFields DEF ControllersAt, HighlightsAt
<1>7. /\ \A q \in Replicas, v \in Users : v # u => (ClientAt(q, v)' <=> ClientAt(q, v))
      /\ \A q \in Replicas : ClientAt(q, u)' => q = r
      /\ resetters' = resetters
  BY <1>1 DEF ClientAt, Connect, TypeOK, historyVars
<1>8. \A v \in Users : view'[v] = IF v = u THEN Snapshot(r, u) ELSE view[v]
  BY <1>1 DEF Connect, TypeOK
<1>9. ASSUME NEW q \in Replicas, NEW v \in Users, ClientAt(q, v)'
      PROVE  Agrees(q, v)' /\ (v \notin resetters' => Recorded(q, v)')
  <2>1. CASE v # u
    <3>1. Agrees(q, v) /\ (v \notin resetters => Recorded(q, v))
      BY <1>7, <1>9, <2>1, InPairs
    <3>2. Agrees(q, v)'
      BY <1>2, <1>6, <1>8, <2>1, <3>1 DEF Agrees, PlainEvents
    <3> QED BY <1>6, <1>7, <1>8, <2>1, <3>1, <3>2 DEF Recorded
  <2>2. CASE v = u
    <3>1. q = r /\ view'[u] = Snapshot(r, u)
      BY <1>7, <1>8, <1>9, <2>2
    <3>2. Agrees(r, u)'
      BY <1>6, <3>1 DEF Agrees, Snapshot
    <3>3. Recorded(r, u)'
      BY <1>6, <3>1 DEF Recorded, Snapshot
    <3> QED BY <2>2, <3>1, <3>2, <3>3
  <2> QED BY <2>1, <2>2
<1>10. ASSUME NEW v \in Users PROVE Untold(v)'
  <2>1. CASE v # u
    BY <1>8, <2>1, InPairs DEF Untold
  <2>2. CASE v = u
    <3>1. view'[u].highlights =
            {p \in (Users \ {u}) \X Listed : p[2] \in HighlightsAt(r, p[1])}
      <4>1. Snapshot(r, u).highlights =
              {p \in (Users \ {u}) \X Listed : p[2] \in HighlightsAt(r, p[1])}
        BY DEF Snapshot
      <4> QED BY <1>8, <4>1
    <3> QED BY <2>2, <3>1 DEF Untold
  <2> QED BY <2>1, <2>2
<1>11. ClientsKnowRoom' /\ HighlightsRecorded' /\ OwnHighlightsUntold'
  BY <1>9, <1>10, FromPairs
<1> QED BY <1>3, <1>11 DEF ActivityInv

LEMMA HandleTold ==
  ASSUME ActivityInv, TypeOK', NEW r \in Replicas, Handle(r)
  PROVE  KnownInv' => ActivityInv'
<1>1. TypeOK /\ inbox \in [Replicas -> Seq(Event)] /\ inbox[r] # <<>> /\ Consume(r)
  BY HandledPlainly DEF ActivityInv, KnownInv, TypeOK, Handles, Receives
<1>2. /\ presence' = presence /\ home' = home /\ resetters' = resetters
      /\ \A q \in Replicas : q # r => users'[q] = users[q] /\ inbox'[q] = inbox[q]
      /\ \A u \in Users : ~ ClientAt(r, u) \/ u = Head(inbox[r]).user => view'[u] = view[u]
  BY <1>1, HandleLocally
<1>3. \A q \in Replicas, v \in Users :
        Waiting(q, "all_highlights_reset", v)' => Waiting(q, "all_highlights_reset", v)
  <2>1. \A v : Waiting(r, "all_highlights_reset", v)' => Waiting(r, "all_highlights_reset", v)
    BY <1>1, ConsumeWaiting
  <2>2. \A q \in Replicas : q # r =>
          \A v : Waiting(q, "all_highlights_reset", v)' <=> Waiting(q, "all_highlights_reset", v)
    BY <1>2 DEF Waiting, Queued
  <2> QED BY <2>1, <2>2
<1>4. ResetsRemembered'
  BY <1>2, <1>3 DEF ActivityInv, ResetsRemembered
<1>5. \A q \in Replicas, u \in Users : ClientAt(q, u)' <=> ClientAt(q, u)
  BY <1>2 DEF ClientAt
<1>6. ASSUME NEW q \in Replicas, NEW u \in Users, ClientAt(q, u)
      PROVE  /\ Agrees(q, u)' /\ (u \notin resetters' => Recorded(q, u)')
             /\ Untold(u)'
  <2>1. CASE q = r
    BY <1>2, <1>6, <2>1, HandleClient, InPairs
  <2>2. CASE q # r
    <3>1. /\ Agrees(q, u) /\ (u \notin resetters => Recorded(q, u)) /\ Untold(u)
          /\ view'[u] = view[u]
      BY <1>2, <1>6, <2>2, InPairs DEF ClientAt
    <3>2. \A v \in Users : /\ Knows(q, v)' <=> Knows(q, v)
                           /\ ControllersAt(q, v)' = ControllersAt(q, v)
                           /\ HighlightsAt(q, v)' = HighlightsAt(q, v)
                           /\ Waiting(q, "user_connected", v)' <=> Waiting(q, "user_connected", v)
      BY <1>2, <2>2 DEF Knows, ControllersAt, HighlightsAt, Waiting, Queued
    <3>3. Agrees(q, u)'
      BY <3>1, <3>2 DEF Agrees
    <3> QED BY <1>2, <3>1, <3>2, <3>3 DEF Recorded, Untold
  <2> QED BY <2>1, <2>2
<1>7. \A u \in Users : Untold(u)'
  <2> SUFFICES ASSUME NEW u \in Users, ~ \E q \in Replicas : ClientAt(q, u)
               PROVE  Untold(u)'
    BY <1>6
  <2> QED BY <1>2, InPairs DEF Untold
<1>8. ClientsKnowRoom' /\ HighlightsRecorded' /\ OwnHighlightsUntold'
  BY <1>5, <1>6, <1>7, FromPairs
<1> QED BY <1>4, <1>8 DEF ActivityInv

LEMMA InitActivity == Init => ActivityInv
<1> SUFFICES ASSUME Init PROVE ActivityInv
  OBVIOUS
<1> USE ActivityAssumption
<1>1. KnownInv
  BY InitKnown
<1>2. \A r \in Replicas : inbox[r] = <<>>
  BY DEF Init, NoEvents
<1>3. ResetsRemembered
  BY <1>2 DEF ResetsRemembered, Waiting, Queued
<1>4. \A u \in Users : view[u].controllers = {} /\ view[u].highlights = {}
  BY DEF Init, NoView
<1>5. HighlightsRecorded /\ OwnHighlightsUntold
  BY <1>4 DEF HighlightsRecorded, OwnHighlightsUntold
<1>6. ASSUME NEW r \in Replicas, NEW u \in Users, ClientAt(r, u)
      PROVE  /\ \A v \in Users \ {u} :
                  /\ v \in view[u].known => Knows(r, v)
                  /\ Knows(r, v) => v \in view[u].known \/ Waiting(r, "user_connected", v)
             /\ view[u].controllers =
                  {p \in (Users \ {u}) \X Controllers : p[2] \in ControllersAt(r, p[1])}
  <2>1. u \in Stayers /\ view[u].known = Stayers \ {u}
    BY <1>6 DEF Init, ClientAt, NoView
  <2>2. \A v \in Users : /\ Knows(r, v) <=> v \in Stayers
                         /\ ControllersAt(r, v) = {}
    BY NewUserNotNone, NewUserFields DEF Init, Knows, ControllersAt
  <2> QED BY <1>4, <2>1, <2>2
<1>7. ClientsKnowRoom
  BY <1>6 DEF ClientsKnowRoom
<1> QED BY <1>1, <1>3, <1>5, <1>7 DEF ActivityInv

LEMMA StepActivity == ActivityInv /\ [Next]_vars => ActivityInv'
<1> SUFFICES ASSUME ActivityInv, [Next]_vars PROVE ActivityInv'
  OBVIOUS
<1>1. KnownInv' /\ TypeOK' /\ TypeOK
  BY StepKnown DEF ActivityInv, KnownInv
<1>2. ASSUME NEW u \in Users, NEW r \in Replicas, Connect(u, r)
      PROVE  ActivityInv'
  BY <1>1, <1>2, ConnectTold
<1>3. ASSUME NEW u \in Users, Disconnect(u)
      PROVE  ActivityInv'
  <2> DEFINE e == UserEvent("user_disconnect", u)
  <2>1. e \in Event /\ e.event = "user_disconnect"
    BY EventsTyped DEF PlainEvents, UserEvent
  <2>2. Publish(e)
    BY <1>3 DEF Disconnect
  <2> HIDE DEF e
  <2>3. \A v \in Users : presence'[v] = "in" => presence[v] = "in"
    BY <1>1, <1>3 DEF Disconnect, TypeOK
  <2>4. users' = users /\ view' = view /\ home' = home /\ resetters' = resetters
    BY <1>3 DEF Disconnect, historyVars
  <2> QED BY <1>1, <2>1, <2>2, <2>3, <2>4, PublishTold
<1>4. ASSUME NEW u \in Users, ClientMessage(u)
      PROVE  ActivityInv'
  <2>1. ASSUME NEW entity \in Entities, NEW change \in HighlightingChanges,
               HighlightingUpdate(u, entity, change)
        PROVE  ActivityInv'
    BY <1>1, <2>1, EventsTyped, PublishTold DEF HighlightingUpdate, clientVars, historyVars
  <2>2. CASE AllHighlightsReset(u)
    BY <1>1, <2>2, EventsTyped, PublishTold
       DEF AllHighlightsReset, UserEvent, PlainEvents, clientVars
  <2>3. CASE UserPositions(u)
    BY <1>1, <2>3, EventsTyped, PublishTold
       DEF UserPositions, UserEvent, PlainEvents, clientVars, historyVars
  <2>4. ASSUME NEW S \in SpectatorLists, NEW b \in BOOLEAN, SpectatingUpdate(u, S, b)
        PROVE  ActivityInv'
    BY <1>1, <2>4, EventsTyped, PublishTold DEF SpectatingUpdate, historyVars
  <2>5. ASSUME NEW S \in SpectatorLists, NEW b \in BOOLEAN, SpectatingUpdateFails(u, S, b)
        PROVE  ActivityInv'
    <3>1. /\ inbox' = inbox /\ users' = users /\ view' = view
          /\ presence' = presence /\ home' = home /\ resetters' = resetters
      BY <2>5 DEF SpectatingUpdateFails
    <3> QED BY <1>1, <3>1, UnpublishedTold
  <2>6. ASSUME NEW c \in Controllers, UserControllerConnect(u, c)
        PROVE  ActivityInv'
    BY <1>1, <2>6, UnpublishedTold DEF UserControllerConnect
  <2>7. ASSUME NEW c \in Controllers, UserControllerDisconnect(u, c)
        PROVE  ActivityInv'
    BY <1>1, <2>7, EventsTyped, PublishTold DEF UserControllerDisconnect, clientVars
  <2> QED BY <1>4, <2>1, <2>2, <2>3, <2>4, <2>5, <2>6, <2>7 DEF ClientMessage
<1>5. ASSUME NEW u \in Users, NEW c \in Controllers, PublishController(u, c)
      PROVE  ActivityInv'
  <2>1. CASE presence[u] = "in"
    BY <1>1, <1>5, <2>1, EventsTyped, PublishTold DEF PublishController, historyVars
  <2>2. CASE presence[u] # "in"
    BY <1>1, <1>5, <2>2, UnpublishedTold DEF PublishController, historyVars
  <2> QED BY <2>1, <2>2
<1>6. ASSUME NEW r \in Replicas, Handle(r)
      PROVE  ActivityInv'
  BY <1>1, <1>6, HandleTold
<1>7. ASSUME NEW r \in Replicas, HandleSpectatingUpdateThrows(r)
      PROVE  ActivityInv'
  BY <1>1, <1>7, UnpublishedTold DEF HandleSpectatingUpdateThrows, historyVars
<1>8. CASE UNCHANGED vars
  BY <1>1, <1>8, UnpublishedTold DEF vars, clientVars, historyVars
<1> QED BY <1>2, <1>3, <1>4, <1>5, <1>6, <1>7, <1>8 DEF Next

(* Between the snapshot that a client is given when it joins and the       *)
(* events it is told of, no arrival, departure or controller of another    *)
(* user is lost or told twice over: ClientsKnowRoom.                       *)
THEOREM ClientsFollowRoom == Spec => []ClientsKnowRoom
<1>1. ActivityInv => ClientsKnowRoom
  BY DEF ActivityInv
<1> QED BY <1>1, InitActivity, StepActivity, PTL DEF Spec

(* No client shows a highlight that its replica has not recorded, but for  *)
(* clients that have reset all highlights themselves: HighlightsRecorded.  *)
THEOREM HighlightsKept == Spec => []HighlightsRecorded
<1>1. ActivityInv => HighlightsRecorded
  BY DEF ActivityInv
<1> QED BY <1>1, InitActivity, StepActivity, PTL DEF Spec

-----------------------------------------------------------------------------
(* One log: what ActivityAgrees rests on *)

LogEntry == [Users -> UserModel \cup {None}]

(* What an event makes of the UserModel m that is recorded of user v.      *)
AfterUser(m, v, e) ==
  CASE e.event = "user_connected" -> IF v = e.user /\ m = None THEN NewUser ELSE m
    [] e.event = "user_disconnect" -> IF v = e.user THEN None ELSE m
    [] e.event = "highlighting_update" ->
         IF v = e.user /\ m # None THEN UpdateHighlighting(m, e) ELSE m
    [] e.event = "all_highlights_reset" ->
         IF m # None THEN [m EXCEPT !.highlighted = {}] ELSE m
    [] e.event = "spectating_update" ->
         IF v \in e.spectators /\ m # None THEN [m EXCEPT !.spectating = e.isSpectating] ELSE m
    [] e.event = "user_controller_connect" ->
         IF v = e.user /\ m # None THEN [m EXCEPT !.controllers = @ \cup {e.controller}] ELSE m
    [] e.event = "user_controller_disconnect" ->
         IF v = e.user /\ m # None THEN [m EXCEPT !.controllers = @ \ {e.controller}] ELSE m
    [] e.event = "user_positions" -> m

AfterEvent(l, e) == [v \in Users |-> AfterUser(l[v], v, e)]

(* The log never has an event about a user whose UserModel is missing.     *)
Steps == {t \in LogEntry \X Event \X LogEntry :
            /\ t[3] = AfterEvent(t[1], t[2])
            /\ \A u \in Needs(t[2]) : t[1][u] # None}

(* A replica is ahead of the log where it has added a user by itself whose *)
(* arrival it has not handled.                                             *)
AtEntry(r, l) ==
  \A u \in Users :
    \/ users[r][u] = l[u]
    \/ l[u] = None /\ users[r][u] = NewUser /\ Waiting(r, "user_connected", u)

FollowsLog(r, log, n) ==
  Replays(Steps, log, n, inbox[r]) /\ AtEntry(r, log[Position(n, inbox[r])])

OneLog ==
  \E n \in Nat, log \in Log(LogEntry) :
    /\ \A r \in Replicas : FollowsLog(r, log, n)
    /\ \A u \in Users : presence[u] = "in" => log[n][u] # None

LEMMA AfterUserType ==
  ASSUME NEW m \in UserModel \cup {None}, NEW v \in Users, NEW e \in Event
  PROVE  /\ AfterUser(m, v, e) \in UserModel \cup {None}
         /\ AfterUser(m, v, e) # None <=>
              IF v # e.user \/ e.event \notin {"user_connected", "user_disconnect"}
              THEN m # None ELSE e.event = "user_connected"
<1>0. NewUser \in UserModel /\ NewUser # None
  BY NewUserNotNone DEF NewUser, UserModel
<1>1. CASE e.event = "user_connected"
  BY <1>0, <1>1 DEF AfterUser
<1>2. CASE e.event = "user_disconnect"
  BY <1>2 DEF AfterUser
<1>3. CASE e.event = "user_positions"
  BY <1>3 DEF AfterUser
<1>4. CASE m = None /\ e.event \notin {"user_connected", "user_disconnect"}
  BY <1>4, EventFields DEF AfterUser, PlainEvents
<1>5. ASSUME m # None, NEW n, n = AfterUser(m, v, e), n \in UserModel,
             e.event \notin {"user_connected", "user_disconnect"}
      PROVE  /\ AfterUser(m, v, e) \in UserModel \cup {None}
             /\ AfterUser(m, v, e) # None <=>
                  IF v # e.user \/ e.event \notin {"user_connected", "user_disconnect"}
                  THEN m # None ELSE e.event = "user_connected"
  BY <1>5, NoneIsNoUser
<1>6. CASE m # None /\ e.event = "highlighting_update"
  <2>1. m \in UserModel /\ e.change \in HighlightingChanges /\ e.entity \in Entities
    BY <1>6, EventFields
  <2>2. UpdateHighlighting(m, e) \in UserModel
    BY <2>1 DEF UpdateHighlighting, UserModel, HighlightingChanges
  <2>3. AfterUser(m, v, e) = IF v = e.user THEN UpdateHighlighting(m, e) ELSE m
    BY <1>6 DEF AfterUser
  <2> QED BY <1>5, <1>6, <2>1, <2>2, <2>3
<1>7. CASE m # None /\ e.event = "all_highlights_reset"
  <2>1. [m EXCEPT !.highlighted = {}] \in UserModel
    BY <1>7 DEF UserModel
  <2>2. AfterUser(m, v, e) = [m EXCEPT !.highlighted = {}]
    BY <1>7 DEF AfterUser
  <2> QED BY <1>5, <1>7, <2>1, <2>2
<1>8. CASE m # None /\ e.event = "spectating_update"
  <2>1. e.isSpectating \in BOOLEAN /\ m \in UserModel
    BY <1>8, EventFields
  <2>2. [m EXCEPT !.spectating = e.isSpectating] \in UserModel
    BY <2>1 DEF UserModel
  <2>3. AfterUser(m, v, e) =
          IF v \in e.spectators THEN [m EXCEPT !.spectating = e.isSpectating] ELSE m
    BY <1>8 DEF AfterUser
  <2> QED BY <1>5, <1>8, <2>1, <2>2, <2>3
<1>9. CASE m # None /\ e.event = "user_controller_connect"
  <2>1. e.controller \in Controllers /\ m \in UserModel
    BY <1>9, EventFields
  <2>2. [m EXCEPT !.controllers = @ \cup {e.controller}] \in UserModel
    BY <2>1 DEF UserModel
  <2>3. AfterUser(m, v, e) =
          IF v = e.user THEN [m EXCEPT !.controllers = @ \cup {e.controller}] ELSE m
    BY <1>9 DEF AfterUser
  <2> QED BY <1>5, <1>9, <2>1, <2>2, <2>3
<1>10. CASE m # None /\ e.event = "user_controller_disconnect"
  <2>1. e.controller \in Controllers /\ m \in UserModel
    BY <1>10, EventFields
  <2>2. [m EXCEPT !.controllers = @ \ {e.controller}] \in UserModel
    BY <2>1 DEF UserModel
  <2>3. AfterUser(m, v, e) =
          IF v = e.user THEN [m EXCEPT !.controllers = @ \ {e.controller}] ELSE m
    BY <1>10 DEF AfterUser
  <2> QED BY <1>5, <1>10, <2>1, <2>2, <2>3
<1>11. e.event \in {"user_connected", "user_disconnect", "all_highlights_reset",
                    "user_positions", "highlighting_update", "spectating_update",
                    "user_controller_connect", "user_controller_disconnect"}
  BY EventFields DEF PlainEvents
<1> QED BY <1>1, <1>2, <1>3, <1>4, <1>6, <1>7, <1>8, <1>9, <1>10, <1>11

LEMMA AfterEventType ==
  ASSUME NEW l \in LogEntry, NEW e \in Event
  PROVE  /\ AfterEvent(l, e) \in LogEntry
         /\ (\A u \in Needs(e) : l[u] # None) => <<l, e, AfterEvent(l, e)>> \in Steps
<1>1. AfterEvent(l, e) \in LogEntry
  BY AfterUserType DEF LogEntry, AfterEvent
<1> QED BY <1>1 DEF Steps

LEMMA StepsLemma ==
  ASSUME NEW l, NEW e, NEW m, <<l, e, m>> \in Steps
  PROVE  /\ l \in LogEntry /\ m \in LogEntry /\ m = AfterEvent(l, e)
         /\ \A u \in Needs(e) : l[u] # None
<1>1. PICK t \in LogEntry \X Event \X LogEntry :
        /\ t = <<l, e, m>> /\ t[3] = AfterEvent(t[1], t[2])
        /\ \A u \in Needs(t[2]) : t[1][u] # None
  BY DEF Steps
<1> QED BY <1>1

(* What a handler does: AfterEvent, at its replica only.                   *)
LEMMA HandlerEffect ==
  ASSUME TypeOK, NEW p \in Replicas, Handle(p)
  PROVE  /\ inbox[p] # <<>> /\ Consume(p) /\ presence' = presence
         /\ Head(inbox[p]) \in Event
         /\ users' = [users EXCEPT ![p] = AfterEvent(@, Head(inbox[p]))]
<1> DEFINE e == Head(inbox[p])
<1>1. PICK event : Handles(p, event) /\ UnchangedByHandlers
  BY HandledPlainly
<1>2. /\ inbox[p] # <<>> /\ Consume(p) /\ presence' = presence /\ e \in Event
      /\ \A u \in Needs(e) : Knows(p, u)
  BY <1>1, HandledEvent DEF Handles, UnchangedByHandlers, clientVars
<1>3. e.user \in Users
  BY <1>2, EventFields
<1>4. users \in [Replicas -> [Users -> UserModel \cup {None}]]
  BY DEF TypeOK
<1>5. SUFFICES users' = [users EXCEPT ![p] = AfterEvent(@, e)]
  BY <1>2
<1>6. CASE HandleUserConnected(p)
  <2>1. e.event = "user_connected"
    BY <1>6 DEF HandleUserConnected, Handles, Receives
  <2>2. users' = [users EXCEPT ![p] = [users[p] EXCEPT ![e.user] =
                    IF users[p][e.user] # None THEN users[p][e.user] ELSE NewUser]]
    BY <1>4, <1>6 DEF HandleUserConnected, Knows
  <2>3. AfterEvent(users[p], e) = [users[p] EXCEPT ![e.user] =
                    IF users[p][e.user] # None THEN users[p][e.user] ELSE NewUser]
    BY <1>3, <1>4, <2>1 DEF AfterEvent, AfterUser
  <2> QED BY <2>2, <2>3
<1>7. CASE HandleUserDisconnected(p)
  <2>1. e.event = "user_disconnect"
    BY <1>7 DEF HandleUserDisconnected, Handles, Receives
  <2>2. users' = [users EXCEPT ![p] = [users[p] EXCEPT ![e.user] = None]]
    BY <1>4, <1>7 DEF HandleUserDisconnected
  <2>3. AfterEvent(users[p], e) = [users[p] EXCEPT ![e.user] = None]
    BY <1>3, <1>4, <2>1 DEF AfterEvent, AfterUser
  <2> QED BY <2>2, <2>3
<1>8. CASE HandleHighlightingUpdate(p)
  <2>1. e.event = "highlighting_update"
    BY <1>8 DEF HandleHighlightingUpdate, Handles, Receives
  <2>2. users[p][e.user] # None
    BY <1>2, <2>1 DEF Needs, Knows
  <2>3. users' = [users EXCEPT ![p] = [users[p] EXCEPT ![e.user] =
                    UpdateHighlighting(users[p][e.user], e)]]
    BY <1>4, <1>8 DEF HandleHighlightingUpdate
  <2>4. AfterEvent(users[p], e) = [users[p] EXCEPT ![e.user] =
                    UpdateHighlighting(users[p][e.user], e)]
    BY <1>3, <1>4, <2>1, <2>2 DEF AfterEvent, AfterUser
  <2> QED BY <2>3, <2>4
<1>9. CASE HandleAllHighlightsReset(p)
  <2>1. e.event = "all_highlights_reset"
    BY <1>9 DEF HandleAllHighlightsReset, Handles, Receives
  <2>2. users' = [users EXCEPT ![p] = [u \in Users |->
                    IF users[p][u] # None THEN [users[p][u] EXCEPT !.highlighted = {}]
                                          ELSE None]]
    BY <1>9 DEF HandleAllHighlightsReset, Knows
  <2>3. AfterEvent(users[p], e) = [u \in Users |->
                    IF users[p][u] # None THEN [users[p][u] EXCEPT !.highlighted = {}]
                                          ELSE None]
    BY <2>1 DEF AfterEvent, AfterUser
  <2> QED BY <2>2, <2>3
<1>10. CASE HandleSpectatingUpdate(p)
  <2>1. e.event = "spectating_update"
    BY <1>10 DEF HandleSpectatingUpdate, Handles, Receives
  <2>2. \A u \in e.spectators \cap Users : users[p][u] # None
    BY <1>2, <2>1 DEF Needs, Knows
  <2>3. users' = [users EXCEPT ![p] = [u \in Users |->
                    IF u \in e.spectators
                      THEN [users[p][u] EXCEPT !.spectating = e.isSpectating]
                      ELSE users[p][u]]]
    BY <1>10 DEF HandleSpectatingUpdate
  <2>4. AfterEvent(users[p], e) = [u \in Users |->
                    IF u \in e.spectators
                      THEN [users[p][u] EXCEPT !.spectating = e.isSpectating]
                      ELSE users[p][u]]
    BY <2>1, <2>2 DEF AfterEvent, AfterUser
  <2> QED BY <2>3, <2>4
<1>11. CASE HandleUserControllerConnect(p)
  <2> DEFINE m == [users[p][e.user] EXCEPT !.controllers = @ \cup {e.controller}]
  <2>1. e.event = "user_controller_connect"
    BY <1>11 DEF HandleUserControllerConnect, Handles, Receives
  <2>2. users[p][e.user] # None
    BY <1>2, <2>1 DEF Needs, Knows
  <2>3. users' = [users EXCEPT ![p] = [users[p] EXCEPT ![e.user] = m]]
    BY <1>3, <1>4, <1>11 DEF HandleUserControllerConnect
  <2>4. AfterEvent(users[p], e) = [users[p] EXCEPT ![e.user] = m]
    BY <1>3, <1>4, <2>1, <2>2 DEF AfterEvent, AfterUser
  <2> QED BY <2>3, <2>4
<1>12. CASE HandleUserControllerDisconnect(p)
  <2> DEFINE m == [users[p][e.user] EXCEPT !.controllers = @ \ {e.controller}]
  <2>1. e.event = "user_controller_disconnect"
    BY <1>12 DEF HandleUserControllerDisconnect, Handles, Receives
  <2>2. users[p][e.user] # None
    BY <1>2, <2>1 DEF Needs, Knows
  <2>3. users' = [users EXCEPT ![p] = [users[p] EXCEPT ![e.user] = m]]
    BY <1>3, <1>4, <1>12 DEF HandleUserControllerDisconnect
  <2>4. AfterEvent(users[p], e) = [users[p] EXCEPT ![e.user] = m]
    BY <1>3, <1>4, <2>1, <2>2 DEF AfterEvent, AfterUser
  <2> QED BY <2>3, <2>4
<1>13. CASE HandleUserPositions(p)
  <2>1. e.event = "user_positions" /\ users' = users
    BY <1>13 DEF HandleUserPositions, Handles, Receives
  <2>2. AfterEvent(users[p], e) = users[p]
    BY <1>4, <2>1 DEF AfterEvent, AfterUser
  <2> QED BY <1>4, <2>1, <2>2
<1> QED
  BY <1>6, <1>7, <1>8, <1>9, <1>10, <1>11, <1>12, <1>13 DEF Handle

(* A user whose arrival is still to come has not been the subject of any   *)
(* event of the log.                                                       *)
LEMMA HandledEntry ==
  ASSUME KnownInv, NEW p \in Replicas, Handle(p), NEW e \in Event, e = Head(inbox[p]),
         NEW l \in LogEntry, AtEntry(p, l), \A u \in Needs(e) : l[u] # None
  PROVE  AtEntry(p, AfterEvent(l, e))'
<1>1. /\ inbox \in [Replicas -> Seq(Event)] /\ inbox[p] # <<>> /\ Consume(p)
      /\ users'[p] = AfterEvent(users[p], e)
  BY HandlerEffect DEF KnownInv, TypeOK
<1>2. ASSUME NEW u \in Users
      PROVE  \/ users'[p][u] = AfterEvent(l, e)[u]
             \/ /\ AfterEvent(l, e)[u] = None /\ users'[p][u] = NewUser
                /\ Waiting(p, "user_connected", u)'
  <2>1. /\ users'[p][u] = AfterUser(users[p][u], u, e)
        /\ AfterEvent(l, e)[u] = AfterUser(l[u], u, e)
    BY <1>1 DEF AfterEvent
  <2>2. CASE users[p][u] = l[u]
    BY <2>1, <2>2
  <2>3. CASE l[u] = None /\ users[p][u] = NewUser /\ Waiting(p, "user_connected", u)
    <3>1. u \notin Needs(e)
      BY <2>3
    <3>2. Waiting(p, "user_connected", u)' \/ (e.event = "user_connected" /\ e.user = u)
      BY <1>1, <2>3, ConsumeWaiting
    <3>3. CASE e.event = "user_connected" /\ e.user = u
      BY <2>1, <2>3, <3>3, NewUserNotNone DEF AfterUser
    <3>4. CASE e.event = "user_disconnect" /\ e.user = u
      BY <2>1, <2>3, <3>4 DEF AfterUser
    <3>5. CASE ~ (e.event \in {"user_connected", "user_disconnect"} /\ e.user = u)
      <4>1. [NewUser EXCEPT !.highlighted = {}] = NewUser
        BY DEF NewUser
      <4>2. AfterUser(None, u, e) = None
        BY <3>5, AfterUserType
      <4>3. AfterUser(NewUser, u, e) = NewUser
        <5>1. CASE e.event \in {"user_connected", "user_disconnect", "user_positions"}
          BY <3>5, <5>1, NewUserNotNone DEF AfterUser
        <5>2. CASE e.event = "all_highlights_reset"
          BY <4>1, <5>2 DEF AfterUser
        <5>3. CASE e.event = "spectating_update"
          BY <3>1, <5>3 DEF AfterUser, Needs
        <5>4. CASE e.event \in {"highlighting_update", "user_controller_connect",
                                "user_controller_disconnect"}
          BY <3>1, <5>4 DEF AfterUser, Needs
        <5> QED BY <5>1, <5>2, <5>3, <5>4, EventFields DEF PlainEvents
      <4> QED BY <2>1, <2>3, <3>2, <3>5, <4>2, <4>3
    <3> QED BY <3>3, <3>4, <3>5
  <2> QED BY <2>2, <2>3 DEF AtEntry
<1>3. PICK m : m = AfterEvent(l, e)
  OBVIOUS
<1>4. AtEntry(p, m)'
  BY <1>2, <1>3 DEF AtEntry
<1> QED BY <1>3, <1>4 DEF AtEntry

(* A publication makes the log one entry longer; no replica moves.         *)
LEMMA PublishKeepsLog ==
  ASSUME KnownInv, OneLog, NEW e \in Event, Publish(e),
         \A u \in Needs(e) : presence[u] = "in",
         \A u \in Users : presence'[u] = "in" =>
           IF e.user = u /\ e.event \in {"user_connected", "user_disconnect"}
           THEN e.event = "user_connected" ELSE presence[u] = "in",
         \A r \in Replicas : \A l \in LogEntry :
           AtEntry(r, l) => AtEntry(r, l)'
  PROVE  OneLog'
<1>1. PICK n \in Nat, log \in Log(LogEntry) :
        /\ \A r \in Replicas : FollowsLog(r, log, n)
        /\ \A u \in Users : presence[u] = "in" => log[n][u] # None
  BY DEF OneLog
<1>2. log[n] \in LogEntry /\ \A u \in Users : log[n][u] \in UserModel \cup {None}
  BY DEF Log, LogEntry
<1>3. \A u \in Needs(e) : log[n][u] # None
  BY <1>1, NeedsUsers
<1>4. PICK s \in LogEntry : s = AfterEvent(log[n], e) /\ <<log[n], e, s>> \in Steps
  BY <1>2, <1>3, AfterEventType
<1>5. PICK log2 : log2 = Extended(log, n, s)
  OBVIOUS
<1>6. /\ log2 \in Log(LogEntry) /\ log2[n + 1] = s
      /\ \A i \in Nat : i # n + 1 => log2[i] = log[i]
  BY <1>5, ExtendedLemma
<1>7. n + 1 \in Nat
  OBVIOUS
<1>8. ASSUME NEW r \in Replicas PROVE FollowsLog(r, log2, n + 1)'
  <2>1. /\ inbox[r] \in Seq(Event) /\ inbox'[r] = Append(inbox[r], e)
        /\ Replays(Steps, log, n, inbox[r]) /\ Len(inbox[r]) <= n
        /\ AtEntry(r, log[Position(n, inbox[r])])
    <3>1. inbox \in [Replicas -> Seq(Event)]
      BY DEF KnownInv, TypeOK
    <3>2. inbox'[r] = Append(inbox[r], e)
      BY <3>1, PublishToQueues DEF Publish
    <3> QED BY <1>1, <3>1, <3>2 DEF FollowsLog, Replays
  <2>2. Replays(Steps, log2, n + 1, inbox'[r])
    <3>1. Replays(Steps, Extended(log, n, s), n + 1, Append(inbox[r], e))
      BY <1>4, <2>1, ReplaysAppend
    <3> QED BY <1>5, <2>1, <3>1
  <2>3. PICK k \in Nat : /\ k = Position(n, inbox[r]) /\ k # n + 1
                         /\ k = Position(n + 1, Append(inbox[r], e))
    BY <2>1, PositionAppend
  <2>4. PICK l \in LogEntry : l = log[k] /\ l = log2[k]
    BY <1>6, <2>3 DEF Log
  <2>5. AtEntry(r, l)'
    BY <2>1, <2>3, <2>4
  <2>6. AtEntry(r, log2[Position(n + 1, inbox[r])])'
    BY <2>1, <2>3, <2>4, <2>5 DEF AtEntry
  <2> QED BY <2>2, <2>6 DEF FollowsLog
<1>9. ASSUME NEW u \in Users, presence'[u] = "in" PROVE log2[n + 1][u] # None
  <2>1. s[u] = AfterUser(log[n][u], u, e)
    BY <1>4 DEF AfterEvent
  <2>2. e.user = u /\ e.event \in {"user_connected", "user_disconnect"} => e.event = "user_connected"
    BY <1>9
  <2>3. ~ (e.user = u /\ e.event \in {"user_connected", "user_disconnect"}) => log[n][u] # None
    BY <1>1, <1>9
  <2> QED BY <1>2, <1>6, <2>1, <2>2, <2>3, AfterUserType
<1> QED BY <1>6, <1>7, <1>8, <1>9 DEF OneLog

(* A handler takes its replica to the next entry.                          *)
LEMMA HandlerKeepsLog ==
  ASSUME KnownInv, OneLog, NEW p \in Replicas, Handle(p)
  PROVE  OneLog'
<1>1. PICK n \in Nat, log \in Log(LogEntry) :
        /\ \A r \in Replicas : FollowsLog(r, log, n)
        /\ \A u \in Users : presence[u] = "in" => log[n][u] # None
  BY DEF OneLog
<1>2. PICK e \in Event : e = Head(inbox[p])
  BY HandlerEffect DEF KnownInv
<1>3. /\ inbox \in [Replicas -> Seq(Event)] /\ inbox[p] # <<>> /\ Consume(p)
      /\ presence' = presence
      /\ users \in [Replicas -> [Users -> UserModel \cup {None}]]
      /\ users' = [users EXCEPT ![p] = AfterEvent(@, e)]
  BY <1>2, HandlerEffect DEF KnownInv, TypeOK
<1>4. ASSUME NEW r \in Replicas PROVE FollowsLog(r, log, n)'
  <2>1. Replays(Steps, log, n, inbox[r]) /\ AtEntry(r, log[Position(n, inbox[r])])
    BY <1>1 DEF FollowsLog
  <2>2. CASE r = p
    <3>1. PICK k : k = Position(n, inbox[p])
      OBVIOUS
    <3>2. inbox[p] \in Seq(Event) /\ inbox[p] # <<>> /\ Replays(Steps, log, n, inbox[p])
      BY <1>3, <2>1, <2>2
    <3>3. Replays(Steps, log, n, Tail(inbox[p]))
      BY <3>2, ReplaysTail
    <3>4. Position(n, Tail(inbox[p])) = k + 1
      BY <3>1, <3>2, PositionTail DEF Replays
    <3>5. <<log[k], e, log[k + 1]>> \in Steps
      BY <1>2, <3>1, <3>2, ReplaysHead
    <3>6. PICK l \in LogEntry, m \in LogEntry :
            /\ l = log[k] /\ m = log[k + 1] /\ m = AfterEvent(l, e)
            /\ \A u \in Needs(e) : l[u] # None
      BY <3>5, StepsLemma
    <3>7. AtEntry(p, l)
      BY <2>1, <2>2, <3>1, <3>6
    <3>8. AtEntry(p, AfterEvent(l, e))'
      BY <1>2, <3>6, <3>7, HandledEntry
    <3>9. inbox'[p] = Tail(inbox[p])
      BY <1>3 DEF Consume
    <3>10. AtEntry(r, log[Position(n, inbox[r])])'
      BY <2>2, <3>4, <3>6, <3>8, <3>9 DEF AtEntry
    <3> QED BY <2>2, <3>3, <3>9, <3>10 DEF FollowsLog
  <2>3. CASE r # p
    <3>1. inbox'[r] = inbox[r] /\ users'[r] = users[r]
      BY <1>3, <2>3, ConsumeQueues
    <3>2. PICK l : l = log[Position(n, inbox[r])]
      OBVIOUS
    <3>3. AtEntry(r, l)'
      BY <2>1, <3>1, <3>2 DEF AtEntry, Waiting, Queued
    <3>4. AtEntry(r, log[Position(n, inbox[r])])'
      BY <3>1, <3>2, <3>3 DEF AtEntry
    <3> QED BY <2>1, <3>1, <3>4 DEF FollowsLog
  <2> QED BY <2>2, <2>3
<1> QED BY <1>1, <1>3, <1>4 DEF OneLog

(* The replica that a user joins is ahead of the log, which has yet to     *)
(* bring the user.                                                         *)
LEMMA ConnectKeepsEntry ==
  ASSUME KnownInv, NEW u \in Users, NEW p \in Replicas, Connect(u, p),
         NEW r \in Replicas, NEW l \in LogEntry, AtEntry(r, l)
  PROVE  AtEntry(r, l)'
<1>1. /\ inbox \in [Replicas -> Seq(Event)]
      /\ users \in [Replicas -> [Users -> UserModel \cup {None}]]
      /\ Publish(UserEvent("user_connected", u))
      /\ UserEvent("user_connected", u) \in Event
      /\ presence[u] = "new"
  BY EventsTyped DEF KnownInv, TypeOK, Connect, PlainEvents
<1>2. /\ \A v \in Users : Waiting(r, "user_connected", v) => Waiting(r, "user_connected", v)'
      /\ Waiting(r, "user_connected", u)'
  <2>1. PICK e \in Event : /\ Publish(e) /\ e.event = "user_connected" /\ e.user = u
    BY <1>1 DEF UserEvent
  <2> QED BY <1>1, <2>1, PublishToWaiting DEF Publish
<1>3. users' = [users EXCEPT ![p] = [users[p] EXCEPT ![u] = NewUser]]
  BY <1>1 DEF Connect
<1>4. \A v \in Users : r # p \/ v # u => users'[r][v] = users[r][v]
  BY <1>1, <1>3
<1>5. r = p => users'[r][u] = NewUser
  BY <1>1, <1>3
<1>6. users[r][u] = None /\ l[u] = None
  <2>1. users[r][u] = None
    BY <1>1 DEF KnownInv, NewcomersUnknown, Knows
  <2> QED BY <2>1, NewUserNotNone DEF AtEntry
<1> QED BY <1>2, <1>4, <1>5, <1>6 DEF AtEntry

LEMMA OneLogInit == Init => OneLog
<1> SUFFICES ASSUME Init PROVE OneLog
  OBVIOUS
<1> DEFINE entry == [u \in Users |-> IF u \in Stayers THEN NewUser ELSE None]
<1>1. NewUser \in UserModel /\ NewUser # None
  BY NewUserNotNone DEF NewUser, UserModel
<1>2. PICK l \in LogEntry : l = entry
  BY <1>1 DEF LogEntry
<1>3. PICK log \in Log(LogEntry) : log[0] = l
  <2> DEFINE g == [k \in Nat |-> l]
  <2>1. g \in Log(LogEntry) /\ g[0] = l
    BY DEF Log
  <2> QED BY <2>1
<1>4. ASSUME NEW r \in Replicas PROVE FollowsLog(r, log, 0)
  <2>1. inbox[r] = <<>> /\ users[r] = l
    BY <1>2 DEF Init, NoEvents
  <2>2. Replays(Steps, log, 0, inbox[r]) /\ Position(0, inbox[r]) = 0
    BY <2>1, ReplaysNothing
  <2> QED BY <1>3, <2>1, <2>2 DEF FollowsLog, AtEntry
<1>5. \A u \in Users : presence[u] = "in" => log[0][u] # None
  BY <1>1, <1>2, <1>3 DEF Init
<1>6. 0 \in Nat
  OBVIOUS
<1> QED BY <1>4, <1>5, <1>6 DEF OneLog

(* Every step publishes one event, handles one, or does neither.           *)
LEMMA OneLogNext == KnownInv /\ OneLog /\ [Next]_vars => OneLog'
<1> SUFFICES ASSUME KnownInv, OneLog, [Next]_vars PROVE OneLog'
  OBVIOUS
<1>1. /\ inbox \in [Replicas -> Seq(Event)]
      /\ presence \in [Users -> {"new", "in", "left"}]
  BY DEF KnownInv, TypeOK
<1>2. ASSUME UNCHANGED <<users, inbox, presence>> PROVE OneLog'
  BY <1>2 DEF OneLog, FollowsLog, AtEntry, Waiting, Queued
<1>3. ASSUME NEW e \in Event, Publish(e), users' = users, NEW r \in Replicas, NEW l \in LogEntry,
             AtEntry(r, l)
      PROVE  AtEntry(r, l)'
  <2>1. \A v \in Users : Waiting(r, "user_connected", v) => Waiting(r, "user_connected", v)'
    BY <1>1, <1>3, PublishToWaiting DEF Publish
  <2> QED BY <1>3, <2>1 DEF AtEntry
<1>4. ASSUME NEW e \in Event, Publish(e), users' = users, presence' = presence,
             e.event \notin {"user_connected", "user_disconnect"},
             \A u \in Needs(e) : presence[u] = "in"
      PROVE  OneLog'
  BY <1>3, <1>4, PublishKeepsLog
<1>5. ASSUME NEW u \in Users, NEW r \in Replicas, Connect(u, r) PROVE OneLog'
  <2> DEFINE f == UserEvent("user_connected", u)
  <2>1. PICK e \in Event : e = f
    BY EventsTyped DEF PlainEvents
  <2>2. Publish(e) /\ e.event = "user_connected" /\ e.user = u /\ Needs(e) = {}
    BY <1>5, <2>1 DEF Connect, UserEvent, Needs
  <2>3. \A v \in Users : presence'[v] = "in" /\ v # u => presence[v] = "in"
    BY <1>1, <1>5 DEF Connect
  <2> QED BY <1>5, <2>2, <2>3, ConnectKeepsEntry, PublishKeepsLog
<1>6. ASSUME NEW u \in Users, Disconnect(u) PROVE OneLog'
  <2> DEFINE f == UserEvent("user_disconnect", u)
  <2>1. PICK e \in Event : e = f
    BY EventsTyped DEF PlainEvents
  <2>2. /\ Publish(e) /\ e.event = "user_disconnect" /\ e.user = u /\ Needs(e) = {}
        /\ users' = users
    BY <1>6, <2>1 DEF Disconnect, UserEvent, Needs
  <2>3. \A v \in Users : presence'[v] = "in" => v # u /\ presence[v] = "in"
    BY <1>1, <1>6 DEF Disconnect
  <2> QED BY <1>3, <2>2, <2>3, PublishKeepsLog
<1>7. ASSUME NEW u \in Users, ClientMessage(u) PROVE OneLog'
  <2>1. ASSUME NEW entity \in Entities, NEW change \in HighlightingChanges,
               HighlightingUpdate(u, entity, change)
        PROVE  OneLog'
    BY <1>4, <2>1, EventsTyped DEF HighlightingUpdate, Sends, Needs, clientVars
  <2>2. CASE AllHighlightsReset(u)
    BY <1>4, <2>2, EventsTyped
       DEF AllHighlightsReset, Needs, UserEvent, PlainEvents, clientVars
  <2>3. CASE UserPositions(u)
    BY <1>4, <2>3, EventsTyped
       DEF UserPositions, Sends, Needs, UserEvent, PlainEvents, clientVars
  <2>4. ASSUME NEW S \in SpectatorLists, NEW b \in BOOLEAN, SpectatingUpdate(u, S, b)
        PROVE  OneLog'
    BY <1>4, <2>4, EventsTyped DEF SpectatingUpdate, Needs, MayHaveSocket, ClientAt
  <2>5. ASSUME NEW S \in SpectatorLists, NEW b \in BOOLEAN, SpectatingUpdateFails(u, S, b)
        PROVE  OneLog'
    <3>1. UNCHANGED <<users, inbox, presence>>
      BY <2>5 DEF SpectatingUpdateFails
    <3> QED BY <1>2, <3>1
  <2>6. ASSUME NEW c \in Controllers, UserControllerConnect(u, c) PROVE OneLog'
    BY <1>2, <2>6 DEF UserControllerConnect
  <2>7. ASSUME NEW c \in Controllers, UserControllerDisconnect(u, c) PROVE OneLog'
    BY <1>4, <2>7, EventsTyped DEF UserControllerDisconnect, Sends, Needs, clientVars
  <2> QED BY <1>7, <2>1, <2>2, <2>3, <2>4, <2>5, <2>6, <2>7 DEF ClientMessage
<1>8. ASSUME NEW u \in Users, NEW c \in Controllers, PublishController(u, c) PROVE OneLog'
  <2>1. CASE presence[u] = "in"
    BY <1>4, <1>8, <2>1, EventsTyped DEF PublishController, Needs
  <2>2. CASE presence[u] # "in"
    BY <1>2, <1>8, <2>2 DEF PublishController
  <2> QED BY <2>1, <2>2
<1>9. ASSUME NEW r \in Replicas, Handle(r) PROVE OneLog'
  BY <1>9, HandlerKeepsLog
<1>10. ASSUME NEW r \in Replicas, HandleSpectatingUpdateThrows(r) PROVE OneLog'
  BY <1>2, <1>10 DEF HandleSpectatingUpdateThrows
<1>11. CASE UNCHANGED vars
  BY <1>2, <1>11 DEF vars, clientVars
<1> QED BY <1>5, <1>6, <1>7, <1>8, <1>9, <1>10, <1>11 DEF Next

(* Replicas with the same left to handle are at the same entry.            *)
LEMMA OneLogAgrees == OneLog => ActivityAgrees
<1> SUFFICES ASSUME OneLog, NEW r \in Replicas, NEW q \in Replicas, inbox[r] = inbox[q],
                    NEW u \in Users
             PROVE  users[r][u] = users[q][u] \/ Waiting(r, "user_connected", u)
  BY DEF ActivityAgrees
<1>1. PICK n \in Nat, log \in Log(LogEntry) : \A p \in Replicas : FollowsLog(p, log, n)
  BY DEF OneLog
<1>2. PICK l : l = log[Position(n, inbox[r])] /\ l = log[Position(n, inbox[q])]
  OBVIOUS
<1>3. AtEntry(r, l) /\ AtEntry(q, l)
  BY <1>1, <1>2 DEF FollowsLog
<1>4. Waiting(q, "user_connected", u) => Waiting(r, "user_connected", u)
  BY DEF Waiting, Queued
<1> QED BY <1>3, <1>4 DEF AtEntry

(* Replicas that have handled the same events have recorded the same       *)
(* highlights, controllers and spectating of every user that both know,    *)
(* and one knows a user that the other does not only while that user's     *)
(* arrival is on the way: whatever users send, in whatever order, and      *)
(* whoever joins and leaves meanwhile.                                     *)
THEOREM ReplicasRecordAlike == Spec => []ActivityAgrees
<1>1. Init => KnownInv /\ OneLog
  BY InitKnown, OneLogInit
<1>2. KnownInv /\ OneLog /\ [Next]_vars => (KnownInv /\ OneLog)'
  BY StepKnown, OneLogNext
<1>3. OneLog => ActivityAgrees
  BY OneLogAgrees
<1> QED BY <1>1, <1>2, <1>3, PTL DEF Spec

-----------------------------------------------------------------------------
(* What is queued about one fact: spectating, and a controller             *)

(* A replica that handles an event has one less to handle, and what the    *)
(* event says of a fact is then so.                                        *)
LEMMA HandledYields ==
  ASSUME TypeOK, NEW p \in Replicas, Handle(p), NEW r \in Replicas, NEW A, NEW B, NEW now, NEW v,
         Yields(inbox[r], A, B, now, v),
         NEW next, next <=> IF r = p /\ Head(inbox[p]) \in A THEN Head(inbox[p]) \in B ELSE now
  PROVE  Yields(inbox'[r], A, B, next, v)
<1>1. inbox \in [Replicas -> Seq(Event)] /\ inbox[p] # <<>> /\ Consume(p)
  BY HandlerEffect DEF TypeOK
<1>2. CASE r = p
  <2>1. inbox[r] \in Seq(Event) /\ inbox'[r] = Tail(inbox[r]) /\ inbox[r] # <<>>
    BY <1>1, <1>2 DEF Consume
  <2>2. next <=> IF Head(inbox[r]) \in A THEN Head(inbox[r]) \in B ELSE now
    BY <1>2
  <2>3. Yields(Tail(inbox[r]), A, B, next, v)
    BY <2>1, <2>2, YieldsTail
  <2> QED BY <2>1, <2>3
<1>3. CASE r # p
  <2>1. inbox'[r] = inbox[r] /\ (next <=> now)
    BY <1>1, <1>3, ConsumeQueues
  <2> QED BY <2>1 DEF Yields
<1> QED BY <1>2, <1>3

LEMMA PublishedYields ==
  ASSUME TypeOK, NEW e \in Event, Publish(e), NEW r \in Replicas, NEW A, NEW B, NEW now, NEW v,
         IF e \in A THEN v <=> e \in B ELSE Yields(inbox[r], A, B, now, v)
  PROVE  Yields(inbox'[r], A, B, now, v)
<1>0. inbox \in [Replicas -> Seq(Event)] /\ PublishTo(Replicas, e)
  BY DEF TypeOK, Publish
<1>1. inbox[r] \in Seq(Event) /\ inbox'[r] = Append(inbox[r], e)
  BY <1>0, PublishToQueues
<1>2. Yields(Append(inbox[r], e), A, B, now, v)
  BY <1>1, YieldsAppend
<1> QED BY <1>1, <1>2

(* Of a user to come no event is queued that would need its UserModel.     *)
LEMMA NewcomersUnmentioned ==
  ASSUME KnownInv, NEW u \in Users, presence[u] = "new", NEW r \in Replicas,
         NEW A, \A e \in A : u \in Needs(e)
  PROVE  Silent(inbox[r], A)
<1>1. ASSUME NEW i \in 1..Len(inbox[r]), u \in Needs(inbox[r][i]) PROVE FALSE
  <2>1. Knows(r, u) \/ WaitingBefore(r, i, "user_connected", u)
    BY <1>1 DEF KnownInv, EventsFindUsers
  <2>2. WaitingBefore(r, i, "user_connected", u) => Waiting(r, "user_connected", u)
    BY DEF WaitingBefore, Waiting, Queued
  <2> QED BY <2>1, <2>2 DEF KnownInv, NewcomersUnknown
<1> QED BY <1>1 DEF Silent

-----------------------------------------------------------------------------
(* Spectating *)

Spectates(m) == m # None /\ m.spectating

Naming(u) == {e \in Event : e.event = "spectating_update" /\ u \in e.spectators}

Beginnings == {e \in Event : e.event = "spectating_update" /\ e.isSpectating}

(* The last queued update that names a user has it spectate if its socket  *)
(* is in the spectating room, and no socket but that of a user in the room *)
(* of the users is.                                                        *)
SpectatingInv ==
  /\ \A u \in spectatingRoom : presence[u] = "in"
  /\ \A r \in Replicas, u \in Users :
       presence[u] = "in" /\ u \notin halfDone =>
         Yields(inbox[r], Naming(u), Beginnings, Spectates(users[r][u]), u \in spectatingRoom)

LEMMA AfterUserSpectates ==
  ASSUME NEW m \in UserModel \cup {None}, NEW u \in Users, NEW e \in Event,
         ~ (e.event = "user_disconnect" /\ e.user = u), u \in Needs(e) => m # None
  PROVE  Spectates(AfterUser(m, u, e)) <=>
           IF e \in Naming(u) THEN e \in Beginnings ELSE Spectates(m)
<1> DEFINE n == AfterUser(m, u, e)
<1>0. m # None => m \in UserModel
  OBVIOUS
<1>1. CASE e.event = "user_connected"
  BY <1>1, NewUserNotNone DEF AfterUser, Spectates, Naming, NewUser
<1>2. CASE e.event = "user_disconnect"
  BY <1>2 DEF AfterUser, Spectates, Naming
<1>3. CASE e.event = "user_positions"
  BY <1>3 DEF AfterUser, Spectates, Naming
<1>4. CASE e.event = "spectating_update"
  <2>1. e.isSpectating \in BOOLEAN
    BY <1>4, EventFields
  <2>2. CASE u \in e.spectators
    <3>1. m \in UserModel /\ n = [m EXCEPT !.spectating = e.isSpectating]
      BY <1>0, <1>4, <2>2 DEF AfterUser, Needs
    <3>2. n.spectating = e.isSpectating /\ n \in UserModel
      BY <2>1, <3>1 DEF UserModel
    <3> QED BY <1>4, <2>2, <3>2, NoneIsNoUser DEF Spectates, Naming, Beginnings
  <2>3. CASE u \notin e.spectators
    BY <1>4, <2>3 DEF AfterUser, Spectates, Naming
  <2> QED BY <2>2, <2>3
<1>5. CASE /\ e.event \in {"highlighting_update", "all_highlights_reset",
                           "user_controller_connect", "user_controller_disconnect"}
  <2>1. e \notin Naming(u)
    BY <1>5 DEF Naming
  <2>2. CASE m = None
    BY <1>5, <2>1, <2>2 DEF AfterUser, Spectates
  <2>3. CASE m # None
    <3>1. n \in UserModel /\ n # None
      BY <1>5, <2>3, AfterUserType
    <3>2. n.spectating = m.spectating
      <4>1. CASE e.event = "highlighting_update"
        <5>1. UpdateHighlighting(m, e).spectating = m.spectating
          BY <1>0, <2>3, <4>1, EventFields DEF UpdateHighlighting, UserModel, HighlightingChanges
        <5> QED BY <4>1, <5>1 DEF AfterUser
      <4>2. CASE e.event = "all_highlights_reset"
        BY <1>0, <2>3, <4>2 DEF AfterUser, UserModel
      <4>3. CASE e.event = "user_controller_connect"
        BY <1>0, <2>3, <4>3 DEF AfterUser, UserModel
      <4>4. CASE e.event = "user_controller_disconnect"
        BY <1>0, <2>3, <4>4 DEF AfterUser, UserModel
      <4> QED BY <1>5, <4>1, <4>2, <4>3, <4>4
    <3> QED BY <2>1, <2>3, <3>1, <3>2 DEF Spectates
  <2> QED BY <2>2, <2>3
<1> QED BY <1>1, <1>2, <1>3, <1>4, <1>5, EventFields DEF PlainEvents

(* No departure of a user in the room is on its way, so a handler leaves   *)
(* its UserModel, and finds it if it needs it.                             *)
LEMMA HandledMember ==
  ASSUME KnownInv, NEW p \in Replicas, Handle(p), NEW u \in Users, presence[u] = "in",
         NEW e, e = Head(inbox[p])
  PROVE  /\ e \in Event
         /\ ~ (e.event = "user_disconnect" /\ e.user = u)
         /\ u \in Needs(e) => users[p][u] # None
         /\ users'[p][u] = AfterUser(users[p][u], u, e)
         /\ \A r \in Replicas : r # p => users'[r] = users[r]
<1>1. /\ inbox \in [Replicas -> Seq(Event)] /\ inbox[p] # <<>> /\ Consume(p) /\ e \in Event
      /\ users \in [Replicas -> [Users -> UserModel \cup {None}]]
      /\ users' = [users EXCEPT ![p] = AfterEvent(@, e)]
  BY HandlerEffect DEF KnownInv, TypeOK
<1>2. Waiting(p, e.event, e.user)
  BY <1>1, ConsumeWaiting
<1>3. ~ (e.event = "user_disconnect" /\ e.user = u)
  BY <1>2 DEF KnownInv, MembersKnown
<1>4. u \in Needs(e) => users[p][u] # None
  BY HandledPlainly, HandledEvent DEF Knows, KnownInv
<1> QED BY <1>1, <1>3, <1>4 DEF AfterEvent

LEMMA NamingNeeds == \A u \in Users : \A e \in Naming(u) : u \in Needs(e)
BY DEF Naming, Needs

LEMMA InitSpectating == Init => SpectatingInv
<1> SUFFICES ASSUME Init PROVE SpectatingInv
  OBVIOUS
<1>1. ASSUME NEW r \in Replicas, NEW u \in Users
      PROVE  Yields(inbox[r], Naming(u), Beginnings, Spectates(users[r][u]), u \in spectatingRoom)
  <2>1. inbox[r] = <<>> /\ spectatingRoom = {} /\ users[r][u] \in {NewUser, None}
    BY DEF Init, NoEvents
  <2>2. Spectates(users[r][u]) <=> u \in spectatingRoom
    BY <2>1 DEF Spectates, NewUser
  <2>3. Silent(inbox[r], Naming(u))
    BY <2>1 DEF Silent
  <2> QED BY <2>2, <2>3, SilentYields
<1> QED BY <1>1 DEF Init, SpectatingInv

(* Of who spectates, messages say nothing but for spectating updates.      *)
LEMMA PublishSpectating ==
  ASSUME KnownInv, SpectatingInv, NEW e \in Event, Publish(e), e.event # "spectating_update",
         UNCHANGED <<users, presence, spectatingRoom, halfDone>>
  PROVE  SpectatingInv'
<1>1. ASSUME NEW r \in Replicas, NEW u \in Users, presence[u] = "in", u \notin halfDone
      PROVE  Yields(inbox'[r], Naming(u), Beginnings, Spectates(users[r][u]), u \in spectatingRoom)
  <2>1. Yields(inbox[r], Naming(u), Beginnings, Spectates(users[r][u]), u \in spectatingRoom)
    BY <1>1 DEF SpectatingInv
  <2>2. e \notin Naming(u)
    BY DEF Naming
  <2> QED BY <2>1, <2>2, PublishedYields DEF KnownInv
<1> QED BY <1>1 DEF SpectatingInv

LEMMA ConnectSpectating ==
  ASSUME KnownInv, SpectatingInv, NEW u \in Users, NEW p \in Replicas, Connect(u, p)
  PROVE  SpectatingInv'
<1>1. PICK e \in Event : /\ e = UserEvent("user_connected", u) /\ Publish(e)
                         /\ e.event = "user_connected"
  BY EventsTyped DEF Connect, PlainEvents, UserEvent
<1>2. /\ presence[u] = "new" /\ presence' = [presence EXCEPT ![u] = "in"]
      /\ users' = [users EXCEPT ![p] = [users[p] EXCEPT ![u] = NewUser]]
      /\ spectatingRoom' = spectatingRoom /\ halfDone' = halfDone
      /\ presence \in [Users -> {"new", "in", "left"}]
      /\ users \in [Replicas -> [Users -> UserModel \cup {None}]]
      /\ spectatingRoom \subseteq Users
  BY DEF Connect, KnownInv, TypeOK, historyVars
<1>3. u \notin spectatingRoom
  BY <1>2 DEF SpectatingInv
<1>4. ASSUME NEW r \in Replicas, NEW v \in Users, presence'[v] = "in", v \notin halfDone'
      PROVE  Yields(inbox'[r], Naming(v), Beginnings, Spectates(users'[r][v]), v \in spectatingRoom')
  <2>1. e \notin Naming(v)
    BY <1>1 DEF Naming
  <2>2. Yields(inbox[r], Naming(v), Beginnings, Spectates(users'[r][v]), v \in spectatingRoom)
    <3>1. CASE v = u
      <4>1. Silent(inbox[r], Naming(v))
        BY <1>2, <3>1, NewcomersUnmentioned, NamingNeeds
      <4>2. users'[r][v] \in {NewUser, None}
        <5>1. users[r][u] = None
          BY <1>2 DEF KnownInv, NewcomersUnknown, Knows
        <5> QED BY <1>2, <3>1, <5>1
      <4>3. Spectates(users'[r][v]) <=> v \in spectatingRoom
        BY <1>3, <3>1, <4>2 DEF Spectates, NewUser
      <4> QED BY <4>1, <4>3, SilentYields
    <3>2. CASE v # u
      <4>1. users'[r][v] = users[r][v] /\ presence[v] = "in" /\ v \notin halfDone
        BY <1>2, <1>4, <3>2
      <4>2. Yields(inbox[r], Naming(v), Beginnings, Spectates(users[r][v]), v \in spectatingRoom)
        BY <4>1 DEF SpectatingInv
      <4> QED BY <4>1, <4>2
    <3> QED BY <3>1, <3>2
  <2>3. Yields(inbox'[r], Naming(v), Beginnings, Spectates(users'[r][v]), v \in spectatingRoom)
    BY <1>1, <2>1, <2>2, PublishedYields DEF KnownInv
  <2> QED BY <1>2, <2>3
<1>5. \A v \in spectatingRoom' : presence'[v] = "in"
  BY <1>2, <1>3 DEF SpectatingInv
<1> QED BY <1>4, <1>5 DEF SpectatingInv

LEMMA DisconnectSpectating ==
  ASSUME KnownInv, SpectatingInv, NEW u \in Users, Disconnect(u)
  PROVE  SpectatingInv'
<1>1. PICK e \in Event : /\ e = UserEvent("user_disconnect", u) /\ Publish(e)
                         /\ e.event = "user_disconnect"
  BY EventsTyped DEF Disconnect, PlainEvents, UserEvent
<1>2. /\ presence' = [presence EXCEPT ![u] = "left"]
      /\ users' = users /\ halfDone' = halfDone /\ spectatingRoom' = spectatingRoom \ {u}
      /\ presence \in [Users -> {"new", "in", "left"}] /\ spectatingRoom \subseteq Users
  BY DEF Disconnect, KnownInv, TypeOK, historyVars
<1>3. ASSUME NEW r \in Replicas, NEW v \in Users, presence'[v] = "in", v \notin halfDone'
      PROVE  Yields(inbox'[r], Naming(v), Beginnings, Spectates(users'[r][v]), v \in spectatingRoom')
  <2>1. e \notin Naming(v)
    BY <1>1 DEF Naming
  <2>2. v # u /\ presence[v] = "in" /\ v \notin halfDone
    BY <1>2, <1>3
  <2>3. Yields(inbox[r], Naming(v), Beginnings, Spectates(users[r][v]), v \in spectatingRoom)
    BY <2>2 DEF SpectatingInv
  <2>4. Yields(inbox'[r], Naming(v), Beginnings, Spectates(users[r][v]), v \in spectatingRoom)
    BY <1>1, <2>1, <2>3, PublishedYields DEF KnownInv
  <2>5. v \in spectatingRoom' <=> v \in spectatingRoom
    BY <1>2, <2>2
  <2> QED BY <1>2, <2>4, <2>5 DEF Yields, LastSays
<1>4. \A v \in spectatingRoom' : presence'[v] = "in"
  BY <1>2 DEF SpectatingInv
<1> QED BY <1>3, <1>4 DEF SpectatingInv

(* The update that is published moves the sockets of exactly the users it  *)
(* names.                                                                  *)
LEMMA UpdateSpectating ==
  ASSUME KnownInv, SpectatingInv, NEW u \in Users, NEW S \in SpectatorLists, NEW b \in BOOLEAN,
         SpectatingUpdate(u, S, b)
  PROVE  SpectatingInv'
<1> DEFINE f == [event |-> "spectating_update", user |-> u, spectators |-> S, isSpectating |-> b]
<1>1. PICK e \in Event : e = f
  BY EventsTyped
<1>2. /\ Publish(e) /\ e.event = "spectating_update" /\ e.spectators = S /\ e.isSpectating = b
      /\ UNCHANGED <<users, presence, halfDone>>
      /\ \A v \in S \cap Users : presence[v] = "in"
      /\ spectatingRoom' = IF b THEN spectatingRoom \cup (S \cap Users) ELSE spectatingRoom \ S
  BY <1>1 DEF SpectatingUpdate, MayHaveSocket, ClientAt, Moved, historyVars
<1> HIDE DEF f
<1>3. ASSUME NEW r \in Replicas, NEW v \in Users, presence[v] = "in", v \notin halfDone
      PROVE  Yields(inbox'[r], Naming(v), Beginnings, Spectates(users[r][v]), v \in spectatingRoom')
  <2>1. Yields(inbox[r], Naming(v), Beginnings, Spectates(users[r][v]), v \in spectatingRoom)
    BY <1>3 DEF SpectatingInv
  <2>2. CASE v \in S
    <3>1. e \in Naming(v) /\ (v \in spectatingRoom' <=> e \in Beginnings)
      BY <1>2, <2>2 DEF Naming, Beginnings
    <3> QED BY <1>2, <3>1, PublishedYields DEF KnownInv
  <2>3. CASE v \notin S
    <3>1. e \notin Naming(v) /\ (v \in spectatingRoom' <=> v \in spectatingRoom)
      BY <1>2, <2>3 DEF Naming
    <3>2. Yields(inbox[r], Naming(v), Beginnings, Spectates(users[r][v]), v \in spectatingRoom')
      BY <2>1, <3>1 DEF Yields, LastSays
    <3> QED BY <1>2, <3>1, <3>2, PublishedYields DEF KnownInv
  <2> QED BY <2>2, <2>3
<1>4. \A v \in spectatingRoom' : presence[v] = "in"
  BY <1>2 DEF SpectatingInv
<1> QED BY <1>2, <1>3, <1>4 DEF SpectatingInv

(* One that fails moves no socket but of users that count as half done.    *)
LEMMA FailureSpectating ==
  ASSUME KnownInv, SpectatingInv, NEW u \in Users, NEW S \in SpectatorLists, NEW b \in BOOLEAN,
         SpectatingUpdateFails(u, S, b)
  PROVE  SpectatingInv'
<1>1. PICK before \in SUBSET {v \in S : MayHaveSocket(home[u], v)} :
        Moved(before, b) /\ halfDone' = halfDone \cup (before \cap Users)
  BY DEF SpectatingUpdateFails
<1>2. /\ UNCHANGED <<users, inbox, presence>>
      /\ \A v \in before \cap Users : presence[v] = "in"
      /\ spectatingRoom' = IF b THEN spectatingRoom \cup (before \cap Users)
                                ELSE spectatingRoom \ before
  BY <1>1 DEF SpectatingUpdateFails, MayHaveSocket, ClientAt, Moved
<1>3. ASSUME NEW r \in Replicas, NEW v \in Users, presence[v] = "in", v \notin halfDone'
      PROVE  Yields(inbox[r], Naming(v), Beginnings, Spectates(users[r][v]), v \in spectatingRoom')
  <2>1. v \notin halfDone /\ (v \in spectatingRoom' <=> v \in spectatingRoom)
    BY <1>1, <1>2, <1>3
  <2>2. Yields(inbox[r], Naming(v), Beginnings, Spectates(users[r][v]), v \in spectatingRoom)
    BY <1>3, <2>1 DEF SpectatingInv
  <2> QED BY <2>1, <2>2 DEF Yields, LastSays
<1>4. \A v \in spectatingRoom' : presence[v] = "in"
  BY <1>2 DEF SpectatingInv
<1> QED BY <1>2, <1>3, <1>4 DEF SpectatingInv

LEMMA HandleSpectating ==
  ASSUME KnownInv, SpectatingInv, NEW p \in Replicas, Handle(p)
  PROVE  SpectatingInv'
<1>1. UNCHANGED <<presence, spectatingRoom, halfDone>>
  BY HandledPlainly DEF UnchangedByHandlers, clientVars, historyVars
<1>2. PICK e : e = Head(inbox[p])
  OBVIOUS
<1>3. ASSUME NEW r \in Replicas, NEW v \in Users, presence[v] = "in", v \notin halfDone
      PROVE  Yields(inbox'[r], Naming(v), Beginnings, Spectates(users'[r][v]), v \in spectatingRoom)
  <2>1. Yields(inbox[r], Naming(v), Beginnings, Spectates(users[r][v]), v \in spectatingRoom)
    BY <1>3 DEF SpectatingInv
  <2>2. /\ e \in Event
        /\ ~ (e.event = "user_disconnect" /\ e.user = v)
        /\ v \in Needs(e) => users[p][v] # None
        /\ users'[p][v] = AfterUser(users[p][v], v, e)
        /\ r # p => users'[r] = users[r]
    BY <1>2, <1>3, HandledMember
  <2>3. users[p][v] \in UserModel \cup {None}
    BY DEF KnownInv, TypeOK
  <2>4. Spectates(users'[p][v]) <=>
          IF e \in Naming(v) THEN e \in Beginnings ELSE Spectates(users[p][v])
    BY <2>2, <2>3, AfterUserSpectates
  <2>5. Spectates(users'[r][v]) <=>
          IF r = p /\ e \in Naming(v) THEN e \in Beginnings ELSE Spectates(users[r][v])
    BY <2>2, <2>4
  <2> QED BY <1>2, <2>1, <2>5, HandledYields DEF KnownInv
<1> QED BY <1>1, <1>3 DEF SpectatingInv

LEMMA StepSpectating == KnownInv /\ SpectatingInv /\ [Next]_vars => SpectatingInv'
<1> SUFFICES ASSUME KnownInv, SpectatingInv, [Next]_vars PROVE SpectatingInv'
  OBVIOUS
<1>0. ASSUME UNCHANGED <<users, inbox, presence, spectatingRoom, halfDone>> PROVE SpectatingInv'
  BY <1>0 DEF SpectatingInv
<1>1. ASSUME NEW u \in Users, NEW r \in Replicas, Connect(u, r) PROVE SpectatingInv'
  BY <1>1, ConnectSpectating
<1>2. ASSUME NEW u \in Users, Disconnect(u) PROVE SpectatingInv'
  BY <1>2, DisconnectSpectating
<1>3. ASSUME NEW u \in Users, ClientMessage(u) PROVE SpectatingInv'
  <2>1. ASSUME NEW entity \in Entities, NEW change \in HighlightingChanges,
               HighlightingUpdate(u, entity, change)
        PROVE  SpectatingInv'
    BY <2>1, EventsTyped, PublishSpectating DEF HighlightingUpdate, clientVars, historyVars
  <2>2. CASE AllHighlightsReset(u)
    BY <2>2, EventsTyped, PublishSpectating
       DEF AllHighlightsReset, UserEvent, PlainEvents, clientVars
  <2>3. CASE UserPositions(u)
    BY <2>3, EventsTyped, PublishSpectating
       DEF UserPositions, UserEvent, PlainEvents, clientVars, historyVars
  <2>4. ASSUME NEW S \in SpectatorLists, NEW b \in BOOLEAN,
               SpectatingUpdate(u, S, b) \/ SpectatingUpdateFails(u, S, b)
        PROVE  SpectatingInv'
    BY <2>4, UpdateSpectating, FailureSpectating
  <2>5. ASSUME NEW c \in Controllers, UserControllerConnect(u, c) PROVE SpectatingInv'
    BY <1>0, <2>5 DEF UserControllerConnect
  <2>6. ASSUME NEW c \in Controllers, UserControllerDisconnect(u, c) PROVE SpectatingInv'
    BY <2>6, EventsTyped, PublishSpectating DEF UserControllerDisconnect, clientVars
  <2> QED BY <1>3, <2>1, <2>2, <2>3, <2>4, <2>5, <2>6 DEF ClientMessage
<1>4. ASSUME NEW u \in Users, NEW c \in Controllers, PublishController(u, c) PROVE SpectatingInv'
  <2>1. CASE presence[u] = "in"
    BY <1>4, <2>1, EventsTyped, PublishSpectating DEF PublishController, historyVars
  <2>2. CASE presence[u] # "in"
    BY <1>0, <1>4, <2>2 DEF PublishController, historyVars
  <2> QED BY <2>1, <2>2
<1>5. ASSUME NEW r \in Replicas, Handle(r) PROVE SpectatingInv'
  BY <1>5, HandleSpectating
<1>6. ASSUME NEW r \in Replicas, HandleSpectatingUpdateThrows(r) PROVE SpectatingInv'
  BY <1>0, <1>6 DEF HandleSpectatingUpdateThrows, historyVars
<1>7. CASE UNCHANGED vars
  BY <1>0, <1>7 DEF vars, clientVars, historyVars
<1> QED BY <1>1, <1>2, <1>3, <1>4, <1>5, <1>6, <1>7 DEF Next

(* A replica with no more news of a user's spectating takes it for a       *)
(* spectator exactly if its socket is in the spectating room, unless an    *)
(* update failed half-way: however many updates of different clients,      *)
(* arrivals and departures were on their way at the same time.             *)
THEOREM SpectatorsFollowRoom == Spec => []SpectatorsInRoom
<1>1. ASSUME KnownInv, SpectatingInv PROVE SpectatorsInRoom
  <2> SUFFICES ASSUME NEW r \in Replicas, NEW u \in Users,
                      presence[u] = "in", Knows(r, u), u \notin halfDone,
                      \A i \in 1..Len(inbox[r]) :
                        inbox[r][i].event = "spectating_update" => u \notin inbox[r][i].spectators
               PROVE  users[r][u].spectating <=> u \in spectatingRoom
    BY DEF SpectatorsInRoom
  <2>1. Silent(inbox[r], Naming(u))
    BY DEF Silent, Naming
  <2>2. Yields(inbox[r], Naming(u), Beginnings, Spectates(users[r][u]), u \in spectatingRoom)
    BY <1>1 DEF SpectatingInv
  <2>3. Spectates(users[r][u]) <=> u \in spectatingRoom
    BY <2>1, <2>2 DEF Yields
  <2>4. Spectates(users[r][u]) <=> users[r][u].spectating
    BY Zenon DEF Spectates, Knows
  <2> QED BY <2>3, <2>4
<1> QED BY <1>1, InitKnown, StepKnown, InitSpectating, StepSpectating, PTL DEF Spec

-----------------------------------------------------------------------------
(* Controllers *)

Has(m, c) == m # None /\ c \in m.controllers

Using(u, c) ==
  {e \in Event : /\ e.event \in {"user_controller_connect", "user_controller_disconnect"}
                 /\ e.user = u /\ e.controller = c}

Connections == {e \in Event : e.event = "user_controller_connect"}

Settled(u, c) == presence[u] = "in" /\ awaited[<<u, c>>] = 0 /\ <<u, c>> \notin overtaken

(* The last queued event of a controller is what its client wants, unless  *)
(* a connect awaits its id or was overtaken; and a connect that awaits its *)
(* id without having been overtaken is what the client wants.              *)
ControllersInv ==
  /\ \A u \in Users : presence[u] = "new" => wanted[u] = {}
  /\ \A u \in Users, c \in Controllers :
       awaited[<<u, c>>] > 0 /\ <<u, c>> \notin overtaken => c \in wanted[u]
  /\ \A r \in Replicas, u \in Users, c \in Controllers : Settled(u, c) =>
       Yields(inbox[r], Using(u, c), Connections, Has(users[r][u], c), c \in wanted[u])

LEMMA AfterUserHas ==
  ASSUME NEW m \in UserModel \cup {None}, NEW u \in Users, NEW c \in Controllers, NEW e \in Event,
         ~ (e.event = "user_disconnect" /\ e.user = u), u \in Needs(e) => m # None
  PROVE  Has(AfterUser(m, u, e), c) <=>
           IF e \in Using(u, c) THEN e \in Connections ELSE Has(m, c)
<1> DEFINE n == AfterUser(m, u, e)
<1>0. m # None => m \in UserModel
  OBVIOUS
<1>1. CASE e.event = "user_connected"
  BY <1>1, NewUserNotNone DEF AfterUser, Has, Using, NewUser
<1>2. CASE e.event = "user_disconnect"
  BY <1>2 DEF AfterUser, Has, Using
<1>3. CASE e.event = "user_positions"
  BY <1>3 DEF AfterUser, Has, Using
<1>4. CASE /\ e.event \in {"user_controller_connect", "user_controller_disconnect"}
           /\ e.user = u
  <2>1. m # None /\ m \in UserModel
    BY <1>0, <1>4 DEF Needs
  <2>2. n \in UserModel /\ n # None
    BY <1>4, <2>1, AfterUserType
  <2>3. CASE e.event = "user_controller_connect"
    <3>1. n.controllers = m.controllers \cup {e.controller}
      BY <1>4, <2>1, <2>3 DEF AfterUser, UserModel
    <3> QED BY <1>4, <2>1, <2>2, <2>3, <3>1 DEF Has, Using, Connections
  <2>4. CASE e.event = "user_controller_disconnect"
    <3>1. n.controllers = m.controllers \ {e.controller}
      BY <1>4, <2>1, <2>4 DEF AfterUser, UserModel
    <3> QED BY <1>4, <2>1, <2>2, <2>4, <3>1 DEF Has, Using, Connections
  <2> QED BY <1>4, <2>3, <2>4
<1>5. CASE /\ e.event \in {"user_controller_connect", "user_controller_disconnect"}
           /\ e.user # u
  BY <1>5 DEF AfterUser, Has, Using
<1>6. CASE e.event \in {"highlighting_update", "all_highlights_reset", "spectating_update"}
  <2>1. e \notin Using(u, c)
    BY <1>6 DEF Using
  <2>2. CASE m = None
    BY <1>6, <2>1, <2>2 DEF AfterUser, Has
  <2>3. CASE m # None
    <3>1. n \in UserModel /\ n # None
      BY <1>6, <2>3, AfterUserType
    <3>2. n.controllers = m.controllers
      <4>1. CASE e.event = "highlighting_update"
        <5>1. UpdateHighlighting(m, e).controllers = m.controllers
          BY <1>0, <2>3, <4>1, EventFields DEF UpdateHighlighting, UserModel, HighlightingChanges
        <5> QED BY <4>1, <5>1 DEF AfterUser
      <4>2. CASE e.event = "all_highlights_reset"
        BY <1>0, <2>3, <4>2 DEF AfterUser, UserModel
      <4>3. CASE e.event = "spectating_update"
        BY <1>0, <2>3, <4>3 DEF AfterUser, UserModel
      <4> QED BY <1>6, <4>1, <4>2, <4>3
    <3> QED BY <2>1, <2>3, <3>1, <3>2 DEF Has
  <2> QED BY <2>2, <2>3
<1> QED BY <1>1, <1>2, <1>3, <1>4, <1>5, <1>6, EventFields DEF PlainEvents

LEMMA UsingNeeds == \A u \in Users, c \in Controllers : \A e \in Using(u, c) : u \in Needs(e)
BY DEF Using, Needs

LEMMA InitControllers == Init => ControllersInv
<1> SUFFICES ASSUME Init PROVE ControllersInv
  OBVIOUS
<1>1. ASSUME NEW r \in Replicas, NEW u \in Users, NEW c \in Controllers
      PROVE  Yields(inbox[r], Using(u, c), Connections, Has(users[r][u], c), c \in wanted[u])
  <2>1. inbox[r] = <<>> /\ wanted[u] = {} /\ users[r][u] \in {NewUser, None}
    BY DEF Init, NoEvents
  <2>2. Has(users[r][u], c) <=> c \in wanted[u]
    BY <2>1 DEF Has, NewUser
  <2>3. Silent(inbox[r], Using(u, c))
    BY <2>1 DEF Silent
  <2> QED BY <2>2, <2>3, SilentYields
<1> QED BY <1>1 DEF Init, ControllersInv

(* Of controllers, messages say nothing but for their own events.          *)
LEMMA PublishControllers ==
  ASSUME KnownInv, ControllersInv, NEW e \in Event, Publish(e),
         e.event \notin {"user_controller_connect", "user_controller_disconnect"},
         UNCHANGED <<users, presence, awaited, wanted, overtaken>>
  PROVE  ControllersInv'
<1>1. ASSUME NEW r \in Replicas, NEW u \in Users, NEW c \in Controllers, Settled(u, c)
      PROVE  Yields(inbox'[r], Using(u, c), Connections, Has(users[r][u], c), c \in wanted[u])
  <2>1. Yields(inbox[r], Using(u, c), Connections, Has(users[r][u], c), c \in wanted[u])
    BY <1>1 DEF ControllersInv
  <2>2. e \notin Using(u, c)
    BY DEF Using
  <2> QED BY <2>1, <2>2, PublishedYields DEF KnownInv
<1> QED BY <1>1 DEF ControllersInv, Settled

LEMMA ConnectControllers ==
  ASSUME KnownInv, ControllersInv, NEW u \in Users, NEW p \in Replicas, Connect(u, p)
  PROVE  ControllersInv'
<1>1. PICK e \in Event : /\ e = UserEvent("user_connected", u) /\ Publish(e)
                         /\ e.event = "user_connected"
  BY EventsTyped DEF Connect, PlainEvents, UserEvent
<1>2. /\ presence[u] = "new" /\ presence' = [presence EXCEPT ![u] = "in"]
      /\ users' = [users EXCEPT ![p] = [users[p] EXCEPT ![u] = NewUser]]
      /\ awaited' = awaited /\ overtaken' = overtaken /\ wanted' = wanted
      /\ presence \in [Users -> {"new", "in", "left"}]
      /\ users \in [Replicas -> [Users -> UserModel \cup {None}]]
  BY DEF Connect, KnownInv, TypeOK, historyVars
<1>3. wanted[u] = {}
  BY <1>2 DEF ControllersInv
<1>4. ASSUME NEW r \in Replicas, NEW v \in Users, NEW c \in Controllers, Settled(v, c)'
      PROVE  Yields(inbox'[r], Using(v, c), Connections, Has(users'[r][v], c), c \in wanted[v])
  <2>1. e \notin Using(v, c)
    BY <1>1 DEF Using
  <2>2. Yields(inbox[r], Using(v, c), Connections, Has(users'[r][v], c), c \in wanted[v])
    <3>1. CASE v = u
      <4>1. Silent(inbox[r], Using(v, c))
        BY <1>2, <3>1, NewcomersUnmentioned, UsingNeeds
      <4>2. users'[r][v] \in {NewUser, None}
        <5>1. users[r][u] = None
          BY <1>2 DEF KnownInv, NewcomersUnknown, Knows
        <5> QED BY <1>2, <3>1, <5>1
      <4>3. Has(users'[r][v], c) <=> c \in wanted[v]
        BY <1>3, <3>1, <4>2 DEF Has, NewUser
      <4> QED BY <4>1, <4>3, SilentYields
    <3>2. CASE v # u
      <4>1. users'[r][v] = users[r][v] /\ Settled(v, c)
        BY <1>2, <1>4, <3>2 DEF Settled
      <4>2. Yields(inbox[r], Using(v, c), Connections, Has(users[r][v], c), c \in wanted[v])
        BY <4>1 DEF ControllersInv
      <4> QED BY <4>1, <4>2
    <3> QED BY <3>1, <3>2
  <2> QED BY <1>1, <2>1, <2>2, PublishedYields DEF KnownInv
<1>5. \A v \in Users : presence'[v] = "new" => wanted[v] = {}
  BY <1>2 DEF ControllersInv
<1> QED BY <1>2, <1>4, <1>5 DEF ControllersInv

LEMMA DisconnectControllers ==
  ASSUME KnownInv, ControllersInv, NEW u \in Users, Disconnect(u)
  PROVE  ControllersInv'
<1>1. PICK e \in Event : /\ e = UserEvent("user_disconnect", u) /\ Publish(e)
                         /\ e.event = "user_disconnect"
  BY EventsTyped DEF Disconnect, PlainEvents, UserEvent
<1>2. /\ presence' = [presence EXCEPT ![u] = "left"]
      /\ users' = users /\ awaited' = awaited /\ overtaken' = overtaken /\ wanted' = wanted
      /\ presence \in [Users -> {"new", "in", "left"}]
  BY DEF Disconnect, KnownInv, TypeOK, historyVars
<1>3. ASSUME NEW r \in Replicas, NEW v \in Users, NEW c \in Controllers, Settled(v, c)'
      PROVE  Yields(inbox'[r], Using(v, c), Connections, Has(users[r][v], c), c \in wanted[v])
  <2>1. e \notin Using(v, c)
    BY <1>1 DEF Using
  <2>2. Settled(v, c)
    BY <1>2, <1>3 DEF Settled
  <2>3. Yields(inbox[r], Using(v, c), Connections, Has(users[r][v], c), c \in wanted[v])
    BY <2>2 DEF ControllersInv
  <2> QED BY <1>1, <2>1, <2>3, PublishedYields DEF KnownInv
<1>4. \A v \in Users : presence'[v] = "new" => wanted[v] = {}
  BY <1>2 DEF ControllersInv
<1> QED BY <1>2, <1>3, <1>4 DEF ControllersInv

(* From here on the client wants the controller, and its connect awaits.   *)
LEMMA ConnectAwaits ==
  ASSUME KnownInv, ControllersInv, NEW u \in Users, NEW d \in Controllers,
         UserControllerConnect(u, d)
  PROVE  ControllersInv'
<1>1. /\ UNCHANGED <<users, inbox, presence>> /\ presence[u] = "in"
      /\ awaited' = [awaited EXCEPT ![<<u, d>>] = @ + 1]
      /\ awaited \in [Users \X Controllers -> Nat] /\ overtaken' = overtaken \ {<<u, d>>}
      /\ wanted' = [wanted EXCEPT ![u] = @ \cup {d}] /\ wanted \in [Users -> SUBSET Controllers]
  BY DEF UserControllerConnect, Sends, KnownInv, TypeOK
<1>2. ASSUME NEW r \in Replicas, NEW v \in Users, NEW c \in Controllers, Settled(v, c)'
      PROVE  Yields(inbox[r], Using(v, c), Connections, Has(users[r][v], c), c \in wanted'[v])
  <2>1. Settled(v, c) /\ (c \in wanted'[v] <=> c \in wanted[v])
    BY <1>1, <1>2 DEF Settled
  <2>2. Yields(inbox[r], Using(v, c), Connections, Has(users[r][v], c), c \in wanted[v])
    BY <2>1 DEF ControllersInv
  <2> QED BY <2>1, <2>2 DEF Yields, LastSays
<1>3. \A v \in Users : presence[v] = "new" => wanted'[v] = {}
  BY <1>1 DEF ControllersInv
<1>4. \A v \in Users, c \in Controllers :
        awaited'[<<v, c>>] > 0 /\ <<v, c>> \notin overtaken' => c \in wanted'[v]
  BY <1>1 DEF ControllersInv
<1> QED BY <1>1, <1>2, <1>3, <1>4 DEF ControllersInv

LEMMA AwaitedControllers ==
  ASSUME KnownInv, ControllersInv, NEW u \in Users, NEW d \in Controllers,
         PublishController(u, d), presence[u] = "in"
  PROVE  ControllersInv'
<1>1. PICK e \in Event :
        e = [event |-> "user_controller_connect", user |-> u, controller |-> d]
  BY EventsTyped
<1>2. /\ Publish(e) /\ e.event = "user_controller_connect" /\ e.user = u /\ e.controller = d
      /\ UNCHANGED <<users, presence, overtaken, wanted>>
      /\ awaited[<<u, d>>] > 0 /\ awaited' = [awaited EXCEPT ![<<u, d>>] = @ - 1]
      /\ awaited \in [Users \X Controllers -> Nat]
  BY <1>1 DEF PublishController, historyVars, KnownInv, TypeOK
<1>3. ASSUME NEW r \in Replicas, NEW v \in Users, NEW c \in Controllers, Settled(v, c)'
      PROVE  Yields(inbox'[r], Using(v, c), Connections, Has(users[r][v], c), c \in wanted[v])
  <2>1. CASE v = u /\ c = d
    <3>1. e \in Using(v, c) /\ e \in Connections
      BY <1>2, <2>1 DEF Using, Connections
    <3>2. c \in wanted[v]
      BY <1>2, <1>3, <2>1 DEF Settled, ControllersInv
    <3> QED BY <1>2, <3>1, <3>2, PublishedYields DEF KnownInv
  <2>2. CASE ~ (v = u /\ c = d)
    <3>1. e \notin Using(v, c)
      BY <1>2, <2>2 DEF Using
    <3>2. Settled(v, c)
      BY <1>2, <1>3, <2>2 DEF Settled
    <3>3. Yields(inbox[r], Using(v, c), Connections, Has(users[r][v], c), c \in wanted[v])
      BY <3>2 DEF ControllersInv
    <3> QED BY <1>2, <3>1, <3>3, PublishedYields DEF KnownInv
  <2> QED BY <2>1, <2>2
<1> QED BY <1>2, <1>3 DEF ControllersInv

LEMMA DisconnectUnwants ==
  ASSUME KnownInv, ControllersInv, NEW u \in Users, NEW d \in Controllers,
         UserControllerDisconnect(u, d)
  PROVE  ControllersInv'
<1>1. PICK e \in Event :
        e = [event |-> "user_controller_disconnect", user |-> u, controller |-> d]
  BY EventsTyped
<1>2. /\ Publish(e) /\ e.event = "user_controller_disconnect" /\ e.user = u /\ e.controller = d
      /\ UNCHANGED <<users, presence, awaited>>
      /\ overtaken \subseteq overtaken' /\ overtaken' \subseteq overtaken \cup {<<u, d>>}
      /\ awaited[<<u, d>>] > 0 => <<u, d>> \in overtaken'
      /\ wanted' = [wanted EXCEPT ![u] = @ \ {d}] /\ wanted \in [Users -> SUBSET Controllers]
  BY <1>1 DEF UserControllerDisconnect, clientVars, KnownInv, TypeOK
<1>3. ASSUME NEW r \in Replicas, NEW v \in Users, NEW c \in Controllers, Settled(v, c)'
      PROVE  Yields(inbox'[r], Using(v, c), Connections, Has(users[r][v], c), c \in wanted'[v])
  <2>1. CASE v = u /\ c = d
    <3>1. e \in Using(v, c) /\ e \notin Connections
      BY <1>2, <2>1 DEF Using, Connections
    <3>2. c \notin wanted'[v]
      BY <1>2, <2>1
    <3> QED BY <1>2, <3>1, <3>2, PublishedYields DEF KnownInv
  <2>2. CASE ~ (v = u /\ c = d)
    <3>1. e \notin Using(v, c)
      BY <1>2, <2>2 DEF Using
    <3>2. Settled(v, c) /\ (c \in wanted'[v] <=> c \in wanted[v])
      BY <1>2, <1>3, <2>2 DEF Settled
    <3>3. Yields(inbox[r], Using(v, c), Connections, Has(users[r][v], c), c \in wanted[v])
      BY <3>2 DEF ControllersInv
    <3>4. Yields(inbox[r], Using(v, c), Connections, Has(users[r][v], c), c \in wanted'[v])
      BY <3>2, <3>3 DEF Yields, LastSays
    <3> QED BY <1>2, <3>1, <3>4, PublishedYields DEF KnownInv
  <2> QED BY <2>1, <2>2
<1>4. \A v \in Users : presence[v] = "new" => wanted'[v] = {}
  BY <1>2 DEF ControllersInv
<1>5. \A v \in Users, c \in Controllers :
        awaited[<<v, c>>] > 0 /\ <<v, c>> \notin overtaken' => c \in wanted'[v]
  <2> SUFFICES ASSUME NEW v \in Users, NEW c \in Controllers,
                      awaited[<<v, c>>] > 0, <<v, c>> \notin overtaken'
               PROVE  c \in wanted'[v]
    OBVIOUS
  <2>1. ~ (v = u /\ c = d) /\ c \in wanted[v]
    BY <1>2 DEF ControllersInv
  <2> QED BY <1>2, <2>1
<1> QED BY <1>2, <1>3, <1>4, <1>5 DEF ControllersInv

LEMMA HandleControllers ==
  ASSUME KnownInv, ControllersInv, NEW p \in Replicas, Handle(p)
  PROVE  ControllersInv'
<1>1. UNCHANGED <<presence, awaited, wanted, overtaken>>
  BY HandledPlainly DEF UnchangedByHandlers, clientVars, historyVars
<1>2. PICK e : e = Head(inbox[p])
  OBVIOUS
<1>3. ASSUME NEW r \in Replicas, NEW v \in Users, NEW c \in Controllers, Settled(v, c)
      PROVE  Yields(inbox'[r], Using(v, c), Connections, Has(users'[r][v], c), c \in wanted[v])
  <2>1. Yields(inbox[r], Using(v, c), Connections, Has(users[r][v], c), c \in wanted[v])
    BY <1>3 DEF ControllersInv
  <2>2. /\ e \in Event
        /\ ~ (e.event = "user_disconnect" /\ e.user = v)
        /\ v \in Needs(e) => users[p][v] # None
        /\ users'[p][v] = AfterUser(users[p][v], v, e)
        /\ r # p => users'[r] = users[r]
    BY <1>2, <1>3, HandledMember DEF Settled
  <2>3. users[p][v] \in UserModel \cup {None}
    BY DEF KnownInv, TypeOK
  <2>4. Has(users'[p][v], c) <=>
          IF e \in Using(v, c) THEN e \in Connections ELSE Has(users[p][v], c)
    BY <2>2, <2>3, AfterUserHas
  <2>5. Has(users'[r][v], c) <=>
          IF r = p /\ e \in Using(v, c) THEN e \in Connections ELSE Has(users[r][v], c)
    BY <2>2, <2>4
  <2> QED BY <1>2, <2>1, <2>5, HandledYields DEF KnownInv
<1> QED BY <1>1, <1>3 DEF ControllersInv, Settled

LEMMA StepControllers == KnownInv /\ ControllersInv /\ [Next]_vars => ControllersInv'
<1> SUFFICES ASSUME KnownInv, ControllersInv, [Next]_vars PROVE ControllersInv'
  OBVIOUS
<1>0. ASSUME UNCHANGED <<users, inbox, presence, awaited, wanted, overtaken>>
      PROVE  ControllersInv'
  BY <1>0 DEF ControllersInv, Settled
<1>1. ASSUME NEW u \in Users, NEW r \in Replicas, Connect(u, r) PROVE ControllersInv'
  BY <1>1, ConnectControllers
<1>2. ASSUME NEW u \in Users, Disconnect(u) PROVE ControllersInv'
  BY <1>2, DisconnectControllers
<1>3. ASSUME NEW u \in Users, ClientMessage(u) PROVE ControllersInv'
  <2>1. ASSUME NEW entity \in Entities, NEW change \in HighlightingChanges,
               HighlightingUpdate(u, entity, change)
        PROVE  ControllersInv'
    BY <2>1, EventsTyped, PublishControllers DEF HighlightingUpdate, clientVars, historyVars
  <2>2. CASE AllHighlightsReset(u)
    BY <2>2, EventsTyped, PublishControllers
       DEF AllHighlightsReset, UserEvent, PlainEvents, clientVars
  <2>3. CASE UserPositions(u)
    BY <2>3, EventsTyped, PublishControllers
       DEF UserPositions, UserEvent, PlainEvents, clientVars, historyVars
  <2>4. ASSUME NEW S \in SpectatorLists, NEW b \in BOOLEAN, SpectatingUpdate(u, S, b)
        PROVE  ControllersInv'
    BY <2>4, EventsTyped, PublishControllers DEF SpectatingUpdate, historyVars
  <2>5. ASSUME NEW S \in SpectatorLists, NEW b \in BOOLEAN, SpectatingUpdateFails(u, S, b)
        PROVE  ControllersInv'
    BY <1>0, <2>5 DEF SpectatingUpdateFails
  <2>6. ASSUME NEW c \in Controllers, UserControllerConnect(u, c) \/ UserControllerDisconnect(u, c)
        PROVE  ControllersInv'
    BY <2>6, ConnectAwaits, DisconnectUnwants
  <2> QED BY <1>3, <2>1, <2>2, <2>3, <2>4, <2>5, <2>6 DEF ClientMessage
<1>4. ASSUME NEW u \in Users, NEW c \in Controllers, PublishController(u, c)
      PROVE  ControllersInv'
  <2>1. CASE presence[u] = "in"
    BY <1>4, <2>1, AwaitedControllers
  <2>2. CASE presence[u] # "in"
    <3>1. /\ UNCHANGED <<users, inbox, presence, wanted, overtaken>>
          /\ awaited' = [awaited EXCEPT ![<<u, c>>] = @ - 1]
          /\ awaited[<<u, c>>] > 0 /\ awaited \in [Users \X Controllers -> Nat]
      BY <1>4, <2>2 DEF PublishController, historyVars, KnownInv, TypeOK
    <3>2. \A v \in Users, d \in Controllers : Settled(v, d)' => Settled(v, d)
      BY <2>2, <3>1 DEF Settled
    <3>3. \A v \in Users, d \in Controllers : awaited'[<<v, d>>] > 0 => awaited[<<v, d>>] > 0
      BY <3>1
    <3> QED BY <3>1, <3>2, <3>3 DEF ControllersInv
  <2> QED BY <2>1, <2>2
<1>5. ASSUME NEW r \in Replicas, Handle(r) PROVE ControllersInv'
  BY <1>5, HandleControllers
<1>6. ASSUME NEW r \in Replicas, HandleSpectatingUpdateThrows(r) PROVE ControllersInv'
  BY <1>0, <1>6 DEF HandleSpectatingUpdateThrows, historyVars
<1>7. CASE UNCHANGED vars
  BY <1>0, <1>7 DEF vars, clientVars, historyVars
<1> QED BY <1>1, <1>2, <1>3, <1>4, <1>5, <1>6, <1>7 DEF Next

(* A replica with no more news of a user's controllers has exactly those   *)
(* that the client wants connected, unless a disconnect overtook the       *)
(* connect that awaited its id: however the messages and the awaits of the *)
(* clients interleave.                                                     *)
THEOREM ControllersFollowClients == Spec => []ControllersFollow
<1>1. ASSUME KnownInv, ControllersInv PROVE ControllersFollow
  <2> SUFFICES ASSUME NEW r \in Replicas, NEW u \in Users, NEW c \in Controllers,
                      presence[u] = "in", Knows(r, u),
                      awaited[<<u, c>>] = 0, <<u, c>> \notin overtaken,
                      ~ Waiting(r, "user_controller_connect", u),
                      ~ Waiting(r, "user_controller_disconnect", u)
               PROVE  c \in users[r][u].controllers <=> c \in wanted[u]
    BY DEF ControllersFollow
  <2>1. Silent(inbox[r], Using(u, c))
    BY DEF Silent, Using, Waiting, Queued
  <2>2. Yields(inbox[r], Using(u, c), Connections, Has(users[r][u], c), c \in wanted[u])
    BY <1>1 DEF ControllersInv, Settled
  <2>3. Has(users[r][u], c) <=> c \in wanted[u]
    BY <2>1, <2>2 DEF Yields
  <2> QED BY <2>3 DEF Has, Knows
<1> QED BY <1>1, InitKnown, StepKnown, InitControllers, StepControllers, PTL DEF Spec
=============================================================================
