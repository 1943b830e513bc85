# Verification of the collaboration service

TLA+ modules, TLC configurations and TLAPS proofs about the collaboration
service: a NestJS server, run as several replicas, that lets users share a room
in which a software landscape is explored in VR, AR or on the desktop. Paths
below are relative to the source root, `src/` being the service's TypeScript.

## The system

Each replica is one Node process: JavaScript runs one callback at a time, and
other callbacks run wherever the code awaits. Replicas share nothing but Redis,
which they use in four ways: a publish/subscribe channel per event, tickets
(keys with an expiry), locks (redlock), and a counter for ids.

| Component | State | Operations |
| --- | --- | --- |
| HTTP API (`app.controller.ts`) | none | `addRoom`, `joinLobby`, `listRooms` |
| Tickets (`ticket/`) | Redis: ticket id to room, user, validUntil | `drawTicket` (its store is not awaited), `redeemTicket` (does not delete) |
| Ids (`id-generation/`) | a counter in Redis | `nextId`: `setnx` to 0, then `incr` |
| Rooms (`room/`, `factory/room-factory/`) | map room id to `Room`, per replica | `createRoom`, `deleteRoom`, `lookupRoom` |
| Users and colours (`modifier/user-modifier.ts`, `color-modifier.ts`) | per `Room`: users, how often each colour is worn | `makeUserModel`, `addUser`, `removeUser`, poses, highlights |
| Sessions (`session/`) | per replica: socket to session, user id to socket | `register`, `unregister`, `lookupSession`, `lookupSocket` |
| Gateway (`websocket/`) | none of its own | `handleConnection`, `handleDisconnect`, a handler per client message |
| Event bus (`publisher/`, `subscriber/`) | Redis channels | `publish`; one handler per event, on every replica |
| Locks (`lock/`) | Redis keys; per replica `grabbableObjectLocks`: object id to user and lock | grab, close, release, release all of a user, timestamp lock |
| Room contents (`modifier/`, `model/`) | per `Room`: landscape, open applications and components, detached menus, heatmap, grabbable objects | open, close, update, sync; applied by event handlers |
| Chat (`chat/`) | per replica: history, mutes, message ids | send, mute, delete, sync |
| Timer (`publisher/`) | Redis: a lock per room, never released | every 10 s, on every replica, a timestamp per room |

How they interact. A client posts to `addRoom`; the replica publishes a
`create_room` event and every replica, itself included, creates the room when
the event arrives. `joinLobby` writes a ticket with a fresh user id. The client
opens a WebSocket to any replica with the ticket; `handleConnection` awaits the
ticket, adds the user to the local `Room`, publishes `user_connected` and
registers the session. Every other replica adds the user when the event
arrives. `handleDisconnect` removes the session, releases the user's locks and
publishes `user_disconnect`; all replicas remove the user when they handle it,
and the room with its last user. Everything else a client sends is a handler
that looks the session up, perhaps takes a lock, and publishes an event.

### What is hard here

- *Awaits.* State is read before an await and used after it: the room in
  `addRoom`, the socket in `handleConnection`, the user of a grab, the entry of
  a lock in a release.
- *Order.* All replicas see the events of Redis in one order, but the replica
  that serves a user changes its own `Room` before the event comes back.
- *Failure.* An event for a room the replica does not have dereferences
  `undefined` in the Redis callback and ends the process; so does a rejected
  promise that nobody handles. A restarted replica is empty.
- *Duplication.* Tickets can be presented again, room ids can be chosen by the
  client, locks can be released twice.

### What makes it correct

- Rooms and users: replicas that have handled the same events agree; no user
  stays in a room that nothing will remove; a session's room and user are there
  as long as the session; colours count the users that wear them.
- Sessions: `lookupSocket` finds the socket of that very user, on this replica.
- Locks: an object is held by one user, closed only while nobody holds it (as
  long as the answer comes within 500 ms), and becomes free again after its user
  has gone.
- Room contents: replicas that have handled the same events have the same
  landscape, applications, components and menus.
- User activity: no handler of an event meets a user of the room that its
  replica does not know; replicas record the same of every user; a client that has
  been told of
  the users and controllers when it joined, and of every event since, knows
  those that are there.
- Chat: a message that is in one history has an id of its own there, has been
  heard by those who were in the room, and when deleted comes back only if
  somebody sends it again, alone or in the history of a replica that still has it.
- Timer: one replica sends the timestamp of a room.

## Modules

| Module | What it is |
| --- | --- |
| `RoomUsers` | The users and colours of one `Room`, as operators on a record |
| `RoomLifecycle` | Rooms, tickets, sessions and the event bus on all replicas |
| `RoomLifecycleProofs`, `RoomMembersProofs` | Theorems about them |
| `MCRoomLifecycle` | Symmetries for TLC, with four configurations |
| `TimestampTimer` | The cron job on top of `RoomLifecycle`, with its configuration |
| `ExclusiveGrab` | What clients may expect of the lock service |
| `GrabLock` | The lock service on all replicas, with redlock and Redis |
| `GrabLockProofs` | Theorems about it, among them that it implements `ExclusiveGrab` |
| `MCGrabLock` | Symmetries for TLC, with four configurations |
| `RoomContents` | The contents of one `Room`, as operators on a record: the methods of the modifiers |
| `RoomState` | One room on all replicas: client messages, events, a landscape changed on one replica only |
| `RoomStateProofs` | Theorems about both |
| `MCRoomState` | Payloads and symmetry for TLC |
| `EventBus` | Redis publish and subscribe, for the two modules below |
| `UserActivity` | What users do besides changing contents, what replicas record of it, what clients are told |
| `RoomChat` | The chat of one room, until the room is deleted and replicas end |
| `EventBusProofs`, `UserActivityProofs`, `RoomChatProofs` | Theorems about them |
| `EventLogProofs` | What the proofs about agreeing replicas share: queues that replay one log, and what queued events say of one fact |
| `MCUserActivity`, `MCRoomChat` | Symmetries and parameters for TLC |

### RoomLifecycle

One action is what a replica runs between two awaits. The state:

| Variable | Code |
| --- | --- |
| `status` | the process of a replica: up since the start, down, restarted |
| `rooms[r][id]` | `RoomService.rooms`; a room is the record of `RoomUsers` |
| `inbox[r]` | events that Redis has delivered to replica r and r has not handled |
| `reqState`, `reqReplica`, `reqRoom` | calls of `addRoom` between its awaits |
| `ticketState`, `ticketRoom` | `TicketService`'s keys; a user stands for its ticket |
| `phase`, `sockReplica`, `sockUser`, `sockRoom` | sockets and `SessionService.sessions` |
| `socketByUserId[r][u]` | `SessionService.socketByUserId` |

| Action | Code |
| --- | --- |
| `AddRoom`, `PublishCreateRoom` | `addRoom` before and after its awaits |
| `JoinLobby`, `StoreTicket`, `ExpireTicket` | `joinLobby`, the unawaited store, `validUntil` |
| `Connect`, `Accept`, `Refuse` | `handleConnection` before and after `redeemTicket` |
| `Disconnect`, `DropEarly` | `handleDisconnect` with and without a session |
| `HandleCreateRoom`, `HandleUserConnected`, `HandleUserDisconnected` | the subscriber's handlers |
| `HandlerThrows` | the same handlers without the room: the process ends |
| `Stop`, `Restart` | the operator |

A `Room` is identified by the `addRoom` call that created it, so that a session
that holds a `Room` object which its replica has since replaced can be told from
one whose `Room` is current (`sockRoom`). Landscape, names and positions of
users are left out: nothing here depends on them.

Publishing is one step that reaches the inbox of every live replica, in one
order: Redis is a single server and a subscriber's connection keeps its order.
Messages lost on a broken Redis connection are not modelled. Two ids handed
out by `nextId` are taken to be different.

### GrabLock

| Variable | Code |
| --- | --- |
| `redis[k]` | the key `roomId-grabId`: the token that redlock set, if any |
| `locks[r][x]` | `LockService.grabbableObjectLocks` of replica r, keyed by object id |
| `opState`, `request` | calls of `redlock.acquire`, for a grab or a close |
| `relSent`, `relDone` | calls of `redlock.release`: sent, run in Redis and not continued |
| `up`, `presence`, `userReplica`, `userRoom` | processes and sessions |

A call to redlock is three steps, and anything may happen in between: it is
sent (`Ask`, `Release`, `Disconnect`), its script runs (`Acquire`,
`RefuseAcquire`, `RunRelease`, `ReleaseRejected`), and the code after the await
runs (`GrabGranted`, `CloseGranted`, `ReleaseContinues`). Retries of `acquire`
are the choice of when the script finds the key free. The continuations of
replies that have arrived may run in any order, because the promise chains of
`acquire` and `release` have different lengths.

redlock (5.0.0-beta.2) is not part of the source tree. Modelled from how it is
used: `acquire` sets the key to a fresh token only if the key does not exist and
throws after the last retry; `release` deletes the key only if it holds the
token, and rejects after the last retry if it does not. Node (18) ends a process
on an unhandled rejection. The lifetime given to grabs
(`Number.MAX_SAFE_INTEGER` ms) never passes; that of a close (500 ms) may pass
at any moment, also before the reply is handled (`ExpireClose`). In that case
the call ends as `"late"`: the room is told of a close although another user may
have the object by then. Nothing in the code prevents it. Moving a grabbed object
changes no state; `Holds` is the condition under which it is forwarded, less the
time in which a release is under way.

`ExclusiveGrab` has two variables, who holds each object and which closes have
been announced. The refinement maps `holder` to the users for whom `Holds` is
true and `closed` to the closes whose event was published while their key
lived, each with its object: a close is a step of `ExclusiveGrab` only if nobody
holds the very object that the request names. A late close is none, so the
refinement says nothing of it.

### RoomState

| Variable | Code |
| --- | --- |
| `room[r]` | replica r's `Room`, the record of `RoomContents`: landscape token, open applications, detached menus, `GrabModifier.grabbableObjects` |
| `inbox[r]` | events of Redis that r has not handled |
| `drawn` | menu ids that the service has given out |
| `holder[o]`, `pending` | the lock of an object, and requests between look-up and grant |
| `sent`, `inSync` | the bound on events; whether r had no landscape change of its own since the last synchronization |

| Action | Code |
| --- | --- |
| `AppOpened`, `ComponentUpdate`, `MenuDetached`, `TimestampUpdate`, `SyncRoomState`, `ObjectMoved` | the gateway's handlers that publish |
| `ChangeLandscape` | `handleChangeLandscapeMessage`, which changes the local `Room` first |
| `AskLock`, `Grab`, `Close`, `LockRefused`, `Release`, `ExpireClose` | grabs and closes around their await |
| `CloseUnknownMenu` | `handleDetachedMenuClosedMessage` for a menu that the replica does not have |
| `HandleAppOpened`, ... `HandleSyncRoomState` | the subscriber's handlers |

The room exists, all replicas have it and none stops; who is in it is
`RoomLifecycle`. The lock is one variable per object here, as `ExclusiveGrab`
allows; the key of a close expires at any moment, whatever is still queued
(`ExpireClose`). So the news of a close may reach a replica when another user has
grabbed the object, and no property says otherwise. Room contents have a list of
open components per application, counted because opening twice needs closing
twice; poses are values that moves and openings set. The timestamp and the pose
of the landscape belong to the timer and are left out; the heatmap is written
and never read.

Landscape changes are what keeps the replicas from being copies of one log. A
replica that changed its landscape drops applications and grabbable objects that
the others keep, and the events that follow have another effect there: a move of
a menu does nothing, an update of a dropped application creates it again. A
synchronization message closes and opens everything, and `CopiesAgree` says that
this suffices for what is shown. Its event must find the same state behind
different grabbable objects, which is why `GrabbablesExact` matters: a stale
entry would let a move through on one replica only.

### UserActivity

| Variable | Code |
| --- | --- |
| `users[r][u]` | replica r's `UserModel` of user u: highlighted entities, keys of `controllers`, whether the state is `SPECTATING` |
| `presence`, `home` | sessions, and where they are |
| `ended` | replicas whose process a spectating update has ended |
| `awaited` | how many calls of `handleUserControllerConnectMessage` await an id |
| `spectatingRoom` | sockets in Socket.IO's spectating room |
| `view[u]` | what u's client has been told: users, controllers, highlights |
| `wanted`, `overtaken`, `halfDone`, `resetters` | history variables, for the properties alone |

| Action | Code |
| --- | --- |
| `Connect`, `Disconnect` | `handleConnection` after the ticket, with what it tells the client; `handleDisconnect` |
| `HighlightingUpdate`, `AllHighlightsReset`, `UserPositions`, `UserControllerDisconnect` | the gateway's handlers |
| `UserControllerConnect`, `PublishController` | the handler before and after it awaits an id |
| `SpectatingUpdate`, `SpectatingUpdateFails` | `handleSpectatingUpdateMessage`, and the same when it throws on the way |
| `HandleUserConnected`, ... `HandleUserPositions` | the subscriber's handlers, with their broadcasts |
| `HandleSpectatingUpdateThrows` | `handleSpectatingUpdateEvent` for a user who is not in the room: the process ends |

Some users stay in the room from the beginning, so that it is never deleted;
what happens when it is belongs to `RoomLifecycle`. A throw in a gateway handler
is an error message to the client, and a throw in a subscriber's handler ends
the process: `Handles` has the condition under which it does not. There are two
ways in which the condition fails in the code. `lookupSocket` finds sockets by
user and not by room, so a client may name a user of another room (`Outsiders`)
as a spectator; the event is published, and `updateSpectating(undefined)` ends
the process of every replica that handles it. The model has this, and no
property forbids it. And with a ticket that is presented twice, which
`UserActivity` leaves to `RoomLifecycle`, the first connection to leave takes
the user away under the second. Of the users of the room, with tickets used
once, `EventsFindUsers` says that they are always found.

The repository has no client. Of
the client only this is assumed (`ShowHighlighting`): it keeps what it is told,
and takes away a highlight when told that an entity is no longer highlighted.

`UserModifier.updateHighlighting` has two loops over `Object.values` of a `Map`,
which is empty: an entity that a user takes from its selection stays recorded.
So replicas record more than clients show, never less (`HighlightsRecorded`).
The exception is a client that has reset all highlights: it is not told of its
own reset, and may show a highlight that came in between.

### RoomChat

| Variable | Code |
| --- | --- |
| `history[r]`, `muted[r]`, `msgId[r]` | replica r's `ChatService`, for one room |
| `hasRoom`, `members`, `live` | the rooms and processes, as far as the chat depends on them |
| `told[u]` | messages that u's client has been sent and not been told to delete |
| `since`, `erased`, `deletedIds`, `current` | history variables, for the properties alone |

| Action | Code |
| --- | --- |
| `Connect`, `Disconnect` | `handleConnection`; `handleDisconnect`, whose notice goes through `handleChatMessage` |
| `ChatMessage`, `Mute`, `ChatSync`, `MessageDelete` | the gateway's handlers |
| `HandleUserConnected`, `HandleUserDisconnected`, `HandlerThrows` | the subscriber's handlers, with `deleteEmptyChatRoom` |
| `HandleChatMessage`, `HandleChatSync`, `HandleMessageDelete` | the chat handlers, which broadcast |

A message is the replica that counted its id, the id, and its author; texts and
times are left out. The list of messages is a set, ordered by the ids. Clients
delete by id, and messages of two replicas can have the same id: the model has
that, and `HistoryIsHeard` excepts the ids that anybody deleted. A deletion
changes the history of the replica that it is sent to and no other, while all
clients take the message away. So a message that is deleted through another
replica stays where it is, and the next synchronization from there shows it
again: the model has that too, and `NoResurrection` counts what is shown again
as sent after the deletion (`current`). It says of every deletion, through
whatever replica, that messages and histories which were on their way bring
nothing back; and of a deletion at the replica that has the message, that
nothing ever does. Messages,
deletions and histories are events; mutes are not, so that a user is muted where
it is connected, or not at all.

### TimestampTimer

Adds two variables to `RoomLifecycle`: `timestampKey`, the lock of each room in
Redis, and `timerInbox`, the timestamps on their way to each replica, which need
no place in the order of the other events because handling them changes nothing
and needs no room. A step is one of `RoomLifecycle`, a `Tick` of a replica or the
handling of a timestamp.

## What the runs check

| Run | Instance | Result |
| --- | --- | --- |
| `lifecycle` | 2 replicas, 2 users, 2 sockets, 2 colours; a room with a generated id, and one whose id two clients choose at once; one ticket presented twice | `TypeOK`, `LookupSocketExact`, `NoOrphanMember`, `SessionsBacked`, `UsersKnownEverywhere`, `SurvivorsAgree`, `ColorsBalanced` hold |
| `lifecycle_live` | 2 replicas, one may be killed | `LeaversRemoved` holds under fairness: of the users whose departure their replica handled |
| `lifecycle_ghost` | a socket fails while its ticket is redeemed | `LeaversRemoved` is violated: the user stays for ever |
| `lifecycle_restart` | a replica restarts | `RoomAvailableAtAllReplicas` is violated: it never gets the room |
| `grab` | 2 replicas that may be killed, 2 rooms, 1 object id, 3 users of whom two await their answers, 3 calls, 1 asked release per lock | `TypeOK`, `EntryBacked`, `OneHolder`, `PatientLeaversFreeKeys`, `PatientReleasesSucceed`, `PatientGrabsLast`, `ExclusiveSpec` hold |
| `grab_leak` | a user leaves while its grab is awaited | `LeaversFreeKeys` is violated: the object stays locked |
| `grab_rooms` | two rooms on one replica use the same object id | `GrabsLast` is violated: one room's grab is forgotten |
| `grab_crash` | a release and a disconnect | `ReleaseNeverEndsProcess` is violated |
| `room_state` | 2 replicas, 1 application with 1 component, 1 menu, 2 tokens, 2 poses, 2 payloads, 3 events, 1 pending request | `TypeOK`, `GrabbablesExact`, `CopiesAgree` hold |
| `activity` | 2 replicas, a user who stays and two who come and go, 1 user of another room, 2 entities that newcomers are told of, 1 controller, 4 steps of clients | `TypeOK`, `EventsFindUsers`, `ActivityAgrees`, `ClientsKnowRoom`, `HighlightsRecorded`, `ControllersFollow`, `SpectatorsInRoom` hold |
| `chat` | 2 replicas, 3 users, 6 steps of clients | `TypeOK`, `ChatDiesWithRoom`, `IdsUnique`, `AuthorsKnown`, `NoResurrection`, `HistoryIsHeard` hold |
| `timer_exclusive` | 2 replicas, 1 room | `OneTimestampSender` is violated: both send |

The runs that end in a violation each contradict a sentence of the source or a
test, quoted in `PROJECT.json` under findings. What the passing runs say
beside them is what is left: without early drops leavers are removed, but for
the users of a replica that was killed, whose departure nobody publishes
(`lifecycle_live`); without reuse and client-chosen ids sessions are backed
(`lifecycle`), and each of the three violations of the lock service has its
counterpart for a user that awaits its answers (`grab`): it ends no replica by a
release (`PatientReleasesSucceed`, against `ReleaseNeverEndsProcess`), and if it
shares no object id with another user of its replica it keeps what it grabbed
(`PatientGrabsLast`, against `GrabsLast`) and leaves no key
(`PatientLeaversFreeKeys`, against `LeaversFreeKeys`).

What an invariant of `lifecycle` can promise depends on the clients, so one
instance has both kinds. `SessionsBacked` and `UsersKnownEverywhere` speak of
generated ids and tickets used once, `ColorsBalanced` of rooms none of whose
tickets two connections have presented, so that in many behaviours of the
instance both users count; the other invariants hold without any discipline.

Bounds. Two replicas are enough for every pair of causes: one handles its own
events early and the other late, and after the last user of a replica has left,
that replica is the one that only listens, deletes the room and meets the
arrival at the other. Two users suffice for "last one leaves, another joins", and
two colours for one that is worn twice. For locks, one object id in two rooms on
two replicas gives every combination of same key, same entry and neither; three
users and three calls give a holder, a contender and a close, or two holders in
two rooms and a contender. `MaxReleases` caps only what users ask for: a
disconnect adds one more, which is the double release. In `room_state` three
events are a landscape change, something that it makes go differently on the two
replicas, and the synchronization that follows; `MaxEvents` and `MaxRequests` are
the only caps, grabs and releases come in any number. In `activity` a step is
what a client does, and the handling of events is not counted: four steps are a
newcomer, two messages that interfere, and one more arrival or departure; one
outsider is enough for an event whose user no replica finds. Both entities are
listed for newcomers, because a client that is told less shows less: what
`HighlightsRecorded` says is hardest then. Six
steps of `chat` are two arrivals at different replicas, a message of each, its
deletion and a history that races it, or three users, two of whom leave. Deadlock
is not checked: clients, tickets, calls and steps are finite, so every run comes
to an end.

Symmetry is used for safety only, over sets whose members a configuration
treats alike. No run constrains the state space otherwise.

Fairness, in `lifecycle_live` and `lifecycle_ghost` only: weak fairness of each
live replica handling its next event, since the Redis client calls the handler
for every message, and of the continuation of each awaited ticket look-up.
Clients may stay away or stay connected for ever, tickets need not be stored,
and nobody need restart a replica.

## What is proved

By TLAPS, for any finite or infinite sets of replicas, users, rooms, objects
and calls (the users of `RoomLifecycle` are finitely many, as it counts them by
colour):

- `RoomUsers`: adding or removing a user keeps the room a room, has just
  the effect its name says on membership, and (`AddUserBalanced`,
  `RemoveUserBalanced`) keeps the colour counts equal to the users that wear
  each colour, for finitely many users.
- `TypeCorrect`: `RoomLifecycle`'s `TypeOK`.
- `SessionsAreBacked`: `SessionsBacked`. That the room of a session is the
  session's is not inductive. A creation that is still queued could replace it,
  so `SessionInv` adds that the ids of rooms that the service chose belong to
  one request (`RequestsDistinct`), and that a queued creation of such a room is
  the only one and the room is not there yet (`CreationsSound`,
  `RoomsRequested`). A queued departure could remove its user, so it adds that a
  departure in a queue is that of a closed session (`DeparturesSound`) and that
  a ticket used once belongs to one socket (`TicketsUsedOnce`).
- `SocketsAreFound`: `LookupSocketExact` is inductive once a ticket used once is
  known to belong to one socket. Unregistering removes the entry of one user,
  which is no other session's.
- `NobodyStaysBehind`: `NoOrphanMember` needs to know that what a queue says of a
  user is about the room of its ticket (`UserEventsPlaced`), that a ticket keeps
  its room (`TicketsRoomless`), that a stopped replica, which gets no departures,
  has no members (`DownEmpty`), and that a queued arrival is of a user with a
  session or has the departure queued behind it (`ArrivalsHosted`): a replica that
  is late adds users who are already gone.
- `NobodyIsMissing`: `UsersKnownEverywhere` rests on `SessionInv`: no departure of a
  user with a session is queued, and no queued creation would replace its room.
- `ColorsAreBalanced`: what needs proof is that the user whom a replica accepts is
  not yet in the room, as `makeUserModel` does not look. Were it there, it would
  have a session or a departure (`NoOrphanMember`), and a ticket that is redeemed
  for the first time has neither.
- `LockTypeCorrect`, `EntriesAreBacked`, `OneHolderOnly`: the inductive invariant
  `LockInv` is `TypeOK`, which also says that each token is where it belongs,
  `EntryBacked`, and that a granted call owns its key until it is continued
  (`GrantBacked`). An entry names a token, a key holds one token, and the room of
  the entry's user and the object give the key: so two holders of one object
  would have one token, hence be one user.
- `ImplementsExclusiveGrab`: every step of `GrabLock` is a step of
  `ExclusiveGrab` or leaves its variables alone, where a close is recorded with its
  object and counts only while its key lives. All actions but two only let
  users lose what they hold (`LoseStep`, `HoldsMonotone`). `GrabGranted` takes an
  object and `CloseGranted` announces a close, and in both cases the call owns
  the key of the object, so nobody holds it (`GrantedUnheld`).
- `PatientLeaversLeaveNothing`: a user that awaits its answers has one release of a
  lock under way at most, and none while it awaits a lock (`OneAtATime`); when it
  leaves, every entry it has is released (`LeaversRelease`). So no key is left if
  every key it owns is in an entry (`UnsharedEntries`), and that is where sharing
  an object id matters. A later grab replaces the entry only after the key was
  free, and a release that is continued deletes its own entry and no other, since
  its key is gone for good (`ReleasedKeys`).
- `PatientUsersEndNoProcess`, `PatientUsersKeepGrabs`: a release is sent for an entry
  whose lock is not being released, hence is in Redis (`EntryBacked`), and until its
  script runs there is no other that could take it away (`OneAtATime`). An entry
  that a user holds could go by a grant, which would need the key that it owns, or
  by the continuation of an earlier release, which would need to be in the entry
  itself (`UnsharedEntries`).

- `RoomTypeCorrect`, `GrabbablesAreExact`, for any number of events, replicas,
  applications and menus: one lemma per method of the modifiers says that it
  keeps a room well-formed and tidy, and keeps menus and landscape grabbable if
  they were (`Keeps`); a landscape change keeps it tidy only, and a
  synchronization makes everything grabbable again (`SyncContentsKeeps`). The
  invariant has one part per replica, so a step of one does not disturb the rest.

- `HandlersFindUsers`: `EventsFindUsers`, which is about the users of the room
  (an event that names another user is none of its concern, and ends the replica),
  needs that a user in the room is known
  to a replica or on its way there, with no departure queued (`MembersKnown`), and
  that nothing is heard of a user before it joins (`NewcomersUnknown`). The three
  are inductive together with the type invariant (`KnownInv`). The queues are
  handled by lemmas of `EventBusProofs`: what is queued, and what is queued ahead
  of what, after a publication and after the next event is taken.
- `ClientsFollowRoom`, `HighlightsKept`: `ActivityInv` adds to `KnownInv` the two
  properties, that nobody is told of its own highlights (`OwnHighlightsUntold`)
  and that a queued reset has its sender among the resetters. The heart is one
  lemma per handler: a replica changes its record and the views of its clients
  alike, except for the sender, who is told nothing about itself.
- `AuthorsAreKnown`, `ChatGoesWithRoom`, `IdsStayUnique`: `BaseInv` has the types,
  that members are known (`MembersKnown`), and that a message deleted at the
  replica that had it is out of its history, its id is used up, and it is not
  among those sent since (`ErasedGone`).
- `DeletedStaysDeleted`, `ChatIsHeard`: `ShownInv` adds that whatever in a queue
  would show a message that was not sent since the deletion of its id has that
  deletion behind it (`DeletionsFollow`), which is what the one order of Redis
  gives, and that every deletion on its way is recorded. That a message deleted
  where it was is not sent again is `ErasedGone`: no history has it, and its id is
  used up. With these, all invariants of the run `chat` are proved for any
  number of replicas, users and steps.

- `ReplicasAgree` (`SurvivorsAgree`), `CopiesStayAlike` (`CopiesAgree`) and
  `ReplicasRecordAlike` (`ActivityAgrees`) say that replicas which have handled the
  same events hold the same. They have one argument, `OneLog`: at any time there
  is a function `log` on the naturals and a number `n` of events so far, such that
  every replica's queue leads, entry by entry, from its place in `log` to entry
  `n` (`Replays` in `EventLogProofs`), and its state is the entry at its place
  (`AtEntry`). Two replicas with equal queues are at the same place. A publication
  gives the log one entry more, the handling of an event moves one replica on, and
  the log stands for what the events add up to, so no history variable is needed.
  What differs is what a replica may do by itself, and `AtEntry` allows just that:
  - in `RoomLifecycle` a replica also has users that it accepted and whose arrivals
    it has not handled (`Arriving`), and for them keeps a room that the log has
    already deleted; only replicas that never stopped follow the log;
  - in `RoomState` a replica that changed its landscape keeps only its menus at the
    log's, until a synchronization brings the rest of what it shows back; what can
    be grabbed need not be in the log, as `GrabbablesExact` gives what matters of it;
  - in `UserActivity` a replica has a fresh `UserModel` of a user whom the log does
    not know yet and whose arrival is on its way.
- `SpectatorsFollowRoom` (`SpectatorsInRoom`) and `ControllersFollowClients`
  (`ControllersFollow`) compare replicas with something outside of them, a socket's
  room and a client's wish. "With no more news the two are equal" is not
  inductive; `SpectatingInv` and `ControllersInv` say also that the last queued
  event about a user, or a controller, leaves it as it should be (`Yields`). The
  lemmas on `Yields` do the queues once for both: a new event has the last word,
  the first event makes of the fact what it says. What is left is that no event
  about a newcomer is queued (`NewcomersUnmentioned`), that no departure of a
  present user is (`HandledMember`), and, for controllers, that a connect which
  awaits its id without having been overtaken is what the client still wants.

Assumptions: the constants' `NoneAssumption`, `EnvironmentAssumption`,
`ContentsAssumption`, `StateAssumption`, `ActivityAssumption`, `NoneIsNoUser` and
`ChatAssumption`, which say that `None` is no member of the other sets, that
applications, menus and tokens have different ids, that payloads are rooms, that
outsiders are no users of the room, and which users, replicas and sockets the environment may be unkind to; and those of
`RoomUsers`, that users and colours are finitely many.

With these theorems every invariant that a passing run checks is a theorem, and so is the
refinement. `OneLog` quantifies over functions on the naturals, which TLC cannot
enumerate: what a run checks is the agreement that follows from it.

Model-checked only: `LeaversRemoved`, as liveness under fairness is beyond the
prover. So are the violations, each of which is one execution. No theorem has a
hypothesis beyond the assumptions above.

## Not modelled

- Handlers that pass a message on and change nothing: pings, shared settings,
  VR joins, kicks. There is nothing in them to go wrong but the session look-up,
  which is part of every handler that is modelled.
- The heatmap (written, never read), the mode of a client and its VR room
  (nothing is sent there), poses, names, times and texts: the last message wins,
  and no decision depends on them.
- Ids: the counter is one Redis command, so two ids never agree. The models
  take fresh ids for granted and have the await where it matters.
- Redis and network outages, and what happens inside the WebSocket library.
- Message and payload types (no behaviour), wiring and configuration.

Three compositions are left out because they are too large to check, and each
would say little that its parts do not. The timer's liveness, that every client
gets timestamps, is that of `RoomLifecycle` times that of the timer. Room
contents together with the coming and going of users add newcomers, who read the
contents once. Chat and user activity meet in the order of events only, which
`EventBus` has for both.

What could come next: the timestamp timer's lock, if the code comes to await it,
as a module to prove about; and the hazards that no property covers yet, which
`PROJECT.json` lists with the reason.
