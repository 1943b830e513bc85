------------------------------ MODULE RoomState -------------------------------
(***************************************************************************)
(* One room on several replicas: users change its contents, every change   *)
(* goes through Redis, and every replica applies the changes to its own    *)
(* Room object in the order of Redis.  The exception is a change of the    *)
(* landscape token, which the replica that is asked for it applies to its  *)
(* own Room object only.                                                   *)
(*                                                                         *)
(* Membership of the room and the life of the replicas are RoomLifecycle.  *)
(* The lock service is GrabLock; here an object has one key, granted in    *)
(* one step, and the users of a replica are not told apart.                *)
(***************************************************************************)
EXTENDS RoomContents, Sequences, FiniteSets

CONSTANTS Replicas,
          Payloads,     \* what clients send to create or synchronize the room
          Closing,      \* the holder of a key that was acquired to close its object
          MaxEvents,    \* bound on the events that are published
          MaxRequests   \* bound on the lock requests that are pending

ASSUME StateAssumption ==
  /\ Payloads \subseteq RoomPayload
  /\ None \notin Replicas \cup {Closing}
  /\ Closing \notin Replicas
  /\ MaxEvents \in Nat
  /\ MaxRequests \in Nat

VARIABLES room,      \* replica -> its Room object
          inbox,     \* replica -> events of Redis that it has not handled
          drawn,     \* menu ids that the service has given out
          holder,    \* object -> who has its key: a replica's user, Closing or None
          pending,   \* requests <<kind, replica, object>> that await their lock
          sent,      \* number of events published
          inSync     \* replica -> history: no landscape change of its own since
                     \* the room was created or synchronized

vars == <<room, inbox, drawn, holder, pending, sent, inSync>>

Objects == Apps \cup Menus

Event == [event : {"app_opened"}, app : Apps, pose : Poses]
         \cup [event : {"app_closed"}, object : Apps]
         \cup [event : {"component_update"}, app : Apps, component : Components,
               change : ComponentChanges]
         \cup [event : {"menu_detached"}, menu : Menus, pose : Poses]
         \cup [event : {"detached_menu_closed"}, object : Menus]
         \cup [event : {"object_moved"}, object : Objects, pose : Poses]
         \cup [event : {"timestamp_update"}]
         \cup [event : {"change_landscape"}, token : Tokens]
         \cup [event : {"sync_room_state"}, payload : Payloads]

Publish(e) ==
  /\ sent < MaxEvents
  /\ sent' = sent + 1
  /\ inbox' = [r \in Replicas |-> Append(inbox[r], e)]

-----------------------------------------------------------------------------
(* Every replica has handled the create_room event.                        *)
Init ==
  \E payload \in Payloads :
    /\ room = [r \in Replicas |-> CreateContents(payload)]
    /\ drawn = {m \in Menus : payload.menus[m] # None}
    /\ inbox = [r \in Replicas |-> <<>>]
    /\ holder = [o \in Objects |-> None]
    /\ pending = {}
    /\ sent = 0
    /\ inSync = [r \in Replicas |-> TRUE]

-----------------------------------------------------------------------------
(* Client messages that are only published *)

AppOpened(x, pose) ==
  /\ Publish([event |-> "app_opened", app |-> x, pose |-> pose])
  /\ UNCHANGED <<room, drawn, holder, pending, inSync>>

ComponentUpdate(x, k, change) ==
  /\ Publish([event |-> "component_update", app |-> x, component |-> k, change |-> change])
  /\ UNCHANGED <<room, drawn, holder, pending, inSync>>

(* The id of the menu is new.                                              *)
MenuDetached(m, pose) ==
  /\ m \notin drawn
  /\ drawn' = drawn \cup {m}
  /\ Publish([event |-> "menu_detached", menu |-> m, pose |-> pose])
  /\ UNCHANGED <<room, holder, pending, inSync>>

TimestampUpdate ==
  /\ Publish([event |-> "timestamp_update"])
  /\ UNCHANGED <<room, drawn, holder, pending, inSync>>

(* A client knows the menus whose ids were given out.                      *)
SyncRoomState(payload) ==
  /\ {m \in Menus : payload.menus[m] # None} \subseteq drawn
  /\ Publish([event |-> "sync_room_state", payload |-> payload])
  /\ UNCHANGED <<room, drawn, holder, pending, inSync>>

(* Only the user that has the lock of the object moves it.                 *)
ObjectMoved(o, pose) ==
  /\ holder[o] \in Replicas
  /\ Publish([event |-> "object_moved", object |-> o, pose |-> pose])
  /\ UNCHANGED <<room, drawn, holder, pending, inSync>>

(* handleChangeLandscapeMessage: the local Room object changes before the  *)
(* event is published.                                                     *)
ChangeLandscape(r, token) ==
  /\ room' = [room EXCEPT ![r] = ChangeLandscapeToken(@, token)]
  /\ inSync' = [inSync EXCEPT ![r] = @ /\ room[r].token = token]
  /\ Publish([event |-> "change_landscape", token |-> token])
  /\ UNCHANGED <<drawn, holder, pending>>

-----------------------------------------------------------------------------
(* Client messages that need a lock *)

(* handleObjectGrabbedMessage, handleAppClosedMessage and                  *)
(* handleDetachedMenuClosedMessage up to the await: the replica's own Room *)
(* object must know the object.  Requests for the landscape are left out,  *)
(* as is its pose.                                                         *)
AskLock(kind, r, o) ==
  /\ o \in room[r].grabbable
  /\ Cardinality(pending) < MaxRequests
  /\ pending' = pending \cup {<<kind, r, o>>}
  /\ UNCHANGED <<room, inbox, drawn, holder, sent, inSync>>

LockRefused(kind, r, o) ==
  /\ <<kind, r, o>> \in pending
  /\ holder[o] # None
  /\ pending' = pending \ {<<kind, r, o>>}
  /\ UNCHANGED <<room, inbox, drawn, holder, sent, inSync>>

Grab(r, o) ==
  /\ <<"grab", r, o>> \in pending
  /\ holder[o] = None
  /\ holder' = [holder EXCEPT ![o] = r]
  /\ pending' = pending \ {<<"grab", r, o>>}
  /\ UNCHANGED <<room, inbox, drawn, sent, inSync>>

Release(o) ==
  /\ holder[o] \in Replicas
  /\ holder' = [holder EXCEPT ![o] = None]
  /\ UNCHANGED <<room, inbox, drawn, pending, sent, inSync>>

(* Mutant: the news of a closed menu goes out as that of an application.   *)
CloseEventMixedUp(o) == [event |-> "app_closed", object |-> o]

CloseEvent(o) ==
  [event |-> IF o \in Apps THEN "app_closed" ELSE "detached_menu_closed", object |-> o]

Close(r, o) ==
  /\ <<"close", r, o>> \in pending
  /\ holder[o] = None
  /\ holder' = [holder EXCEPT ![o] = Closing]
  /\ pending' = pending \ {<<"close", r, o>>}
  /\ Publish(CloseEvent(o))
  /\ UNCHANGED <<room, drawn, inSync>>

(* A menu that the replica's Room object does not know as grabbable is     *)
(* closed without its lock.                                                *)
CloseUnknownMenu(r, m) ==
  /\ m \in drawn \ room[r].grabbable
  /\ Publish(CloseEvent(m))
  /\ UNCHANGED <<room, drawn, holder, pending, inSync>>

(* The key of a close lives 500 ms, whether or not the replicas have       *)
(* handled the news of the close by then.                                  *)
ExpireClose(o) ==
  /\ holder[o] = Closing
  /\ holder' = [holder EXCEPT ![o] = None]
  /\ UNCHANGED <<room, inbox, drawn, pending, sent, inSync>>

-----------------------------------------------------------------------------
(* Events *)

Received(r) == Head(inbox[r])

(* The replica's oldest event is of this kind; handling it turns the Room  *)
(* object into the one given.                                              *)
Receives(r, event) == inbox[r] # <<>> /\ Received(r).event = event

Handled(r, after) ==
  /\ room' = [room EXCEPT ![r] = after]
  /\ inbox' = [inbox EXCEPT ![r] = Tail(@)]
  /\ UNCHANGED <<drawn, holder, pending, sent>>

HandleAppOpened(r) ==
  /\ Receives(r, "app_opened")
  /\ Handled(r, OpenApplication(room[r], Received(r).app, Received(r).pose))
  /\ UNCHANGED inSync

HandleAppClosed(r) ==
  /\ Receives(r, "app_closed")
  /\ Handled(r, CloseApplication(room[r], Received(r).object))
  /\ UNCHANGED inSync

HandleComponentUpdate(r) ==
  /\ Receives(r, "component_update")
  /\ Handled(r, UpdateComponent(room[r], Received(r).app, Received(r).component,
                                Received(r).change))
  /\ UNCHANGED inSync

HandleMenuDetached(r) ==
  /\ Receives(r, "menu_detached")
  /\ Handled(r, DetachMenu(room[r], Received(r).menu, Received(r).pose))
  /\ UNCHANGED inSync

HandleDetachedMenuClosed(r) ==
  /\ Receives(r, "detached_menu_closed")
  /\ Handled(r, CloseDetachedMenu(room[r], Received(r).object))
  /\ UNCHANGED inSync

HandleObjectMoved(r) ==
  /\ Receives(r, "object_moved")
  /\ Handled(r, MoveObject(room[r], Received(r).object, Received(r).pose))
  /\ UNCHANGED inSync

HandleTimestampUpdate(r) ==
  /\ Receives(r, "timestamp_update")
  /\ Handled(r, CloseAllDetachedMenus(CloseAllApplications(room[r])))
  /\ UNCHANGED inSync

(* The clients are told, the Room object does not change.                  *)
HandleChangeLandscape(r) ==
  /\ Receives(r, "change_landscape")
  /\ Handled(r, room[r])
  /\ UNCHANGED inSync

HandleSyncRoomState(r) ==
  /\ Receives(r, "sync_room_state")
  /\ Handled(r, SyncContents(room[r], Received(r).payload))
  /\ inSync' = [inSync EXCEPT ![r] = TRUE]

-----------------------------------------------------------------------------
ClientMessage ==
  \/ \E x \in Apps, pose \in Poses : AppOpened(x, pose)
  \/ \E x \in Apps, k \in Components, change \in ComponentChanges : ComponentUpdate(x, k, change)
  \/ \E m \in Menus, pose \in Poses : MenuDetached(m, pose)
  \/ \E o \in Objects, pose \in Poses : ObjectMoved(o, pose)
  \/ TimestampUpdate
  \/ \E payload \in Payloads : SyncRoomState(payload)
  \/ \E r \in Replicas, token \in Tokens : ChangeLandscape(r, token)

LockStep ==
  \/ \E r \in Replicas, o \in Objects, kind \in {"grab", "close"} :
        AskLock(kind, r, o) \/ LockRefused(kind, r, o)
  \/ \E r \in Replicas, o \in Objects : Grab(r, o) \/ Close(r, o)
  \/ \E r \in Replicas, m \in Menus : CloseUnknownMenu(r, m)
  \/ \E o \in Objects : Release(o) \/ ExpireClose(o)

HandleEvent(r) ==
  \/ HandleAppOpened(r) \/ HandleAppClosed(r) \/ HandleComponentUpdate(r)
  \/ HandleMenuDetached(r) \/ HandleDetachedMenuClosed(r) \/ HandleObjectMoved(r)
  \/ HandleTimestampUpdate(r) \/ HandleChangeLandscape(r) \/ HandleSyncRoomState(r)

Next == ClientMessage \/ LockStep \/ \E r \in Replicas : HandleEvent(r)

Spec == Init /\ [][Next]_vars

-----------------------------------------------------------------------------
(* Properties *)

(* The values of every variable.                                           *)
TypeOK ==
  /\ room \in [Replicas -> Room]
  /\ inbox \in [Replicas -> Seq(Event)]
  /\ drawn \subseteq Menus
  /\ holder \in [Objects -> Replicas \cup {Closing, None}]
  /\ pending \subseteq {"grab", "close"} \X Replicas \X Objects
  /\ sent \in Nat
  /\ inSync \in [Replicas -> BOOLEAN]

(* What users can grab is what the room shows.  An open application is     *)
(* always grabbable, and no application or menu is that is gone.  A menu   *)
(* or the landscape is not grabbable only where the landscape was changed  *)
(* and the room not synchronized since.                                    *)
GrabbablesExact ==
  \A r \in Replicas :
    /\ room[r].grabbable \cap Apps = OpenApps(room[r])
    /\ room[r].grabbable \cap Menus \subseteq OpenMenus(room[r])
    /\ inSync[r] => OpenMenus(room[r]) \cup {room[r].token} \subseteq room[r].grabbable

(* Replicas that have handled the same events show the same menus, and if  *)
(* neither changed the landscape since the last synchronization the same   *)
(* landscape, applications, components and poses: the synchronization      *)
(* message heals what landscape changes tore apart.                        *)
Shown(r) == [token |-> room[r].token, apps |-> room[r].apps, menus |-> room[r].menus]

CopiesAgree ==
  \A r, q \in Replicas :
    Len(inbox[r]) = Len(inbox[q]) =>
      /\ OpenMenus(room[r]) = OpenMenus(room[q])
      /\ inSync[r] /\ inSync[q] => Shown(r) = Shown(q)
=============================================================================
