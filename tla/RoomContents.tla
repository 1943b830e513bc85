----------------------------- MODULE RoomContents ------------------------------
(***************************************************************************)
(* The contents of one Room object: the token of its landscape, its open   *)
(* applications, its detached menus, and the objects that users may grab.  *)
(* Every operator is a method of a modifier, a function of the Room before *)
(* the call to the Room after it.                                          *)
(*                                                                         *)
(* Positions, quaternions and scales are one value, a pose.  The pose and  *)
(* the timestamp of the landscape are left out, and so is the heatmap,     *)
(* which the service sets and never reads.                                 *)
(***************************************************************************)
EXTENDS Naturals

CONSTANTS Apps, Components, Menus, Tokens, Poses, None

(* openComponents is a list: a component that is opened twice is in it     *)
(* twice.  Its order is never read.                                        *)
ApplicationModel == [pose : Poses \cup {None}, openComponents : [Components -> Nat]]

ASSUME ContentsAssumption ==
  /\ None \notin Poses \cup ApplicationModel \cup Apps \cup Menus
  /\ Apps \cap Menus = {}
  /\ (Apps \cup Menus) \cap Tokens = {}

(* What a client sends to create a room or to replace its contents.        *)
RoomPayload == [token : Tokens,
                apps  : [Apps -> ApplicationModel \cup {None}],
                menus : [Menus -> Poses \cup {None}]]

Room == [token     : Tokens \cup {None},
         apps      : [Apps -> ApplicationModel \cup {None}],
         menus     : [Menus -> Poses \cup {None}],
         grabbable : SUBSET (Apps \cup Menus \cup Tokens)]

OpenApps(room)  == {x \in Apps : room.apps[x] # None}
OpenMenus(room) == {m \in Menus : room.menus[m] # None}

-----------------------------------------------------------------------------
(* ApplicationModifier *)

NothingOpen == [k \in Components |-> 0]

(* A new ApplicationModel has no position yet.                             *)
GetOrCreateApplication(room, x) ==
  IF x \in OpenApps(room) THEN room
  ELSE [room EXCEPT !.apps[x] = [pose |-> None, openComponents |-> NothingOpen],
                    !.grabbable = @ \cup {x}]

OpenApplication(room, x, pose) ==
  [GetOrCreateApplication(room, x) EXCEPT !.apps[x].pose = pose]

(* Mutant: the application stays grabbable.                                *)
CloseApplicationOnly(room, x) == [room EXCEPT !.apps[x] = None]

CloseApplication(room, x) ==
  IF x \in OpenApps(room) THEN [room EXCEPT !.apps[x] = None, !.grabbable = @ \ {x}]
                          ELSE room

CloseAllApplications(room) ==
  [room EXCEPT !.apps = [x \in Apps |-> None], !.grabbable = @ \ OpenApps(room)]

(* A foundation closes all components of its application.  The application *)
(* is created if it is not open.                                           *)
ComponentChanges == {"foundation", "opened", "closed"}

ChangeComponent(open, k, change) ==
  CASE change = "foundation" -> NothingOpen
    [] change = "opened"     -> [open EXCEPT ![k] = @ + 1]
    [] change = "closed"     -> [open EXCEPT ![k] = IF @ > 0 THEN @ - 1 ELSE 0]

UpdateComponent(room, x, k, change) ==
  [GetOrCreateApplication(room, x)
     EXCEPT !.apps[x].openComponents = ChangeComponent(@, k, change)]

-----------------------------------------------------------------------------
(* DetachedMenuModifier *)

DetachMenu(room, m, pose) ==
  [room EXCEPT !.menus[m] = pose, !.grabbable = @ \cup {m}]

CloseDetachedMenu(room, m) ==
  IF m \in OpenMenus(room) THEN [room EXCEPT !.menus[m] = None, !.grabbable = @ \ {m}]
                           ELSE room

CloseAllDetachedMenus(room) ==
  [room EXCEPT !.menus = [m \in Menus |-> None], !.grabbable = @ \ OpenMenus(room)]

-----------------------------------------------------------------------------
(* LandscapeModifier, GrabModifier, Room *)

(* The landscape is grabbable under the token it has when it is added; the *)
(* token it had before stays.                                              *)
InitLandscape(room, token) ==
  [room EXCEPT !.token = token, !.grabbable = @ \cup {token}]

(* Only an object that is grabbable moves.                                 *)
MoveObject(room, o, pose) ==
  IF o \in room.grabbable \cap OpenApps(room) THEN [room EXCEPT !.apps[o].pose = pose]
  ELSE IF o \in room.grabbable \cap OpenMenus(room) THEN [room EXCEPT !.menus[o] = pose]
  ELSE room

(* The menus stay, and neither they nor the landscape are grabbable.       *)
ChangeLandscapeToken(room, token) ==
  IF room.token = token THEN room
  ELSE [room EXCEPT !.token = token, !.apps = [x \in Apps |-> None], !.grabbable = {}]

-----------------------------------------------------------------------------
(* The two loops over a payload: openApplication and updateComponent for   *)
(* its applications, detachMenu for its menus.                             *)
OpenPayloadApps(room, payload) ==
  LET opened == {x \in Apps : payload.apps[x] # None}
  IN [room EXCEPT !.apps = [x \in Apps |-> IF x \in opened THEN payload.apps[x] ELSE @[x]],
                  !.grabbable = @ \cup opened]

DetachPayloadMenus(room, payload) ==
  LET detached == {m \in Menus : payload.menus[m] # None}
  IN [room EXCEPT !.menus = [m \in Menus |-> IF m \in detached THEN payload.menus[m] ELSE @[m]],
                  !.grabbable = @ \cup detached]

EmptyContents == [token |-> None, apps |-> [x \in Apps |-> None],
                  menus |-> [m \in Menus |-> None], grabbable |-> {}]

(* handleCreateRoomEvent.                                                  *)
CreateContents(payload) ==
  DetachPayloadMenus(OpenPayloadApps(InitLandscape(EmptyContents, payload.token), payload), payload)

(* Mutant: the applications that were open stay.                           *)
SyncOverApps(room, payload) ==
  LET appsOpen == OpenPayloadApps(InitLandscape(room, payload.token), payload)
  IN DetachPayloadMenus(CloseAllDetachedMenus(appsOpen), payload)

(* handleSyncRoomStateEvent.                                               *)
SyncContents(room, payload) ==
  LET closed   == CloseAllApplications(InitLandscape(room, payload.token))
      appsOpen == OpenPayloadApps(closed, payload)
  IN DetachPayloadMenus(CloseAllDetachedMenus(appsOpen), payload)
=============================================================================
