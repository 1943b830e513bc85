--------------------------- MODULE RoomStateProofs ----------------------------
(***************************************************************************)
(* Theorems of RoomState.  What the methods of the modifiers do to a Room  *)
(* object is stated first, once for each: it keeps the types, and it keeps *)
(* the room tidy, that is, exactly the open applications and none but the  *)
(* detached menus are grabbable.                                           *)
(***************************************************************************)
EXTENDS RoomState, EventLogProofs, SequenceTheorems, TLAPS

USE ContentsAssumption, StateAssumption DEF Objects

-----------------------------------------------------------------------------
(* One Room object *)

AppsFun == [Apps -> ApplicationModel \cup {None}]
MenusFun == [Menus -> Poses \cup {None}]

Contents(token, apps, menus, grabbable) ==
  [token |-> token, apps |-> apps, menus |-> menus, grabbable |-> grabbable]

Tidy(c) == /\ c.grabbable \cap Apps = OpenApps(c)
           /\ c.grabbable \cap Menus \subseteq OpenMenus(c)

TokenGrabbable(c) == c.token \in c.grabbable
MenusGrabbable(c) == OpenMenus(c) \subseteq c.grabbable

Keeps(c, d) == /\ d \in Room
               /\ Tidy(c) => Tidy(d)
               /\ TokenGrabbable(c) => TokenGrabbable(d)
               /\ MenusGrabbable(c) => MenusGrabbable(d)

(* A payload has the applications and menus of a room.                     *)
LEMMA PayloadType ==
  ASSUME NEW payload \in Payloads
  PROVE  payload.token \in Tokens /\ payload.apps \in AppsFun /\ payload.menus \in MenusFun
BY DEF RoomPayload, AppsFun, MenusFun

(* A Room object is its four fields.                                       *)
LEMMA RoomFields ==
  ASSUME NEW c \in Room
  PROVE  /\ c = Contents(c.token, c.apps, c.menus, c.grabbable)
         /\ c.token \in Tokens \cup {None}
         /\ c.apps \in AppsFun
         /\ c.menus \in MenusFun
         /\ c.grabbable \in SUBSET (Apps \cup Menus \cup Tokens)
BY DEF Room, Contents, AppsFun, MenusFun

(* Four fields are a Room object.                                          *)
LEMMA FieldsRoom ==
  ASSUME NEW token \in Tokens \cup {None}, NEW apps \in AppsFun, NEW menus \in MenusFun,
         NEW grabbable \in SUBSET (Apps \cup Menus \cup Tokens)
  PROVE  LET d == Contents(token, apps, menus, grabbable)
         IN /\ d \in Room
            /\ d.token = token /\ d.apps = apps /\ d.menus = menus /\ d.grabbable = grabbable
            /\ OpenApps(d) = {x \in Apps : apps[x] # None}
            /\ OpenMenus(d) = {m \in Menus : menus[m] # None}
BY DEF Room, Contents, AppsFun, MenusFun, OpenApps, OpenMenus

(* Any application may change as long as it stays an open one.             *)
LEMMA SetAppKeeps ==
  ASSUME NEW c \in Room, NEW x \in OpenApps(c), NEW app \in ApplicationModel
  PROVE  Keeps(c, [c EXCEPT !.apps = [@ EXCEPT ![x] = app]])
<1> DEFINE d == [c EXCEPT !.apps = [@ EXCEPT ![x] = app]]
           apps == [c.apps EXCEPT ![x] = app]
<1>1. x \in Apps /\ apps \in AppsFun
  BY RoomFields DEF OpenApps, AppsFun
<1>2. d = Contents(c.token, apps, c.menus, c.grabbable)
  BY RoomFields DEF Contents
<1>3. {y \in Apps : apps[y] # None} = OpenApps(c)
  BY <1>1, RoomFields DEF OpenApps, AppsFun
<1> HIDE DEF apps
<1> QED
  BY <1>1, <1>2, <1>3, RoomFields, FieldsRoom
     DEF Keeps, Tidy, TokenGrabbable, MenusGrabbable, OpenMenus

(* An application that was not open is new and has no pose.                *)
LEMMA GetOrCreateKeeps ==
  ASSUME NEW c \in Room, NEW x \in Apps
  PROVE  LET d == GetOrCreateApplication(c, x)
         IN Keeps(c, d) /\ x \in OpenApps(d) /\ d.apps[x] \in ApplicationModel
<1> DEFINE new == [pose |-> None, openComponents |-> NothingOpen]
           d == GetOrCreateApplication(c, x)
<1>1. new \in ApplicationModel
  BY DEF ApplicationModel, NothingOpen
<1>2. CASE x \in OpenApps(c)
  BY <1>2, RoomFields DEF GetOrCreateApplication, OpenApps, Keeps, AppsFun
<1>3. CASE x \notin OpenApps(c)
  <2> DEFINE apps == [c.apps EXCEPT ![x] = new]
  <2>0. d = [c EXCEPT !.apps = [@ EXCEPT ![x] = new], !.grabbable = @ \cup {x}]
    BY <1>3 DEF GetOrCreateApplication
  <2>1. d = Contents(c.token, apps, c.menus, c.grabbable \cup {x})
    <3> HIDE DEF new, d
    <3>1. c = Contents(c.token, c.apps, c.menus, c.grabbable)
      BY RoomFields
    <3> QED BY <2>0, <3>1 DEF Contents
  <2>2. apps \in AppsFun /\ apps[x] = new
    BY <1>1, RoomFields DEF AppsFun
  <2>3. {y \in Apps : apps[y] # None} = OpenApps(c) \cup {x}
    BY <1>1, <2>2, RoomFields DEF OpenApps, AppsFun
  <2>4. c.grabbable \cup {x} \in SUBSET (Apps \cup Menus \cup Tokens)
    BY RoomFields
  <2> HIDE DEF apps, new, d
  <2>5. /\ d \in Room /\ d.apps = apps /\ d.token = c.token
        /\ d.grabbable = c.grabbable \cup {x}
        /\ OpenApps(d) = OpenApps(c) \cup {x} /\ OpenMenus(d) = OpenMenus(c)
    BY <2>1, <2>2, <2>3, <2>4, RoomFields, FieldsRoom DEF OpenMenus
  <2> QED
    BY <1>1, <2>2, <2>5 DEF Keeps, Tidy, TokenGrabbable, MenusGrabbable, d
<1> QED
  BY <1>2, <1>3

(* A grabbable token is neither an application nor a menu.                 *)
LEMMA NoToken ==
  ASSUME NEW c \in Room, TokenGrabbable(c)
  PROVE  c.token \notin Apps \cup Menus
BY RoomFields DEF TokenGrabbable

(* Keeping is transitive.                                                  *)
LEMMA KeepsTransitive ==
  ASSUME NEW c, NEW d, NEW e, Keeps(c, d), Keeps(d, e)
  PROVE  Keeps(c, e)
BY DEF Keeps

LEMMA OpenApplicationKeeps ==
  ASSUME NEW c \in Room, NEW x \in Apps, NEW pose \in Poses
  PROVE  Keeps(c, OpenApplication(c, x, pose))
<1> DEFINE d == GetOrCreateApplication(c, x)
           app == [d.apps[x] EXCEPT !.pose = pose]
<1>1. Keeps(c, d) /\ x \in OpenApps(d) /\ d.apps[x] \in ApplicationModel
  BY GetOrCreateKeeps
<1>2. app \in ApplicationModel
  BY <1>1 DEF ApplicationModel
<1>3. OpenApplication(c, x, pose) = [d EXCEPT !.apps = [@ EXCEPT ![x] = app]]
  BY <1>1, RoomFields DEF OpenApplication, Keeps, AppsFun, Contents
<1> HIDE DEF app, d
<1> QED
  BY <1>1, <1>2, <1>3, SetAppKeeps, KeepsTransitive DEF Keeps

LEMMA UpdateComponentKeeps ==
  ASSUME NEW c \in Room, NEW x \in Apps, NEW k \in Components, NEW change \in ComponentChanges
  PROVE  Keeps(c, UpdateComponent(c, x, k, change))
<1> DEFINE d == GetOrCreateApplication(c, x)
           open == ChangeComponent(d.apps[x].openComponents, k, change)
           app == [d.apps[x] EXCEPT !.openComponents = open]
<1>1. Keeps(c, d) /\ x \in OpenApps(d) /\ d.apps[x] \in ApplicationModel
  BY GetOrCreateKeeps
<1>2. open \in [Components -> Nat]
  <2>1. d.apps[x].openComponents \in [Components -> Nat]
    BY <1>1 DEF ApplicationModel
  <2> HIDE DEF d
  <2> QED
    BY <2>1 DEF ChangeComponent, ComponentChanges, NothingOpen
<1>3. app \in ApplicationModel
  <2> HIDE DEF open, d
  <2> QED BY <1>1, <1>2 DEF ApplicationModel
<1>4. UpdateComponent(c, x, k, change) = [d EXCEPT !.apps = [@ EXCEPT ![x] = app]]
  <2> HIDE DEF d
  <2> QED
    BY <1>1, RoomFields DEF UpdateComponent, Keeps, AppsFun, Contents, d
<1> HIDE DEF app, d
<1> QED
  BY <1>1, <1>3, <1>4, SetAppKeeps, KeepsTransitive DEF Keeps

LEMMA CloseApplicationKeeps ==
  ASSUME NEW c \in Room, NEW x \in Apps
  PROVE  Keeps(c, CloseApplication(c, x))
<1> DEFINE d == CloseApplication(c, x)
           apps == [c.apps EXCEPT ![x] = None]
<1>1. CASE x \notin OpenApps(c)
  BY <1>1 DEF CloseApplication, Keeps
<1>2. CASE x \in OpenApps(c)
  <2>0. d = [c EXCEPT !.apps = [@ EXCEPT ![x] = None], !.grabbable = @ \ {x}]
    BY <1>2 DEF CloseApplication
  <2>1. d = Contents(c.token, apps, c.menus, c.grabbable \ {x})
    <3> HIDE DEF d
    <3>1. c = Contents(c.token, c.apps, c.menus, c.grabbable)
      BY RoomFields
    <3> QED BY <2>0, <3>1 DEF Contents
  <2>2. apps \in AppsFun /\ {y \in Apps : apps[y] # None} = OpenApps(c) \ {x}
    BY RoomFields DEF AppsFun, OpenApps
  <2> HIDE DEF apps, d
  <2>3. /\ d \in Room /\ d.token = c.token /\ d.grabbable = c.grabbable \ {x}
        /\ OpenApps(d) = OpenApps(c) \ {x} /\ OpenMenus(d) = OpenMenus(c)
    BY <2>1, <2>2, RoomFields, FieldsRoom DEF OpenMenus
  <2>4. x \notin Menus /\ x \notin Tokens
    OBVIOUS
  <2> QED
    BY <2>3, <2>4, RoomFields, NoToken DEF Keeps, Tidy, TokenGrabbable, MenusGrabbable, OpenMenus, d
<1> QED
  BY <1>1, <1>2

LEMMA CloseAllApplicationsKeeps ==
  ASSUME NEW c \in Room
  PROVE  Keeps(c, CloseAllApplications(c))
<1> DEFINE d == CloseAllApplications(c)
           apps == [x \in Apps |-> None]
<1>0. d = [c EXCEPT !.apps = apps, !.grabbable = @ \ OpenApps(c)]
  BY DEF CloseAllApplications
<1>1. d = Contents(c.token, apps, c.menus, c.grabbable \ OpenApps(c))
  <2> HIDE DEF d
  <2>1. c = Contents(c.token, c.apps, c.menus, c.grabbable)
    BY RoomFields
  <2> QED BY <1>0, <2>1 DEF Contents
<1>2. apps \in AppsFun /\ {y \in Apps : apps[y] # None} = {}
  BY DEF AppsFun
<1> HIDE DEF apps, d
<1>3. /\ d \in Room /\ d.token = c.token /\ d.grabbable = c.grabbable \ OpenApps(c)
      /\ OpenApps(d) = {} /\ OpenMenus(d) = OpenMenus(c)
  BY <1>1, <1>2, RoomFields, FieldsRoom DEF OpenMenus
<1>4. OpenApps(c) \subseteq Apps /\ OpenMenus(c) \subseteq Menus
  BY DEF OpenApps, OpenMenus
<1> QED
  BY <1>3, <1>4, RoomFields, NoToken DEF Keeps, Tidy, TokenGrabbable, MenusGrabbable, d

LEMMA DetachMenuKeeps ==
  ASSUME NEW c \in Room, NEW m \in Menus, NEW pose \in Poses
  PROVE  Keeps(c, DetachMenu(c, m, pose))
<1> DEFINE d == DetachMenu(c, m, pose)
           menus == [c.menus EXCEPT ![m] = pose]
<1>0. d = [c EXCEPT !.menus = [@ EXCEPT ![m] = pose], !.grabbable = @ \cup {m}]
  BY DEF DetachMenu
<1>1. d = Contents(c.token, c.apps, menus, c.grabbable \cup {m})
  <2> HIDE DEF d
  <2>1. c = Contents(c.token, c.apps, c.menus, c.grabbable)
    BY RoomFields
  <2> QED BY <1>0, <2>1 DEF Contents
<1>2. menus \in MenusFun /\ {n \in Menus : menus[n] # None} = OpenMenus(c) \cup {m}
  BY RoomFields DEF MenusFun, OpenMenus
<1> HIDE DEF menus, d
<1>3. /\ d \in Room /\ d.token = c.token /\ d.grabbable = c.grabbable \cup {m}
      /\ OpenApps(d) = OpenApps(c) /\ OpenMenus(d) = OpenMenus(c) \cup {m}
  BY <1>1, <1>2, RoomFields, FieldsRoom DEF OpenApps
<1>4. m \notin Apps
  OBVIOUS
<1> QED
  BY <1>3, <1>4 DEF Keeps, Tidy, TokenGrabbable, MenusGrabbable, d

LEMMA CloseDetachedMenuKeeps ==
  ASSUME NEW c \in Room, NEW m \in Menus
  PROVE  Keeps(c, CloseDetachedMenu(c, m))
<1> DEFINE d == CloseDetachedMenu(c, m)
           menus == [c.menus EXCEPT ![m] = None]
<1>1. CASE m \notin OpenMenus(c)
  BY <1>1 DEF CloseDetachedMenu, Keeps
<1>2. CASE m \in OpenMenus(c)
  <2>0. d = [c EXCEPT !.menus = [@ EXCEPT ![m] = None], !.grabbable = @ \ {m}]
    BY <1>2 DEF CloseDetachedMenu
  <2>1. d = Contents(c.token, c.apps, menus, c.grabbable \ {m})
    <3> HIDE DEF d
    <3>1. c = Contents(c.token, c.apps, c.menus, c.grabbable)
      BY RoomFields
    <3> QED BY <2>0, <3>1 DEF Contents
  <2>2. menus \in MenusFun /\ {n \in Menus : menus[n] # None} = OpenMenus(c) \ {m}
    BY RoomFields DEF MenusFun, OpenMenus
  <2> HIDE DEF menus, d
  <2>3. /\ d \in Room /\ d.token = c.token /\ d.grabbable = c.grabbable \ {m}
        /\ OpenApps(d) = OpenApps(c) /\ OpenMenus(d) = OpenMenus(c) \ {m}
    BY <2>1, <2>2, RoomFields, FieldsRoom DEF OpenApps
  <2>4. m \notin Apps /\ m \notin Tokens
    OBVIOUS
  <2> QED
    BY <2>3, <2>4, RoomFields, NoToken DEF Keeps, Tidy, TokenGrabbable, MenusGrabbable, d
<1> QED
  BY <1>1, <1>2

(* With no menu there is none that could not be grabbed.                   *)
LEMMA CloseAllDetachedMenusKeeps ==
  ASSUME NEW c \in Room
  PROVE  Keeps(c, CloseAllDetachedMenus(c)) /\ MenusGrabbable(CloseAllDetachedMenus(c))
<1> DEFINE d == CloseAllDetachedMenus(c)
           menus == [m \in Menus |-> None]
<1>0. d = [c EXCEPT !.menus = menus, !.grabbable = @ \ OpenMenus(c)]
  BY DEF CloseAllDetachedMenus
<1>1. d = Contents(c.token, c.apps, menus, c.grabbable \ OpenMenus(c))
  <2> HIDE DEF d
  <2>1. c = Contents(c.token, c.apps, c.menus, c.grabbable)
    BY RoomFields
  <2> QED BY <1>0, <2>1 DEF Contents
<1>2. menus \in MenusFun /\ {n \in Menus : menus[n] # None} = {}
  BY DEF MenusFun
<1> HIDE DEF menus, d
<1>3. /\ d \in Room /\ d.token = c.token /\ d.grabbable = c.grabbable \ OpenMenus(c)
      /\ OpenApps(d) = OpenApps(c) /\ OpenMenus(d) = {}
  BY <1>1, <1>2, RoomFields, FieldsRoom DEF OpenApps
<1>4. OpenApps(c) \subseteq Apps /\ OpenMenus(c) \subseteq Menus
  BY DEF OpenApps, OpenMenus
<1> QED
  BY <1>3, <1>4, RoomFields, NoToken DEF Keeps, Tidy, TokenGrabbable, MenusGrabbable, d

(* The object moves if the room shows it.                                  *)
LEMMA MoveObjectKeeps ==
  ASSUME NEW c \in Room, NEW o \in Objects, NEW pose \in Poses
  PROVE  Keeps(c, MoveObject(c, o, pose))
<1>1. CASE o \in c.grabbable \cap OpenApps(c)
  <2> DEFINE app == [c.apps[o] EXCEPT !.pose = pose]
  <2>1. c.apps[o] \in ApplicationModel
    BY <1>1, RoomFields DEF AppsFun, OpenApps
  <2>2. app \in ApplicationModel
    BY <2>1 DEF ApplicationModel
  <2>3. MoveObject(c, o, pose) = [c EXCEPT !.apps = [@ EXCEPT ![o] = app]]
    BY <1>1, RoomFields DEF MoveObject, AppsFun, Contents
  <2> HIDE DEF app
  <2> QED
    BY <1>1, <2>2, <2>3, SetAppKeeps
<1>2. CASE o \notin c.grabbable \cap OpenApps(c) /\ o \in c.grabbable \cap OpenMenus(c)
  <2> DEFINE d == MoveObject(c, o, pose)
             menus == [c.menus EXCEPT ![o] = pose]
  <2>0. d = [c EXCEPT !.menus = [@ EXCEPT ![o] = pose]]
    BY <1>2 DEF MoveObject
  <2>1. d = Contents(c.token, c.apps, menus, c.grabbable)
    <3> HIDE DEF d
    <3>1. c = Contents(c.token, c.apps, c.menus, c.grabbable)
      BY RoomFields
    <3> QED BY <2>0, <3>1 DEF Contents
  <2>2. menus \in MenusFun /\ {n \in Menus : menus[n] # None} = OpenMenus(c)
    BY <1>2, RoomFields DEF MenusFun, OpenMenus
  <2> HIDE DEF menus, d
  <2>3. /\ d \in Room /\ d.token = c.token /\ d.grabbable = c.grabbable
        /\ OpenApps(d) = OpenApps(c) /\ OpenMenus(d) = OpenMenus(c)
    <3>1. /\ d \in Room /\ d.token = c.token /\ d.grabbable = c.grabbable
          /\ d.apps = c.apps /\ d.menus = menus
      BY <2>1, <2>2, RoomFields, FieldsRoom
    <3>2. OpenMenus(d) = OpenMenus(c)
      BY <2>2, <3>1 DEF OpenMenus
    <3> QED
      BY <3>1, <3>2 DEF OpenApps
  <2> QED
    BY <2>3 DEF Keeps, Tidy, TokenGrabbable, MenusGrabbable, d
<1>3. CASE o \notin c.grabbable \cap OpenApps(c) /\ o \notin c.grabbable \cap OpenMenus(c)
  BY <1>3 DEF MoveObject, Keeps
<1> QED
  BY <1>1, <1>2, <1>3

(* The landscape is grabbable whatever it was before.                      *)
LEMMA InitLandscapeKeeps ==
  ASSUME NEW c \in Room, NEW token \in Tokens
  PROVE  Keeps(c, InitLandscape(c, token)) /\ TokenGrabbable(InitLandscape(c, token))
<1> DEFINE d == InitLandscape(c, token)
<1>0. d = [c EXCEPT !.token = token, !.grabbable = @ \cup {token}]
  BY DEF InitLandscape
<1>1. d = Contents(token, c.apps, c.menus, c.grabbable \cup {token})
  <2> HIDE DEF d
  <2>1. c = Contents(c.token, c.apps, c.menus, c.grabbable)
    BY RoomFields
  <2> QED BY <1>0, <2>1 DEF Contents
<1> HIDE DEF d
<1>2. /\ d \in Room /\ d.token = token /\ d.grabbable = c.grabbable \cup {token}
      /\ OpenApps(d) = OpenApps(c) /\ OpenMenus(d) = OpenMenus(c)
  BY <1>1, RoomFields, FieldsRoom DEF OpenApps, OpenMenus
<1>3. token \notin Apps /\ token \notin Menus
  OBVIOUS
<1> QED
  BY <1>2, <1>3 DEF Keeps, Tidy, TokenGrabbable, MenusGrabbable, d

LEMMA OpenPayloadAppsKeeps ==
  ASSUME NEW c \in Room, NEW payload \in Payloads
  PROVE  Keeps(c, OpenPayloadApps(c, payload))
<1> DEFINE d == OpenPayloadApps(c, payload)
           opened == {x \in Apps : payload.apps[x] # None}
           apps == [x \in Apps |-> IF x \in opened THEN payload.apps[x] ELSE c.apps[x]]
<1>0. d = [c EXCEPT !.apps = apps, !.grabbable = @ \cup opened]
  BY DEF OpenPayloadApps
<1>1. d = Contents(c.token, apps, c.menus, c.grabbable \cup opened)
  <2> HIDE DEF d, apps, opened
  <2>1. c = Contents(c.token, c.apps, c.menus, c.grabbable)
    BY RoomFields
  <2> QED BY <1>0, <2>1 DEF Contents
<1>2. apps \in AppsFun
  BY RoomFields, PayloadType DEF AppsFun
<1>3. {x \in Apps : apps[x] # None} = OpenApps(c) \cup opened
  BY DEF OpenApps
<1>4. opened \subseteq Apps
  OBVIOUS
<1> HIDE DEF d, apps, opened
<1>5. /\ d \in Room /\ d.token = c.token /\ d.grabbable = c.grabbable \cup opened
      /\ OpenApps(d) = OpenApps(c) \cup opened /\ OpenMenus(d) = OpenMenus(c)
  BY <1>1, <1>2, <1>3, <1>4, RoomFields, FieldsRoom DEF OpenMenus
<1> QED
  BY <1>4, <1>5 DEF Keeps, Tidy, TokenGrabbable, MenusGrabbable, d

LEMMA DetachPayloadMenusKeeps ==
  ASSUME NEW c \in Room, NEW payload \in Payloads
  PROVE  Keeps(c, DetachPayloadMenus(c, payload))
<1> DEFINE d == DetachPayloadMenus(c, payload)
           detached == {m \in Menus : payload.menus[m] # None}
           menus == [m \in Menus |-> IF m \in detached THEN payload.menus[m] ELSE c.menus[m]]
<1>0. d = [c EXCEPT !.menus = menus, !.grabbable = @ \cup detached]
  BY DEF DetachPayloadMenus
<1>1. d = Contents(c.token, c.apps, menus, c.grabbable \cup detached)
  <2> HIDE DEF d, menus, detached
  <2>1. c = Contents(c.token, c.apps, c.menus, c.grabbable)
    BY RoomFields
  <2> QED BY <1>0, <2>1 DEF Contents
<1>2. menus \in MenusFun
  BY RoomFields, PayloadType DEF MenusFun
<1>3. {m \in Menus : menus[m] # None} = OpenMenus(c) \cup detached
  BY DEF OpenMenus
<1>4. detached \subseteq Menus
  OBVIOUS
<1> HIDE DEF d, menus, detached
<1>5. /\ d \in Room /\ d.token = c.token /\ d.grabbable = c.grabbable \cup detached
      /\ OpenApps(d) = OpenApps(c) /\ OpenMenus(d) = OpenMenus(c) \cup detached
  BY <1>1, <1>2, <1>3, <1>4, RoomFields, FieldsRoom DEF OpenApps
<1> QED
  BY <1>4, <1>5 DEF Keeps, Tidy, TokenGrabbable, MenusGrabbable, d

(* A change of the landscape leaves nothing to grab and no application.    *)
LEMMA ChangeLandscapeTidy ==
  ASSUME NEW c \in Room, NEW token \in Tokens, Tidy(c)
  PROVE  LET d == ChangeLandscapeToken(c, token)
         IN d \in Room /\ Tidy(d)
<1> DEFINE d == ChangeLandscapeToken(c, token)
           apps == [x \in Apps |-> None]
<1>1. CASE c.token = token
  BY <1>1 DEF ChangeLandscapeToken
<1>2. CASE c.token # token
  <2>0. d = [c EXCEPT !.token = token, !.apps = apps, !.grabbable = {}]
    BY <1>2 DEF ChangeLandscapeToken
  <2>1. d = Contents(token, apps, c.menus, {})
    <3> HIDE DEF d, apps
    <3>1. c = Contents(c.token, c.apps, c.menus, c.grabbable)
      BY RoomFields
    <3> QED BY <2>0, <3>1 DEF Contents
  <2>2. apps \in AppsFun /\ {x \in Apps : apps[x] # None} = {}
    BY DEF AppsFun
  <2> HIDE DEF d, apps
  <2>3. d \in Room /\ d.grabbable = {} /\ OpenApps(d) = {}
    BY <2>1, <2>2, RoomFields, FieldsRoom
  <2> QED
    BY <2>3 DEF Tidy, d
<1> QED
  BY <1>1, <1>2

(* After a synchronization everything shown is grabbable.                  *)
LEMMA SyncContentsKeeps ==
  ASSUME NEW c \in Room, NEW payload \in Payloads
  PROVE  LET d == SyncContents(c, payload)
         IN Keeps(c, d) /\ TokenGrabbable(d) /\ MenusGrabbable(d)
<1> DEFINE c1 == InitLandscape(c, payload.token)
           c2 == CloseAllApplications(c1)
           c3 == OpenPayloadApps(c2, payload)
           c4 == CloseAllDetachedMenus(c3)
           c5 == DetachPayloadMenus(c4, payload)
<1>1. Keeps(c, c1) /\ TokenGrabbable(c1)
  BY InitLandscapeKeeps, PayloadType
<1> HIDE DEF c1
<1>2. Keeps(c1, c2)
  BY <1>1, CloseAllApplicationsKeeps DEF Keeps
<1> HIDE DEF c2
<1>3. Keeps(c2, c3)
  BY <1>2, OpenPayloadAppsKeeps DEF Keeps
<1> HIDE DEF c3
<1>4. Keeps(c3, c4) /\ MenusGrabbable(c4)
  BY <1>3, CloseAllDetachedMenusKeeps DEF Keeps
<1> HIDE DEF c4
<1>5. Keeps(c4, c5)
  BY <1>4, DetachPayloadMenusKeeps DEF Keeps
<1> HIDE DEF c5
<1>6. SyncContents(c, payload) = c5
  BY DEF SyncContents, c1, c2, c3, c4, c5
<1> QED
  BY <1>1, <1>2, <1>3, <1>4, <1>5, <1>6 DEF Keeps

LEMMA CreateContentsTidy ==
  ASSUME NEW payload \in Payloads
  PROVE  LET d == CreateContents(payload)
         IN d \in Room /\ Tidy(d) /\ TokenGrabbable(d) /\ MenusGrabbable(d)
<1> DEFINE c1 == InitLandscape(EmptyContents, payload.token)
           c2 == OpenPayloadApps(c1, payload)
           c3 == DetachPayloadMenus(c2, payload)
<1>0. EmptyContents \in Room /\ Tidy(EmptyContents) /\ MenusGrabbable(EmptyContents)
  BY DEF EmptyContents, Room, Tidy, MenusGrabbable, OpenApps, OpenMenus
<1>1. Keeps(EmptyContents, c1) /\ TokenGrabbable(c1)
  BY <1>0, InitLandscapeKeeps, PayloadType
<1> HIDE DEF c1
<1>2. Keeps(c1, c2)
  BY <1>1, OpenPayloadAppsKeeps DEF Keeps
<1> HIDE DEF c2
<1>3. Keeps(c2, c3)
  BY <1>2, DetachPayloadMenusKeeps DEF Keeps
<1> HIDE DEF c3
<1>4. CreateContents(payload) = c3
  BY DEF CreateContents, c1, c2, c3
<1> QED
  BY <1>0, <1>1, <1>2, <1>3, <1>4 DEF Keeps

-----------------------------------------------------------------------------
(* Steps *)

(* Everything but inSync and the Room objects is of its type.              *)
RestOK ==
  /\ inbox \in [Replicas -> Seq(Event)]
  /\ drawn \subseteq Menus
  /\ holder \in [Objects -> Replicas \cup {Closing, None}]
  /\ pending \subseteq {"grab", "close"} \X Replicas \X Objects
  /\ sent \in Nat

(* What GrabbablesExact says of one replica.                               *)
ReplicaOK(c, synced) ==
  /\ c \in Room
  /\ Tidy(c)
  /\ synced => TokenGrabbable(c) /\ MenusGrabbable(c)

RoomsOK ==
  /\ room \in [Replicas -> Room]
  /\ inSync \in [Replicas -> BOOLEAN]
  /\ \A r \in Replicas : ReplicaOK(room[r], inSync[r])

LEMMA InvariantParts == RestOK /\ RoomsOK <=> TypeOK /\ GrabbablesExact
BY DEF RestOK, RoomsOK, ReplicaOK, TypeOK, GrabbablesExact, Tidy, TokenGrabbable, MenusGrabbable

LEMMA CloseEventType ==
  ASSUME NEW o \in Objects
  PROVE  CloseEvent(o) \in Event /\ CloseEvent(o).object = o
BY DEF CloseEvent, Event

(* A published event is the only one that is new in the inboxes.           *)
LEMMA PublishType ==
  ASSUME RestOK, NEW e \in Event, Publish(e)
  PROVE  /\ inbox' \in [Replicas -> Seq(Event)]
         /\ sent' \in Nat
BY DEF RestOK, Publish

(* Handling an event only removes it.                                      *)
LEMMA HandledType ==
  ASSUME RestOK, NEW r \in Replicas, inbox[r] # <<>>, NEW after, Handled(r, after)
  PROVE  /\ RestOK'
         /\ Received(r) \in Event
<1>1. inbox[r] \in Seq(Event) /\ Received(r) \in Event
  BY DEF RestOK, Received
<1>2. Tail(inbox[r]) \in Seq(Event)
  BY <1>1
<1>3. RestOK'
  BY <1>2 DEF RestOK, Handled
<1> QED
  BY <1>1, <1>3

(* One replica's Room object may change to any that satisfies ReplicaOK.   *)
LEMMA OneRoomChanges ==
  ASSUME RoomsOK, NEW r \in Replicas, NEW after, NEW synced \in BOOLEAN,
         ReplicaOK(after, synced),
         room' = [room EXCEPT ![r] = after],
         inSync' = [inSync EXCEPT ![r] = synced]
  PROVE  RoomsOK'
<1>1. room' \in [Replicas -> Room] /\ inSync' \in [Replicas -> BOOLEAN]
  BY DEF RoomsOK, ReplicaOK
<1>2. ASSUME NEW q \in Replicas
      PROVE  ReplicaOK(room'[q], inSync'[q])
  <2>1. CASE q = r
    BY <2>1 DEF RoomsOK
  <2>2. CASE q # r
    BY <2>2 DEF RoomsOK
  <2> QED
    BY <2>1, <2>2
<1>3. ASSUME NEW q \in Replicas
      PROVE  ReplicaOK(room[q], inSync[q])'
  BY <1>2 DEF ReplicaOK, Tidy, TokenGrabbable, MenusGrabbable, OpenApps, OpenMenus
<1> QED
  BY <1>1, <1>3 DEF RoomsOK

(* The events whose handlers keep what is grabbable.                       *)
LEMMA KeepingStep ==
  ASSUME RoomsOK, NEW r \in Replicas, NEW after, Keeps(room[r], after),
         Handled(r, after), UNCHANGED inSync
  PROVE  RoomsOK'
<1>1. ReplicaOK(after, inSync[r]) /\ inSync[r] \in BOOLEAN
  BY DEF RoomsOK, ReplicaOK, Keeps
<1>2. inSync' = [inSync EXCEPT ![r] = inSync[r]] /\ room' = [room EXCEPT ![r] = after]
  BY DEF RoomsOK, Handled
<1> QED
  BY <1>1, <1>2, OneRoomChanges

LEMMA InitInv == Init => RestOK /\ RoomsOK
<1> SUFFICES ASSUME Init PROVE RestOK /\ RoomsOK
  OBVIOUS
<1>1. PICK payload \in Payloads :
        /\ room = [r \in Replicas |-> CreateContents(payload)]
        /\ drawn = {m \in Menus : payload.menus[m] # None}
        /\ inbox = [r \in Replicas |-> <<>>]
        /\ holder = [o \in Objects |-> None]
        /\ pending = {}
        /\ sent = 0
        /\ inSync = [r \in Replicas |-> TRUE]
  BY DEF Init
<1>2. RestOK
  BY <1>1 DEF RestOK
<1>3. ReplicaOK(CreateContents(payload), TRUE)
  BY CreateContentsTidy DEF ReplicaOK
<1>4. CreateContents(payload) \in Room
  BY CreateContentsTidy
<1>5. RoomsOK
  BY <1>1, <1>3, <1>4 DEF RoomsOK
<1> QED
  BY <1>2, <1>5

LEMMA ClientMessageInv == RestOK /\ RoomsOK /\ ClientMessage => RestOK' /\ RoomsOK'
<1> SUFFICES ASSUME RestOK, RoomsOK, ClientMessage PROVE RestOK' /\ RoomsOK'
  OBVIOUS
<1>0. ASSUME UNCHANGED <<room, inSync>> PROVE RoomsOK'
  BY <1>0 DEF RoomsOK, ReplicaOK, Tidy, TokenGrabbable, MenusGrabbable, OpenApps, OpenMenus
<1>00. ASSUME NEW e \in Event, Publish(e), UNCHANGED <<drawn, holder, pending>> PROVE RestOK'
  BY <1>00, PublishType DEF RestOK
<1>1. ASSUME NEW x \in Apps, NEW pose \in Poses, AppOpened(x, pose) PROVE RestOK' /\ RoomsOK'
  <2>1. [event |-> "app_opened", app |-> x, pose |-> pose] \in Event
    BY DEF Event
  <2> QED
    BY <1>0, <1>00, <1>1, <2>1 DEF AppOpened
<1>2. ASSUME NEW x \in Apps, NEW k \in Components, NEW change \in ComponentChanges,
             ComponentUpdate(x, k, change)
      PROVE  RestOK' /\ RoomsOK'
  <2>1. [event |-> "component_update", app |-> x, component |-> k, change |-> change] \in Event
    BY DEF Event
  <2> QED
    BY <1>0, <1>00, <1>2, <2>1 DEF ComponentUpdate
<1>3. ASSUME NEW m \in Menus, NEW pose \in Poses, MenuDetached(m, pose)
      PROVE  RestOK' /\ RoomsOK'
  <2>1. [event |-> "menu_detached", menu |-> m, pose |-> pose] \in Event
    BY DEF Event
  <2>2. RestOK'
    BY <1>3, <2>1, PublishType DEF MenuDetached, RestOK
  <2> QED
    BY <1>0, <1>3, <2>2 DEF MenuDetached
<1>4. ASSUME NEW o \in Objects, NEW pose \in Poses, ObjectMoved(o, pose)
      PROVE  RestOK' /\ RoomsOK'
  <2>1. [event |-> "object_moved", object |-> o, pose |-> pose] \in Event
    BY DEF Event
  <2> QED
    BY <1>0, <1>00, <1>4, <2>1 DEF ObjectMoved
<1>5. ASSUME TimestampUpdate PROVE RestOK' /\ RoomsOK'
  <2>1. [event |-> "timestamp_update"] \in Event
    BY DEF Event
  <2> QED
    BY <1>0, <1>00, <1>5, <2>1 DEF TimestampUpdate
<1>6. ASSUME NEW payload \in Payloads, SyncRoomState(payload) PROVE RestOK' /\ RoomsOK'
  <2>1. [event |-> "sync_room_state", payload |-> payload] \in Event
    BY DEF Event
  <2> QED
    BY <1>0, <1>00, <1>6, <2>1 DEF SyncRoomState
<1>7. ASSUME NEW r \in Replicas, NEW token \in Tokens, ChangeLandscape(r, token)
      PROVE  RestOK' /\ RoomsOK'
  <2> DEFINE after == ChangeLandscapeToken(room[r], token)
             synced == inSync[r] /\ room[r].token = token
  <2>1. [event |-> "change_landscape", token |-> token] \in Event
    BY DEF Event
  <2>2. RestOK'
    BY <1>00, <1>7, <2>1 DEF ChangeLandscape
  <2>3. room[r] \in Room /\ inSync[r] \in BOOLEAN /\ ReplicaOK(room[r], inSync[r])
    BY DEF RoomsOK
  <2>4. after \in Room /\ Tidy(after)
    BY <2>3, ChangeLandscapeTidy DEF ReplicaOK
  <2>5. synced => after = room[r]
    BY DEF ChangeLandscapeToken
  <2>6. ReplicaOK(after, synced)
    BY <2>3, <2>4, <2>5 DEF ReplicaOK
  <2>7. room' = [room EXCEPT ![r] = after] /\ inSync' = [inSync EXCEPT ![r] = synced]
    BY <1>7 DEF ChangeLandscape
  <2>8. synced \in BOOLEAN
    OBVIOUS
  <2> HIDE DEF after, synced
  <2> QED
    BY <2>2, <2>6, <2>7, <2>8, OneRoomChanges
<1> QED
  BY <1>1, <1>2, <1>3, <1>4, <1>5, <1>6, <1>7 DEF ClientMessage

LEMMA LockStepInv == RestOK /\ RoomsOK /\ LockStep => RestOK' /\ RoomsOK'
<1> SUFFICES ASSUME RestOK, RoomsOK, LockStep PROVE RestOK' /\ RoomsOK'
  OBVIOUS
<1>0. RoomsOK'
  <2>1. UNCHANGED <<room, inSync>>
    BY DEF LockStep, AskLock, LockRefused, Grab, Close, CloseUnknownMenu, Release, ExpireClose
  <2> QED
    BY <2>1 DEF RoomsOK, ReplicaOK, Tidy, TokenGrabbable, MenusGrabbable, OpenApps, OpenMenus
<1>1. ASSUME NEW r \in Replicas, NEW o \in Objects, NEW kind \in {"grab", "close"},
             AskLock(kind, r, o) \/ LockRefused(kind, r, o)
      PROVE  RestOK'
  BY <1>1 DEF RestOK, AskLock, LockRefused
<1>2. ASSUME NEW r \in Replicas, NEW o \in Objects, Grab(r, o) PROVE RestOK'
  BY <1>2 DEF RestOK, Grab
<1>3. ASSUME NEW r \in Replicas, NEW o \in Objects, Close(r, o) PROVE RestOK'
  BY <1>3, CloseEventType, PublishType DEF RestOK, Close
<1>4. ASSUME NEW r \in Replicas, NEW m \in Menus, CloseUnknownMenu(r, m) PROVE RestOK'
  BY <1>4, CloseEventType, PublishType DEF RestOK, CloseUnknownMenu
<1>5. ASSUME NEW o \in Objects, Release(o) \/ ExpireClose(o) PROVE RestOK'
  BY <1>5 DEF RestOK, Release, ExpireClose
<1> QED
  BY <1>0, <1>1, <1>2, <1>3, <1>4, <1>5 DEF LockStep

LEMMA HandleEventInv ==
  ASSUME RestOK, RoomsOK, NEW r \in Replicas, HandleEvent(r)
  PROVE  RestOK' /\ RoomsOK'
<1> DEFINE e == Received(r)
<1>1. PICK after : Handled(r, after) /\ inbox[r] # <<>>
  BY DEF HandleEvent, HandleAppOpened, HandleAppClosed, HandleComponentUpdate,
         HandleMenuDetached, HandleDetachedMenuClosed, HandleObjectMoved,
         HandleTimestampUpdate, HandleChangeLandscape, HandleSyncRoomState, Receives
<1>2. RestOK' /\ e \in Event
  BY <1>1, HandledType
<1>3. room[r] \in Room /\ Tidy(room[r])
  BY DEF RoomsOK, ReplicaOK
<1>4. CASE HandleAppOpened(r)
  <2>1. e.app \in Apps /\ e.pose \in Poses
    BY <1>2, <1>4 DEF HandleAppOpened, Receives, Event
  <2> QED
    BY <1>2, <1>3, <1>4, <2>1, OpenApplicationKeeps, KeepingStep DEF HandleAppOpened
<1>5. CASE HandleAppClosed(r)
  <2>1. e.object \in Apps
    BY <1>2, <1>5 DEF HandleAppClosed, Receives, Event
  <2> QED
    BY <1>2, <1>3, <1>5, <2>1, CloseApplicationKeeps, KeepingStep DEF HandleAppClosed
<1>6. CASE HandleComponentUpdate(r)
  <2>1. e.app \in Apps /\ e.component \in Components /\ e.change \in ComponentChanges
    BY <1>2, <1>6 DEF HandleComponentUpdate, Receives, Event
  <2> QED
    BY <1>2, <1>3, <1>6, <2>1, UpdateComponentKeeps, KeepingStep DEF HandleComponentUpdate
<1>7. CASE HandleMenuDetached(r)
  <2>1. e.menu \in Menus /\ e.pose \in Poses
    BY <1>2, <1>7 DEF HandleMenuDetached, Receives, Event
  <2> QED
    BY <1>2, <1>3, <1>7, <2>1, DetachMenuKeeps, KeepingStep DEF HandleMenuDetached
<1>8. CASE HandleDetachedMenuClosed(r)
  <2>1. e.object \in Menus
    BY <1>2, <1>8 DEF HandleDetachedMenuClosed, Receives, Event
  <2> QED
    BY <1>2, <1>3, <1>8, <2>1, CloseDetachedMenuKeeps, KeepingStep DEF HandleDetachedMenuClosed
<1>9. CASE HandleObjectMoved(r)
  <2>1. e.object \in Objects /\ e.pose \in Poses
    BY <1>2, <1>9 DEF HandleObjectMoved, Receives, Event
  <2> QED
    BY <1>2, <1>3, <1>9, <2>1, MoveObjectKeeps, KeepingStep DEF HandleObjectMoved
<1>10. CASE HandleTimestampUpdate(r)
  <2> DEFINE c1 == CloseAllApplications(room[r])
             c2 == CloseAllDetachedMenus(c1)
  <2>1. Keeps(room[r], c1)
    BY <1>3, CloseAllApplicationsKeeps
  <2> HIDE DEF c1
  <2>2. Keeps(c1, c2)
    BY <2>1, CloseAllDetachedMenusKeeps DEF Keeps
  <2>3. Keeps(room[r], c2)
    BY <2>1, <2>2, KeepsTransitive
  <2>4. Handled(r, c2) /\ UNCHANGED inSync
    BY <1>10 DEF HandleTimestampUpdate, c1
  <2> HIDE DEF c2
  <2> QED
    BY <1>2, <2>3, <2>4, KeepingStep
<1>11. CASE HandleChangeLandscape(r)
  <2>1. Keeps(room[r], room[r])
    BY <1>3 DEF Keeps
  <2> QED
    BY <1>2, <1>11, <2>1, KeepingStep DEF HandleChangeLandscape
<1>12. CASE HandleSyncRoomState(r)
  <2> DEFINE c == SyncContents(room[r], e.payload)
  <2>1. e.payload \in Payloads
    BY <1>2, <1>12 DEF HandleSyncRoomState, Receives, Event
  <2>2. ReplicaOK(c, TRUE)
    BY <1>3, <2>1, SyncContentsKeeps DEF ReplicaOK, Keeps
  <2>3. room' = [room EXCEPT ![r] = c] /\ inSync' = [inSync EXCEPT ![r] = TRUE]
    BY <1>12 DEF HandleSyncRoomState, Handled
  <2> HIDE DEF c
  <2> QED
    BY <1>2, <2>2, <2>3, OneRoomChanges
<1> QED
  BY <1>4, <1>5, <1>6, <1>7, <1>8, <1>9, <1>10, <1>11, <1>12 DEF HandleEvent

(* Every message that needs no lock publishes one event.                   *)
LEMMA ClientMessagePublishes ==
  ClientMessage => \E e \in Event : Publish(e)
<1> SUFFICES ASSUME ClientMessage
             PROVE  \E e \in Event : Publish(e)
  OBVIOUS
<1>1. ASSUME NEW x \in Apps, NEW pose \in Poses, AppOpened(x, pose)
      PROVE  \E e \in Event : Publish(e)
  <2> DEFINE e == [event |-> "app_opened", app |-> x, pose |-> pose]
  <2>1. e \in Event
    BY DEF Event
  <2>2. Publish(e)
    BY <1>1 DEF AppOpened
  <2> HIDE DEF e
  <2> QED
    BY <2>1, <2>2
<1>2. ASSUME NEW x \in Apps, NEW k \in Components, NEW change \in ComponentChanges,
             ComponentUpdate(x, k, change)
      PROVE  \E e \in Event : Publish(e)
  <2> DEFINE e == [event |-> "component_update", app |-> x, component |-> k, change |-> change]
  <2>1. e \in Event
    BY DEF Event
  <2>2. Publish(e)
    BY <1>2 DEF ComponentUpdate
  <2> HIDE DEF e
  <2> QED
    BY <2>1, <2>2
<1>3. ASSUME NEW m \in Menus, NEW pose \in Poses, MenuDetached(m, pose)
      PROVE  \E e \in Event : Publish(e)
  <2> DEFINE e == [event |-> "menu_detached", menu |-> m, pose |-> pose]
  <2>1. e \in Event
    BY DEF Event
  <2>2. Publish(e)
    BY <1>3 DEF MenuDetached
  <2> HIDE DEF e
  <2> QED
    BY <2>1, <2>2
<1>4. ASSUME NEW o \in Objects, NEW pose \in Poses, ObjectMoved(o, pose)
      PROVE  \E e \in Event : Publish(e)
  <2> DEFINE e == [event |-> "object_moved", object |-> o, pose |-> pose]
  <2>1. e \in Event
    BY DEF Event
  <2>2. Publish(e)
    BY <1>4 DEF ObjectMoved
  <2> HIDE DEF e
  <2> QED
    BY <2>1, <2>2
<1>5. ASSUME TimestampUpdate
      PROVE  \E e \in Event : Publish(e)
  <2> DEFINE e == [event |-> "timestamp_update"]
  <2>1. e \in Event
    BY DEF Event
  <2>2. Publish(e)
    BY <1>5 DEF TimestampUpdate
  <2> HIDE DEF e
  <2> QED
    BY <2>1, <2>2
<1>6. ASSUME NEW payload \in Payloads, SyncRoomState(payload)
      PROVE  \E e \in Event : Publish(e)
  <2> DEFINE e == [event |-> "sync_room_state", payload |-> payload]
  <2>1. e \in Event
    BY DEF Event
  <2>2. Publish(e)
    BY <1>6 DEF SyncRoomState
  <2> HIDE DEF e
  <2> QED
    BY <2>1, <2>2
<1>7. ASSUME NEW r \in Replicas, NEW token \in Tokens, ChangeLandscape(r, token)
      PROVE  \E e \in Event : Publish(e)
  <2> DEFINE e == [event |-> "change_landscape", token |-> token]
  <2>1. e \in Event
    BY DEF Event
  <2>2. Publish(e)
    BY <1>7 DEF ChangeLandscape
  <2> HIDE DEF e
  <2> QED
    BY <2>1, <2>2
<1> QED
  BY <1>1, <1>2, <1>3, <1>4, <1>5, <1>6, <1>7 DEF ClientMessage

-----------------------------------------------------------------------------
(* Theorems *)

THEOREM RoomInvariant == Spec => [](RestOK /\ RoomsOK)
<1>1. RestOK /\ RoomsOK /\ [Next]_vars => RestOK' /\ RoomsOK'
  <2> SUFFICES ASSUME RestOK, RoomsOK, [Next]_vars PROVE RestOK' /\ RoomsOK'
    OBVIOUS
  <2>1. CASE ClientMessage
    BY <2>1, ClientMessageInv
  <2>2. CASE LockStep
    BY <2>2, LockStepInv
  <2>3. ASSUME NEW r \in Replicas, HandleEvent(r) PROVE RestOK' /\ RoomsOK'
    BY <2>3, HandleEventInv
  <2>4. CASE UNCHANGED vars
    BY <2>4 DEF vars, RestOK, RoomsOK, ReplicaOK, Tidy, TokenGrabbable, MenusGrabbable,
                OpenApps, OpenMenus
  <2> QED
    BY <2>1, <2>2, <2>3, <2>4 DEF Next
<1> QED
  BY <1>1, InitInv, PTL DEF Spec

(* Room objects, inboxes and locks keep their types: an event names what   *)
(* its handler needs, and a payload never makes an ill-formed room.        *)
THEOREM RoomTypeCorrect == Spec => []TypeOK
  BY RoomInvariant, InvariantParts, PTL

(* On every replica, after any order of events and landscape changes, what *)
(* users can grab is what the room shows.                                  *)
THEOREM GrabbablesAreExact == Spec => []GrabbablesExact
  BY RoomInvariant, InvariantParts, PTL

-----------------------------------------------------------------------------
(* What a handler shows depends on what was shown *)

SameShown(c, d) == c.token = d.token /\ c.apps = d.apps /\ c.menus = d.menus

(* The fields of a Room object that the record with one field changed has. *)
LEMMA ChangedFields ==
  ASSUME NEW c \in Room, NEW token, NEW apps, NEW menus, NEW grabbable
  PROVE  /\ LET d == [c EXCEPT !.apps = apps]
            IN d.token = c.token /\ d.apps = apps /\ d.menus = c.menus
                 /\ d.grabbable = c.grabbable
         /\ LET d == [c EXCEPT !.apps = apps, !.grabbable = grabbable]
            IN d.token = c.token /\ d.apps = apps /\ d.menus = c.menus
                 /\ d.grabbable = grabbable
         /\ LET d == [c EXCEPT !.menus = menus]
            IN d.token = c.token /\ d.apps = c.apps /\ d.menus = menus
                 /\ d.grabbable = c.grabbable
         /\ LET d == [c EXCEPT !.menus = menus, !.grabbable = grabbable]
            IN d.token = c.token /\ d.apps = c.apps /\ d.menus = menus
                 /\ d.grabbable = grabbable
         /\ LET d == [c EXCEPT !.token = token, !.grabbable = grabbable]
            IN d.token = token /\ d.apps = c.apps /\ d.menus = c.menus
                 /\ d.grabbable = grabbable
         /\ LET d == [c EXCEPT !.token = token, !.apps = apps, !.grabbable = grabbable]
            IN d.token = token /\ d.apps = apps /\ d.menus = c.menus
                 /\ d.grabbable = grabbable
BY DEF Room

(* Applications: the menus stay.                                           *)
LEMMA GetOrCreateShows ==
  ASSUME NEW c \in Room, NEW x \in Apps
  PROVE  LET d == GetOrCreateApplication(c, x)
             new == [pose |-> None, openComponents |-> NothingOpen]
         IN /\ d.token = c.token /\ d.menus = c.menus
            /\ d.apps = IF c.apps[x] # None THEN c.apps ELSE [c.apps EXCEPT ![x] = new]
<1> DEFINE apps == [c.apps EXCEPT ![x] = [pose |-> None, openComponents |-> NothingOpen]]
<1>1. CASE x \in OpenApps(c)
  BY <1>1 DEF GetOrCreateApplication, OpenApps
<1>2. CASE x \notin OpenApps(c)
  <2>1. GetOrCreateApplication(c, x) = [c EXCEPT !.apps = apps, !.grabbable = @ \cup {x}]
    BY <1>2 DEF GetOrCreateApplication
  <2>2. c.apps[x] = None
    BY <1>2 DEF OpenApps
  <2> HIDE DEF apps
  <2>3. LET d == GetOrCreateApplication(c, x)
        IN d.token = c.token /\ d.menus = c.menus /\ d.apps = apps
    BY <2>1, ChangedFields
  <2> QED BY <2>2, <2>3 DEF apps
<1> QED BY <1>1, <1>2

(* It depends on nothing but the applications.                             *)
LEMMA GetOrCreateAlike ==
  ASSUME NEW c \in Room, NEW l \in Room, NEW x \in Apps, c.apps = l.apps
  PROVE  GetOrCreateApplication(c, x).apps = GetOrCreateApplication(l, x).apps
<1> DEFINE new == [pose |-> None, openComponents |-> NothingOpen]
           f == GetOrCreateApplication(c, x)
           g == GetOrCreateApplication(l, x)
<1>1. f.apps = IF c.apps[x] # None THEN c.apps ELSE [c.apps EXCEPT ![x] = new]
  BY GetOrCreateShows
<1>2. g.apps = IF l.apps[x] # None THEN l.apps ELSE [l.apps EXCEPT ![x] = new]
  BY GetOrCreateShows
<1> HIDE DEF new, f, g
<1>3. f.apps = g.apps
  BY <1>1, <1>2
<1> QED BY <1>3 DEF f, g

LEMMA OpenApplicationShows ==
  ASSUME NEW c \in Room, NEW x \in Apps, NEW pose \in Poses
  PROVE  LET d == GetOrCreateApplication(c, x)
             f == OpenApplication(c, x, pose)
         IN /\ f.token = c.token /\ f.menus = c.menus
            /\ f.apps = [d.apps EXCEPT ![x] = [@ EXCEPT !.pose = pose]]
<1> DEFINE d == GetOrCreateApplication(c, x)
           apps == [d.apps EXCEPT ![x] = [@ EXCEPT !.pose = pose]]
<1>1. d \in Room /\ d.token = c.token /\ d.menus = c.menus
  BY GetOrCreateKeeps, GetOrCreateShows DEF Keeps
<1>2. OpenApplication(c, x, pose) = [d EXCEPT !.apps = apps]
  BY DEF OpenApplication
<1> HIDE DEF apps, d
<1>3. LET f == OpenApplication(c, x, pose)
      IN f.token = c.token /\ f.menus = c.menus /\ f.apps = apps
  BY <1>1, <1>2, ChangedFields
<1> QED BY <1>3 DEF apps, d

LEMMA UpdateComponentShows ==
  ASSUME NEW c \in Room, NEW x \in Apps, NEW k \in Components, NEW change \in ComponentChanges
  PROVE  LET d == GetOrCreateApplication(c, x)
             f == UpdateComponent(c, x, k, change)
             open == ChangeComponent(d.apps[x].openComponents, k, change)
         IN /\ f.token = c.token /\ f.menus = c.menus
            /\ f.apps = [d.apps EXCEPT ![x] = [d.apps[x] EXCEPT !.openComponents = open]]
<1> DEFINE d == GetOrCreateApplication(c, x)
           open == ChangeComponent(d.apps[x].openComponents, k, change)
           app == [d.apps[x] EXCEPT !.openComponents = open]
           apps == [d.apps EXCEPT ![x] = app]
<1>1. Keeps(c, d) /\ d \in Room /\ d.token = c.token /\ d.menus = c.menus
  BY GetOrCreateKeeps, GetOrCreateShows DEF Keeps
<1>2. UpdateComponent(c, x, k, change) = [d EXCEPT !.apps = [@ EXCEPT ![x] = app]]
  <2> HIDE DEF d
  <2> QED
    BY <1>1, RoomFields DEF UpdateComponent, AppsFun, Contents, d
<1> HIDE DEF app, d
<1>3. LET f == UpdateComponent(c, x, k, change)
      IN f.token = c.token /\ f.menus = c.menus /\ f.apps = apps
  BY <1>1, <1>2, ChangedFields
<1> QED BY <1>3 DEF app, d

LEMMA UpdateComponentMenus ==
  ASSUME NEW c \in Room, NEW x \in Apps, NEW k \in Components, NEW change \in ComponentChanges
  PROVE  LET f == UpdateComponent(c, x, k, change)
         IN f.token = c.token /\ f.menus = c.menus
<1> DEFINE d == GetOrCreateApplication(c, x)
           f == UpdateComponent(c, x, k, change)
           open == ChangeComponent(d.apps[x].openComponents, k, change)
           app == [d.apps[x] EXCEPT !.openComponents = open]
           apps == [d.apps EXCEPT ![x] = app]
<1>1. f.token = c.token /\ f.menus = c.menus /\ f.apps = apps
  BY UpdateComponentShows
<1> HIDE DEF apps, f
<1>2. f.token = c.token /\ f.menus = c.menus
  BY <1>1
<1> QED BY <1>2 DEF f

LEMMA CloseApplicationShows ==
  ASSUME NEW c \in Room, NEW x \in Apps
  PROVE  LET f == CloseApplication(c, x)
         IN /\ f.token = c.token /\ f.menus = c.menus
            /\ f.apps = IF c.apps[x] # None THEN [c.apps EXCEPT ![x] = None] ELSE c.apps
<1> DEFINE apps == [c.apps EXCEPT ![x] = None]
<1>1. CASE x \in OpenApps(c)
  <2>1. CloseApplication(c, x) = [c EXCEPT !.apps = apps, !.grabbable = @ \ {x}]
    BY <1>1 DEF CloseApplication
  <2>2. c.apps[x] # None
    BY <1>1 DEF OpenApps
  <2> HIDE DEF apps
  <2>3. LET f == CloseApplication(c, x)
        IN f.token = c.token /\ f.menus = c.menus /\ f.apps = apps
    BY <2>1, ChangedFields
  <2> QED BY <2>2, <2>3 DEF apps
<1>2. CASE x \notin OpenApps(c)
  BY <1>2 DEF CloseApplication, OpenApps
<1> QED BY <1>1, <1>2

LEMMA CloseAllApplicationsShows ==
  ASSUME NEW c \in Room
  PROVE  LET f == CloseAllApplications(c)
         IN f.token = c.token /\ f.menus = c.menus /\ f.apps = [x \in Apps |-> None]
BY ChangedFields DEF CloseAllApplications

LEMMA OpenApplicationMenus ==
  ASSUME NEW c \in Room, NEW x \in Apps, NEW pose \in Poses
  PROVE  LET f == OpenApplication(c, x, pose)
         IN f.token = c.token /\ f.menus = c.menus
<1> DEFINE d == GetOrCreateApplication(c, x)
           f == OpenApplication(c, x, pose)
           apps == [d.apps EXCEPT ![x] = [@ EXCEPT !.pose = pose]]
<1>1. f.token = c.token /\ f.menus = c.menus /\ f.apps = apps
  BY OpenApplicationShows
<1> HIDE DEF apps, f
<1>2. f.token = c.token /\ f.menus = c.menus
  BY <1>1
<1> QED BY <1>2 DEF f

(* Menus: the applications stay.                                           *)
LEMMA DetachMenuShows ==
  ASSUME NEW c \in Room, NEW m \in Menus, NEW pose \in Poses
  PROVE  LET f == DetachMenu(c, m, pose)
         IN /\ f.token = c.token /\ f.apps = c.apps
            /\ f.menus = [c.menus EXCEPT ![m] = pose]
<1> DEFINE menus == [c.menus EXCEPT ![m] = pose]
<1>1. DetachMenu(c, m, pose) = [c EXCEPT !.menus = menus, !.grabbable = @ \cup {m}]
  BY DEF DetachMenu
<1> HIDE DEF menus
<1>2. LET f == DetachMenu(c, m, pose)
      IN f.token = c.token /\ f.apps = c.apps /\ f.menus = menus
  BY <1>1, ChangedFields
<1> QED BY <1>2 DEF menus

LEMMA CloseDetachedMenuShows ==
  ASSUME NEW c \in Room, NEW m \in Menus
  PROVE  LET f == CloseDetachedMenu(c, m)
         IN /\ f.token = c.token /\ f.apps = c.apps
            /\ f.menus = IF c.menus[m] # None THEN [c.menus EXCEPT ![m] = None] ELSE c.menus
<1> DEFINE menus == [c.menus EXCEPT ![m] = None]
<1>1. CASE m \in OpenMenus(c)
  <2>1. CloseDetachedMenu(c, m) = [c EXCEPT !.menus = menus, !.grabbable = @ \ {m}]
    BY <1>1 DEF CloseDetachedMenu
  <2>2. c.menus[m] # None
    BY <1>1 DEF OpenMenus
  <2> HIDE DEF menus
  <2>3. LET f == CloseDetachedMenu(c, m)
        IN f.token = c.token /\ f.apps = c.apps /\ f.menus = menus
    BY <2>1, ChangedFields
  <2> QED BY <2>2, <2>3 DEF menus
<1>2. CASE m \notin OpenMenus(c)
  BY <1>2 DEF CloseDetachedMenu, OpenMenus
<1> QED BY <1>1, <1>2

LEMMA CloseAllDetachedMenusShows ==
  ASSUME NEW c \in Room
  PROVE  LET f == CloseAllDetachedMenus(c)
         IN f.token = c.token /\ f.apps = c.apps /\ f.menus = [m \in Menus |-> None]
BY ChangedFields DEF CloseAllDetachedMenus

(* An object moves if it is shown and grabbable.                           *)
ShowsMove(f, c, o, pose) ==
  /\ f.token = c.token
  /\ f.apps = IF o \in c.grabbable \cap OpenApps(c)
              THEN [c.apps EXCEPT ![o] = [c.apps[o] EXCEPT !.pose = pose]] ELSE c.apps
  /\ f.menus = IF o \in c.grabbable \cap OpenMenus(c)
               THEN [c.menus EXCEPT ![o] = pose] ELSE c.menus

LEMMA MoveObjectShows ==
  ASSUME NEW c \in Room, NEW o \in Objects, NEW pose \in Poses
  PROVE  ShowsMove(MoveObject(c, o, pose), c, o, pose)
<1> DEFINE app == [c.apps[o] EXCEPT !.pose = pose]
           apps == [c.apps EXCEPT ![o] = app]
           menus == [c.menus EXCEPT ![o] = pose]
           f == MoveObject(c, o, pose)
<1>0. ASSUME o \in OpenApps(c) PROVE o \in Apps /\ o \notin OpenMenus(c)
  <2>1. o \in Apps
    BY <1>0 DEF OpenApps
  <2>2. o \notin Menus
    BY <2>1
  <2> QED BY <2>1, <2>2 DEF OpenMenus
<1>1. CASE o \in c.grabbable \cap OpenApps(c)
  <2>1. f = [c EXCEPT !.apps = [@ EXCEPT ![o] = app]]
    BY <1>1, RoomFields DEF MoveObject, AppsFun, Contents
  <2> HIDE DEF app, f
  <2>3. f.token = c.token /\ f.apps = apps /\ f.menus = c.menus
    BY <2>1, ChangedFields
  <2>4. o \notin OpenMenus(c)
    BY <1>0, <1>1
  <2> QED BY <1>1, <2>3, <2>4 DEF app, f, ShowsMove
<1>2. CASE o \notin c.grabbable \cap OpenApps(c) /\ o \in c.grabbable \cap OpenMenus(c)
  <2>1. f = [c EXCEPT !.menus = menus]
    BY <1>2 DEF MoveObject
  <2> HIDE DEF menus, f
  <2>2. f.token = c.token /\ f.apps = c.apps /\ f.menus = menus
    BY <2>1, ChangedFields
  <2> QED BY <1>2, <2>2 DEF menus, f, ShowsMove
<1>3. CASE o \notin c.grabbable \cap OpenApps(c) /\ o \notin c.grabbable \cap OpenMenus(c)
  BY <1>3 DEF MoveObject, ShowsMove
<1> QED BY <1>1, <1>2, <1>3

(* After a synchronization the room shows the payload, whatever it showed. *)
LEMMA SyncContentsShows ==
  ASSUME NEW c \in Room, NEW payload \in Payloads
  PROVE  LET f == SyncContents(c, payload)
         IN /\ f.token = payload.token /\ f.apps = payload.apps /\ f.menus = payload.menus
<1> DEFINE c1 == InitLandscape(c, payload.token)
           c2 == CloseAllApplications(c1)
           c3 == OpenPayloadApps(c2, payload)
           c4 == CloseAllDetachedMenus(c3)
           c5 == DetachPayloadMenus(c4, payload)
           opened == {x \in Apps : payload.apps[x] # None}
           detached == {m \in Menus : payload.menus[m] # None}
<1>1. /\ payload.token \in Tokens
      /\ payload.apps \in AppsFun /\ payload.menus \in MenusFun
  BY PayloadType
<1>2. c1 \in Room /\ c1.token = payload.token
  <2>1. c1 \in Room
    BY <1>1, InitLandscapeKeeps DEF Keeps
  <2>2. c1 = [c EXCEPT !.token = payload.token, !.grabbable = @ \cup {payload.token}]
    BY DEF InitLandscape
  <2> HIDE DEF c1
  <2> QED BY <2>1, <2>2, ChangedFields
<1> HIDE DEF c1
<1>3. c2 \in Room /\ c2.token = payload.token /\ c2.apps = [x \in Apps |-> None]
  BY <1>2, CloseAllApplicationsKeeps, CloseAllApplicationsShows DEF Keeps
<1> HIDE DEF c2
<1>4. c3 \in Room /\ c3.token = payload.token /\ c3.apps = payload.apps
  <2> DEFINE apps == [x \in Apps |-> IF x \in opened THEN payload.apps[x] ELSE c2.apps[x]]
  <2>1. c3 = [c2 EXCEPT !.apps = apps, !.grabbable = @ \cup opened]
    BY DEF OpenPayloadApps
  <2>2. apps = payload.apps
    BY <1>1, <1>3 DEF AppsFun
  <2>3. c3 \in Room
    BY <1>3, OpenPayloadAppsKeeps DEF Keeps
  <2> HIDE DEF apps, opened, c3
  <2> QED BY <1>3, <2>1, <2>2, <2>3, ChangedFields
<1> HIDE DEF c3
<1>5. /\ c4 \in Room /\ c4.token = payload.token /\ c4.apps = payload.apps
      /\ c4.menus = [m \in Menus |-> None]
  BY <1>4, CloseAllDetachedMenusKeeps, CloseAllDetachedMenusShows DEF Keeps
<1> HIDE DEF c4
<1>6. c5.token = payload.token /\ c5.apps = payload.apps /\ c5.menus = payload.menus
  <2> DEFINE menus == [m \in Menus |-> IF m \in detached THEN payload.menus[m] ELSE c4.menus[m]]
  <2>1. c5 = [c4 EXCEPT !.menus = menus, !.grabbable = @ \cup detached]
    BY DEF DetachPayloadMenus
  <2>2. menus = payload.menus
    BY <1>1, <1>5 DEF MenusFun
  <2> HIDE DEF menus, detached, c5
  <2> QED BY <1>5, <2>1, <2>2, ChangedFields
<1> HIDE DEF c5
<1>7. SyncContents(c, payload) = c5
  BY DEF SyncContents, c1, c2, c3, c4, c5
<1> QED BY <1>6, <1>7

-----------------------------------------------------------------------------
(* One log: what CopiesAgree rests on *)

(* What handling an event makes of a Room object.                          *)
AfterEvent(c, e) ==
  CASE e.event = "app_opened"           -> OpenApplication(c, e.app, e.pose)
    [] e.event = "app_closed"           -> CloseApplication(c, e.object)
    [] e.event = "component_update"     -> UpdateComponent(c, e.app, e.component, e.change)
    [] e.event = "menu_detached"        -> DetachMenu(c, e.menu, e.pose)
    [] e.event = "detached_menu_closed" -> CloseDetachedMenu(c, e.object)
    [] e.event = "object_moved"         -> MoveObject(c, e.object, e.pose)
    [] e.event = "timestamp_update"     -> CloseAllDetachedMenus(CloseAllApplications(c))
    [] e.event = "change_landscape"     -> c
    [] e.event = "sync_room_state"      -> SyncContents(c, e.payload)

(* A copy whose replica never changed the landscape by itself.             *)
Entries == {c \in Room : ReplicaOK(c, TRUE)}

Steps == {t \in Entries \X Event \X Entries : t[3] = AfterEvent(t[1], t[2])}

(* A copy has the menus of the log; in sync, it shows what the log shows.  *)
AtEntry(c, synced, l) == /\ OpenMenus(c) = OpenMenus(l)
                         /\ synced => SameShown(c, l)

LEMMA EventFields ==
  ASSUME NEW e \in Event
  PROVE  /\ e.event = "app_opened" => e.app \in Apps /\ e.pose \in Poses
         /\ e.event = "app_closed" => e.object \in Apps
         /\ e.event = "component_update" =>
              e.app \in Apps /\ e.component \in Components /\ e.change \in ComponentChanges
         /\ e.event = "menu_detached" => e.menu \in Menus /\ e.pose \in Poses
         /\ e.event = "detached_menu_closed" => e.object \in Menus
         /\ e.event = "object_moved" => e.object \in Objects /\ e.pose \in Poses
         /\ e.event = "sync_room_state" => e.payload \in Payloads
         /\ e.event \in {"app_opened", "app_closed", "component_update", "menu_detached",
                         "detached_menu_closed", "object_moved", "timestamp_update",
                         "change_landscape", "sync_room_state"}
BY DEF Event

(* The two sides of a copy that handling an event does not mix up: the     *)
(* menus after it follow from the menus before, and all that is shown from *)
(* what was shown.                                                         *)
LEMMA AfterEventAlike ==
  ASSUME NEW c \in Room, NEW l \in Entries, NEW e \in Event, NEW synced \in BOOLEAN,
         ReplicaOK(c, synced), AtEntry(c, synced, l)
  PROVE  /\ AtEntry(AfterEvent(c, e), synced, AfterEvent(l, e))
         /\ e.event = "sync_room_state" => AtEntry(AfterEvent(c, e), TRUE, AfterEvent(l, e))
<1> USE DEF AtEntry, SameShown
<1>0. l \in Room /\ ReplicaOK(l, TRUE)
  BY DEF Entries
<1>a. \A m \in Menus : c.menus[m] # None <=> l.menus[m] # None
  BY DEF OpenMenus
<1>b. OpenMenus(c) = OpenMenus(l) /\ (synced => SameShown(c, l))
  OBVIOUS
<1>c. /\ c.menus \in MenusFun /\ l.menus \in MenusFun
      /\ c.apps \in AppsFun /\ l.apps \in AppsFun
  BY <1>0, RoomFields
<1>1. CASE e.event = "app_opened"
  <2> DEFINE f == OpenApplication(c, e.app, e.pose)
             g == OpenApplication(l, e.app, e.pose)
  <2>1. AfterEvent(c, e) = f /\ AfterEvent(l, e) = g
    BY <1>1 DEF AfterEvent
  <2>0. e.app \in Apps /\ e.pose \in Poses
    BY <1>1, EventFields
  <2>2. f.menus = c.menus /\ g.menus = l.menus /\ f.token = c.token /\ g.token = l.token
    <3>1. f.menus = c.menus /\ f.token = c.token
      BY <2>0, OpenApplicationMenus
    <3>2. g.menus = l.menus /\ g.token = l.token
      BY <1>0, <2>0, OpenApplicationMenus
    <3> QED BY <3>1, <3>2
  <2>3. synced => f.apps = g.apps
    <3>1. e.app \in Apps /\ e.pose \in Poses
      BY <2>0
    <3>2. synced => GetOrCreateApplication(c, e.app).apps = GetOrCreateApplication(l, e.app).apps
      BY <1>0, <3>1, GetOrCreateAlike
    <3>3. /\ f.apps = [GetOrCreateApplication(c, e.app).apps EXCEPT ![e.app] =
                        [@ EXCEPT !.pose = e.pose]]
          /\ g.apps = [GetOrCreateApplication(l, e.app).apps EXCEPT ![e.app] =
                        [@ EXCEPT !.pose = e.pose]]
      BY <1>0, <3>1, OpenApplicationShows
    <3> QED BY <3>2, <3>3
  <2> HIDE DEF f, g
  <2> QED BY <1>1, <2>1, <2>2, <2>3 DEF OpenMenus
<1>2. CASE e.event = "app_closed"
  <2> DEFINE f == CloseApplication(c, e.object)
             g == CloseApplication(l, e.object)
  <2>1. AfterEvent(c, e) = f /\ AfterEvent(l, e) = g
    BY <1>2 DEF AfterEvent
  <2>2. f.menus = c.menus /\ g.menus = l.menus /\ f.token = c.token /\ g.token = l.token
    BY <1>0, <1>2, EventFields, CloseApplicationShows
  <2>3. synced => f.apps = g.apps
    <3>1. e.object \in Apps
      BY <1>2, EventFields
    <3>2. /\ f.apps = IF c.apps[e.object] # None THEN [c.apps EXCEPT ![e.object] = None] ELSE c.apps
          /\ g.apps = IF l.apps[e.object] # None THEN [l.apps EXCEPT ![e.object] = None] ELSE l.apps
      BY <1>0, <3>1, CloseApplicationShows
    <3> QED BY <1>b, <3>2
  <2> HIDE DEF f, g
  <2> QED BY <1>2, <2>1, <2>2, <2>3 DEF OpenMenus
<1>3. CASE e.event = "component_update"
  <2> DEFINE f == UpdateComponent(c, e.app, e.component, e.change)
             g == UpdateComponent(l, e.app, e.component, e.change)
  <2>0. e.app \in Apps /\ e.component \in Components /\ e.change \in ComponentChanges
    BY <1>3, EventFields
  <2>1. AfterEvent(c, e) = f /\ AfterEvent(l, e) = g
    BY <1>3 DEF AfterEvent
  <2>2. f.menus = c.menus /\ g.menus = l.menus /\ f.token = c.token /\ g.token = l.token
    <3>1. f.menus = c.menus /\ f.token = c.token
      BY <2>0, UpdateComponentMenus
    <3>2. g.menus = l.menus /\ g.token = l.token
      BY <1>0, <2>0, UpdateComponentMenus
    <3> QED BY <3>1, <3>2
  <2>3. synced => f.apps = g.apps
    <3> DEFINE d(b) == GetOrCreateApplication(b, e.app)
               open(b) == ChangeComponent(d(b).apps[e.app].openComponents, e.component, e.change)
    <3>1. synced => d(c).apps = d(l).apps
      BY <1>0, <2>0, GetOrCreateAlike
    <3>2. /\ f.apps = [d(c).apps EXCEPT ![e.app] =
                        [d(c).apps[e.app] EXCEPT !.openComponents = open(c)]]
          /\ g.apps = [d(l).apps EXCEPT ![e.app] =
                        [d(l).apps[e.app] EXCEPT !.openComponents = open(l)]]
      BY <1>0, <2>0, UpdateComponentShows
    <3>3. synced => open(c) = open(l)
      BY <3>1
    <3> HIDE DEF d, open
    <3> QED BY <3>1, <3>2, <3>3
  <2> HIDE DEF f, g
  <2> QED BY <1>3, <2>1, <2>2, <2>3 DEF OpenMenus
<1>4. CASE e.event = "menu_detached"
  <2> DEFINE f == DetachMenu(c, e.menu, e.pose)
             g == DetachMenu(l, e.menu, e.pose)
  <2>1. AfterEvent(c, e) = f /\ AfterEvent(l, e) = g
    BY <1>4 DEF AfterEvent
  <2>2. /\ f.token = c.token /\ g.token = l.token /\ f.apps = c.apps /\ g.apps = l.apps
        /\ f.menus = [c.menus EXCEPT ![e.menu] = e.pose]
        /\ g.menus = [l.menus EXCEPT ![e.menu] = e.pose]
    BY <1>0, <1>4, EventFields, DetachMenuShows
  <2> HIDE DEF f, g
  <2>3. \A m \in Menus : f.menus[m] # None <=> g.menus[m] # None
    BY <1>a, <1>c, <2>2 DEF MenusFun
  <2> QED BY <1>4, <2>1, <2>2, <2>3 DEF OpenMenus
<1>5. CASE e.event = "detached_menu_closed"
  <2> DEFINE f == CloseDetachedMenu(c, e.object)
             g == CloseDetachedMenu(l, e.object)
  <2>1. AfterEvent(c, e) = f /\ AfterEvent(l, e) = g
    BY <1>5 DEF AfterEvent
  <2>2. e.object \in Menus
    BY <1>5, EventFields
  <2>3. /\ f.token = c.token /\ g.token = l.token /\ f.apps = c.apps /\ g.apps = l.apps
        /\ f.menus = IF c.menus[e.object] # None THEN [c.menus EXCEPT ![e.object] = None] ELSE c.menus
        /\ g.menus = IF l.menus[e.object] # None THEN [l.menus EXCEPT ![e.object] = None] ELSE l.menus
    BY <1>0, <2>2, CloseDetachedMenuShows
  <2> HIDE DEF f, g
  <2>4. \A m \in Menus : f.menus[m] # None <=> g.menus[m] # None
    BY <1>a, <1>c, <2>2, <2>3 DEF MenusFun
  <2>5. synced => f.menus = g.menus
    BY <2>3
  <2> QED BY <1>5, <2>1, <2>3, <2>4, <2>5 DEF OpenMenus
<1>6. CASE e.event = "object_moved"
  <2> DEFINE f == MoveObject(c, e.object, e.pose)
             g == MoveObject(l, e.object, e.pose)
             o == e.object
  <2>1. AfterEvent(c, e) = f /\ AfterEvent(l, e) = g
    BY <1>6 DEF AfterEvent
  <2>2. o \in Objects /\ e.pose \in Poses
    BY <1>6, EventFields
  <2>3. ShowsMove(f, c, o, e.pose) /\ ShowsMove(g, l, o, e.pose)
    BY <1>0, <2>2, MoveObjectShows
  <2> HIDE DEF f, g, o
  <2>4. ASSUME NEW b \in Room, NEW h, b.menus \in MenusFun,
               h.menus = IF o \in b.grabbable \cap OpenMenus(b)
                         THEN [b.menus EXCEPT ![o] = e.pose] ELSE b.menus
        PROVE  \A m \in Menus : h.menus[m] # None <=> b.menus[m] # None
    <3>1. CASE o \in b.grabbable \cap OpenMenus(b)
      <4>1. o \in Menus /\ b.menus[o] # None
        BY <3>1 DEF OpenMenus
      <4>2. h.menus = [b.menus EXCEPT ![o] = e.pose]
        BY <2>4, <3>1
      <4>3. e.pose # None
        <5>1. PICK p \in Poses : p = e.pose
          BY <2>2
        <5>2. None \notin Poses
          BY ContentsAssumption
        <5> QED BY <5>1, <5>2
      <4> QED BY <2>4, <4>1, <4>2, <4>3 DEF MenusFun
    <3>2. CASE o \notin b.grabbable \cap OpenMenus(b)
      BY <2>4, <3>2
    <3> QED BY <3>1, <3>2
  <2>5. /\ \A m \in Menus : f.menus[m] # None <=> c.menus[m] # None
        /\ \A m \in Menus : g.menus[m] # None <=> l.menus[m] # None
    BY <1>0, <1>c, <2>3, <2>4 DEF ShowsMove
  <2>6. OpenMenus(f) = OpenMenus(g)
    BY <1>a, <2>5 DEF OpenMenus
  <2>7. synced => /\ o \in c.grabbable \cap OpenApps(c) <=> o \in l.grabbable \cap OpenApps(l)
                  /\ o \in c.grabbable \cap OpenMenus(c) <=> o \in l.grabbable \cap OpenMenus(l)
    <3>1. /\ OpenApps(c) \subseteq c.grabbable /\ OpenApps(l) \subseteq l.grabbable
          /\ OpenMenus(l) \subseteq l.grabbable
          /\ synced => OpenMenus(c) \subseteq c.grabbable
      BY <1>0 DEF ReplicaOK, Tidy, MenusGrabbable
    <3>2. synced => OpenApps(c) = OpenApps(l)
      BY DEF OpenApps
    <3> QED BY <1>b, <3>1, <3>2
  <2>8. synced => f.apps = g.apps /\ f.menus = g.menus
    <3> SUFFICES ASSUME synced PROVE f.apps = g.apps /\ f.menus = g.menus
      OBVIOUS
    <3>1. c.apps = l.apps /\ c.menus = l.menus
      BY <1>b
    <3>2. f.apps = g.apps
      BY <2>3, <2>7, <3>1 DEF ShowsMove
    <3>3. f.menus = g.menus
      BY <2>3, <2>7, <3>1 DEF ShowsMove
    <3> QED BY <3>2, <3>3
  <2> QED BY <1>6, <1>b, <2>1, <2>3, <2>6, <2>8 DEF ShowsMove
<1>7. CASE e.event = "timestamp_update"
  <2> DEFINE c1 == CloseAllApplications(c)
             l1 == CloseAllApplications(l)
             f == CloseAllDetachedMenus(c1)
             g == CloseAllDetachedMenus(l1)
  <2>1. AfterEvent(c, e) = f /\ AfterEvent(l, e) = g
    BY <1>7 DEF AfterEvent
  <2>2. /\ c1 \in Room /\ c1.token = c.token /\ c1.apps = [x \in Apps |-> None]
        /\ l1 \in Room /\ l1.token = l.token /\ l1.apps = [x \in Apps |-> None]
    BY <1>0, CloseAllApplicationsKeeps, CloseAllApplicationsShows DEF Keeps
  <2> HIDE DEF c1, l1
  <2>3. /\ f.token = c.token /\ f.apps = [x \in Apps |-> None] /\ f.menus = [m \in Menus |-> None]
        /\ g.token = l.token /\ g.apps = [x \in Apps |-> None] /\ g.menus = [m \in Menus |-> None]
    BY <2>2, CloseAllDetachedMenusShows
  <2> HIDE DEF f, g
  <2> QED BY <1>7, <2>1, <2>3 DEF OpenMenus
<1>8. CASE e.event = "change_landscape"
  BY <1>8 DEF AfterEvent
<1>9. CASE e.event = "sync_room_state"
  <2> DEFINE f == SyncContents(c, e.payload)
             g == SyncContents(l, e.payload)
  <2>1. AfterEvent(c, e) = f /\ AfterEvent(l, e) = g
    BY <1>9 DEF AfterEvent
  <2>2. /\ f.token = g.token /\ f.apps = g.apps /\ f.menus = g.menus
    BY <1>0, <1>9, EventFields, SyncContentsShows
  <2> HIDE DEF f, g
  <2> QED BY <2>1, <2>2 DEF OpenMenus
<1> QED BY <1>1, <1>2, <1>3, <1>4, <1>5, <1>6, <1>7, <1>8, <1>9, EventFields

(* Every event keeps a Room object tidy, as the modifiers do.              *)
LEMMA AfterEventKeeps ==
  ASSUME NEW c \in Room, NEW e \in Event
  PROVE  Keeps(c, AfterEvent(c, e))
<1>1. CASE e.event = "app_opened"
  <2>1. e.app \in Apps /\ e.pose \in Poses
    BY <1>1, EventFields
  <2> QED BY <1>1, <2>1, OpenApplicationKeeps DEF AfterEvent
<1>2. CASE e.event = "app_closed"
  <2>1. e.object \in Apps
    BY <1>2, EventFields
  <2> QED BY <1>2, <2>1, CloseApplicationKeeps DEF AfterEvent
<1>3. CASE e.event = "component_update"
  <2>1. e.app \in Apps /\ e.component \in Components /\ e.change \in ComponentChanges
    BY <1>3, EventFields
  <2> QED BY <1>3, <2>1, UpdateComponentKeeps DEF AfterEvent
<1>4. CASE e.event = "menu_detached"
  <2>1. e.menu \in Menus /\ e.pose \in Poses
    BY <1>4, EventFields
  <2> QED BY <1>4, <2>1, DetachMenuKeeps DEF AfterEvent
<1>5. CASE e.event = "detached_menu_closed"
  <2>1. e.object \in Menus
    BY <1>5, EventFields
  <2> QED BY <1>5, <2>1, CloseDetachedMenuKeeps DEF AfterEvent
<1>6. CASE e.event = "object_moved"
  <2>1. e.object \in Objects /\ e.pose \in Poses
    BY <1>6, EventFields
  <2> QED BY <1>6, <2>1, MoveObjectKeeps DEF AfterEvent
<1>7. CASE e.event = "timestamp_update"
  <2> DEFINE c1 == CloseAllApplications(c)
             c2 == CloseAllDetachedMenus(c1)
  <2>1. Keeps(c, c1)
    BY CloseAllApplicationsKeeps
  <2>2. AfterEvent(c, e) = c2
    BY <1>7 DEF AfterEvent
  <2> HIDE DEF c1
  <2>3. Keeps(c1, c2)
    BY <2>1, CloseAllDetachedMenusKeeps DEF Keeps
  <2> HIDE DEF c2
  <2> QED BY <2>1, <2>2, <2>3, KeepsTransitive
<1>8. CASE e.event = "change_landscape"
  BY <1>8 DEF AfterEvent, Keeps
<1>9. CASE e.event = "sync_room_state"
  <2>1. e.payload \in Payloads
    BY <1>9, EventFields
  <2> QED BY <1>9, <2>1, SyncContentsKeeps DEF AfterEvent
<1> QED BY <1>1, <1>2, <1>3, <1>4, <1>5, <1>6, <1>7, <1>8, <1>9, EventFields

LEMMA AfterEventType ==
  ASSUME NEW l \in Entries, NEW e \in Event
  PROVE  /\ AfterEvent(l, e) \in Entries
         /\ <<l, e, AfterEvent(l, e)>> \in Steps
<1>1. l \in Room /\ ReplicaOK(l, TRUE)
  BY DEF Entries
<1>2. PICK m : m = AfterEvent(l, e)
  OBVIOUS
<1>3. Keeps(l, m)
  BY <1>1, <1>2, AfterEventKeeps
<1>4. m \in Entries
  BY <1>1, <1>3 DEF Entries, ReplicaOK, Keeps
<1> QED BY <1>2, <1>4 DEF Steps

LEMMA StepsLemma ==
  ASSUME NEW l, NEW e, NEW m, <<l, e, m>> \in Steps
  PROVE  l \in Entries /\ m \in Entries /\ m = AfterEvent(l, e)
<1>1. PICK t \in Entries \X Event \X Entries : t = <<l, e, m>> /\ t[3] = AfterEvent(t[1], t[2])
  BY DEF Steps
<1> QED BY <1>1

FollowsLog(r, log, n) ==
  /\ Replays(Steps, log, n, inbox[r])
  /\ AtEntry(room[r], inSync[r], log[Position(n, inbox[r])])

OneLog ==
  \E n \in Nat, log \in Log(Entries) : \A r \in Replicas : FollowsLog(r, log, n)

(* What a handler does: AfterEvent, at its replica only.                   *)
LEMMA HandlerEffect ==
  ASSUME RestOK, NEW p \in Replicas, HandleEvent(p)
  PROVE  /\ inbox[p] # <<>> /\ Received(p) \in Event
         /\ inbox' = [inbox EXCEPT ![p] = Tail(@)]
         /\ room' = [room EXCEPT ![p] = AfterEvent(@, Received(p))]
         /\ \/ UNCHANGED inSync
            \/ /\ Received(p).event = "sync_room_state"
               /\ inSync' = [inSync EXCEPT ![p] = TRUE]
<1> DEFINE e == Received(p)
<1>1. /\ inbox[p] # <<>>
      /\ inbox' = [inbox EXCEPT ![p] = Tail(@)]
  BY DEF HandleEvent, HandleAppOpened, HandleAppClosed, HandleComponentUpdate,
         HandleMenuDetached, HandleDetachedMenuClosed, HandleObjectMoved,
         HandleTimestampUpdate, HandleChangeLandscape, HandleSyncRoomState, Receives, Handled
<1>2. Received(p) \in Event
  BY <1>1 DEF RestOK, Received
<1>3. room' = [room EXCEPT ![p] = AfterEvent(@, e)]
  <2>1. CASE HandleAppOpened(p)
    BY <2>1 DEF HandleAppOpened, Receives, Handled, AfterEvent
  <2>2. CASE HandleAppClosed(p)
    BY <2>2 DEF HandleAppClosed, Receives, Handled, AfterEvent
  <2>3. CASE HandleComponentUpdate(p)
    BY <2>3 DEF HandleComponentUpdate, Receives, Handled, AfterEvent
  <2>4. CASE HandleMenuDetached(p)
    BY <2>4 DEF HandleMenuDetached, Receives, Handled, AfterEvent
  <2>5. CASE HandleDetachedMenuClosed(p)
    BY <2>5 DEF HandleDetachedMenuClosed, Receives, Handled, AfterEvent
  <2>6. CASE HandleObjectMoved(p)
    BY <2>6 DEF HandleObjectMoved, Receives, Handled, AfterEvent
  <2>7. CASE HandleTimestampUpdate(p)
    BY <2>7 DEF HandleTimestampUpdate, Receives, Handled, AfterEvent
  <2>8. CASE HandleChangeLandscape(p)
    BY <2>8 DEF HandleChangeLandscape, Receives, Handled, AfterEvent
  <2>9. CASE HandleSyncRoomState(p)
    BY <2>9 DEF HandleSyncRoomState, Receives, Handled, AfterEvent
  <2> QED
    BY <2>1, <2>2, <2>3, <2>4, <2>5, <2>6, <2>7, <2>8, <2>9 DEF HandleEvent
<1>4. \/ UNCHANGED inSync
      \/ e.event = "sync_room_state" /\ inSync' = [inSync EXCEPT ![p] = TRUE]
  BY DEF HandleEvent, HandleAppOpened, HandleAppClosed, HandleComponentUpdate,
         HandleMenuDetached, HandleDetachedMenuClosed, HandleObjectMoved,
         HandleTimestampUpdate, HandleChangeLandscape, HandleSyncRoomState, Receives
<1> QED BY <1>1, <1>2, <1>3, <1>4

(* A publication makes the log one entry longer; no replica moves.         *)
LEMMA PublishKeepsLog ==
  ASSUME RestOK, OneLog, NEW e \in Event, Publish(e),
         \A r \in Replicas : \A l : AtEntry(room[r], inSync[r], l) => AtEntry(room'[r], inSync'[r], l)
  PROVE  OneLog'
<1>1. PICK n \in Nat, log \in Log(Entries) : \A r \in Replicas : FollowsLog(r, log, n)
  BY DEF OneLog
<1>2. PICK s \in Entries : s = AfterEvent(log[n], e) /\ <<log[n], e, s>> \in Steps
  BY AfterEventType DEF Log
<1>3. PICK log2 : log2 = Extended(log, n, s)
  OBVIOUS
<1>4. log2 \in Log(Entries) /\ \A i \in Nat : i # n + 1 => log2[i] = log[i]
  BY <1>3, ExtendedLemma
<1>5. n + 1 \in Nat
  OBVIOUS
<1>6. ASSUME NEW r \in Replicas PROVE FollowsLog(r, log2, n + 1)'
  <2>1. /\ inbox[r] \in Seq(Event) /\ inbox'[r] = Append(inbox[r], e)
        /\ Replays(Steps, log, n, inbox[r]) /\ Len(inbox[r]) <= n
        /\ AtEntry(room[r], inSync[r], log[Position(n, inbox[r])])
    BY <1>1 DEF RestOK, Publish, FollowsLog, Replays
  <2>2. Replays(Steps, log2, n + 1, inbox'[r])
    <3>1. Replays(Steps, Extended(log, n, s), n + 1, Append(inbox[r], e))
      BY <1>2, <2>1, ReplaysAppend
    <3> QED BY <1>3, <2>1, <3>1
  <2>3. log2[Position(n + 1, inbox'[r])] = log[Position(n, inbox[r])]
    <3>1. /\ Position(n + 1, Append(inbox[r], e)) = Position(n, inbox[r])
          /\ Position(n, inbox[r]) \in Nat /\ Position(n, inbox[r]) # n + 1
      BY <2>1, PositionAppend
    <3> QED BY <1>4, <2>1, <3>1
  <2>4. AtEntry(room'[r], inSync'[r], log[Position(n, inbox[r])])
    BY <2>1
  <2> QED BY <2>2, <2>3, <2>4 DEF FollowsLog
<1> QED BY <1>4, <1>5, <1>6 DEF OneLog

(* A handler takes its replica to the next entry.                          *)
LEMMA HandlerKeepsLog ==
  ASSUME RestOK, RoomsOK, OneLog, NEW p \in Replicas, HandleEvent(p)
  PROVE  OneLog'
<1>1. PICK n \in Nat, log \in Log(Entries) : \A r \in Replicas : FollowsLog(r, log, n)
  BY DEF OneLog
<1>2. PICK e \in Event : e = Received(p) /\ e = Head(inbox[p])
  BY HandlerEffect DEF Received
<1>3. PICK c : c = room[p]
  OBVIOUS
<1>4. PICK synced \in BOOLEAN : synced = inSync[p]
  BY DEF RoomsOK
<1>5. /\ inbox \in [Replicas -> Seq(Event)] /\ inbox[p] # <<>>
      /\ inbox' = [inbox EXCEPT ![p] = Tail(@)]
      /\ room' = [room EXCEPT ![p] = AfterEvent(c, e)]
      /\ \/ UNCHANGED inSync
         \/ e.event = "sync_room_state" /\ inSync' = [inSync EXCEPT ![p] = TRUE]
      /\ room \in [Replicas -> Room] /\ inSync \in [Replicas -> BOOLEAN]
      /\ c \in Room /\ ReplicaOK(c, synced)
  BY <1>2, <1>3, <1>4, HandlerEffect DEF RestOK, RoomsOK
<1>6. ASSUME NEW r \in Replicas PROVE FollowsLog(r, log, n)'
  <2>1. Replays(Steps, log, n, inbox[r]) /\ AtEntry(room[r], inSync[r], log[Position(n, inbox[r])])
    BY <1>1 DEF FollowsLog
  <2>2. CASE r = p
    <3>1. PICK k : k = Position(n, inbox[p])
      OBVIOUS
    <3>2. inbox[p] \in Seq(Event) /\ inbox[p] # <<>> /\ Replays(Steps, log, n, inbox[p])
      BY <1>5, <2>1, <2>2
    <3>3. Replays(Steps, log, n, Tail(inbox[p]))
      BY <3>2, ReplaysTail
    <3>4. Position(n, Tail(inbox[p])) = k + 1
      BY <3>1, <3>2, PositionTail DEF Replays
    <3>5. <<log[k], e, log[k + 1]>> \in Steps
      BY <1>2, <3>1, <3>2, ReplaysHead
    <3>6. PICK l \in Entries, m \in Entries : l = log[k] /\ m = log[k + 1] /\ m = AfterEvent(l, e)
      BY <3>5, StepsLemma
    <3>7. AtEntry(c, synced, l)
      BY <1>3, <1>4, <2>1, <2>2, <3>1, <3>6
    <3>8. /\ AtEntry(AfterEvent(c, e), synced, m)
          /\ e.event = "sync_room_state" => AtEntry(AfterEvent(c, e), TRUE, m)
      <4>1. c \in Room /\ ReplicaOK(c, synced)
        BY <1>5
      <4>2. AtEntry(AfterEvent(c, e), synced, AfterEvent(l, e))
        BY <3>7, <4>1, AfterEventAlike
      <4>3. e.event = "sync_room_state" => AtEntry(AfterEvent(c, e), TRUE, AfterEvent(l, e))
        BY <3>7, <4>1, AfterEventAlike
      <4> QED BY <3>6, <4>2, <4>3
    <3>9. AtEntry(room'[p], inSync'[p], m)
      <4>1. room'[p] = AfterEvent(c, e)
        BY <1>5
      <4>2. \/ inSync'[p] = synced
            \/ e.event = "sync_room_state" /\ inSync'[p] = TRUE
        BY <1>4, <1>5
      <4>3. CASE inSync'[p] = synced
        BY <3>8, <4>1, <4>3
      <4>4. CASE e.event = "sync_room_state" /\ inSync'[p] = TRUE
        BY <3>8, <4>1, <4>4
      <4> QED BY <4>2, <4>3, <4>4
    <3>10. inbox'[p] = Tail(inbox[p])
      BY <1>5
    <3> QED BY <2>2, <3>3, <3>4, <3>6, <3>9, <3>10 DEF FollowsLog
  <2>3. CASE r # p
    <3>1. inbox'[r] = inbox[r] /\ room'[r] = room[r] /\ inSync'[r] = inSync[r]
      BY <1>5, <2>3
    <3> QED BY <2>1, <3>1 DEF FollowsLog
  <2> QED BY <2>2, <2>3
<1> QED BY <1>1, <1>6 DEF OneLog

(* A landscape change keeps the menus, and puts its replica out of sync    *)
(* unless it changes nothing.                                              *)
LEMMA LandscapeChangeKeepsEntry ==
  ASSUME NEW c \in Room, NEW token \in Tokens, NEW synced \in BOOLEAN, NEW l,
         AtEntry(c, synced, l)
  PROVE  AtEntry(ChangeLandscapeToken(c, token), synced /\ c.token = token, l)
<1> DEFINE d == ChangeLandscapeToken(c, token)
<1>1. CASE c.token = token
  BY <1>1 DEF ChangeLandscapeToken, AtEntry
<1>2. CASE c.token # token
  <2> DEFINE apps == [x \in Apps |-> None]
  <2>1. d = [c EXCEPT !.token = token, !.apps = apps, !.grabbable = {}]
    BY <1>2 DEF ChangeLandscapeToken
  <2> HIDE DEF apps, d
  <2>2. d.menus = c.menus
    BY <2>1, ChangedFields
  <2> QED BY <1>2, <2>2 DEF AtEntry, OpenMenus, d
<1> QED BY <1>1, <1>2

LEMMA OneLogInit == Init => OneLog
<1> SUFFICES ASSUME Init PROVE OneLog
  OBVIOUS
<1>1. PICK payload \in Payloads :
        /\ room = [r \in Replicas |-> CreateContents(payload)]
        /\ inbox = [r \in Replicas |-> <<>>]
        /\ inSync = [r \in Replicas |-> TRUE]
  BY DEF Init
<1>2. PICK c \in Entries : c = CreateContents(payload)
  BY CreateContentsTidy DEF Entries, ReplicaOK
<1>3. PICK log \in Log(Entries) : log[0] = c
  <2> DEFINE log == [k \in Nat |-> c]
  <2>1. log \in Log(Entries) /\ log[0] = c
    BY DEF Log
  <2> QED BY <2>1
<1>4. ASSUME NEW r \in Replicas PROVE FollowsLog(r, log, 0)
  <2>1. inbox[r] = <<>> /\ room[r] = c
    BY <1>1, <1>2
  <2>2. Replays(Steps, log, 0, inbox[r]) /\ Position(0, inbox[r]) = 0
    BY <2>1, ReplaysNothing
  <2>3. AtEntry(c, inSync[r], c)
    BY DEF AtEntry, SameShown
  <2> QED BY <1>3, <2>1, <2>2, <2>3 DEF FollowsLog
<1>5. 0 \in Nat
  OBVIOUS
<1> QED BY <1>4, <1>5 DEF OneLog

LEMMA OneLogNext == RestOK /\ RoomsOK /\ OneLog /\ [Next]_vars => OneLog'
<1> SUFFICES ASSUME RestOK, RoomsOK, OneLog, [Next]_vars PROVE OneLog'
  OBVIOUS
<1>1. ASSUME UNCHANGED <<room, inbox, inSync>> PROVE OneLog'
  BY <1>1 DEF OneLog, FollowsLog
<1>2. ASSUME NEW e \in Event, Publish(e), UNCHANGED <<room, inSync>> PROVE OneLog'
  BY <1>2, PublishKeepsLog
<1>3. CASE ClientMessage
  <2>1. PICK e \in Event : Publish(e)
    BY <1>3, ClientMessagePublishes
  <2>2. ASSUME NEW p \in Replicas, NEW token \in Tokens, ChangeLandscape(p, token)
        PROVE  OneLog'
    <3>1. ASSUME NEW r \in Replicas, NEW l, AtEntry(room[r], inSync[r], l)
          PROVE  AtEntry(room'[r], inSync'[r], l)
      <4>1. CASE r # p
        <5>1. room'[r] = room[r] /\ inSync'[r] = inSync[r]
          BY <2>2, <4>1 DEF ChangeLandscape, RoomsOK
        <5> QED BY <3>1, <5>1
      <4>2. CASE r = p
        <5>1. /\ room'[r] = ChangeLandscapeToken(room[r], token)
              /\ inSync'[r] = (inSync[r] /\ room[r].token = token)
          BY <2>2, <4>2 DEF ChangeLandscape, RoomsOK
        <5>2. room[r] \in Room /\ inSync[r] \in BOOLEAN
          BY DEF RoomsOK
        <5>3. AtEntry(ChangeLandscapeToken(room[r], token), inSync[r] /\ room[r].token = token, l)
          BY <3>1, <5>2, LandscapeChangeKeepsEntry
        <5> QED BY <5>1, <5>3
      <4> QED BY <4>1, <4>2
    <3> QED BY <2>1, <3>1, PublishKeepsLog
  <2>3. CASE UNCHANGED <<room, inSync>>
    BY <1>2, <2>1, <2>3
  <2> QED
    BY <1>3, <2>2, <2>3 DEF ClientMessage, AppOpened, ComponentUpdate, MenuDetached,
                           ObjectMoved, TimestampUpdate, SyncRoomState
<1>4. CASE LockStep
  <2>1. ASSUME NEW r \in Replicas, NEW o \in Objects, Close(r, o) PROVE OneLog'
    BY <1>2, <2>1, CloseEventType DEF Close
  <2>2. ASSUME NEW r \in Replicas, NEW m \in Menus, CloseUnknownMenu(r, m) PROVE OneLog'
    BY <1>2, <2>2, CloseEventType DEF CloseUnknownMenu
  <2> QED
    BY <1>1, <1>4, <2>1, <2>2 DEF LockStep, AskLock, LockRefused, Grab, Release, ExpireClose
<1>5. ASSUME NEW r \in Replicas, HandleEvent(r) PROVE OneLog'
  BY <1>5, HandlerKeepsLog
<1>6. CASE UNCHANGED vars
  BY <1>1, <1>6 DEF vars
<1> QED BY <1>3, <1>4, <1>5, <1>6 DEF Next

(* Replicas with as much left to handle are at the same entry.             *)
LEMMA OneLogAgrees == OneLog => CopiesAgree
<1> SUFFICES ASSUME OneLog, NEW r \in Replicas, NEW q \in Replicas, Len(inbox[r]) = Len(inbox[q])
             PROVE  /\ OpenMenus(room[r]) = OpenMenus(room[q])
                    /\ inSync[r] /\ inSync[q] => Shown(r) = Shown(q)
  BY DEF CopiesAgree
<1>1. PICK n \in Nat, log \in Log(Entries) : \A p \in Replicas : FollowsLog(p, log, n)
  BY DEF OneLog
<1>2. PICK l : l = log[Position(n, inbox[r])] /\ l = log[Position(n, inbox[q])]
  BY DEF Position
<1>3. AtEntry(room[r], inSync[r], l) /\ AtEntry(room[q], inSync[q], l)
  BY <1>1, <1>2 DEF FollowsLog
<1> QED BY <1>3 DEF AtEntry, SameShown, Shown

(* Replicas that have handled the same events show the same menus, and the *)
(* same landscape and applications unless one of them changed its          *)
(* landscape since the last synchronization: whatever was grabbed, closed, *)
(* moved or synchronized in whatever order, and however far the replicas   *)
(* were apart meanwhile.                                                   *)
THEOREM CopiesStayAlike == Spec => []CopiesAgree
<1>1. Init => RestOK /\ RoomsOK /\ OneLog
  BY InitInv, OneLogInit
<1>2. OneLog /\ RestOK /\ RoomsOK /\ [Next]_vars => OneLog'
  BY OneLogNext
<1>3. OneLog => CopiesAgree
  BY OneLogAgrees
<1> QED BY <1>1, <1>2, <1>3, RoomInvariant, PTL DEF Spec
=============================================================================
