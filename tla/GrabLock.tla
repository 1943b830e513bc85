------------------------------ MODULE GrabLock -------------------------------
(***************************************************************************)
(* The lock service: users grab, release and close the objects of their    *)
(* room.  The lock of an object is a key in Redis that holds the token of  *)
(* the redlock operation that set it.  Every replica remembers the grabs   *)
(* of its own users in grabbableObjectLocks, a map from object id to user  *)
(* and token.                                                              *)
(*                                                                         *)
(* A call on redlock is three steps: it is sent, its script runs in Redis, *)
(* and the code after the await runs.  Replies that have arrived may be    *)
(* continued in any order.  Redis keeps its keys; a replica that restarts  *)
(* knows nothing, and is another member of Replicas.                       *)
(*                                                                         *)
(* Requests for objects that the room does not have take no lock and are   *)
(* left out, and so is what a close does to the room.                      *)
(***************************************************************************)
EXTENDS Naturals

CONSTANTS Replicas, Rooms, Objects, Users,
          Ops,           \* calls of redlock.acquire, which are also its tokens
          MaxReleases,   \* bound on the releases of one lock that a user asks for
          PatientUsers,  \* users whose client awaits each answer, even to leave
          MayStop,       \* replicas that the operator may kill
          None

ASSUME NoneAssumption ==
  None \notin Replicas \cup Rooms \cup Objects \cup Users \cup Ops
ASSUME EnvironmentAssumption ==
  /\ MaxReleases \in Nat
  /\ PatientUsers \subseteq Users
  /\ MayStop \subseteq Replicas

VARIABLES up,           \* replica -> is its process running
          presence,     \* user -> "new", "in" (has a session) or "gone"
          userReplica,  \* user -> the replica of its session
          userRoom,     \* user -> the room of its session
          redis,        \* <<room, object>> -> the token its key holds, or None
          locks,        \* replica -> grabbableObjectLocks: object -> token or None
          opState,      \* call -> see OpStates
          request,      \* call -> what it is for
          relSent,      \* token -> release scripts that Redis has not run
          relDone       \* token -> release scripts that ran, to be continued

userVars == <<presence, userReplica, userRoom>>
opVars   == <<opState, request>>
relVars  == <<relSent, relDone>>
vars     == <<up, userVars, redis, locks, opVars, relVars>>

(* "unused"   not sent yet                                                 *)
(* "sent"     redlock tries to set the key                                 *)
(* "granted"  the key is set, the caller does not know yet                 *)
(* "held"     a grab whose caller knows                                    *)
(* "closed"   a close whose caller knows and has told the room             *)
(* "late"     the same, but the key had expired by then                    *)
(* "failed"   refused after the last retry, or nobody left to tell         *)
OpStates == {"unused", "sent", "granted", "held", "closed", "late", "failed"}

Keys == Rooms \X Objects
Request == [kind : {"grab", "close"}, user : Users, object : Objects]

Requester(o) == request[o].user
ReplicaOf(o) == userReplica[Requester(o)]

(* getGrabbableObjectLockResource: the key names the room and the object.  *)
KeyOf(o) == <<userRoom[Requester(o)], request[o].object>>

(* GrabbableObjectLock.isLockedByUser.                                     *)
IsLockedByUser(r, x, u) == locks[r][x] # None /\ Requester(locks[r][x]) = u

-----------------------------------------------------------------------------
Init ==
  /\ up = [r \in Replicas |-> TRUE]
  /\ presence = [u \in Users |-> "new"]
  /\ userReplica = [u \in Users |-> None]
  /\ userRoom = [u \in Users |-> None]
  /\ redis = [k \in Keys |-> None]
  /\ locks = [r \in Replicas |-> [x \in Objects |-> None]]
  /\ opState = [o \in Ops |-> "unused"]
  /\ request = [o \in Ops |-> None]
  /\ relSent = [o \in Ops |-> 0]
  /\ relDone = [o \in Ops |-> 0]

-----------------------------------------------------------------------------
(* Clients *)

(* The user awaits an answer or an effect of something it asked for.       *)
Awaits(u) ==
  \E o \in Ops : /\ opState[o] # "unused"
                 /\ Requester(o) = u
                 /\ opState[o] \in {"sent", "granted"} \/ relSent[o] + relDone[o] > 0

MayAct(u) == presence[u] = "in" /\ (u \in PatientUsers => ~ Awaits(u))

Connect(u, r, rm) ==
  /\ presence[u] = "new"
  /\ up[r]
  /\ presence' = [presence EXCEPT ![u] = "in"]
  /\ userReplica' = [userReplica EXCEPT ![u] = r]
  /\ userRoom' = [userRoom EXCEPT ![u] = rm]
  /\ UNCHANGED <<up, redis, locks, opVars, relVars>>

(* handleObjectGrabbedMessage and handleAppClosedMessage up to the await   *)
(* of redlock.acquire.                                                     *)
Ask(o, kind, u, x) ==
  /\ opState[o] = "unused"
  /\ MayAct(u)
  /\ opState' = [opState EXCEPT ![o] = "sent"]
  /\ request' = [request EXCEPT ![o] = [kind |-> kind, user |-> u, object |-> x]]
  /\ UNCHANGED <<up, userVars, redis, locks, relVars>>

(* handleObjectReleasedMessage: the release is sent if the entry is the    *)
(* user's; its promise is not awaited.                                     *)
Release(u, x) ==
  LET r == userReplica[u]
      o == locks[r][x]
  IN /\ MayAct(u)
     /\ IsLockedByUser(r, x, u)
     /\ relSent[o] < MaxReleases
     /\ relSent' = [relSent EXCEPT ![o] = @ + 1]
     /\ UNCHANGED <<up, userVars, redis, locks, opVars, relDone>>

(* Mutant: the disconnect forgets the user's locks.                        *)
ReleaseNone(u) == UNCHANGED relSent

(* releaseAllLockByUser: one release for every entry of the user, none     *)
(* awaited.                                                                *)
ReleaseAll(u) ==
  relSent' = [o \in Ops |->
                IF \E x \in Objects : locks[userReplica[u]][x] = o /\ Requester(o) = u
                THEN relSent[o] + 1 ELSE relSent[o]]

Disconnect(u) ==
  /\ MayAct(u)
  /\ presence' = [presence EXCEPT ![u] = "gone"]
  /\ ReleaseAll(u)
  /\ UNCHANGED <<up, userReplica, userRoom, redis, locks, opVars, relDone>>

-----------------------------------------------------------------------------
(* Redis *)

KeyFree(o) == redis[KeyOf(o)] = None

Acquire(o) ==
  /\ opState[o] = "sent"
  /\ KeyFree(o)
  /\ redis' = [redis EXCEPT ![KeyOf(o)] = o]
  /\ opState' = [opState EXCEPT ![o] = "granted"]
  /\ UNCHANGED <<up, userVars, locks, request, relVars>>

(* Mutant: a refused grab takes the entry of its object away.              *)
RefuseAcquireClearing(o) ==
  /\ opState[o] = "sent"
  /\ ~ KeyFree(o)
  /\ opState' = [opState EXCEPT ![o] = "failed"]
  /\ locks' = [locks EXCEPT ![ReplicaOf(o)][request[o].object] = None]
  /\ UNCHANGED <<up, userVars, redis, request, relVars>>

(* The last retry found the key taken; redlock throws and the caller       *)
(* answers "no success".                                                   *)
RefuseAcquire(o) ==
  /\ opState[o] = "sent"
  /\ ~ KeyFree(o)
  /\ opState' = [opState EXCEPT ![o] = "failed"]
  /\ UNCHANGED <<up, userVars, redis, locks, request, relVars>>

(* The release script deletes the key if it holds the token.               *)
RunRelease(o) ==
  /\ relSent[o] > 0
  /\ redis[KeyOf(o)] = o
  /\ redis' = [redis EXCEPT ![KeyOf(o)] = None]
  /\ relSent' = [relSent EXCEPT ![o] = @ - 1]
  /\ relDone' = [relDone EXCEPT ![o] = @ + 1]
  /\ UNCHANGED <<up, userVars, locks, opVars>>

(* A close sets its key for 500 ms, whether or not its caller has been     *)
(* answered by then.                                                       *)
ExpireClose(o) ==
  /\ opState[o] # "unused"
  /\ request[o].kind = "close"
  /\ redis[KeyOf(o)] = o
  /\ redis' = [redis EXCEPT ![KeyOf(o)] = None]
  /\ UNCHANGED <<up, userVars, locks, opVars, relVars>>

-----------------------------------------------------------------------------
(* What follows the awaits *)

(* Mutant: the entry is set without awaiting the lock.                     *)
GrabUnawaited(o) ==
  /\ opState[o] = "sent"
  /\ request[o].kind = "grab"
  /\ up[ReplicaOf(o)]
  /\ locks' = [locks EXCEPT ![ReplicaOf(o)][request[o].object] = o]
  /\ UNCHANGED <<up, userVars, redis, opVars, relVars>>

(* lockGrabbableObject: the entry is set, whether or not the user is still *)
(* there and whatever the entry was.                                       *)
GrabGranted(o) ==
  /\ opState[o] = "granted"
  /\ request[o].kind = "grab"
  /\ up[ReplicaOf(o)]
  /\ locks' = [locks EXCEPT ![ReplicaOf(o)][request[o].object] = o]
  /\ opState' = [opState EXCEPT ![o] = "held"]
  /\ UNCHANGED <<up, userVars, redis, request, relVars>>

(* Mutant: the room is told whatever closeGrabbableObject answers.         *)
CloseUnchecked(o) ==
  /\ opState[o] \in {"granted", "failed"}
  /\ request[o].kind = "close"
  /\ opState' = [opState EXCEPT ![o] = "closed"]
  /\ UNCHANGED <<up, userVars, redis, locks, request, relVars>>

(* handleAppClosedMessage: the room is told.  The message is built from    *)
(* the client's session: without one the handler throws instead.           *)
CloseGranted(o) ==
  /\ opState[o] = "granted"
  /\ request[o].kind = "close"
  /\ up[ReplicaOf(o)]
  /\ opState' = [opState EXCEPT ![o] = IF presence[Requester(o)] # "in" THEN "failed"
                                        ELSE IF redis[KeyOf(o)] = o THEN "closed"
                                        ELSE "late"]
  /\ UNCHANGED <<up, userVars, redis, locks, request, relVars>>

(* Mutant: the entry stays.                                                *)
KeepEntry(o) == UNCHANGED locks

(* The entry of the object goes, whose ever it is by now.                  *)
DeleteEntry(o) == locks' = [locks EXCEPT ![ReplicaOf(o)][request[o].object] = None]

ReleaseContinues(o) ==
  /\ relDone[o] > 0
  /\ up[ReplicaOf(o)]
  /\ DeleteEntry(o)
  /\ relDone' = [relDone EXCEPT ![o] = @ - 1]
  /\ UNCHANGED <<up, userVars, redis, opVars, relSent>>

(* The process of a replica ends; Redis still runs the scripts it was      *)
(* sent.                                                                   *)
ProcessEnds(r) ==
  /\ up' = [up EXCEPT ![r] = FALSE]
  /\ presence' = [u \in Users |-> IF userReplica[u] = r THEN "gone" ELSE presence[u]]
  /\ locks' = [locks EXCEPT ![r] = [x \in Objects |-> None]]
  /\ UNCHANGED <<userReplica, userRoom, redis, opVars>>

(* The last retry of a release found that the key does not hold its token: *)
(* redlock rejects, nobody handles the rejection, and Node ends the        *)
(* process.                                                                *)
ReleaseRejected(o) ==
  /\ relSent[o] > 0
  /\ redis[KeyOf(o)] # o
  /\ up[ReplicaOf(o)]
  /\ relSent' = [relSent EXCEPT ![o] = @ - 1]
  /\ ProcessEnds(ReplicaOf(o))
  /\ UNCHANGED relDone

Stop(r) ==
  /\ r \in MayStop
  /\ up[r]
  /\ ProcessEnds(r)
  /\ UNCHANGED relVars

-----------------------------------------------------------------------------
Next ==
  \/ \E u \in Users, r \in Replicas, rm \in Rooms : Connect(u, r, rm)
  \/ \E o \in Ops, u \in Users, x \in Objects : Ask(o, "grab", u, x) \/ Ask(o, "close", u, x)
  \/ \E u \in Users, x \in Objects : Release(u, x)
  \/ \E u \in Users : Disconnect(u)
  \/ \E o \in Ops : \/ Acquire(o) \/ RefuseAcquire(o) \/ RunRelease(o) \/ ExpireClose(o)
                    \/ GrabGranted(o) \/ CloseGranted(o)
                    \/ ReleaseContinues(o) \/ ReleaseRejected(o)
  \/ \E r \in Replicas : Stop(r)

Spec == Init /\ [][Next]_vars

-----------------------------------------------------------------------------
(* Properties *)

(* The values of every variable.  Calls that were sent have a request of a *)
(* connected user; a key holds a token that was set for it; an entry holds *)
(* the token of a granted grab of its object by a user of its replica.     *)
TypeOK ==
  /\ up \in [Replicas -> BOOLEAN]
  /\ presence \in [Users -> {"new", "in", "gone"}]
  /\ userReplica \in [Users -> Replicas \cup {None}]
  /\ userRoom \in [Users -> Rooms \cup {None}]
  /\ redis \in [Keys -> Ops \cup {None}]
  /\ locks \in [Replicas -> [Objects -> Ops \cup {None}]]
  /\ opState \in [Ops -> OpStates]
  /\ request \in [Ops -> Request \cup {None}]
  /\ relSent \in [Ops -> Nat]
  /\ relDone \in [Ops -> Nat]
  /\ \A u \in Users : IF presence[u] = "new" THEN userReplica[u] = None
                     ELSE userReplica[u] \in Replicas /\ userRoom[u] \in Rooms
  /\ \A o \in Ops : opState[o] # "unused" =>
        request[o] \in Request /\ presence[Requester(o)] # "new"
  /\ \A k \in Keys : redis[k] # None =>
        opState[redis[k]] \notin {"unused", "sent"} /\ KeyOf(redis[k]) = k
  /\ \A r \in Replicas, x \in Objects : locks[r][x] # None =>
        /\ opState[locks[r][x]] = "held"
        /\ request[locks[r][x]].kind = "grab"
        /\ request[locks[r][x]].object = x
        /\ ReplicaOf(locks[r][x]) = r
  /\ \A o \in Ops : opState[o] # "held" => relSent[o] = 0 /\ relDone[o] = 0

Releasing(o) == relSent[o] + relDone[o] > 0

(* An entry of grabbableObjectLocks stands for a lock in Redis, unless a   *)
(* release of it is under way.                                             *)
EntryBacked ==
  \A r \in Replicas, x \in Objects :
    LET o == locks[r][x]
    IN o # None /\ ~ Releasing(o) => redis[KeyOf(o)] = o

(* The user may move the object and has not asked for its release.         *)
Holds(u, k) ==
  /\ presence[u] = "in"
  /\ userRoom[u] = k[1]
  /\ IsLockedByUser(userReplica[u], k[2], u)
  /\ ~ Releasing(locks[userReplica[u]][k[2]])

holder == [k \in Keys |-> IF \E u \in Users : Holds(u, k)
                          THEN CHOOSE u \in Users : Holds(u, k) ELSE None]
closed == {<<o, KeyOf(o)>> : o \in {p \in Ops : opState[p] = "closed"}}

(* The lock service implements ExclusiveGrab: a user gets an object only   *)
(* if nobody holds it, and the news that an object is closed is sent only  *)
(* while nobody holds this very object.  The news of a close that was      *)
(* answered after its 500 ms is no close of ExclusiveGrab: by then another *)
(* user may hold the object.                                               *)
Exclusive == INSTANCE ExclusiveGrab WITH Closes <- Ops

ExclusiveSpec == Exclusive!Spec

(* "Object can be grabbed by one user only", across replicas.              *)
OneHolder == \A k \in Keys, u, v \in Users : Holds(u, k) /\ Holds(v, k) => u = v

(* A patient user that has left keeps no key, as long as its replica lives *)
(* and nobody else grabbed an object of that id there.                     *)
Sharers(o) == {p \in Ops : /\ opState[p] # "unused" /\ request[p].kind = "grab"
                           /\ request[p].object = request[o].object
                           /\ ReplicaOf(p) = ReplicaOf(o) /\ Requester(p) # Requester(o)}
PatientLeaversFreeKeys ==
  \A o \in Ops :
    (/\ opState[o] # "unused" /\ request[o].kind = "grab" /\ Requester(o) \in PatientUsers
     /\ presence[Requester(o)] = "gone" /\ up[ReplicaOf(o)]
     /\ ~ Awaits(Requester(o)) /\ Sharers(o) = {})
      => redis[KeyOf(o)] # o

(* What a patient user releases, or handleDisconnect for it, is in Redis   *)
(* when the script runs: no second release of one lock is under way, so    *)
(* redlock does not reject and the process does not end.                   *)
PatientReleasesSucceed ==
  \A o \in Ops :
    (opState[o] # "unused" /\ Requester(o) \in PatientUsers /\ relSent[o] > 0)
      => redis[KeyOf(o)] = o

(* A patient user loses an object that it holds only by releasing it or by *)
(* losing its session, unless another user of its replica asks for an      *)
(* object of that id, in whatever room: neither a refused second grab nor  *)
(* the late continuation of an earlier release takes the entry away.       *)
PatientGrabsLast ==
  [][\A u \in PatientUsers, k \in Keys :
       (Holds(u, k) /\ ~ Holds(u, k)')
         => LET o == locks[userReplica[u]][k[2]]
            IN presence'[u] # "in" \/ relSent'[o] > 0 \/ Sharers(o) # {}]_vars

(* What releaseAllLockByUser's comment says, that a user who has left has  *)
(* released "all distributed locks": nobody's key survives its user once   *)
(* all its calls are done.                                                 *)
LeaversFreeKeys ==
  \A k \in Keys : redis[k] # None =>
    LET o == redis[k]
    IN request[o].kind = "grab" /\ up[ReplicaOf(o)] =>
         presence[Requester(o)] = "in" \/ Awaits(Requester(o))

(* What lockGrabbableObject's comment says, that a grab is "for an         *)
(* unlimited time": a user loses an object that it holds only by releasing *)
(* it or by losing its session.                                            *)
GrabsLast ==
  [][\A u \in Users, k \in Keys :
       (Holds(u, k) /\ ~ Holds(u, k)')
         => \/ presence'[u] # "in"
            \/ relSent'[locks[userReplica[u]][k[2]]] > 0]_vars

(* What releaseGrabbableObjectLock's comment says, that it "does nothing   *)
(* if the object is unlocked": a release never ends the process.           *)
ReleaseNeverEndsProcess == \A r \in Replicas : up[r]

-----------------------------------------------------------------------------
(* What ExclusiveSpec rests on *)

(* Nobody takes the key between the grant of a grab and its continuation.  *)
GrantBacked ==
  \A o \in Ops : (opState[o] = "granted" /\ request[o].kind = "grab" /\ up[ReplicaOf(o)])
                  => redis[KeyOf(o)] = o

LockInv == TypeOK /\ EntryBacked /\ GrantBacked

-----------------------------------------------------------------------------
(* What PatientLeaversFreeKeys rests on *)

IsGrab(o) == opState[o] # "unused" /\ request[o].kind = "grab"
Patient(o) == opState[o] # "unused" /\ Requester(o) \in PatientUsers
Acquiring(o) == opState[o] \in {"sent", "granted"}

(* The entry of the call's object on its replica.                          *)
EntryOf(o) == locks[ReplicaOf(o)][request[o].object]

(* Only grabs are held, and a key is gone once a release of it has run.    *)
HeldGrabs == \A o \in Ops : opState[o] = "held" => request[o].kind = "grab"
ReleasedKeys == \A o \in Ops : relDone[o] > 0 => redis[KeyOf(o)] # o

(* A patient user has one release of a call under way, none while it       *)
(* awaits a lock, and does not leave while it awaits one.                  *)
OneAtATime ==
  \A o \in Ops : Patient(o) =>
    /\ relSent[o] + relDone[o] <= 1
    /\ Acquiring(o) =>
         /\ \A p \in Ops : Patient(p) /\ Requester(p) = Requester(o) => ~ Releasing(p)
         /\ up[ReplicaOf(o)] => presence[Requester(o)] = "in"

(* Where a user does not share an object id, what it releases is in its    *)
(* entry, and so is the key that it has been granted.                      *)
UnsharedEntries ==
  \A o \in Ops : IsGrab(o) /\ Patient(o) /\ up[ReplicaOf(o)] /\ Sharers(o) = {} =>
    /\ Releasing(o) => EntryOf(o) = o
    /\ redis[KeyOf(o)] = o => opState[o] = "granted" \/ EntryOf(o) = o

(* The entries of a user that has left are being released.                 *)
LeaversRelease ==
  \A r \in Replicas, x \in Objects :
    LET o == locks[r][x]
    IN (o # None /\ Patient(o) /\ presence[Requester(o)] = "gone") => Releasing(o)

PatientInv == /\ HeldGrabs
              /\ ReleasedKeys
              /\ OneAtATime
              /\ UnsharedEntries
              /\ LeaversRelease
=============================================================================
