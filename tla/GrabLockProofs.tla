--------------------------- MODULE GrabLockProofs ----------------------------
(***************************************************************************)
(* Theorems about GrabLock, for every number of replicas, rooms, objects,  *)
(* users and calls.                                                        *)
(***************************************************************************)
EXTENDS GrabLock, TLAPS

-----------------------------------------------------------------------------
(* The inductive invariant *)

LEMMA InitInv == Init => LockInv
BY NoneAssumption DEF Init, LockInv, TypeOK, EntryBacked, GrantBacked, Keys, OpStates

(* A user that connects was not there before, so no call is its own.       *)
LEMMA ConnectInv ==
  ASSUME LockInv, NEW u \in Users, NEW r \in Replicas, NEW rm \in Rooms, Connect(u, r, rm)
  PROVE  LockInv'
<1> USE DEF LockInv, Connect, opVars, relVars
<1>1. \A o \in Ops : opState[o] # "unused" =>
        Requester(o)' = Requester(o) /\ KeyOf(o)' = KeyOf(o) /\ ReplicaOf(o)' = ReplicaOf(o)
  BY DEF TypeOK, Requester, KeyOf, ReplicaOf, Request
<1>2. TypeOK'
  BY <1>1, NoneAssumption DEF TypeOK, Requester, OpStates
<1>3. EntryBacked'
  BY <1>1 DEF TypeOK, EntryBacked, Releasing, OpStates
<1>4. GrantBacked'
  BY <1>1 DEF TypeOK, GrantBacked
<1> QED BY <1>2, <1>3, <1>4

LEMMA AskInv ==
  ASSUME LockInv, NEW o \in Ops, NEW kind \in {"grab", "close"}, NEW u \in Users,
         NEW x \in Objects, Ask(o, kind, u, x)
  PROVE  LockInv'
<1> USE DEF LockInv, Ask, userVars, relVars
<1>1. \A p \in Ops : opState[p] # "unused" =>
        /\ p # o
        /\ Requester(p)' = Requester(p) /\ KeyOf(p)' = KeyOf(p) /\ ReplicaOf(p)' = ReplicaOf(p)
        /\ request'[p] = request[p] /\ opState'[p] = opState[p]
  BY DEF TypeOK, Requester, KeyOf, ReplicaOf
<1>2. TypeOK'
  <2>1. request'[o] = [kind |-> kind, user |-> u, object |-> x] /\ opState'[o] = "sent"
    BY DEF TypeOK
  <2>2. request'[o] \in Request /\ Requester(o)' = u
    BY <2>1 DEF Request, Requester
  <2>3. opState' \in [Ops -> OpStates] /\ request' \in [Ops -> Request \cup {None}]
    BY <2>2 DEF TypeOK, OpStates, Request
  <2>4. \A p \in Ops : opState'[p] # "unused" => request'[p] \in Request /\ presence'[Requester(p)'] # "new"
    BY <1>1, <2>2 DEF TypeOK, MayAct
  <2>5. \A p \in Ops : opState'[p] # "held" => relSent'[p] = 0 /\ relDone'[p] = 0
    BY <1>1, <2>1 DEF TypeOK
  <2>6. \A k \in Keys : redis'[k] # None =>
        opState'[redis'[k]] \notin {"unused", "sent"} /\ KeyOf(redis[k])' = k
    BY <1>1 DEF TypeOK
  <2>7. \A rr \in Replicas, xx \in Objects : locks'[rr][xx] # None =>
        /\ opState'[locks'[rr][xx]] = "held"
        /\ request'[locks'[rr][xx]].kind = "grab"
        /\ request'[locks'[rr][xx]].object = xx
        /\ ReplicaOf(locks[rr][xx])' = rr
    BY <1>1 DEF TypeOK
  <2> QED BY <2>3, <2>4, <2>5, <2>6, <2>7 DEF TypeOK
<1>3. EntryBacked'
  BY <1>1 DEF TypeOK, EntryBacked, Releasing
<1>4. GrantBacked'
  BY <1>1 DEF TypeOK, GrantBacked
<1> QED BY <1>2, <1>3, <1>4

(* More releases under way: entries need less backing.                     *)
LEMMA ReleaseInv ==
  ASSUME LockInv, NEW u \in Users, NEW x \in Objects, Release(u, x)
  PROVE  LockInv'
<1> USE DEF LockInv, Release, userVars, opVars
<1> DEFINE o == locks[userReplica[u]][x]
<1>1. o \in Ops /\ opState[o] = "held"
  BY DEF MayAct, IsLockedByUser, TypeOK
<1>2. relSent' \in [Ops -> Nat] /\ \A p \in Ops : relSent'[p] >= relSent[p]
  BY <1>1 DEF TypeOK
<1>3. TypeOK'
  BY <1>1, <1>2 DEF TypeOK, Requester, KeyOf, ReplicaOf
<1>4. EntryBacked'
  BY <1>2 DEF TypeOK, EntryBacked, Releasing, KeyOf, Requester
<1>5. GrantBacked'
  BY DEF GrantBacked, KeyOf, ReplicaOf, Requester
<1> QED BY <1>3, <1>4, <1>5

LEMMA DisconnectInv ==
  ASSUME LockInv, NEW u \in Users, Disconnect(u)
  PROVE  LockInv'
<1> USE DEF LockInv, Disconnect, opVars
<1>0. \A p \in Ops : KeyOf(p)' = KeyOf(p) /\ ReplicaOf(p)' = ReplicaOf(p)
                     /\ Requester(p)' = Requester(p)
  BY DEF KeyOf, ReplicaOf, Requester
<1>1. relSent' \in [Ops -> Nat] /\ \A p \in Ops : relSent'[p] >= relSent[p]
  BY DEF TypeOK, ReleaseAll
<1>2. userReplica[u] \in Replicas
  BY DEF MayAct, TypeOK
<1>3. \A p \in Ops : relSent'[p] # relSent[p] => opState[p] = "held"
  BY <1>2, NoneAssumption DEF TypeOK, ReleaseAll
<1>4. presence' \in [Users -> {"new", "in", "gone"}]
      /\ \A v \in Users : presence'[v] = "new" => presence[v] = "new"
  BY DEF TypeOK, MayAct
<1>5. \A v \in Users : presence'[v] # "new" => presence[v] # "new"
  BY DEF TypeOK, MayAct
<1>6. TypeOK'
  <2>1. \A v \in Users : IF presence'[v] = "new" THEN userReplica'[v] = None
                        ELSE userReplica'[v] \in Replicas /\ userRoom'[v] \in Rooms
    BY <1>4, <1>5 DEF TypeOK
  <2>2. \A p \in Ops : opState'[p] # "unused" =>
          request'[p] \in Request /\ presence'[Requester(p)'] # "new"
    BY <1>4 DEF TypeOK, Requester, Request
  <2>3. \A p \in Ops : opState'[p] # "held" => relSent'[p] = 0 /\ relDone'[p] = 0
    BY <1>3 DEF TypeOK
  <2> QED BY <1>1, <1>4, <2>1, <2>2, <2>3, <1>0 DEF TypeOK
<1>7. EntryBacked'
  BY <1>0, <1>1 DEF TypeOK, EntryBacked, Releasing
<1>8. GrantBacked'
  BY DEF GrantBacked, KeyOf, ReplicaOf, Requester
<1> QED BY <1>6, <1>7, <1>8

(* The key was free, so no other call relied on it.                        *)
LEMMA AcquireInv ==
  ASSUME LockInv, NEW o \in Ops, Acquire(o)
  PROVE  LockInv'
<1> USE DEF LockInv, Acquire, userVars, relVars
<1>1. KeyOf(o) \in Keys /\ o # None
  BY NoneAssumption DEF TypeOK, KeyOf, Keys, Request, Requester
<1>2. \A p \in Ops : KeyOf(p)' = KeyOf(p) /\ ReplicaOf(p)' = ReplicaOf(p) /\ Requester(p)' = Requester(p)
  BY DEF KeyOf, ReplicaOf, Requester
<1>3. \A k \in Keys : redis[k] # None => redis'[k] = redis[k]
  BY <1>1 DEF KeyFree, TypeOK
<1>4. redis'[KeyOf(o)] = o
  BY <1>1 DEF TypeOK
<1>5. \A p \in Ops : KeyOf(p) \in Keys \/ opState[p] = "unused"
  BY DEF TypeOK, KeyOf, Keys, Request, Requester
<1>6. \A k \in Keys : redis'[k] # None => opState'[redis'[k]] \notin {"unused", "sent"} /\ KeyOf(redis[k])' = k
  BY <1>1, <1>2, <1>4 DEF TypeOK
<1>7. TypeOK'
  BY <1>1, <1>2, <1>6 DEF TypeOK, OpStates
<1>8. EntryBacked'
  BY <1>2, <1>3, <1>5, NoneAssumption DEF TypeOK, EntryBacked, Releasing
<1>9. GrantBacked'
  BY <1>2, <1>3, <1>4, <1>5, NoneAssumption DEF TypeOK, GrantBacked
<1> QED BY <1>7, <1>8, <1>9

LEMMA RefuseInv ==
  ASSUME LockInv, NEW o \in Ops, RefuseAcquire(o)
  PROVE  LockInv'
<1> USE DEF LockInv, RefuseAcquire, userVars, relVars
<1>1. \A p \in Ops : KeyOf(p)' = KeyOf(p) /\ ReplicaOf(p)' = ReplicaOf(p) /\ Requester(p)' = Requester(p)
  BY DEF KeyOf, ReplicaOf, Requester
<1>2. TypeOK'
  BY <1>1 DEF TypeOK, OpStates
<1>3. EntryBacked'
  BY <1>1 DEF TypeOK, EntryBacked, Releasing
<1>4. GrantBacked'
  BY <1>1 DEF TypeOK, GrantBacked
<1> QED BY <1>2, <1>3, <1>4

(* Deleting a key that holds o: only calls other than o rely on a key, and *)
(* theirs do not hold o.                                                   *)
LEMMA KeyDeleted ==
  ASSUME LockInv, NEW o \in Ops, redis[KeyOf(o)] = o,
         redis' = [redis EXCEPT ![KeyOf(o)] = None]
  PROVE  /\ redis' \in [Keys -> Ops \cup {None}]
         /\ \A k \in Keys : redis'[k] # None => redis'[k] = redis[k]
         /\ \A p \in Ops : p # o /\ opState[p] # "unused" /\ redis[KeyOf(p)] = p
                              => redis'[KeyOf(p)] = p
<1>1. \A p \in Ops : opState[p] # "unused" => KeyOf(p) \in Keys
  BY DEF LockInv, TypeOK, KeyOf, Keys, Request, Requester
<1> QED BY <1>1 DEF LockInv, TypeOK

LEMMA RunReleaseInv ==
  ASSUME LockInv, NEW o \in Ops, RunRelease(o)
  PROVE  LockInv'
<1> USE DEF LockInv, RunRelease, userVars, opVars
<1>1. opState[o] = "held"
  BY DEF TypeOK
<1>2. /\ relSent' \in [Ops -> Nat] /\ relDone' \in [Ops -> Nat]
      /\ relDone'[o] > 0
      /\ \A p \in Ops : p # o => relSent'[p] = relSent[p] /\ relDone'[p] = relDone[p]
  BY DEF TypeOK
<1>3. /\ redis' \in [Keys -> Ops \cup {None}]
      /\ \A k \in Keys : redis'[k] # None => redis'[k] = redis[k]
      /\ \A p \in Ops : p # o /\ opState[p] # "unused" /\ redis[KeyOf(p)] = p
                           => redis'[KeyOf(p)] = p
  BY KeyDeleted
<1>4. \A p \in Ops : KeyOf(p)' = KeyOf(p) /\ ReplicaOf(p)' = ReplicaOf(p) /\ Requester(p)' = Requester(p)
  BY DEF KeyOf, ReplicaOf, Requester
<1>5. TypeOK'
  BY <1>1, <1>2, <1>3, <1>4 DEF TypeOK
<1>6. EntryBacked'
  <2> SUFFICES ASSUME NEW r \in Replicas, NEW x \in Objects, locks[r][x] # None,
                      ~ Releasing(locks[r][x])'
               PROVE  redis'[KeyOf(locks[r][x])'] = locks[r][x]
    BY DEF EntryBacked
  <2>1. locks[r][x] \in Ops /\ opState[locks[r][x]] = "held"
    BY DEF TypeOK
  <2>2. locks[r][x] # o
    BY <1>2 DEF Releasing, TypeOK
  <2> QED BY <2>1, <2>2, <1>2, <1>3, <1>4 DEF EntryBacked, Releasing
<1>7. GrantBacked'
  BY <1>1, <1>3, <1>4 DEF TypeOK, GrantBacked
<1> QED BY <1>5, <1>6, <1>7

LEMMA ExpireCloseInv ==
  ASSUME LockInv, NEW o \in Ops, ExpireClose(o)
  PROVE  LockInv'
<1> USE DEF LockInv, ExpireClose, userVars, opVars, relVars
<1>1. /\ redis' \in [Keys -> Ops \cup {None}]
      /\ \A k \in Keys : redis'[k] # None => redis'[k] = redis[k]
      /\ \A p \in Ops : p # o /\ opState[p] # "unused" /\ redis[KeyOf(p)] = p
                           => redis'[KeyOf(p)] = p
  BY KeyDeleted
<1>2. \A p \in Ops : KeyOf(p)' = KeyOf(p) /\ ReplicaOf(p)' = ReplicaOf(p) /\ Requester(p)' = Requester(p)
  BY DEF KeyOf, ReplicaOf, Requester
<1>3. TypeOK'
  BY <1>1, <1>2 DEF TypeOK
<1>4. EntryBacked'
  BY <1>1, <1>2 DEF TypeOK, EntryBacked, Releasing
<1>5. GrantBacked'
  BY <1>1, <1>2 DEF TypeOK, GrantBacked
<1> QED BY <1>3, <1>4, <1>5

(* The new entry is backed because the grant was.                          *)
LEMMA GrabGrantedInv ==
  ASSUME LockInv, NEW o \in Ops, GrabGranted(o)
  PROVE  LockInv'
<1> USE DEF LockInv, GrabGranted, userVars, relVars
<1>1. ReplicaOf(o) \in Replicas /\ request[o].object \in Objects
  BY DEF TypeOK, ReplicaOf, Requester, Request
<1>2. \A p \in Ops : KeyOf(p)' = KeyOf(p) /\ ReplicaOf(p)' = ReplicaOf(p) /\ Requester(p)' = Requester(p)
  BY DEF KeyOf, ReplicaOf, Requester
<1>3. \A r \in Replicas, x \in Objects :
        \/ locks'[r][x] = o /\ r = ReplicaOf(o) /\ x = request[o].object
        \/ locks'[r][x] = locks[r][x]
  BY <1>1 DEF TypeOK
<1>4. locks' \in [Replicas -> [Objects -> Ops \cup {None}]]
  BY <1>1 DEF TypeOK
<1>5. \A r \in Replicas, x \in Objects : locks'[r][x] # None =>
        /\ opState'[locks'[r][x]] = "held"
        /\ request'[locks'[r][x]].kind = "grab"
        /\ request'[locks'[r][x]].object = x
        /\ ReplicaOf(locks[r][x])' = r
  BY <1>2, <1>3 DEF TypeOK
<1>6. TypeOK'
  BY <1>2, <1>4, <1>5 DEF TypeOK, OpStates
<1>7. redis[KeyOf(o)] = o
  BY DEF GrantBacked
<1>8. EntryBacked'
  <2> SUFFICES ASSUME NEW r \in Replicas, NEW x \in Objects, locks'[r][x] # None,
                      ~ Releasing(locks[r][x])'
               PROVE  redis'[KeyOf(locks[r][x])'] = locks'[r][x]
    BY DEF EntryBacked
  <2>1. CASE locks'[r][x] = o
    BY <2>1, <1>2, <1>7
  <2>2. CASE locks'[r][x] = locks[r][x]
    <3>1. locks[r][x] \in Ops
      BY <2>2 DEF TypeOK
    <3> QED BY <2>2, <3>1, <1>2 DEF EntryBacked, Releasing
  <2> QED BY <2>1, <2>2, <1>3
<1>9. GrantBacked'
  BY <1>2 DEF TypeOK, GrantBacked
<1> QED BY <1>6, <1>8, <1>9

LEMMA CloseGrantedInv ==
  ASSUME LockInv, NEW o \in Ops, CloseGranted(o)
  PROVE  LockInv'
<1> USE DEF LockInv, CloseGranted, userVars, relVars
<1>1. \A p \in Ops : KeyOf(p)' = KeyOf(p) /\ ReplicaOf(p)' = ReplicaOf(p) /\ Requester(p)' = Requester(p)
  BY DEF KeyOf, ReplicaOf, Requester
<1>2. opState' \in [Ops -> OpStates] /\ opState'[o] \in {"closed", "late", "failed"}
      /\ \A p \in Ops : p # o => opState'[p] = opState[p]
  BY DEF TypeOK, OpStates
<1>3. TypeOK'
  BY <1>1, <1>2 DEF TypeOK
<1>4. EntryBacked'
  BY <1>1 DEF TypeOK, EntryBacked, Releasing
<1>5. GrantBacked'
  BY <1>1, <1>2 DEF GrantBacked
<1> QED BY <1>3, <1>4, <1>5

(* An entry goes, and the release it goes with.                            *)
LEMMA ReleaseContinuesInv ==
  ASSUME LockInv, NEW o \in Ops, ReleaseContinues(o)
  PROVE  LockInv'
<1> USE DEF LockInv, ReleaseContinues, DeleteEntry, userVars, opVars
<1>1. opState[o] = "held" /\ ReplicaOf(o) \in Replicas /\ request[o].object \in Objects
  BY DEF TypeOK, ReplicaOf, Requester, Request
<1>2. /\ relDone' \in [Ops -> Nat]
      /\ \A p \in Ops : p # o => relDone'[p] = relDone[p]
  BY DEF TypeOK
<1>3. \A p \in Ops : KeyOf(p)' = KeyOf(p) /\ ReplicaOf(p)' = ReplicaOf(p) /\ Requester(p)' = Requester(p)
  BY DEF KeyOf, ReplicaOf, Requester
<1>4. /\ locks' \in [Replicas -> [Objects -> Ops \cup {None}]]
      /\ \A r \in Replicas, x \in Objects : locks'[r][x] # None =>
            locks'[r][x] = locks[r][x] /\ locks[r][x] # o
  BY <1>1 DEF TypeOK
<1>5. TypeOK'
  BY <1>1, <1>2, <1>3, <1>4 DEF TypeOK
<1>6. EntryBacked'
  BY <1>2, <1>3, <1>4 DEF TypeOK, EntryBacked, Releasing
<1>7. GrantBacked'
  BY <1>3 DEF GrantBacked
<1> QED BY <1>5, <1>6, <1>7

(* What the end of a process leaves as it was, and what of it goes.        *)
LEMMA ProcessEndsInv ==
  ASSUME LockInv, NEW r \in Replicas, ProcessEnds(r),
         relSent' \in [Ops -> Nat], relDone' = relDone,
         \A p \in Ops : relSent'[p] = relSent[p]
                        \/ (ReplicaOf(p) = r /\ opState[p] = "held")
  PROVE  LockInv'
<1> USE DEF LockInv, ProcessEnds, opVars
<1>1. presence' \in [Users -> {"new", "in", "gone"}]
      /\ \A u \in Users : presence[u] = "new" <=> presence'[u] = "new"
  BY NoneAssumption DEF TypeOK
<1>2. up' \in [Replicas -> BOOLEAN] /\ \A q \in Replicas : up'[q] = TRUE => up[q] = TRUE
  BY DEF TypeOK
<1>3. \A p \in Ops : KeyOf(p)' = KeyOf(p) /\ ReplicaOf(p)' = ReplicaOf(p) /\ Requester(p)' = Requester(p)
  BY DEF KeyOf, ReplicaOf, Requester
<1>4. /\ locks' \in [Replicas -> [Objects -> Ops \cup {None}]]
      /\ \A q \in Replicas, x \in Objects : locks'[q][x] # None =>
            locks'[q][x] = locks[q][x] /\ q # r
  BY DEF TypeOK
<1>5. TypeOK'
  <2>1. \A u \in Users : presence'[u] # "new" =>
          userReplica'[u] \in Replicas /\ userRoom'[u] \in Rooms
    BY <1>1 DEF TypeOK
  <2>2. \A p \in Ops : opState'[p] # "unused" =>
          request'[p] \in Request /\ presence'[Requester(p)'] # "new"
    <3> SUFFICES ASSUME NEW p \in Ops, opState[p] # "unused"
                 PROVE  request[p] \in Request /\ presence'[Requester(p)] # "new"
      BY <1>3
    <3>1. request[p] \in Request /\ Requester(p) \in Users /\ presence[Requester(p)] # "new"
      BY DEF TypeOK, Request, Requester
    <3> QED BY <3>1, <1>1
  <2>3. \A p \in Ops : opState'[p] # "held" => relSent'[p] = 0 /\ relDone'[p] = 0
    BY DEF TypeOK
  <2> QED BY <1>1, <1>2, <1>3, <1>4, <2>1, <2>2, <2>3 DEF TypeOK
<1>6. EntryBacked'
  BY <1>3, <1>4 DEF TypeOK, EntryBacked, Releasing
<1>7. GrantBacked'
  <2> SUFFICES ASSUME NEW p \in Ops, opState[p] = "granted", request[p].kind = "grab",
                      up'[ReplicaOf(p)] = TRUE
               PROVE  redis[KeyOf(p)] = p
    BY <1>2, <1>3 DEF GrantBacked, TypeOK, ReplicaOf, Requester, Request
  <2>1. ReplicaOf(p) \in Replicas
    BY DEF TypeOK, ReplicaOf, Requester, Request
  <2> QED BY <2>1, <1>2 DEF GrantBacked
<1> QED BY <1>5, <1>6, <1>7

LEMMA ReleaseRejectedInv ==
  ASSUME LockInv, NEW o \in Ops, ReleaseRejected(o)
  PROVE  LockInv'
<1>1. opState[o] = "held" /\ ReplicaOf(o) \in Replicas
  BY DEF LockInv, TypeOK, ReplicaOf, Requester, Request, ReleaseRejected
<1>2. relSent' \in [Ops -> Nat] /\ \A p \in Ops : p # o => relSent'[p] = relSent[p]
  BY DEF LockInv, TypeOK, ReleaseRejected
<1> QED BY <1>1, <1>2, ProcessEndsInv DEF ReleaseRejected

LEMMA StopInv ==
  ASSUME LockInv, NEW r \in Replicas, Stop(r)
  PROVE  LockInv'
BY ProcessEndsInv DEF LockInv, TypeOK, Stop, relVars

LEMMA NextInv == LockInv /\ [Next]_vars => LockInv'
<1> SUFFICES ASSUME LockInv, [Next]_vars PROVE LockInv'
  OBVIOUS
<1>1. CASE UNCHANGED vars
  BY <1>1 DEF LockInv, TypeOK, EntryBacked, GrantBacked, Releasing, KeyOf, ReplicaOf, Requester,
              vars, userVars, opVars, relVars
<1>2. CASE Next
  BY <1>2, ConnectInv, AskInv, ReleaseInv, DisconnectInv, AcquireInv, RefuseInv, RunReleaseInv,
     ExpireCloseInv, GrabGrantedInv, CloseGrantedInv, ReleaseContinuesInv, ReleaseRejectedInv,
     StopInv DEF Next
<1> QED BY <1>1, <1>2

(* The variables of the lock service keep their types, and tokens stay     *)
(* where they belong: a key holds one that was set for that key, an entry  *)
(* one that was granted for that object on that replica.                   *)
THEOREM LockTypeCorrect == Spec => []TypeOK
<1>1. LockInv => TypeOK
  BY DEF LockInv
<1> QED BY <1>1, InitInv, NextInv, PTL DEF Spec

(* An entry of grabbableObjectLocks that nobody is releasing stands for a  *)
(* lock that Redis still holds, on every replica and in every order of     *)
(* replies, retries and process ends.                                      *)
THEOREM EntriesAreBacked == Spec => []EntryBacked
<1>1. LockInv => EntryBacked
  BY DEF LockInv
<1> QED BY <1>1, InitInv, NextInv, PTL DEF Spec

-----------------------------------------------------------------------------
(* Holders *)

(* Whoever holds an object owns its key.                                   *)
LEMMA HolderOwnsKey ==
  ASSUME LockInv, NEW u \in Users, NEW k \in Keys, Holds(u, k)
  PROVE  /\ redis[k] \in Ops
         /\ opState[redis[k]] = "held"
         /\ Requester(redis[k]) = u
<1> DEFINE o == locks[userReplica[u]][k[2]]
<1>1. userReplica[u] \in Replicas /\ k[2] \in Objects /\ k = <<userRoom[u], k[2]>>
  BY DEF LockInv, TypeOK, Holds, Keys
<1>2. o \in Ops /\ opState[o] = "held" /\ request[o].object = k[2] /\ Requester(o) = u
  BY <1>1, NoneAssumption DEF LockInv, TypeOK, Holds, IsLockedByUser
<1>3. KeyOf(o) = k
  BY <1>1, <1>2 DEF KeyOf
<1>4. redis[k] = o
  BY <1>1, <1>2, <1>3, NoneAssumption DEF LockInv, EntryBacked, Holds
<1> QED BY <1>2, <1>4

LEMMA OneHolderLemma == LockInv => OneHolder
BY HolderOwnsKey DEF OneHolder

(* An object is grabbed by one user only, however many replicas its room   *)
(* is on.                                                                  *)
THEOREM OneHolderOnly == Spec => []OneHolder
BY OneHolderLemma, InitInv, NextInv, PTL DEF Spec

(* What holder says.                                                       *)
HolderExact == /\ holder \in [Keys -> Users \cup {None}]
               /\ \A k \in Keys, u \in Users : holder[k] = u <=> Holds(u, k)

LEMMA HolderLemma == LockInv => HolderExact
<1> SUFFICES ASSUME LockInv PROVE HolderExact
  OBVIOUS
<1>1. ASSUME NEW k \in Keys
      PROVE  /\ holder[k] \in Users \cup {None}
             /\ \A u \in Users : holder[k] = u <=> Holds(u, k)
  <2>1. CASE \E u \in Users : Holds(u, k)
    <3>1. holder[k] \in Users /\ Holds(holder[k], k)
      BY <2>1 DEF holder
    <3> QED BY <3>1, OneHolderLemma DEF OneHolder
  <2>2. CASE ~ \E u \in Users : Holds(u, k)
    BY <2>2, NoneAssumption DEF holder
  <2> QED BY <2>1, <2>2
<1>2. holder = [k \in Keys |-> holder[k]]
  BY DEF holder
<1> QED BY <1>1, <1>2 DEF HolderExact

(* An object whose key a call has just been granted is held by nobody, as  *)
(* long as the key is there.                                               *)
LEMMA GrantedUnheld ==
  ASSUME LockInv, NEW o \in Ops, opState[o] = "granted", redis[KeyOf(o)] = o
  PROVE  KeyOf(o) \in Keys /\ holder[KeyOf(o)] = None
<1>1. KeyOf(o) \in Keys
  BY DEF LockInv, TypeOK, KeyOf, Keys, Request, Requester
<1>2. \A u \in Users : ~ Holds(u, KeyOf(o))
  BY <1>1, HolderOwnsKey
<1> QED BY <1>1, <1>2, HolderLemma DEF HolderExact

-----------------------------------------------------------------------------
(* Every step of GrabLock is one of ExclusiveGrab, or stutters *)

(* A call that was sent stays what it is, a replica that has ended stays   *)
(* so, and a user that has left does not come back.                        *)
LEMMA CallsKept ==
  ASSUME LockInv, [Next]_vars
  PROVE  /\ \A p \in Ops : opState[p] # "unused" =>
              /\ opState'[p] # "unused" /\ request'[p] = request[p]
              /\ Requester(p)' = Requester(p) /\ ReplicaOf(p)' = ReplicaOf(p)
              /\ KeyOf(p)' = KeyOf(p)
         /\ \A r \in Replicas : up'[r] = TRUE => up[r] = TRUE
<1> USE DEF LockInv, TypeOK, Requester, ReplicaOf, KeyOf, userVars, opVars, relVars
<1>1. ASSUME NEW u \in Users, NEW r \in Replicas, NEW rm \in Rooms, Connect(u, r, rm)
      PROVE  UNCHANGED <<opState, request, up>> /\ \A v \in Users : presence[v] # "new" =>
               userReplica'[v] = userReplica[v] /\ userRoom'[v] = userRoom[v]
  BY <1>1 DEF Connect
<1>2. ASSUME NEW o \in Ops, NEW kind \in {"grab", "close"}, NEW u \in Users, NEW x \in Objects,
             Ask(o, kind, u, x)
      PROVE  /\ UNCHANGED <<userReplica, userRoom, up>>
             /\ \A p \in Ops : opState[p] # "unused" =>
                  opState'[p] # "unused" /\ request'[p] = request[p]
  BY <1>2 DEF Ask
<1>3. ASSUME NEW o \in Ops,
             Acquire(o) \/ RefuseAcquire(o) \/ GrabGranted(o) \/ CloseGranted(o)
      PROVE  /\ UNCHANGED <<userReplica, userRoom, request, up>>
             /\ \A p \in Ops : opState[p] # "unused" => opState'[p] # "unused"
  BY <1>3 DEF Acquire, RefuseAcquire, GrabGranted, CloseGranted
<1>4. CASE UNCHANGED <<opState, request, userReplica, userRoom, up>>
  BY <1>4
<1>5. ASSUME NEW r \in Replicas, ProcessEnds(r)
      PROVE  /\ UNCHANGED <<opState, request, userReplica, userRoom>>
             /\ \A q \in Replicas : up'[q] = TRUE => up[q] = TRUE
  BY <1>5 DEF ProcessEnds
<1>6. \A p \in Ops : opState[p] # "unused" =>
        request[p].user \in Users /\ presence[request[p].user] # "new"
  BY DEF Request
<1>7. ASSUME NEW o \in Ops, ReleaseRejected(o)
      PROVE  \E r \in Replicas : ProcessEnds(r)
  <2>1. ReplicaOf(o) \in Replicas /\ ProcessEnds(ReplicaOf(o))
    BY <1>7 DEF ReleaseRejected, Request
  <2> QED BY <2>1
<1>8. CASE UNCHANGED vars
  BY <1>4, <1>8 DEF vars
<1>9. CASE \/ \E u \in Users, x \in Objects : Release(u, x)
           \/ \E u \in Users : Disconnect(u)
           \/ \E o \in Ops : RunRelease(o) \/ ExpireClose(o) \/ ReleaseContinues(o)
  BY <1>4, <1>9 DEF Release, Disconnect, RunRelease, ExpireClose, ReleaseContinues
<1>10. CASE \/ \E u \in Users, r \in Replicas, rm \in Rooms : Connect(u, r, rm)
            \/ \E o \in Ops, u \in Users, x \in Objects : Ask(o, "grab", u, x) \/ Ask(o, "close", u, x)
  BY <1>1, <1>2, <1>6, <1>10
<1>11. CASE \E o \in Ops : Acquire(o) \/ RefuseAcquire(o) \/ GrabGranted(o) \/ CloseGranted(o)
  BY <1>3, <1>11
<1>12. CASE \E r \in Replicas : ProcessEnds(r)
  BY <1>5, <1>12
<1> QED BY <1>7, <1>8, <1>9, <1>10, <1>11, <1>12 DEF Next, Stop

(* The calls that have closed an object keep it.                           *)
ClosedKept == \A p \in Ops : opState[p] = "closed" => KeyOf(p)' = KeyOf(p)

(* A step in which nobody gets an object and nothing is closed.            *)
LEMMA LoseStep ==
  ASSUME HolderExact, HolderExact',
         \A k \in Keys, u \in Users : Holds(u, k)' => Holds(u, k),
         \A p \in Ops : opState'[p] = "closed" <=> opState[p] = "closed", ClosedKept
  PROVE  Exclusive!Lose
<1>1. \A k \in Keys : holder'[k] \in {holder[k], None}
  BY DEF HolderExact
<1>2. closed' = closed
  BY DEF closed, ClosedKept
<1> QED BY <1>1, <1>2 DEF Exclusive!Lose, Exclusive!MayLose, HolderExact

(* Holding depends on these alone.                                         *)
LEMMA HoldsMonotone ==
  ASSUME LockInv,
         \A u \in Users : presence'[u] = "in" => presence[u] = "in",
         UNCHANGED <<userReplica, userRoom, request>>,
         \A r \in Replicas, x \in Objects : locks'[r][x] # None =>
           locks'[r][x] = locks[r][x],
         \A r \in Replicas, x \in Objects :
           locks'[r][x] # None /\ Releasing(locks[r][x]) => Releasing(locks[r][x])'
  PROVE  \A k \in Keys, u \in Users : Holds(u, k)' => Holds(u, k)
<1> SUFFICES ASSUME NEW k \in Keys, NEW u \in Users, Holds(u, k)'
             PROVE  Holds(u, k)
  OBVIOUS
<1>1. presence[u] = "in" /\ userReplica[u] \in Replicas /\ k[2] \in Objects
  BY DEF Holds, LockInv, TypeOK, Keys
<1>2. locks'[userReplica[u]][k[2]] # None
  BY DEF Holds, IsLockedByUser
<1>3. locks'[userReplica[u]][k[2]] = locks[userReplica[u]][k[2]]
  BY <1>1, <1>2
<1> QED BY <1>1, <1>2, <1>3 DEF Holds, IsLockedByUser, Requester

(* A user that connects has no call, hence no entry.                       *)
LEMMA ConnectStep ==
  ASSUME LockInv, HolderExact, HolderExact', ClosedKept,
         NEW u \in Users, NEW r \in Replicas, NEW rm \in Rooms, Connect(u, r, rm)
  PROVE  Exclusive!Lose
<1> USE DEF Connect, opVars, relVars
<1>1. ASSUME NEW k \in Keys, NEW v \in Users, Holds(v, k)'
      PROVE  Holds(v, k)
  <2>1. userReplica'[v] \in Replicas /\ k[2] \in Objects
    BY <1>1 DEF Holds, LockInv, TypeOK, Keys
  <2>2. v # u
    <3>1. SUFFICES ASSUME v = u PROVE FALSE
      OBVIOUS
    <3>2. locks[r][k[2]] # None /\ request[locks[r][k[2]]].user = u
      BY <1>1, <3>1 DEF Holds, IsLockedByUser, Requester, LockInv, TypeOK
    <3> QED BY <2>1, <3>2 DEF LockInv, TypeOK, Requester
  <2> QED BY <1>1, <2>2 DEF Holds, IsLockedByUser, Releasing, Requester, LockInv, TypeOK
<1> QED BY <1>1, LoseStep

(* Calls, releases and leaving do not change entries.                      *)
LEMMA ClientStep ==
  ASSUME LockInv, HolderExact, HolderExact', ClosedKept,
         \/ \E o \in Ops, kind \in {"grab", "close"}, u \in Users, x \in Objects :
              Ask(o, kind, u, x)
         \/ \E u \in Users, x \in Objects : Release(u, x)
         \/ \E u \in Users : Disconnect(u)
  PROVE  Exclusive!Lose
<1>1. ASSUME NEW o \in Ops, NEW kind \in {"grab", "close"}, NEW u \in Users, NEW x \in Objects,
             Ask(o, kind, u, x)
      PROVE  Exclusive!Lose
  <2> USE <1>1 DEF Ask, userVars, relVars
  <2>1. ASSUME NEW k \in Keys, NEW v \in Users, Holds(v, k)'
        PROVE  Holds(v, k)
    <3>1. userReplica[v] \in Replicas /\ k[2] \in Objects
      BY <2>1 DEF Holds, LockInv, TypeOK, Keys
    <3>2. locks[userReplica[v]][k[2]] # o /\ locks[userReplica[v]][k[2]] # None
      BY <2>1, <3>1 DEF Holds, IsLockedByUser, LockInv, TypeOK
    <3> QED BY <2>1, <3>1, <3>2 DEF Holds, IsLockedByUser, Releasing, Requester, LockInv, TypeOK
  <2> QED BY <2>1, LoseStep DEF LockInv, TypeOK
<1>2. ASSUME NEW u \in Users, NEW x \in Objects, Release(u, x)
      PROVE  Exclusive!Lose
  <2> USE <1>2 DEF Release, userVars, opVars
  <2>1. \A p \in Ops : Releasing(p) => Releasing(p)'
    BY DEF Releasing, LockInv, TypeOK
  <2>2. \A k \in Keys, v \in Users : Holds(v, k)' => Holds(v, k)
    BY <2>1, HoldsMonotone DEF LockInv, TypeOK
  <2> QED BY <2>2, LoseStep
<1>3. ASSUME NEW u \in Users, Disconnect(u)
      PROVE  Exclusive!Lose
  <2> USE <1>3 DEF Disconnect, opVars
  <2>1. \A p \in Ops : Releasing(p) => Releasing(p)'
    BY DEF Releasing, ReleaseAll, LockInv, TypeOK
  <2>2. \A k \in Keys, v \in Users : Holds(v, k)' => Holds(v, k)
    BY <2>1, HoldsMonotone DEF LockInv, TypeOK
  <2> QED BY <2>2, LoseStep
<1> QED BY <1>1, <1>2, <1>3

(* Nothing that Redis does is seen by anyone before it is continued.       *)
LEMMA RedisStep ==
  ASSUME LockInv, HolderExact, HolderExact', ClosedKept, NEW o \in Ops,
         Acquire(o) \/ RefuseAcquire(o) \/ RunRelease(o) \/ ExpireClose(o)
  PROVE  Exclusive!Lose
<1> USE DEF Acquire, RefuseAcquire, RunRelease, ExpireClose, userVars, opVars, relVars
<1>1. UNCHANGED <<userReplica, userRoom, request, presence, locks>>
  OBVIOUS
<1>2. \A p \in Ops : Releasing(p) => Releasing(p)'
  BY DEF Releasing, LockInv, TypeOK
<1>3. \A k \in Keys, v \in Users : Holds(v, k)' => Holds(v, k)
  BY <1>1, <1>2, HoldsMonotone DEF LockInv, TypeOK
<1>4. \A p \in Ops : opState'[p] = "closed" <=> opState[p] = "closed"
  BY DEF LockInv, TypeOK
<1> QED BY <1>3, <1>4, LoseStep

LEMMA ReleaseContinuesStep ==
  ASSUME LockInv, HolderExact, HolderExact', ClosedKept, NEW o \in Ops, ReleaseContinues(o)
  PROVE  Exclusive!Lose
<1> USE DEF ReleaseContinues, DeleteEntry, userVars, opVars
<1>1. opState[o] = "held" /\ ReplicaOf(o) \in Replicas /\ request[o].object \in Objects
  BY DEF LockInv, TypeOK, ReplicaOf, Requester, Request
<1>2. \A r \in Replicas, x \in Objects : locks'[r][x] # None =>
        locks'[r][x] = locks[r][x] /\ locks[r][x] # o /\ locks[r][x] \in Ops
  BY <1>1 DEF LockInv, TypeOK
<1>3. \A p \in Ops : p # o => (Releasing(p) => Releasing(p)')
  BY DEF Releasing, LockInv, TypeOK
<1>4. \A k \in Keys, v \in Users : Holds(v, k)' => Holds(v, k)
  BY <1>2, <1>3, HoldsMonotone
<1> QED BY <1>4, LoseStep

LEMMA ProcessEndsStep ==
  ASSUME LockInv, HolderExact, HolderExact', ClosedKept, NEW r \in Replicas, ProcessEnds(r),
         relDone' = relDone,
         \A p \in Ops : relSent'[p] = relSent[p] \/ ReplicaOf(p) = r
  PROVE  Exclusive!Lose
<1> USE DEF ProcessEnds, opVars
<1>1. \A q \in Replicas, x \in Objects : locks'[q][x] # None =>
        /\ locks'[q][x] = locks[q][x]
        /\ locks[q][x] \in Ops /\ ReplicaOf(locks[q][x]) # r
  BY DEF LockInv, TypeOK
<1>2. \A p \in Ops : ReplicaOf(p) # r => (Releasing(p) => Releasing(p)')
  BY DEF Releasing
<1>3. \A u \in Users : presence'[u] = "in" => presence[u] = "in"
  BY DEF LockInv, TypeOK
<1>4. \A k \in Keys, v \in Users : Holds(v, k)' => Holds(v, k)
  BY <1>1, <1>2, <1>3, HoldsMonotone
<1> QED BY <1>4, LoseStep

LEMMA EndStep ==
  ASSUME LockInv, HolderExact, HolderExact', ClosedKept,
         \/ \E o \in Ops : ReleaseRejected(o)
         \/ \E r \in Replicas : Stop(r)
  PROVE  Exclusive!Lose
<1>1. ASSUME NEW o \in Ops, ReleaseRejected(o)
      PROVE  Exclusive!Lose
  <2>1. ReplicaOf(o) \in Replicas
    BY <1>1 DEF LockInv, TypeOK, ReplicaOf, Requester, Request, ReleaseRejected
  <2>2. \A p \in Ops : p # o => relSent'[p] = relSent[p]
    BY <1>1 DEF LockInv, TypeOK, ReleaseRejected
  <2> QED BY <1>1, <2>1, <2>2, ProcessEndsStep DEF ReleaseRejected
<1>2. ASSUME NEW r \in Replicas, Stop(r)
      PROVE  Exclusive!Lose
  BY <1>2, ProcessEndsStep DEF Stop, relVars
<1> QED BY <1>1, <1>2

(* The user gets an object that nobody held.  The entry that it replaces   *)
(* may have been another user's, for the object of that id in another      *)
(* room: that user loses its object.                                       *)
LEMMA GrabStep ==
  ASSUME LockInv, HolderExact, HolderExact', ClosedKept, NEW o \in Ops, GrabGranted(o)
  PROVE  Exclusive!Next
<1> USE DEF GrabGranted, userVars, relVars
<1>1. ReplicaOf(o) \in Replicas /\ request[o].object \in Objects
  BY DEF LockInv, TypeOK, ReplicaOf, Requester, Request
<1>u. PICK u \in Users : u = Requester(o)
  BY DEF LockInv, TypeOK, Requester, Request
<1>k. PICK k \in Keys : k = KeyOf(o) /\ holder[k] = None
  BY GrantedUnheld DEF LockInv, GrantBacked
<1>3. closed' = closed
  BY DEF closed, ClosedKept, LockInv, TypeOK
<1>4. ASSUME NEW j \in Keys, NEW v \in Users, Holds(v, j)'
      PROVE  Holds(v, j) \/ (v = u /\ j = k)
  <2>1. userReplica[v] \in Replicas /\ j[2] \in Objects /\ j = <<userRoom[v], j[2]>>
    BY <1>4 DEF Holds, LockInv, TypeOK, Keys
  <2>2. CASE userReplica[v] = ReplicaOf(o) /\ j[2] = request[o].object
    <3>1. locks'[userReplica[v]][j[2]] = o
      BY <2>1, <2>2 DEF LockInv, TypeOK
    <3>2. v = u
      BY <1>u, <1>4, <3>1 DEF Holds, IsLockedByUser, Requester
    <3> QED BY <2>1, <2>2, <3>2, <1>u, <1>k DEF KeyOf
  <2>3. CASE ~ (userReplica[v] = ReplicaOf(o) /\ j[2] = request[o].object)
    <3>1. locks'[userReplica[v]][j[2]] = locks[userReplica[v]][j[2]]
      BY <1>1, <2>1, <2>3 DEF LockInv, TypeOK
    <3> QED BY <1>4, <3>1 DEF Holds, IsLockedByUser, Releasing, Requester
  <2> QED BY <2>2, <2>3
<1>5. CASE Holds(u, k)'
  <2>1. holder'[k] = u /\ \A j \in Keys \ {k} : holder'[j] \in {holder[j], None}
    BY <1>k, <1>4, <1>5 DEF HolderExact
  <2>2. Exclusive!Grab(u, k)
    BY <1>k, <1>3, <2>1 DEF Exclusive!Grab, Exclusive!MayLose, HolderExact
  <2> QED BY <2>2 DEF Exclusive!Next
<1>6. CASE ~ Holds(u, k)'
  <2>1. \A j \in Keys, v \in Users : Holds(v, j)' => Holds(v, j)
    BY <1>4, <1>6
  <2>2. \A p \in Ops : opState'[p] = "closed" <=> opState[p] = "closed"
    BY DEF LockInv, TypeOK
  <2> QED BY <2>1, <2>2, LoseStep DEF Exclusive!Next
<1> QED BY <1>5, <1>6

(* The object whose closing is announced is held by nobody.                *)
LEMMA CloseStep ==
  ASSUME LockInv, HolderExact, HolderExact', ClosedKept, NEW o \in Ops, CloseGranted(o)
  PROVE  Exclusive!Next
<1> USE DEF CloseGranted, userVars, relVars
<1>2. holder' = holder
  BY DEF holder, Holds, IsLockedByUser, Releasing, Requester
<1>3. closed' = closed \/ (closed' = closed \cup {<<o, KeyOf(o)>>} /\ redis[KeyOf(o)] = o)
  <2>1. KeyOf(o)' = KeyOf(o)
    BY DEF KeyOf, Requester
  <2>2. \A p \in Ops : p # o => (opState'[p] = "closed" <=> opState[p] = "closed")
    BY DEF LockInv, TypeOK
  <2>3. opState[o] # "closed" /\ (opState'[o] = "closed" => redis[KeyOf(o)] = o)
    BY DEF LockInv, TypeOK
  <2>4. CASE opState'[o] = "closed"
    BY <2>1, <2>2, <2>3, <2>4 DEF closed, ClosedKept
  <2>5. CASE opState'[o] # "closed"
    BY <2>2, <2>3, <2>5 DEF closed, ClosedKept
  <2> QED BY <2>4, <2>5
<1>4. CASE closed' = closed \cup {<<o, KeyOf(o)>>} /\ redis[KeyOf(o)] = o
  <2>1. KeyOf(o) \in Keys /\ holder[KeyOf(o)] = None
    BY <1>4, GrantedUnheld
  <2> QED BY <1>2, <1>4, <2>1 DEF Exclusive!Close, Exclusive!Next
<1>5. CASE closed' = closed
  BY <1>2, <1>5 DEF Exclusive!Lose, Exclusive!MayLose, Exclusive!Next, HolderExact
<1> QED BY <1>3, <1>4, <1>5

LEMMA ExclusiveInit == Init => Exclusive!Init
<1> SUFFICES ASSUME Init PROVE Exclusive!Init
  OBVIOUS
<1>1. HolderExact
  BY InitInv, HolderLemma
<1>2. \A k \in Keys, u \in Users : ~ Holds(u, k)
  BY DEF Init, Holds
<1>3. holder = [k \in Keys |-> None]
  BY <1>1, <1>2 DEF HolderExact
<1>4. closed = {}
  BY DEF Init, closed
<1> QED BY <1>3, <1>4 DEF Exclusive!Init

LEMMA ExclusiveStep ==
  LockInv /\ HolderExact /\ HolderExact' /\ [Next]_vars => [Exclusive!Next]_(Exclusive!vars)
<1> SUFFICES ASSUME LockInv, HolderExact, HolderExact', [Next]_vars
             PROVE  Exclusive!Next \/ UNCHANGED Exclusive!vars
  OBVIOUS
<1>0. ClosedKept
  BY CallsKept DEF ClosedKept
<1>1. CASE UNCHANGED vars
  BY <1>1 DEF vars, userVars, opVars, relVars, Exclusive!vars, holder, closed, Holds,
              IsLockedByUser, Releasing, Requester, KeyOf
<1>2. CASE Next
  <2>1. Exclusive!Lose => Exclusive!Next
    BY DEF Exclusive!Next
  <2> QED BY <1>0, <1>2, <2>1, ConnectStep, ClientStep, RedisStep, ReleaseContinuesStep, EndStep,
             GrabStep, CloseStep DEF Next
<1> QED BY <1>1, <1>2

(* The lock service implements ExclusiveGrab.                              *)
THEOREM ImplementsExclusiveGrab == Spec => ExclusiveSpec
<1>1. LockInv' => HolderExact'
  BY HolderLemma, PTL
<1>2. LockInv /\ LockInv' /\ [Next]_vars => [Exclusive!Next]_(Exclusive!vars)
  BY <1>1, HolderLemma, ExclusiveStep
<1> QED BY <1>2, InitInv, NextInv, ExclusiveInit, PTL DEF Spec, ExclusiveSpec, Exclusive!Spec

-----------------------------------------------------------------------------
(* Users that await their answers *)

(* What the steps do to the releases that are under way.                   *)
LEMMA ReleasesEffect ==
  ASSUME LockInv, [Next]_vars
  PROVE  \/ UNCHANGED relVars
         \/ /\ UNCHANGED <<relDone, opState, request, locks, redis, up>>
            /\ relSent' \in [Ops -> Nat]
            /\ \E u \in Users :
                 /\ MayAct(u)
                 /\ (UNCHANGED presence
                     \/ (Disconnect(u) /\ presence' = [presence EXCEPT ![u] = "gone"]))
                 /\ \A o \in Ops : relSent'[o] # relSent[o] =>
                      /\ relSent'[o] = relSent[o] + 1
                      /\ opState[o] = "held" /\ Requester(o) = u /\ EntryOf(o) = o
         \/ \E o \in Ops : RunRelease(o) \/ ReleaseContinues(o) \/ ReleaseRejected(o)
<1> USE DEF LockInv, TypeOK
<1>1. ASSUME NEW u \in Users, NEW x \in Objects, Release(u, x)
      PROVE  /\ UNCHANGED <<relDone, opState, request, locks, redis, up, presence>>
             /\ relSent' \in [Ops -> Nat]
             /\ MayAct(u)
             /\ \A o \in Ops : relSent'[o] # relSent[o] =>
                  /\ relSent'[o] = relSent[o] + 1
                  /\ opState[o] = "held" /\ Requester(o) = u /\ EntryOf(o) = o
  <2> DEFINE o == locks[userReplica[u]][x]
  <2>1. /\ userReplica[u] \in Replicas /\ o # None /\ Requester(o) = u
        /\ MayAct(u) /\ relSent' = [relSent EXCEPT ![o] = @ + 1]
        /\ UNCHANGED <<relDone, opState, request, locks, redis, up, presence>>
    BY <1>1 DEF Release, IsLockedByUser, MayAct, opVars, userVars
  <2>2. o \in Ops /\ opState[o] = "held" /\ EntryOf(o) = o
    BY <2>1 DEF EntryOf, ReplicaOf
  <2> QED BY <2>1, <2>2
<1>2. ASSUME NEW u \in Users, Disconnect(u)
      PROVE  /\ UNCHANGED <<relDone, opState, request, locks, redis, up>>
             /\ presence' = [presence EXCEPT ![u] = "gone"]
             /\ relSent' \in [Ops -> Nat]
             /\ MayAct(u)
             /\ \A o \in Ops : relSent'[o] # relSent[o] =>
                  /\ relSent'[o] = relSent[o] + 1
                  /\ opState[o] = "held" /\ Requester(o) = u /\ EntryOf(o) = o
  <2>1. /\ userReplica[u] \in Replicas /\ MayAct(u) /\ ReleaseAll(u)
        /\ presence' = [presence EXCEPT ![u] = "gone"]
        /\ UNCHANGED <<relDone, opState, request, locks, redis, up>>
    BY <1>2 DEF Disconnect, MayAct, opVars
  <2>2. ASSUME NEW o \in Ops, relSent'[o] # relSent[o]
        PROVE  /\ relSent'[o] = relSent[o] + 1
               /\ opState[o] = "held" /\ Requester(o) = u /\ EntryOf(o) = o
    <3>1. PICK x \in Objects : locks[userReplica[u]][x] = o /\ Requester(o) = u
      BY <2>1, <2>2 DEF ReleaseAll
    <3>2. o # None
      BY NoneAssumption
    <3> QED BY <2>1, <2>2, <3>1, <3>2 DEF ReleaseAll, EntryOf, ReplicaOf
  <2>3. relSent' \in [Ops -> Nat]
    BY <2>1 DEF ReleaseAll
  <2> QED BY <2>1, <2>2, <2>3
<1>3. CASE \/ UNCHANGED vars
           \/ \E u \in Users, r \in Replicas, rm \in Rooms : Connect(u, r, rm)
           \/ \E o \in Ops, u \in Users, x \in Objects : Ask(o, "grab", u, x) \/ Ask(o, "close", u, x)
           \/ \E o \in Ops : \/ Acquire(o) \/ RefuseAcquire(o) \/ ExpireClose(o)
                             \/ GrabGranted(o) \/ CloseGranted(o)
           \/ \E r \in Replicas : Stop(r)
  BY <1>3 DEF vars, Connect, Ask, Acquire, RefuseAcquire, ExpireClose, GrabGranted, CloseGranted,
              Stop
<1> HIDE DEF LockInv, TypeOK
<1>4. CASE \E u \in Users, x \in Objects : Release(u, x)
  <2>1. PICK u \in Users, x \in Objects : Release(u, x)
    BY <1>4
  <2> QED BY <1>1, <2>1
<1>5. CASE \E u \in Users : Disconnect(u)
  <2>1. PICK u \in Users : Disconnect(u)
    BY <1>5
  <2> QED BY <1>2, <2>1
<1>6. CASE \E o \in Ops : RunRelease(o) \/ ReleaseContinues(o) \/ ReleaseRejected(o)
  BY <1>6
<1>7. \/ UNCHANGED vars
      \/ \E u \in Users, r \in Replicas, rm \in Rooms : Connect(u, r, rm)
      \/ \E o \in Ops, u \in Users, x \in Objects : Ask(o, "grab", u, x) \/ Ask(o, "close", u, x)
      \/ \E u \in Users, x \in Objects : Release(u, x)
      \/ \E u \in Users : Disconnect(u)
      \/ \E o \in Ops : \/ Acquire(o) \/ RefuseAcquire(o) \/ RunRelease(o) \/ ExpireClose(o)
                        \/ GrabGranted(o) \/ CloseGranted(o)
                        \/ ReleaseContinues(o) \/ ReleaseRejected(o)
      \/ \E r \in Replicas : Stop(r)
  BY DEF Next
<1> QED BY <1>3, <1>4, <1>5, <1>6, <1>7

(* What the steps do to the entry of a call's object.                      *)
LEMMA EntriesEffect ==
  ASSUME LockInv, [Next]_vars, NEW o \in Ops, opState[o] # "unused",
         up'[ReplicaOf(o)] = TRUE \/ presence'[Requester(o)] = "in"
  PROVE  \/ EntryOf(o)' = EntryOf(o)
         \/ \E q \in Ops : /\ GrabGranted(q) \/ ReleaseContinues(q)
                           /\ opState[q] # "unused" /\ up[ReplicaOf(q)]
                           /\ ReplicaOf(q) = ReplicaOf(o)
                           /\ request[q].object = request[o].object
                           /\ GrabGranted(q) => EntryOf(o)' = q
<1>1. /\ ReplicaOf(o)' = ReplicaOf(o) /\ request'[o] = request[o]
      /\ ReplicaOf(o) \in Replicas /\ request[o].object \in Objects
      /\ EntryOf(o)' = locks'[ReplicaOf(o)][request[o].object]
  <2>1. ReplicaOf(o)' = ReplicaOf(o) /\ request'[o] = request[o]
    BY CallsKept
  <2> QED BY <2>1 DEF LockInv, TypeOK, ReplicaOf, Requester, Request, EntryOf
<1>2. CASE UNCHANGED locks
  BY <1>1, <1>2 DEF EntryOf
<1>3. ASSUME NEW q \in Ops, GrabGranted(q) \/ ReleaseContinues(q)
      PROVE  /\ opState[q] # "unused" /\ up[ReplicaOf(q)]
             /\ \/ EntryOf(o)' = EntryOf(o)
                \/ /\ ReplicaOf(q) = ReplicaOf(o) /\ request[q].object = request[o].object
                   /\ GrabGranted(q) => EntryOf(o)' = q
  <2>1. opState[q] # "unused" /\ up[ReplicaOf(q)]
    BY <1>3 DEF LockInv, TypeOK, GrabGranted, ReleaseContinues
  <2>2. ReplicaOf(q) \in Replicas /\ request[q].object \in Objects
    BY <2>1 DEF LockInv, TypeOK, ReplicaOf, Requester, Request
  <2>3. \/ GrabGranted(q) /\ locks' = [locks EXCEPT ![ReplicaOf(q)][request[q].object] = q]
        \/ ReleaseContinues(q) /\ locks' = [locks EXCEPT ![ReplicaOf(q)][request[q].object] = None]
    BY <1>3 DEF GrabGranted, ReleaseContinues, DeleteEntry
  <2>4. GrabGranted(q) /\ ReleaseContinues(q) => FALSE
    BY DEF GrabGranted, ReleaseContinues, LockInv, TypeOK
  <2>5. CASE ReplicaOf(q) = ReplicaOf(o) /\ request[q].object = request[o].object
    <3>1. GrabGranted(q) => locks'[ReplicaOf(o)][request[o].object] = q
      BY <1>1, <2>2, <2>3, <2>4, <2>5 DEF LockInv, TypeOK
    <3> QED BY <1>1, <2>1, <2>5, <3>1
  <2>6. CASE ~ (ReplicaOf(q) = ReplicaOf(o) /\ request[q].object = request[o].object)
    <3>1. locks'[ReplicaOf(o)][request[o].object] = locks[ReplicaOf(o)][request[o].object]
      BY <1>1, <2>2, <2>3, <2>6 DEF LockInv, TypeOK
    <3> QED BY <1>1, <2>1, <3>1 DEF EntryOf
  <2> QED BY <2>5, <2>6
<1>4. ASSUME NEW r \in Replicas, ProcessEnds(r) PROVE EntryOf(o)' = EntryOf(o)
  <2>1. ReplicaOf(o) # r
    <3>1. Requester(o) \in Users
      BY DEF LockInv, TypeOK, Requester, Request
    <3> QED BY <1>1, <1>4, <3>1 DEF ProcessEnds, LockInv, TypeOK, ReplicaOf
  <2>2. locks'[ReplicaOf(o)] = locks[ReplicaOf(o)]
    BY <1>1, <1>4, <2>1 DEF ProcessEnds, LockInv, TypeOK
  <2> QED BY <1>1, <2>2 DEF EntryOf
<1>5. ASSUME NEW q \in Ops, ReleaseRejected(q)
      PROVE  \E r \in Replicas : ProcessEnds(r)
  <2>1. ReplicaOf(q) \in Replicas /\ ProcessEnds(ReplicaOf(q))
    BY <1>5 DEF ReleaseRejected, LockInv, TypeOK, ReplicaOf, Requester, Request
  <2> QED BY <2>1
<1>6. CASE \/ UNCHANGED vars
           \/ \E u \in Users, r \in Replicas, rm \in Rooms : Connect(u, r, rm)
           \/ \E q \in Ops, u \in Users, x \in Objects : Ask(q, "grab", u, x) \/ Ask(q, "close", u, x)
           \/ \E u \in Users, x \in Objects : Release(u, x)
           \/ \E u \in Users : Disconnect(u)
           \/ \E q \in Ops : \/ Acquire(q) \/ RefuseAcquire(q) \/ RunRelease(q) \/ ExpireClose(q)
                             \/ CloseGranted(q)
  BY <1>2, <1>6 DEF vars, Connect, Ask, Release, Disconnect, Acquire, RefuseAcquire, RunRelease,
                    ExpireClose, CloseGranted
<1> QED BY <1>3, <1>4, <1>5, <1>6 DEF Next, Stop

(* A key gets a token only by the script that acquires it.                 *)
LEMMA RedisEffect ==
  ASSUME LockInv, [Next]_vars, NEW k \in Keys, NEW o \in Ops, redis'[k] = o
  PROVE  redis[k] = o \/ Acquire(o)
<1>1. CASE UNCHANGED redis
  BY <1>1
<1>2. ASSUME NEW q \in Ops, Acquire(q) PROVE redis[k] = o \/ q = o
  BY <1>2 DEF Acquire, LockInv, TypeOK
<1>3. ASSUME NEW q \in Ops, RunRelease(q) \/ ExpireClose(q) PROVE redis[k] = o
  BY <1>3, NoneAssumption DEF RunRelease, ExpireClose, LockInv, TypeOK
<1>4. CASE ~ \E q \in Ops : Acquire(q) \/ RunRelease(q) \/ ExpireClose(q)
  BY <1>1, <1>4 DEF Next, vars, Connect, Ask, Release, Disconnect, RefuseAcquire, CloseGranted,
                    GrabGranted, ReleaseContinues, ReleaseRejected, Stop, ProcessEnds
<1> QED BY <1>2, <1>3, <1>4

(* Users leave by handleDisconnect, or with their replica.                 *)
LEMMA PresenceEffect ==
  ASSUME LockInv, [Next]_vars, NEW u \in Users, presence[u] = "in"
  PROVE  presence'[u] = "in" \/ Disconnect(u) \/ ProcessEnds(userReplica[u])
<1>1. ASSUME NEW r \in Replicas, ProcessEnds(r) PROVE presence'[u] = "in" \/ userReplica[u] = r
  BY <1>1 DEF ProcessEnds, LockInv, TypeOK
<1>2. ASSUME NEW q \in Ops, ReleaseRejected(q)
      PROVE  \E r \in Replicas : ProcessEnds(r)
  <2>1. ReplicaOf(q) \in Replicas /\ ProcessEnds(ReplicaOf(q))
    BY <1>2 DEF ReleaseRejected, LockInv, TypeOK, ReplicaOf, Requester, Request
  <2> QED BY <2>1
<1>3. ASSUME NEW v \in Users, NEW r \in Replicas, NEW rm \in Rooms, Connect(v, r, rm)
      PROVE  presence'[u] = "in"
  BY <1>3 DEF Connect, LockInv, TypeOK
<1>4. ASSUME NEW v \in Users, Disconnect(v) PROVE presence'[u] = "in" \/ v = u
  BY <1>4 DEF Disconnect, LockInv, TypeOK
<1>5. CASE \/ UNCHANGED vars
           \/ \E q \in Ops, v \in Users, x \in Objects : Ask(q, "grab", v, x) \/ Ask(q, "close", v, x)
           \/ \E v \in Users, x \in Objects : Release(v, x)
           \/ \E q \in Ops : \/ Acquire(q) \/ RefuseAcquire(q) \/ RunRelease(q) \/ ExpireClose(q)
                             \/ GrabGranted(q) \/ CloseGranted(q) \/ ReleaseContinues(q)
  BY <1>5 DEF vars, Ask, Release, Acquire, RefuseAcquire, RunRelease, ExpireClose, GrabGranted,
              CloseGranted, ReleaseContinues, userVars
<1> QED BY <1>1, <1>2, <1>3, <1>4, <1>5 DEF Next, Stop

(* How a call gets to where it stands.                                     *)
LEMMA CallEffect ==
  ASSUME LockInv, [Next]_vars, NEW o \in Ops
  PROVE  \/ opState'[o] = opState[o]
         \/ opState[o] = "unused" /\ opState'[o] = "sent"
            /\ \E kind \in {"grab", "close"}, u \in Users, x \in Objects : Ask(o, kind, u, x)
         \/ opState[o] = "sent" /\ opState'[o] \in {"granted", "failed"}
         \/ opState[o] = "granted" /\ opState'[o] = "held" /\ GrabGranted(o)
         \/ opState[o] = "granted" /\ opState'[o] \in {"closed", "late", "failed"}
            /\ request[o].kind = "close"
<1> USE DEF LockInv, TypeOK
<1>1. CASE UNCHANGED opState
  BY <1>1
<1>2. ASSUME NEW q \in Ops, NEW kind \in {"grab", "close"}, NEW u \in Users, NEW x \in Objects,
             Ask(q, kind, u, x)
      PROVE  opState'[o] = opState[o]
             \/ (q = o /\ opState[o] = "unused" /\ opState'[o] = "sent")
  BY <1>2 DEF Ask
<1>3. ASSUME NEW q \in Ops, Acquire(q) \/ RefuseAcquire(q)
      PROVE  opState'[o] = opState[o] \/ (opState[o] = "sent" /\ opState'[o] \in {"granted", "failed"})
  BY <1>3 DEF Acquire, RefuseAcquire
<1>4. ASSUME NEW q \in Ops, GrabGranted(q)
      PROVE  opState'[o] = opState[o] \/ (q = o /\ opState[o] = "granted" /\ opState'[o] = "held")
  BY <1>4 DEF GrabGranted
<1>5. ASSUME NEW q \in Ops, CloseGranted(q)
      PROVE  \/ opState'[o] = opState[o]
             \/ opState[o] = "granted" /\ opState'[o] \in {"closed", "late", "failed"}
                /\ request[o].kind = "close"
  BY <1>5 DEF CloseGranted
<1>6. CASE \/ UNCHANGED vars
           \/ \E u \in Users, r \in Replicas, rm \in Rooms : Connect(u, r, rm)
           \/ \E u \in Users, x \in Objects : Release(u, x)
           \/ \E u \in Users : Disconnect(u)
           \/ \E q \in Ops : \/ RunRelease(q) \/ ExpireClose(q) \/ ReleaseContinues(q)
                             \/ ReleaseRejected(q)
           \/ \E r \in Replicas : Stop(r)
  BY <1>1, <1>6 DEF vars, Connect, Release, Disconnect, RunRelease, ExpireClose, ReleaseContinues,
                    ReleaseRejected, Stop, ProcessEnds, opVars
<1> QED BY <1>2, <1>3, <1>4, <1>5, <1>6 DEF Next

(* A call to come has no release, and a release comes from sending one.    *)
LEMMA NoRelease ==
  ASSUME LockInv, NEW o \in Ops, opState[o] # "held"
  PROVE  relSent[o] = 0 /\ relDone[o] = 0 /\ ~ Releasing(o)
BY DEF LockInv, TypeOK, Releasing

LEMMA ReleasingEffect ==
  ASSUME LockInv, LockInv', [Next]_vars, NEW o \in Ops
  PROVE  /\ relSent'[o] + relDone'[o] <= relSent[o] + relDone[o]
            \/ (/\ relSent'[o] + relDone'[o] = relSent[o] + relDone[o] + 1
                /\ opState[o] = "held" /\ EntryOf(o) = o /\ MayAct(Requester(o)))
         /\ relDone'[o] > relDone[o] => RunRelease(o)
         /\ relSent'[o] + relDone'[o] < relSent[o] + relDone[o]
              => ReleaseContinues(o) \/ ReleaseRejected(o)
<1>t. /\ relSent \in [Ops -> Nat] /\ relDone \in [Ops -> Nat]
      /\ relSent' \in [Ops -> Nat] /\ relDone' \in [Ops -> Nat]
  BY DEF LockInv, TypeOK
<1> USE <1>t
<1>1. CASE UNCHANGED relVars
  BY <1>1 DEF relVars
<1>2. CASE /\ UNCHANGED relDone
           /\ \E u \in Users :
                /\ MayAct(u)
                /\ \A p \in Ops : relSent'[p] # relSent[p] =>
                     /\ relSent'[p] = relSent[p] + 1
                     /\ opState[p] = "held" /\ Requester(p) = u /\ EntryOf(p) = p
  BY <1>2
<1>3. ASSUME NEW q \in Ops, RunRelease(q)
      PROVE  relSent'[o] + relDone'[o] = relSent[o] + relDone[o] /\ (q = o \/ relDone'[o] = relDone[o])
  <2>1. /\ relSent' = [relSent EXCEPT ![q] = @ - 1] /\ relDone' = [relDone EXCEPT ![q] = @ + 1]
        /\ relSent[q] > 0
    BY <1>3 DEF RunRelease
  <2>2. CASE q = o
    BY <2>1, <2>2
  <2>3. CASE q # o
    BY <2>1, <2>3
  <2> QED BY <2>2, <2>3
<1>4. ASSUME NEW q \in Ops, ReleaseContinues(q) \/ ReleaseRejected(q)
      PROVE  /\ relDone'[o] <= relDone[o]
             /\ relSent'[o] + relDone'[o] = relSent[o] + relDone[o] \/ q = o
             /\ relSent'[o] + relDone'[o] <= relSent[o] + relDone[o]
  BY <1>4 DEF ReleaseContinues, ReleaseRejected
<1>5. CASE \E q \in Ops : RunRelease(q)
  BY <1>3, <1>5
<1>6. CASE \E q \in Ops : ReleaseContinues(q) \/ ReleaseRejected(q)
  BY <1>4, <1>6
<1> QED BY <1>1, <1>2, <1>5, <1>6, ReleasesEffect

LEMMA HeldGrabsStep ==
  ASSUME LockInv, [Next]_vars, HeldGrabs
  PROVE  HeldGrabs'
<1> SUFFICES ASSUME NEW o \in Ops, opState'[o] = "held" PROVE request'[o].kind = "grab"
  BY DEF HeldGrabs
<1>1. opState[o] # "unused" /\ request[o].kind = "grab"
  BY CallEffect DEF HeldGrabs, GrabGranted
<1> QED BY <1>1, CallsKept

(* The key of a lock that was released is never set for it again.          *)
LEMMA ReleasedKeysStep ==
  ASSUME LockInv, LockInv', [Next]_vars, ReleasedKeys
  PROVE  ReleasedKeys'
<1> SUFFICES ASSUME NEW o \in Ops, relDone'[o] > 0, redis'[KeyOf(o)'] = o
             PROVE  FALSE
  BY DEF ReleasedKeys
<1>1. CASE RunRelease(o)
  <2>1. opState[o] = "held" /\ KeyOf(o) \in Keys /\ KeyOf(o)' = KeyOf(o)
    BY <1>1 DEF RunRelease, LockInv, TypeOK, KeyOf, Keys, Request, Requester, userVars, opVars
  <2> QED BY <1>1, <2>1, NoneAssumption DEF RunRelease, LockInv, TypeOK
<1>2. CASE ~ RunRelease(o)
  <2>1. relDone[o] > 0
    BY <1>2, ReleasingEffect DEF LockInv, TypeOK
  <2>2. opState[o] = "held" /\ KeyOf(o) \in Keys
    BY <2>1, NoRelease DEF LockInv, TypeOK, KeyOf, Keys, Request, Requester
  <2>3. KeyOf(o)' = KeyOf(o)
    BY <2>2, CallsKept
  <2>4. redis[KeyOf(o)] = o
    BY <2>2, <2>3, RedisEffect DEF Acquire
  <2> QED BY <2>1, <2>4 DEF ReleasedKeys
<1> QED BY <1>1, <1>2

(* A user that awaits a lock does nothing else.                            *)
LEMMA AcquiringAwaits ==
  ASSUME LockInv, NEW o \in Ops, Acquiring(o), Patient(o)
  PROVE  ~ MayAct(Requester(o))
BY DEF Acquiring, Patient, MayAct, Awaits

LEMMA OneAtATimeStep ==
  ASSUME LockInv, LockInv', [Next]_vars, OneAtATime
  PROVE  OneAtATime'
<1> SUFFICES ASSUME NEW o \in Ops, Patient(o)'
             PROVE  /\ relSent'[o] + relDone'[o] <= 1
                    /\ Acquiring(o)' =>
                         /\ \A p \in Ops : Patient(p)' /\ Requester(p)' = Requester(o)'
                              => ~ Releasing(p)'
                         /\ up'[ReplicaOf(o)'] => presence'[Requester(o)'] = "in"
  BY DEF OneAtATime
<1>t. \A p \in Ops : /\ relSent[p] \in Nat /\ relDone[p] \in Nat
                    /\ relSent'[p] \in Nat /\ relDone'[p] \in Nat
  BY DEF LockInv, TypeOK
<1>k. ASSUME NEW p \in Ops, Patient(p)', opState[p] # "unused"
      PROVE  Patient(p) /\ Requester(p)' = Requester(p) /\ ReplicaOf(p)' = ReplicaOf(p)
  BY <1>k, CallsKept DEF Patient
<1>n. ASSUME NEW p \in Ops, opState[p] = "unused"
      PROVE  relSent'[p] + relDone'[p] = 0 /\ ~ Releasing(p)'
  <2>1. relSent[p] + relDone[p] = 0
    BY <1>n, NoRelease
  <2>2. relSent'[p] + relDone'[p] <= 0
    BY <1>n, <2>1, ReleasingEffect
  <2> QED BY <1>t, <2>2 DEF Releasing
<1>1. relSent'[o] + relDone'[o] <= 1
  <2>1. CASE opState[o] = "unused"
    BY <2>1, <1>n
  <2>2. CASE opState[o] # "unused"
    <3>1. Patient(o) /\ relSent[o] + relDone[o] <= 1
      BY <2>2, <1>k DEF OneAtATime
    <3>2. MayAct(Requester(o)) => relSent[o] + relDone[o] = 0
      BY <2>2, <3>1, <1>t DEF MayAct, Patient, Awaits
    <3> QED BY <1>t, <3>1, <3>2, ReleasingEffect
  <2> QED BY <2>1, <2>2
<1>2. ASSUME Acquiring(o)', opState[o] = "unused"
      PROVE  /\ \A p \in Ops : Patient(p)' /\ Requester(p)' = Requester(o)' => ~ Releasing(p)'
             /\ presence'[Requester(o)'] = "in"
  <2>1. PICK kind \in {"grab", "close"}, u \in Users, x \in Objects : Ask(o, kind, u, x)
    BY <1>2, CallEffect DEF Acquiring
  <2>2. Requester(o)' = u /\ MayAct(u) /\ UNCHANGED <<relSent, relDone, presence>>
    BY <2>1 DEF Ask, Requester, LockInv, TypeOK, relVars, userVars
  <2>3. u \in PatientUsers
    BY <2>2 DEF Patient
  <2>4. ASSUME NEW p \in Ops, Patient(p)', Requester(p)' = u PROVE ~ Releasing(p)'
    <3>1. CASE opState[p] = "unused"
      BY <3>1, <1>n
    <3>2. CASE opState[p] # "unused"
      BY <2>2, <2>3, <2>4, <3>2, <1>k DEF MayAct, Awaits, Releasing
    <3> QED BY <3>1, <3>2
  <2> QED BY <2>2, <2>4 DEF MayAct
<1>3. ASSUME Acquiring(o)', opState[o] # "unused"
      PROVE  /\ \A p \in Ops : Patient(p)' /\ Requester(p)' = Requester(o)' => ~ Releasing(p)'
             /\ up'[ReplicaOf(o)'] => presence'[Requester(o)'] = "in"
  <2>1. Patient(o) /\ Acquiring(o) /\ Requester(o)' = Requester(o) /\ ReplicaOf(o)' = ReplicaOf(o)
    BY <1>3, <1>k, CallEffect DEF Acquiring
  <2>2. ~ MayAct(Requester(o))
    BY <2>1, AcquiringAwaits
  <2>3. ASSUME NEW p \in Ops, Patient(p)', Requester(p)' = Requester(o)' PROVE ~ Releasing(p)'
    <3>1. CASE opState[p] = "unused"
      BY <3>1, <1>n
    <3>2. CASE opState[p] # "unused"
      <4>1. Patient(p) /\ Requester(p) = Requester(o)
        BY <2>1, <2>3, <3>2, <1>k
      <4>2. ~ Releasing(p)
        BY <2>1, <4>1 DEF OneAtATime
      <4> QED BY <1>t, <2>2, <4>1, <4>2, ReleasingEffect DEF Releasing
    <3> QED BY <3>1, <3>2
  <2>4. ASSUME up'[ReplicaOf(o)] PROVE presence'[Requester(o)] = "in"
    <3>1. ReplicaOf(o) \in Replicas /\ Requester(o) \in Users
      BY <1>3 DEF LockInv, TypeOK, ReplicaOf, Requester, Request
    <3>2. up[ReplicaOf(o)]
      BY <2>4, <3>1, CallsKept DEF LockInv, TypeOK
    <3>3. presence[Requester(o)] = "in"
      BY <2>1, <3>2 DEF OneAtATime
    <3>4. ~ ProcessEnds(userReplica[Requester(o)])
      BY <2>4, <3>1 DEF ProcessEnds, LockInv, TypeOK, ReplicaOf
    <3> QED BY <2>2, <3>1, <3>3, <3>4, PresenceEffect DEF Disconnect
  <2> QED BY <2>1, <2>3, <2>4
<1> QED BY <1>1, <1>2, <1>3

(* Nobody forgets a sharer of an object id.                                *)
LEMMA SharersKept ==
  ASSUME LockInv, [Next]_vars, NEW o \in Ops, opState[o] # "unused", Sharers(o)' = {}
  PROVE  Sharers(o) = {}
<1>1. ASSUME NEW p \in Sharers(o) PROVE p \in Sharers(o)'
  <2>1. p \in Ops /\ opState[p] # "unused"
    BY DEF Sharers
  <2>2. /\ opState'[p] # "unused" /\ request'[p] = request[p] /\ request'[o] = request[o]
        /\ Requester(p)' = Requester(p) /\ ReplicaOf(p)' = ReplicaOf(p)
        /\ Requester(o)' = Requester(o) /\ ReplicaOf(o)' = ReplicaOf(o)
    BY <2>1, CallsKept
  <2> QED BY <2>1, <2>2 DEF Sharers
<1> QED BY <1>1

(* An unshared object id is that of one user's grabs of one object.        *)
LEMMA SamePlace ==
  ASSUME LockInv, NEW o \in Ops, NEW q \in Ops, IsGrab(q), Patient(o), Sharers(o) = {},
         ReplicaOf(q) = ReplicaOf(o), request[q].object = request[o].object
  PROVE  /\ Requester(q) = Requester(o) /\ KeyOf(q) = KeyOf(o) /\ Patient(q)
         /\ Sharers(q) = {} /\ EntryOf(q) = EntryOf(o)
<1>1. Requester(q) = Requester(o)
  BY DEF IsGrab, Sharers
<1> QED BY <1>1 DEF KeyOf, Patient, Sharers, EntryOf, IsGrab

LEMMA UnsharedEntriesStep ==
  ASSUME LockInv, LockInv', [Next]_vars, PatientInv
  PROVE  UnsharedEntries'
<1> SUFFICES ASSUME NEW o \in Ops, IsGrab(o)', Patient(o)', up'[ReplicaOf(o)'], Sharers(o)' = {}
             PROVE  /\ Releasing(o)' => EntryOf(o)' = o
                    /\ redis'[KeyOf(o)'] = o => opState'[o] = "granted" \/ EntryOf(o)' = o
  BY DEF UnsharedEntries
<1>t. \A p \in Ops : /\ relSent[p] \in Nat /\ relDone[p] \in Nat
                    /\ relSent'[p] \in Nat /\ relDone'[p] \in Nat
  BY DEF LockInv, TypeOK
<1>1. CASE opState[o] = "unused"
  <2>1. opState'[o] \in {"unused", "sent"}
    BY <1>1, CallEffect
  <2>2. ~ Releasing(o)'
    <3>1. relSent'[o] = 0 /\ relDone'[o] = 0
      BY <2>1 DEF LockInv, TypeOK
    <3> QED BY <3>1 DEF Releasing
  <2>3. KeyOf(o)' \in Keys
    BY DEF IsGrab, LockInv, TypeOK, KeyOf, Keys, Request, Requester
  <2>4. redis'[KeyOf(o)'] # o
    BY <2>1, <2>3, NoneAssumption DEF LockInv, TypeOK
  <2> QED BY <2>2, <2>4
<1>2. CASE opState[o] # "unused"
  <2>1. /\ request'[o] = request[o] /\ Requester(o)' = Requester(o)
        /\ ReplicaOf(o)' = ReplicaOf(o) /\ KeyOf(o)' = KeyOf(o)
    BY <1>2, CallsKept
  <2>2. /\ ReplicaOf(o) \in Replicas /\ KeyOf(o) \in Keys
    BY <1>2 DEF LockInv, TypeOK, ReplicaOf, KeyOf, Keys, Request, Requester
  <2>3. up'[ReplicaOf(o)] = TRUE /\ up[ReplicaOf(o)]
    <3>1. up'[ReplicaOf(o)]
      BY <2>1
    <3>2. up'[ReplicaOf(o)] \in BOOLEAN /\ up[ReplicaOf(o)] \in BOOLEAN
      BY <2>2 DEF LockInv, TypeOK
    <3>3. up'[ReplicaOf(o)] = TRUE
      BY <3>1, <3>2
    <3> QED BY <2>2, <3>3, CallsKept
  <2>4. IsGrab(o) /\ Patient(o) /\ Sharers(o) = {}
    BY <1>2, <2>1, SharersKept DEF IsGrab, Patient
  <2>5. /\ Releasing(o) => EntryOf(o) = o
        /\ redis[KeyOf(o)] = o => opState[o] = "granted" \/ EntryOf(o) = o
    BY <2>3, <2>4 DEF PatientInv, UnsharedEntries
  <2>6. Releasing(o)' => EntryOf(o) = o
    BY <1>t, <2>5, ReleasingEffect DEF Releasing
  <2>7. redis'[KeyOf(o)] = o => redis[KeyOf(o)] = o \/ opState'[o] = "granted"
    BY <2>2, RedisEffect DEF Acquire, LockInv, TypeOK
  <2>8. CASE EntryOf(o)' = EntryOf(o)
    <3>1. opState[o] = "granted" /\ opState'[o] # "granted" => EntryOf(o)' = o
      <4>1. ASSUME opState[o] = "granted", opState'[o] # "granted" PROVE GrabGranted(o)
        BY <2>4, <4>1, CallEffect DEF IsGrab
      <4>2. ReplicaOf(o) \in Replicas /\ request[o].object \in Objects
        BY <1>2 DEF LockInv, TypeOK, ReplicaOf, Requester, Request
      <4>3. GrabGranted(o) => locks'[ReplicaOf(o)][request[o].object] = o
        BY <4>2 DEF GrabGranted, LockInv, TypeOK
      <4> QED BY <2>1, <4>1, <4>3 DEF EntryOf
    <3> QED BY <2>1, <2>5, <2>6, <2>7, <2>8, <3>1
  <2>9. ASSUME NEW q \in Ops, GrabGranted(q), up[ReplicaOf(q)], ReplicaOf(q) = ReplicaOf(o),
               request[q].object = request[o].object, EntryOf(o)' = q
        PROVE  /\ ~ Releasing(o)'
               /\ redis'[KeyOf(o)] = o => q = o
    <3>1. IsGrab(q) /\ Acquiring(q) /\ opState[q] = "granted"
          /\ UNCHANGED <<relSent, relDone, redis>>
      BY <2>9 DEF GrabGranted, IsGrab, Acquiring, relVars
    <3>2. Requester(q) = Requester(o) /\ KeyOf(q) = KeyOf(o) /\ Patient(q)
      BY <2>4, <2>9, <3>1, SamePlace
    <3>3. ~ Releasing(o)
      BY <2>4, <3>1, <3>2 DEF PatientInv, OneAtATime
    <3>4. redis[KeyOf(q)] = q
      BY <2>9, <3>1 DEF LockInv, GrantBacked, IsGrab
    <3> QED BY <3>1, <3>2, <3>3, <3>4 DEF Releasing
  <2>10. ASSUME NEW q \in Ops, ReleaseContinues(q), up[ReplicaOf(q)],
                ReplicaOf(q) = ReplicaOf(o), request[q].object = request[o].object
         PROVE  /\ ~ Releasing(o)'
                /\ redis'[KeyOf(o)] = o => opState'[o] = "granted"
    <3>1. /\ relDone[q] > 0 /\ relDone' = [relDone EXCEPT ![q] = @ - 1]
          /\ UNCHANGED <<relSent, redis, opState>>
      BY <2>10 DEF ReleaseContinues, opVars
    <3>2. opState[q] = "held" /\ Releasing(q)
      BY <1>t, <3>1, NoRelease DEF Releasing
    <3>3. IsGrab(q)
      BY <3>2 DEF IsGrab, PatientInv, HeldGrabs
    <3>4. Patient(q) /\ Sharers(q) = {} /\ EntryOf(q) = EntryOf(o)
      BY <2>4, <2>10, <3>3, SamePlace
    <3>5. EntryOf(o) = q
      BY <2>10, <3>2, <3>3, <3>4 DEF PatientInv, UnsharedEntries
    <3>6. CASE q = o
      <4>1. relSent[o] + relDone[o] <= 1 /\ redis[KeyOf(o)] # o
        BY <2>4, <3>1, <3>6 DEF PatientInv, OneAtATime, ReleasedKeys
      <4>2. relDone'[o] = relDone[o] - 1
        BY <3>1, <3>6 DEF LockInv, TypeOK
      <4>3. relSent'[o] + relDone'[o] = 0
        BY <1>t, <3>1, <3>6, <4>1, <4>2
      <4> QED BY <3>1, <4>1, <4>3 DEF Releasing
    <3>7. CASE q # o
      BY <2>5, <2>6, <3>1, <3>5, <3>7
    <3> QED BY <3>6, <3>7
  <2> QED BY <1>2, <2>1, <2>3, <2>8, <2>9, <2>10, EntriesEffect
<1> QED BY <1>1, <1>2

(* An entry that is there was there, or the call has just been granted.    *)
LEMMA EntryComes ==
  ASSUME LockInv, [Next]_vars, NEW r \in Replicas, NEW x \in Objects, NEW o \in Ops,
         locks'[r][x] = o
  PROVE  locks[r][x] = o \/ GrabGranted(o)
<1> USE DEF LockInv, TypeOK
<1>1. CASE UNCHANGED locks
  BY <1>1
<1>2. ASSUME NEW q \in Ops, GrabGranted(q) PROVE locks[r][x] = o \/ q = o
  <2>1. locks' = [locks EXCEPT ![ReplicaOf(q)][request[q].object] = q]
    BY <1>2 DEF GrabGranted
  <2> QED BY <2>1
<1>3. ASSUME NEW q \in Ops, ReleaseContinues(q) PROVE locks[r][x] = o
  <2>1. locks' = [locks EXCEPT ![ReplicaOf(q)][request[q].object] = None]
    BY <1>3 DEF ReleaseContinues, DeleteEntry
  <2> QED BY <2>1, NoneAssumption
<1>4. ASSUME NEW q \in Replicas, ProcessEnds(q) PROVE locks[r][x] = o
  BY <1>4, NoneAssumption DEF ProcessEnds
<1>5. ASSUME NEW q \in Ops, ReleaseRejected(q) PROVE locks[r][x] = o
  <2>1. ReplicaOf(q) \in Replicas /\ ProcessEnds(ReplicaOf(q))
    BY <1>5 DEF ReleaseRejected, ReplicaOf, Requester, Request
  <2> QED BY <1>4, <2>1
<1>6. CASE \/ UNCHANGED vars
           \/ \E u \in Users, q \in Replicas, rm \in Rooms : Connect(u, q, rm)
           \/ \E q \in Ops, u \in Users, y \in Objects : Ask(q, "grab", u, y) \/ Ask(q, "close", u, y)
           \/ \E u \in Users, y \in Objects : Release(u, y)
           \/ \E u \in Users : Disconnect(u)
           \/ \E q \in Ops : \/ Acquire(q) \/ RefuseAcquire(q) \/ RunRelease(q) \/ ExpireClose(q)
                             \/ CloseGranted(q)
  BY <1>1, <1>6 DEF vars, Connect, Ask, Release, Disconnect, Acquire, RefuseAcquire, RunRelease,
                    ExpireClose, CloseGranted
<1> QED BY <1>2, <1>3, <1>4, <1>5, <1>6 DEF Next, Stop

LEMMA LeaversReleaseStep ==
  ASSUME LockInv, LockInv', [Next]_vars, PatientInv
  PROVE  LeaversRelease'
<1> SUFFICES ASSUME NEW r \in Replicas, NEW x \in Objects, NEW o, o = locks'[r][x], o # None,
                    Patient(o)', presence'[Requester(o)'] = "gone"
             PROVE  Releasing(o)'
  BY DEF LeaversRelease
<1>t. \A p \in Ops : /\ relSent[p] \in Nat /\ relDone[p] \in Nat
                    /\ relSent'[p] \in Nat /\ relDone'[p] \in Nat
  BY DEF LockInv, TypeOK
<1>1. o \in Ops
  BY DEF LockInv, TypeOK
<1>2. ~ GrabGranted(o)
  <2>1. SUFFICES ASSUME GrabGranted(o) PROVE FALSE
    OBVIOUS
  <2>2. opState[o] = "granted" /\ up[ReplicaOf(o)] /\ presence' = presence
        /\ Requester(o)' = Requester(o)
    BY <1>1, <2>1, CallsKept DEF GrabGranted, userVars
  <2>3. Patient(o) /\ Acquiring(o)
    BY <2>2 DEF Patient, Acquiring
  <2> QED BY <1>1, <2>2, <2>3 DEF PatientInv, OneAtATime
<1>3. locks[r][x] = o
  BY <1>1, <1>2, EntryComes
<1>4. opState[o] = "held" /\ request[o].object = x /\ ReplicaOf(o) = r
  BY <1>1, <1>3, NoneAssumption DEF LockInv, TypeOK
<1>5. Patient(o) /\ Requester(o)' = Requester(o) /\ Requester(o) \in Users
      /\ presence[Requester(o)] # "new"
  <2>1. Requester(o)' = Requester(o)
    BY <1>1, <1>4, CallsKept
  <2>2. Patient(o)
    BY <1>4, <2>1 DEF Patient
  <2>3. Requester(o) \in Users /\ presence[Requester(o)] # "new"
    BY <1>1, <1>4 DEF LockInv, TypeOK, Requester, Request
  <2> QED BY <2>1, <2>2, <2>3
<1>6. ~ ProcessEnds(r)
  BY <1>3, <1>1, NoneAssumption DEF ProcessEnds, LockInv, TypeOK
<1>7. ~ ReleaseContinues(o) /\ ~ ReleaseRejected(o)
  <2>1. ReleaseContinues(o) => locks'[r][x] = None
    BY <1>4 DEF ReleaseContinues, DeleteEntry, LockInv, TypeOK
  <2> QED BY <1>4, <1>6, <2>1 DEF ReleaseRejected
<1>8. relSent'[o] + relDone'[o] >= relSent[o] + relDone[o]
  BY <1>1, <1>7, <1>t, ReleasingEffect
<1>9. CASE presence[Requester(o)] = "gone"
  <2>1. Releasing(o)
    BY <1>1, <1>3, <1>5, <1>9 DEF PatientInv, LeaversRelease
  <2> QED BY <1>1, <1>8, <1>t, <2>1 DEF Releasing
<1>10. CASE presence[Requester(o)] = "in"
  <2>1. Disconnect(Requester(o))
    BY <1>4, <1>5, <1>6, <1>10, PresenceEffect DEF ReplicaOf
  <2>2. relSent'[o] = relSent[o] + 1
    BY <1>1, <1>3, <1>4, <2>1 DEF Disconnect, ReleaseAll, ReplicaOf
  <2> QED BY <1>1, <1>t, <2>2 DEF Releasing
<1> QED BY <1>5, <1>9, <1>10 DEF LockInv, TypeOK

LEMMA PatientInvInit == Init => PatientInv
BY NoneAssumption DEF Init, PatientInv, HeldGrabs, ReleasedKeys, OneAtATime, UnsharedEntries,
                      LeaversRelease, Patient, IsGrab

LEMMA PatientInvStep == LockInv /\ LockInv' /\ PatientInv /\ [Next]_vars => PatientInv'
BY HeldGrabsStep, ReleasedKeysStep, OneAtATimeStep, UnsharedEntriesStep, LeaversReleaseStep
   DEF PatientInv

(* Redis keeps no key of a user that awaited its answers and has left.     *)
LEMMA PatientLeaversLemma == LockInv /\ PatientInv => PatientLeaversFreeKeys
<1> SUFFICES ASSUME LockInv, PatientInv, NEW o \in Ops, IsGrab(o), Patient(o),
                    presence[Requester(o)] = "gone", up[ReplicaOf(o)],
                    ~ Awaits(Requester(o)), Sharers(o) = {}, redis[KeyOf(o)] = o
             PROVE  FALSE
  BY DEF PatientLeaversFreeKeys, IsGrab, Patient
<1>1. opState[o] # "granted" /\ ~ Releasing(o)
  BY DEF Awaits, IsGrab, Releasing
<1>2. EntryOf(o) = o
  BY <1>1 DEF PatientInv, UnsharedEntries
<1>3. ReplicaOf(o) \in Replicas /\ request[o].object \in Objects /\ o # None
  BY NoneAssumption DEF IsGrab, LockInv, TypeOK, ReplicaOf, Requester, Request
<1> QED BY <1>1, <1>2, <1>3 DEF PatientInv, LeaversRelease, EntryOf

(* A user whose client awaits its answers leaves no key behind.            *)
THEOREM PatientLeaversLeaveNothing == Spec => []PatientLeaversFreeKeys
<1>1. Init => LockInv /\ PatientInv
  BY InitInv, PatientInvInit
<1>2. LockInv /\ PatientInv /\ [Next]_vars => LockInv' /\ PatientInv'
  BY NextInv, PatientInvStep
<1> QED BY <1>1, <1>2, PatientLeaversLemma, PTL DEF Spec

(* At most one release of a patient user's lock is under way, and it was   *)
(* sent when the lock was in Redis: it stays there until the script runs.  *)
LEMMA ReleasesSucceedStep ==
  ASSUME LockInv, LockInv', PatientInv, PatientInv', PatientReleasesSucceed, [Next]_vars
  PROVE  PatientReleasesSucceed'
<1> SUFFICES ASSUME NEW o \in Ops, Patient(o)', relSent'[o] > 0
             PROVE  redis'[KeyOf(o)'] = o
  BY DEF PatientReleasesSucceed, Patient
<1>t. \A p \in Ops : /\ relSent[p] \in Nat /\ relDone[p] \in Nat
                    /\ relSent'[p] \in Nat /\ relDone'[p] \in Nat
  BY DEF LockInv, TypeOK
<1>1. relSent'[o] = 1 /\ relDone'[o] = 0
  <2>1. relSent'[o] + relDone'[o] <= 1
    BY DEF PatientInv, OneAtATime
  <2> QED BY <1>t, <2>1
<1>2. opState[o] = "held"
  <2>1. CASE relSent[o] + relDone[o] = 0
    BY <1>t, <1>1, <2>1, ReleasingEffect
  <2>2. CASE relSent[o] + relDone[o] # 0
    BY <1>t, <2>2, NoRelease
  <2> QED BY <2>1, <2>2
<1>3. /\ Patient(o) /\ KeyOf(o)' = KeyOf(o) /\ KeyOf(o) \in Keys
      /\ ReplicaOf(o) \in Replicas /\ request[o].object \in Objects
      /\ request[o].kind = "grab"
  <2>1. KeyOf(o)' = KeyOf(o) /\ Requester(o)' = Requester(o)
    BY <1>2, CallsKept
  <2> QED BY <1>2, <2>1 DEF LockInv, TypeOK, KeyOf, Keys, Request, Requester, ReplicaOf, Patient,
                            PatientInv, HeldGrabs
<1>4. relSent[o] + relDone[o] <= 1
  BY <1>3 DEF PatientInv, OneAtATime
<1>5. redis[KeyOf(o)] = o
  <2>1. CASE relSent[o] > 0
    BY <1>3, <2>1 DEF PatientReleasesSucceed, Patient
  <2>2. CASE ~ (relSent[o] > 0)
    <3>1. relSent'[o] > relSent[o]
      BY <1>t, <1>1, <2>2
    <3>2. ASSUME NEW q \in Ops, RunRelease(q) \/ ReleaseContinues(q) \/ ReleaseRejected(q)
          PROVE  relSent'[o] <= relSent[o]
      <4>1. relSent' = [relSent EXCEPT ![q] = @ - 1] \/ relSent' = relSent
        BY <3>2 DEF RunRelease, ReleaseContinues, ReleaseRejected
      <4>2. relSent \in [Ops -> Nat]
        BY DEF LockInv, TypeOK
      <4> QED BY <4>1, <4>2
    <3>3. relDone'[o] = relDone[o] /\ EntryOf(o) = o
      BY <1>t, <3>1, <3>2, ReleasesEffect DEF relVars
    <3>4. ~ Releasing(o)
      BY <1>t, <1>1, <2>2, <3>3 DEF Releasing
    <3> QED BY <1>3, <3>3, <3>4, NoneAssumption DEF EntryOf, LockInv, EntryBacked
  <2> QED BY <2>1, <2>2
<1>6. ~ RunRelease(o)
  <2>1. RunRelease(o) => relDone'[o] = relDone[o] + 1
    BY DEF RunRelease, LockInv, TypeOK
  <2> QED BY <1>t, <1>1, <2>1
<1>7. redis'[KeyOf(o)] = o
  <2>1. ASSUME NEW q \in Ops, RunRelease(q) \/ ExpireClose(q) PROVE redis'[KeyOf(o)] = o
    <3>1. q # o
      BY <1>3, <1>6, <2>1 DEF ExpireClose
    <3>2. KeyOf(q) # KeyOf(o)
      BY <1>5, <2>1, <3>1 DEF RunRelease, ExpireClose
    <3> QED BY <1>3, <1>5, <2>1, <3>2 DEF RunRelease, ExpireClose, LockInv, TypeOK
  <2>2. ASSUME NEW q \in Ops, Acquire(q) PROVE redis'[KeyOf(o)] = o
    <3>1. KeyOf(q) # KeyOf(o)
      BY <1>5, <2>2, NoneAssumption DEF Acquire, KeyFree
    <3> QED BY <1>3, <1>5, <2>2, <3>1 DEF Acquire, LockInv, TypeOK
  <2>3. CASE ~ \E q \in Ops : Acquire(q) \/ RunRelease(q) \/ ExpireClose(q)
    BY <1>5, <2>3 DEF Next, vars, Connect, Ask, Release, Disconnect, RefuseAcquire, CloseGranted,
                      GrabGranted, ReleaseContinues, ReleaseRejected, Stop, ProcessEnds
  <2> QED BY <2>1, <2>2, <2>3
<1> QED BY <1>3, <1>7

(* What a user who awaits its answers releases is in Redis when the script *)
(* runs, be it released by the client or by handleDisconnect: no rejection *)
(* on its account ends a process.                                          *)
THEOREM PatientUsersEndNoProcess == Spec => []PatientReleasesSucceed
<1>1. Init => LockInv /\ PatientInv /\ PatientReleasesSucceed
  BY InitInv, PatientInvInit DEF Init, PatientReleasesSucceed
<1>2. LockInv /\ PatientInv /\ PatientReleasesSucceed /\ [Next]_vars
        => LockInv' /\ PatientInv' /\ PatientReleasesSucceed'
  BY NextInv, PatientInvStep, ReleasesSucceedStep
<1> QED BY <1>1, <1>2, PTL DEF Spec

-----------------------------------------------------------------------------
(* What a user holds *)

(* A hold ends by a release of it, by the end of the session, or by a call *)
(* of another user that names the object.                                  *)
LEMMA HoldsStep ==
  ASSUME LockInv, LockInv', PatientInv, [Next]_vars,
         NEW u \in PatientUsers, NEW k \in Keys, Holds(u, k),
         NEW o, o = locks[userReplica[u]][k[2]],
         presence'[u] = "in", ~ (relSent'[o] > 0), Sharers(o) = {}
  PROVE  Holds(u, k)'
<1>t. \A p \in Ops : /\ relSent[p] \in Nat /\ relDone[p] \in Nat
                    /\ relSent'[p] \in Nat /\ relDone'[p] \in Nat
  BY DEF LockInv, TypeOK
<1>1. /\ o \in Ops /\ o # None /\ Requester(o) = u /\ ~ Releasing(o)
      /\ u \in Users /\ userReplica[u] \in Replicas /\ k[2] \in Objects
      /\ userRoom[u] = k[1]
  <2>1. u \in Users /\ userReplica[u] \in Replicas /\ k[2] \in Objects
    BY EnvironmentAssumption DEF Holds, LockInv, TypeOK, Keys
  <2> QED BY <2>1 DEF Holds, IsLockedByUser, LockInv, TypeOK
<1>2. /\ opState[o] = "held" /\ request[o].object = k[2] /\ request[o].kind = "grab"
      /\ ReplicaOf(o) = userReplica[u] /\ Patient(o) /\ EntryOf(o) = o
  BY <1>1 DEF LockInv, TypeOK, ReplicaOf, Patient, EntryOf
<1>3. /\ Requester(o)' = u /\ ReplicaOf(o)' = ReplicaOf(o) /\ request'[o] = request[o]
      /\ KeyOf(o)' = KeyOf(o)
  BY <1>1, <1>2, CallsKept
<1>4. ~ Releasing(o)'
  <2>1. relSent[o] = 0 /\ relDone[o] = 0 /\ relSent'[o] = 0
    BY <1>1, <1>t DEF Releasing
  <2>2. ~ RunRelease(o)
    BY <2>1 DEF RunRelease
  <2>3. relDone'[o] = 0
    BY <1>1, <1>t, <2>1, <2>2, ReleasingEffect
  <2> QED BY <2>1, <2>3 DEF Releasing
<1>5. EntryOf(o)' = EntryOf(o)
  <2>1. ASSUME NEW q \in Ops, GrabGranted(q), up[ReplicaOf(q)], ReplicaOf(q) = ReplicaOf(o),
               request[q].object = request[o].object
        PROVE  FALSE
    <3>1. IsGrab(q) /\ opState[q] = "granted"
      BY <2>1 DEF GrabGranted, IsGrab
    <3>2. KeyOf(q) = KeyOf(o)
      BY <1>1, <1>2, <2>1, <3>1, SamePlace
    <3>3. redis[KeyOf(q)] = q
      BY <2>1, <3>1 DEF LockInv, GrantBacked, IsGrab
    <3>4. redis[KeyOf(o)] = o
      BY <1>1 DEF LockInv, EntryBacked
    <3> QED BY <1>2, <3>1, <3>2, <3>3, <3>4
  <2>2. ASSUME NEW q \in Ops, ReleaseContinues(q), up[ReplicaOf(q)], ReplicaOf(q) = ReplicaOf(o),
               request[q].object = request[o].object
        PROVE  FALSE
    <3>1. relDone[q] > 0 /\ Releasing(q) /\ opState[q] = "held"
      BY <1>t, <2>2, NoRelease DEF ReleaseContinues, Releasing
    <3>2. IsGrab(q)
      BY <3>1 DEF IsGrab, PatientInv, HeldGrabs
    <3>3. Patient(q) /\ Sharers(q) = {} /\ EntryOf(q) = EntryOf(o)
      BY <1>1, <1>2, <2>2, <3>2, SamePlace
    <3>4. EntryOf(q) = q
      BY <2>2, <3>1, <3>2, <3>3 DEF PatientInv, UnsharedEntries
    <3> QED BY <1>1, <1>2, <3>1, <3>3, <3>4
  <2> QED BY <1>1, <1>2, <2>1, <2>2, EntriesEffect
<1>6. userReplica'[u] = userReplica[u] /\ userRoom'[u] = userRoom[u]
  <2>1. userReplica'[u] = userReplica[u]
    BY <1>2, <1>3 DEF ReplicaOf
  <2>2. userRoom'[u] = userRoom[u]
    BY <1>1, <1>3 DEF KeyOf
  <2> QED BY <2>1, <2>2
<1>7. locks'[userReplica'[u]][k[2]] = o
  BY <1>2, <1>3, <1>5, <1>6 DEF EntryOf
<1> QED BY <1>1, <1>3, <1>4, <1>6, <1>7 DEF Holds, IsLockedByUser

(* A user who awaits its answers keeps an object until it releases it or   *)
(* loses its session, unless another user of its replica asks for an       *)
(* object of that id.                                                      *)
THEOREM PatientUsersKeepGrabs == Spec => PatientGrabsLast
<1>1. Init => LockInv /\ PatientInv
  BY InitInv, PatientInvInit
<1>2. LockInv /\ PatientInv /\ [Next]_vars => LockInv' /\ PatientInv'
  BY NextInv, PatientInvStep
<1> DEFINE Lasts ==
      \A u \in PatientUsers, k \in Keys :
        (Holds(u, k) /\ ~ Holds(u, k)')
          => LET o == locks[userReplica[u]][k[2]]
             IN presence'[u] # "in" \/ relSent'[o] > 0 \/ Sharers(o) # {}
<1>3. LockInv /\ LockInv' /\ PatientInv /\ [Next]_vars => Lasts
  BY HoldsStep
<1> QED BY <1>1, <1>2, <1>3, PTL DEF Spec, PatientGrabsLast
=============================================================================
