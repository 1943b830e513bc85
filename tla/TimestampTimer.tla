---------------------------- MODULE TimestampTimer ---------------------------
(***************************************************************************)
(* The cron job that sends a timestamp to every room, on top of            *)
(* RoomLifecycle, whose rooms it reaches.  Every replica runs it for the   *)
(* rooms that it has, and asks Redis for a lock per room, which nothing    *)
(* ever gives back.                                                        *)
(*                                                                         *)
(* Handling such an event changes nothing and needs no room, so these      *)
(* events have an inbox of their own: for each replica, the rooms with at  *)
(* least one on the way.  The time that is sent, and kept for the room,    *)
(* is left out.                                                            *)
(***************************************************************************)
EXTENDS RoomLifecycle

VARIABLES timerInbox,   \* replica -> rooms with a timestamp on the way to it
          timestampKey  \* room id -> the replica that has the lock in Redis

timerVars == <<timerInbox, timestampKey>>

-----------------------------------------------------------------------------
TimerInit ==
  /\ timerInbox = [r \in Replicas |-> {}]
  /\ timestampKey = [rid \in RoomIds |-> None]

(* RoomService.getRooms                                                    *)
RoomsAt(r) == {rid \in RoomIds : rooms[r][rid] # None}

(* lockTimestampChannel: the key is set if it is free, for longer than     *)
(* anybody will wait.  When Redis gets to it makes no difference, because  *)
(* nobody looks at the answer.                                             *)
LockTimestampChannels(r) ==
  timestampKey' = [rid \in RoomIds |-> IF rid \in RoomsAt(r) /\ timestampKey[rid] = None
                                       THEN r ELSE timestampKey[rid]]

(* publishTimestampUpdateTimerMessage, called every ten seconds.  What it  *)
(* tests is a promise, hence true: it sends for every room.                *)
Tick(r) ==
  /\ Live(r)
  /\ LockTimestampChannels(r)
  /\ timerInbox' = [q \in Replicas |-> IF Live(q) THEN timerInbox[q] \cup RoomsAt(r) ELSE {}]
  /\ UNCHANGED vars

(* handleTimestampUpdateTimerEvent only broadcasts.                        *)
HandleTimestampUpdateTimer(r, rid) ==
  /\ Live(r)
  /\ rid \in timerInbox[r]
  /\ timerInbox' = [timerInbox EXCEPT ![r] = @ \ {rid}]
  /\ UNCHANGED <<timestampKey, vars>>

(* A step of RoomLifecycle; a process that ends takes with it what it was  *)
(* sent.                                                                   *)
LifecycleStep ==
  /\ Next
  /\ timerInbox' = [r \in Replicas |-> IF Live(r)' THEN timerInbox[r] ELSE {}]
  /\ UNCHANGED timestampKey

TimerNext ==
  \/ LifecycleStep
  \/ \E r \in Replicas : Tick(r)
  \/ \E r \in Replicas, rid \in RoomIds : HandleTimestampUpdateTimer(r, rid)

TimerSpec == Init /\ TimerInit /\ [][TimerNext]_<<vars, timerVars>>

-----------------------------------------------------------------------------
(* Properties *)

(* What lockTimestampChannel's comment says, that the lock "decides the    *)
(* one replica that can exclusively propagate the timestamp update": the   *)
(* timer sends for a room only from the replica that has its lock.         *)
OneTimestampSender ==
  [][\A r \in Replicas : Tick(r) =>
       \A rid \in RoomsAt(r) : rid \in timerInbox'[r] \ timerInbox[r]
                                 => timestampKey'[rid] = r]_<<vars, timerVars>>
=============================================================================
