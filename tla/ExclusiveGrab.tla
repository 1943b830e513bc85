---------------------------- MODULE ExclusiveGrab ----------------------------
(***************************************************************************)
(* What clients of the lock service rely on.  An object of a room is held  *)
(* by one user at a time, and passes through nobody's hands before         *)
(* another user gets it.  An object is closed only while nobody holds it.  *)
(***************************************************************************)
CONSTANTS Users,
          Keys,    \* the objects of all rooms
          Closes,  \* requests to close an object
          None

VARIABLES holder,  \* object -> the user who holds it, or None
          closed   \* <<request, object>>: the request has closed that object

vars == <<holder, closed>>

Init == /\ holder = [k \in Keys |-> None]
        /\ closed = {}

(* Holders lose some of what they hold: they release it, leave, or their   *)
(* replica forgets it.                                                     *)
MayLose(K) == \A k \in K : holder'[k] \in {holder[k], None}

Lose == /\ holder' \in [Keys -> Users \cup {None}]
        /\ MayLose(Keys)
        /\ UNCHANGED closed

(* A user gets an object that nobody holds.                                *)
Grab(u, k) == /\ holder[k] = None
              /\ holder' \in [Keys -> Users \cup {None}]
              /\ holder'[k] = u
              /\ MayLose(Keys \ {k})
              /\ UNCHANGED closed

(* A request closes the object that it is recorded with.                   *)
Close(c, k) == /\ holder[k] = None
               /\ closed' = closed \cup {<<c, k>>}
               /\ UNCHANGED holder

Next == \/ Lose
        \/ \E u \in Users, k \in Keys : Grab(u, k)
        \/ \E c \in Closes, k \in Keys : Close(c, k)

Spec == Init /\ [][Next]_vars
=============================================================================
