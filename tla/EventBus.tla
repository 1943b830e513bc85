------------------------------ MODULE EventBus -------------------------------
(***************************************************************************)
(* Redis publish and subscribe, as PublisherService and SubscriberService  *)
(* use it: a published event enters the queue of every replica, the        *)
(* publisher's too, and all replicas handle the events in that one order,  *)
(* each at its own pace.  Every event names the user it is about or from.  *)
(***************************************************************************)
EXTENDS Naturals, Sequences

CONSTANT Replicas

VARIABLE inbox   \* replica -> published events that it has not handled yet

NoEvents == inbox = [r \in Replicas |-> <<>>]

(* PublisherService.publish, with the replicas in L listening.             *)
PublishTo(L, e) ==
  inbox' = [r \in Replicas |-> IF r \in L THEN Append(inbox[r], e) ELSE inbox[r]]

(* Two publications of one callback.                                       *)
PublishBothTo(L, e, f) ==
  inbox' = [r \in Replicas |-> IF r \in L THEN Append(Append(inbox[r], e), f) ELSE inbox[r]]

Publish(e) == PublishTo(Replicas, e)

(* SubscriberService: the listener of that event is called next.           *)
Receives(r, event) == /\ inbox[r] # <<>>
                      /\ Head(inbox[r]).event = event

Consume(r) == inbox' = [inbox EXCEPT ![r] = Tail(@)]

Queued(r, i, event, u) == /\ i \in 1..Len(inbox[r])
                          /\ inbox[r][i].event = event
                          /\ inbox[r][i].user = u

(* An event of that kind and user is on its way to the replica.            *)
Waiting(r, event, u) == \E i \in 1..Len(inbox[r]) : Queued(r, i, event, u)

(* ... ahead of the i-th event in its queue.                               *)
WaitingBefore(r, i, event, u) == \E j \in 1..(i - 1) : Queued(r, j, event, u)
=============================================================================
