---------------------------- MODULE EventBusProofs ----------------------------
(***************************************************************************)
(* What publishing and consuming do to the queues, stated once for the     *)
(* proofs about the modules that use the bus.                              *)
(***************************************************************************)
EXTENDS EventBus, TLAPS

LEMMA AppendTwice ==
  ASSUME NEW E, NEW s \in Seq(E), NEW e \in E, NEW f \in E
  PROVE  LET t == Append(Append(s, e), f)
         IN /\ t \in Seq(E)
            /\ Len(s) \in Nat
            /\ Len(t) = Len(s) + 2
            /\ \A i \in 1..Len(s) : t[i] = s[i]
            /\ t[Len(s) + 1] = e /\ t[Len(s) + 2] = f
<1> DEFINE a == Append(s, e)
<1>1. /\ a \in Seq(E) /\ Len(s) \in Nat /\ Len(a) = Len(s) + 1
      /\ \A i \in 1..Len(s) : a[i] = s[i]
      /\ a[Len(s) + 1] = e
  OBVIOUS
<1> HIDE DEF a
<1>2. /\ Append(a, f) \in Seq(E) /\ Len(Append(a, f)) = Len(a) + 1
      /\ \A i \in 1..Len(a) : Append(a, f)[i] = a[i]
      /\ Append(a, f)[Len(a) + 1] = f
  BY <1>1
<1>3. \A i \in 1..Len(s) : Append(a, f)[i] = s[i]
  BY <1>1, <1>2
<1> QED BY <1>1, <1>2, <1>3 DEF a

(* Publishing appends to the queues of those who listen.                   *)
THEOREM PublishToQueues ==
  ASSUME NEW E, inbox \in [Replicas -> Seq(E)], NEW L, NEW e \in E, PublishTo(L, e)
  PROVE  /\ inbox' \in [Replicas -> Seq(E)]
         /\ \A r \in Replicas :
              /\ inbox'[r] = IF r \in L THEN Append(inbox[r], e) ELSE inbox[r]
              /\ Len(inbox'[r]) = IF r \in L THEN Len(inbox[r]) + 1 ELSE Len(inbox[r])
              /\ Len(inbox[r]) \in Nat
              /\ \A i \in 1..Len(inbox[r]) : inbox'[r][i] = inbox[r][i]
              /\ r \in L => inbox'[r][Len(inbox[r]) + 1] = e
<1>1. \A r \in Replicas : inbox[r] \in Seq(E) /\ Append(inbox[r], e) \in Seq(E)
  OBVIOUS
<1>2. \A r \in Replicas :
        inbox'[r] = IF r \in L THEN Append(inbox[r], e) ELSE inbox[r]
  BY DEF PublishTo
<1>3. inbox' \in [Replicas -> Seq(E)]
  BY <1>1 DEF PublishTo
<1> QED BY <1>1, <1>2, <1>3

(* ... with two events, in that order.                                     *)
THEOREM PublishBothToQueues ==
  ASSUME NEW E, inbox \in [Replicas -> Seq(E)], NEW L, NEW e \in E, NEW f \in E,
         PublishBothTo(L, e, f)
  PROVE  /\ inbox' \in [Replicas -> Seq(E)]
         /\ \A r \in Replicas :
              /\ inbox'[r] = IF r \in L THEN Append(Append(inbox[r], e), f) ELSE inbox[r]
              /\ Len(inbox'[r]) = IF r \in L THEN Len(inbox[r]) + 2 ELSE Len(inbox[r])
              /\ Len(inbox[r]) \in Nat
              /\ \A i \in 1..Len(inbox[r]) : inbox'[r][i] = inbox[r][i]
              /\ r \in L => inbox'[r][Len(inbox[r]) + 1] = e /\ inbox'[r][Len(inbox[r]) + 2] = f
<1>1. \A r \in Replicas :
        inbox'[r] = IF r \in L THEN Append(Append(inbox[r], e), f) ELSE inbox[r]
  BY DEF PublishBothTo
<1>2. \A r \in Replicas : inbox[r] \in Seq(E) /\ Len(inbox[r]) \in Nat
  OBVIOUS
<1>3. \A r \in Replicas : Append(Append(inbox[r], e), f) \in Seq(E)
  BY <1>2, AppendTwice
<1>4. inbox' \in [Replicas -> Seq(E)]
  BY <1>2, <1>3 DEF PublishBothTo
<1>5. SUFFICES ASSUME NEW r \in Replicas
               PROVE  /\ inbox'[r] = IF r \in L THEN Append(Append(inbox[r], e), f) ELSE inbox[r]
                      /\ Len(inbox'[r]) = IF r \in L THEN Len(inbox[r]) + 2 ELSE Len(inbox[r])
                      /\ Len(inbox[r]) \in Nat
                      /\ \A i \in 1..Len(inbox[r]) : inbox'[r][i] = inbox[r][i]
                      /\ r \in L => /\ inbox'[r][Len(inbox[r]) + 1] = e
                                    /\ inbox'[r][Len(inbox[r]) + 2] = f
  BY <1>4
<1>6. CASE r \in L
  <2>1. inbox[r] \in Seq(E) /\ inbox'[r] = Append(Append(inbox[r], e), f)
    BY <1>1, <1>2, <1>6
  <2>2. /\ Len(inbox[r]) \in Nat
        /\ Len(Append(Append(inbox[r], e), f)) = Len(inbox[r]) + 2
        /\ \A i \in 1..Len(inbox[r]) : Append(Append(inbox[r], e), f)[i] = inbox[r][i]
        /\ Append(Append(inbox[r], e), f)[Len(inbox[r]) + 1] = e
        /\ Append(Append(inbox[r], e), f)[Len(inbox[r]) + 2] = f
    BY <2>1, AppendTwice
  <2> QED BY <1>6, <2>1, <2>2
<1>7. CASE r \notin L
  BY <1>1, <1>2, <1>7
<1> QED BY <1>6, <1>7

(* Consuming takes the first event of one queue.                           *)
THEOREM ConsumeQueues ==
  ASSUME NEW E, inbox \in [Replicas -> Seq(E)], NEW r \in Replicas, inbox[r] # <<>>, Consume(r)
  PROVE  /\ inbox' \in [Replicas -> Seq(E)]
         /\ \A q \in Replicas : q # r => inbox'[q] = inbox[q]
         /\ Len(inbox[r]) \in Nat /\ Len(inbox[r]) >= 1
         /\ Len(inbox'[r]) = Len(inbox[r]) - 1
         /\ Head(inbox[r]) = inbox[r][1] /\ inbox[r][1] \in E
         /\ \A i \in 1..Len(inbox'[r]) : inbox'[r][i] = inbox[r][i + 1]
<1>1. inbox[r] \in Seq(E) /\ inbox[r] # <<>>
  OBVIOUS
<1>2. /\ Tail(inbox[r]) \in Seq(E)
      /\ Len(inbox[r]) \in Nat /\ Len(inbox[r]) >= 1
      /\ Len(Tail(inbox[r])) = Len(inbox[r]) - 1
      /\ Head(inbox[r]) = inbox[r][1] /\ inbox[r][1] \in E
      /\ \A i \in 1..Len(Tail(inbox[r])) : Tail(inbox[r])[i] = inbox[r][i + 1]
  BY <1>1
<1>3. inbox'[r] = Tail(inbox[r]) /\ \A q \in Replicas : q # r => inbox'[q] = inbox[q]
  BY DEF Consume
<1>4. inbox' \in [Replicas -> Seq(E)]
  BY <1>2 DEF Consume
<1> QED BY <1>2, <1>3, <1>4

-----------------------------------------------------------------------------
(* An event is waiting after a publication if it was before, or was        *)
(* published; what waits before an event does not change.                  *)
THEOREM PublishToWaiting ==
  ASSUME NEW E, inbox \in [Replicas -> Seq(E)], NEW L, NEW e \in E, PublishTo(L, e),
         NEW r \in Replicas
  PROVE  \A event, u :
           /\ Waiting(r, event, u)' <=>
                Waiting(r, event, u) \/ (r \in L /\ e.event = event /\ e.user = u)
           /\ \A i \in 1..Len(inbox[r]) :
                WaitingBefore(r, i, event, u)' <=> WaitingBefore(r, i, event, u)
           /\ \A i : i = Len(inbox[r]) + 1 =>
                (WaitingBefore(r, i, event, u)' <=> Waiting(r, event, u))
<1>0. PICK n : n = Len(inbox[r])
  OBVIOUS
<1>1. /\ n \in Nat /\ Len(inbox'[r]) = IF r \in L THEN n + 1 ELSE n
      /\ \A i \in 1..n : inbox'[r][i] = inbox[r][i]
      /\ r \in L => inbox'[r][n + 1] = e
  BY <1>0, PublishToQueues
<1> SUFFICES ASSUME NEW event, NEW u
             PROVE  /\ Waiting(r, event, u)' <=>
                         Waiting(r, event, u) \/ (r \in L /\ e.event = event /\ e.user = u)
                    /\ \A i \in 1..n :
                         WaitingBefore(r, i, event, u)' <=> WaitingBefore(r, i, event, u)
                    /\ WaitingBefore(r, n + 1, event, u)' <=> Waiting(r, event, u)
  BY <1>0
<1>2. \A i \in 1..n : Queued(r, i, event, u)' <=> Queued(r, i, event, u)
  BY <1>0, <1>1 DEF Queued
<1>3. Queued(r, n + 1, event, u)' <=> r \in L /\ e.event = event /\ e.user = u
  <2>1. Queued(r, n + 1, event, u)' <=>
          /\ n + 1 \in 1..Len(inbox'[r])
          /\ inbox'[r][n + 1].event = event /\ inbox'[r][n + 1].user = u
    BY DEF Queued
  <2>2. n + 1 \in 1..Len(inbox'[r]) <=> r \in L
    BY <1>1
  <2> QED BY <1>1, <2>1, <2>2
<1>4. Waiting(r, event, u)' <=> \E i \in 1..Len(inbox'[r]) : Queued(r, i, event, u)'
  BY DEF Waiting
<1>5. Waiting(r, event, u) <=> \E i \in 1..n : Queued(r, i, event, u)
  BY <1>0 DEF Waiting
<1>6. \A i : /\ WaitingBefore(r, i, event, u)' <=> \E j \in 1..(i - 1) : Queued(r, j, event, u)'
             /\ WaitingBefore(r, i, event, u) <=> \E j \in 1..(i - 1) : Queued(r, j, event, u)
  BY DEF WaitingBefore
<1>7. Waiting(r, event, u)' <=>
        Waiting(r, event, u) \/ (r \in L /\ e.event = event /\ e.user = u)
  <2>1. \A i \in 1..Len(inbox'[r]) : i \in 1..n \/ i = n + 1
    BY <1>1
  <2>2. r \in L => n + 1 \in 1..Len(inbox'[r])
    BY <1>1
  <2>3. \A i \in 1..n : i \in 1..Len(inbox'[r])
    BY <1>1
  <2> QED BY <1>2, <1>3, <1>4, <1>5, <2>1, <2>2, <2>3
<1>8. \A i \in 1..n : WaitingBefore(r, i, event, u)' <=> WaitingBefore(r, i, event, u)
  BY <1>1, <1>2, <1>6
<1>9. WaitingBefore(r, n + 1, event, u)' <=> Waiting(r, event, u)
  <2>1. (n + 1) - 1 = n
    BY <1>1
  <2>2. WaitingBefore(r, n + 1, event, u)' <=> \E j \in 1..n : Queued(r, j, event, u)'
    BY <1>6, <2>1
  <2> QED BY <1>2, <1>5, <2>2
<1> QED BY <1>7, <1>8, <1>9

(* What was waiting before a consumption still is, or was consumed.        *)
THEOREM ConsumeWaiting ==
  ASSUME NEW E, inbox \in [Replicas -> Seq(E)], NEW r \in Replicas, inbox[r] # <<>>, Consume(r)
  PROVE  \A event, u :
           /\ \A q \in Replicas : q # r => (Waiting(q, event, u)' <=> Waiting(q, event, u))
           /\ Waiting(r, event, u) <=>
                \/ Waiting(r, event, u)'
                \/ Head(inbox[r]).event = event /\ Head(inbox[r]).user = u
           /\ \A i \in 1..Len(inbox'[r]) :
                WaitingBefore(r, i + 1, event, u) <=>
                  \/ WaitingBefore(r, i, event, u)'
                  \/ Head(inbox[r]).event = event /\ Head(inbox[r]).user = u
<1> DEFINE n == Len(inbox'[r])
           h == Head(inbox[r])
<1>1. /\ n \in Nat /\ Len(inbox[r]) = n + 1
      /\ \A i \in 1..n : inbox'[r][i] = inbox[r][i + 1]
      /\ h = inbox[r][1]
      /\ \A q \in Replicas : q # r => inbox'[q] = inbox[q]
  BY ConsumeQueues
<1> SUFFICES ASSUME NEW event, NEW u
             PROVE  /\ \A q \in Replicas : q # r => (Waiting(q, event, u)' <=> Waiting(q, event, u))
                    /\ Waiting(r, event, u) <=>
                         Waiting(r, event, u)' \/ (h.event = event /\ h.user = u)
                    /\ \A i \in 1..n :
                         WaitingBefore(r, i + 1, event, u) <=>
                           WaitingBefore(r, i, event, u)' \/ (h.event = event /\ h.user = u)
  OBVIOUS
<1>2. \A i \in 1..n : Queued(r, i, event, u)' <=> Queued(r, i + 1, event, u)
  BY <1>1 DEF Queued
<1>3. Queued(r, 1, event, u) <=> h.event = event /\ h.user = u
  BY <1>1 DEF Queued
<1>4. /\ Waiting(r, event, u)' <=> \E i \in 1..n : Queued(r, i, event, u)'
      /\ Waiting(r, event, u) <=> \E i \in 1..Len(inbox[r]) : Queued(r, i, event, u)
  BY DEF Waiting
<1>5. \A i : /\ WaitingBefore(r, i, event, u)' <=> \E j \in 1..(i - 1) : Queued(r, j, event, u)'
             /\ WaitingBefore(r, i, event, u) <=> \E j \in 1..(i - 1) : Queued(r, j, event, u)
  BY DEF WaitingBefore
<1>6. \A q \in Replicas : q # r => (Waiting(q, event, u)' <=> Waiting(q, event, u))
  BY <1>1 DEF Waiting, Queued
<1> HIDE DEF n, h
<1>7. \A i \in 1..(n + 1) : i = 1 \/ (i - 1 \in 1..n /\ i = (i - 1) + 1)
  BY <1>1
<1>8. Waiting(r, event, u) <=> Waiting(r, event, u)' \/ (h.event = event /\ h.user = u)
  <2>1. ASSUME Waiting(r, event, u) PROVE Waiting(r, event, u)' \/ (h.event = event /\ h.user = u)
    BY <2>1, <1>1, <1>2, <1>3, <1>4, <1>7
  <2>2. ASSUME Waiting(r, event, u)' PROVE Waiting(r, event, u)
    BY <2>2, <1>1, <1>2, <1>4
  <2>3. ASSUME h.event = event /\ h.user = u PROVE Waiting(r, event, u)
    BY <2>3, <1>1, <1>3, <1>4
  <2> QED BY <2>1, <2>2, <2>3
<1>9. ASSUME NEW i \in 1..n
      PROVE  WaitingBefore(r, i + 1, event, u) <=>
               WaitingBefore(r, i, event, u)' \/ (h.event = event /\ h.user = u)
  <2>1. /\ WaitingBefore(r, i + 1, event, u) <=> \E j \in 1..i : Queued(r, j, event, u)
        /\ WaitingBefore(r, i, event, u)' <=> \E j \in 1..(i - 1) : Queued(r, j + 1, event, u)
    BY <1>1, <1>2, <1>5
  <2>2. \A j \in 1..i : j = 1 \/ (j - 1 \in 1..(i - 1) /\ j = (j - 1) + 1)
    BY <1>1
  <2>3. \A j \in 1..(i - 1) : j + 1 \in 1..i
    BY <1>1
  <2>4. 1 \in 1..i
    BY <1>1
  <2> QED BY <1>3, <2>1, <2>2, <2>3, <2>4
<1> QED BY <1>6, <1>8, <1>9
=============================================================================
