---------------------------- MODULE EventLogProofs ----------------------------
(***************************************************************************)
(* One order of events for all replicas.  A log is a function on Nat: what *)
(* a replica holds that has handled the first k events that were ever      *)
(* published, and on the way nothing but these.  The queue of a replica is *)
(* what is left of the n events published so far.                          *)
(*                                                                         *)
(* A log is never a variable of a specification: the proofs about replicas *)
(* that agree show that at any time there is one that all queues replay.   *)
(*                                                                         *)
(* The last section is about a queue alone: what it says of one fact.      *)
(***************************************************************************)
EXTENDS Naturals, Sequences, TLAPS

(* Entries before the first event, after the first, and so on.             *)
Log(S) == [Nat -> S]

(* The entry of a replica with queue q.                                    *)
Position(n, q) == n - Len(q)

(* Every event of q takes its entry of the log to the next one, as R has   *)
(* it: R is a set of triples of an entry, an event and an entry.           *)
Replays(R, log, n, q) ==
  /\ Len(q) <= n
  /\ \A i \in 1..Len(q) :
       <<log[Position(n, q) + i - 1], q[i], log[Position(n, q) + i]>> \in R

Extended(log, n, s) == [log EXCEPT ![n + 1] = s]

LEMMA PositionLemma ==
  ASSUME NEW E, NEW q \in Seq(E), NEW n \in Nat, Len(q) <= n
  PROVE  Position(n, q) \in 0..n /\ Position(n, q) \in Nat /\ Position(n, q) + Len(q) = n
BY DEF Position

(* A queue with nothing in it is at the end of the log.                    *)
LEMMA ReplaysNothing ==
  ASSUME NEW R, NEW log, NEW n \in Nat
  PROVE  Replays(R, log, n, <<>>) /\ Position(n, <<>>) = n
BY DEF Replays, Position

(* A new event gives the log one entry more,                               *)
LEMMA ExtendedLemma ==
  ASSUME NEW S, NEW log \in Log(S), NEW n \in Nat, NEW s \in S
  PROVE  /\ Extended(log, n, s) \in Log(S)
         /\ Extended(log, n, s)[n + 1] = s
         /\ \A i \in Nat : i # n + 1 => Extended(log, n, s)[i] = log[i]
BY DEF Extended, Log

(* and no replica moves.                                                   *)
LEMMA PositionAppend ==
  ASSUME NEW E, NEW n \in Nat, NEW q \in Seq(E), NEW e \in E, Len(q) <= n
  PROVE  /\ Position(n + 1, Append(q, e)) = Position(n, q)
         /\ Position(n, q) \in Nat /\ Position(n, q) # n + 1
<1>1. Len(q) \in Nat /\ Len(Append(q, e)) = Len(q) + 1
  OBVIOUS
<1> QED BY <1>1 DEF Position

LEMMA ReplaysAppend ==
  ASSUME NEW E, NEW S, NEW R, NEW log \in Log(S), NEW n \in Nat, NEW q \in Seq(E),
         NEW e \in E, NEW s \in S,
         Replays(R, log, n, q), <<log[n], e, s>> \in R
  PROVE  Replays(R, Extended(log, n, s), n + 1, Append(q, e))
<1> DEFINE log2 == Extended(log, n, s)
           q2 == Append(q, e)
           k == Position(n, q)
<1>1. /\ Len(q) \in Nat /\ Len(q) <= n /\ Len(q2) = Len(q) + 1
      /\ \A i \in 1..Len(q) : q2[i] = q[i]
      /\ q2[Len(q) + 1] = e
  BY DEF Replays
<1>2. k \in Nat /\ k + Len(q) = n /\ Position(n + 1, q2) = k
  BY <1>1 DEF Position
<1>3. log2[n + 1] = s /\ \A i \in Nat : i # n + 1 => log2[i] = log[i]
  BY ExtendedLemma
<1>4. \A i \in 1..Len(q) : <<log[k + i - 1], q[i], log[k + i]>> \in R
  BY DEF Replays
<1> HIDE DEF log2, q2, k
<1>5. ASSUME NEW i \in 1..Len(q2) PROVE <<log2[k + i - 1], q2[i], log2[k + i]>> \in R
  <2>1. CASE i \in 1..Len(q)
    <3>1. k + i - 1 \in Nat /\ k + i - 1 # n + 1 /\ k + i \in Nat /\ k + i # n + 1
      BY <1>1, <1>2, <2>1
    <3> QED BY <1>1, <1>3, <1>4, <2>1, <3>1
  <2>2. CASE i = Len(q) + 1
    <3>1. k + i - 1 = n /\ k + i = n + 1 /\ n # n + 1
      BY <1>1, <1>2, <2>2
    <3> QED BY <1>1, <1>3, <2>2, <3>1
  <2> QED BY <1>1, <2>1, <2>2
<1>6. Len(q2) <= n + 1
  BY <1>1
<1>7. Replays(R, log2, n + 1, q2)
  BY <1>2, <1>5, <1>6 DEF Replays
<1> QED BY <1>7 DEF log2, q2

(* A replica that takes its first event goes to the next entry,            *)
LEMMA PositionTail ==
  ASSUME NEW E, NEW n \in Nat, NEW q \in Seq(E), q # <<>>, Len(q) <= n
  PROVE  /\ Position(n, Tail(q)) = Position(n, q) + 1
         /\ Position(n, q) \in Nat
<1>1. Len(q) \in Nat /\ Len(Tail(q)) = Len(q) - 1
  OBVIOUS
<1> QED BY <1>1 DEF Position

(* which is the one that the event leads to,                               *)
LEMMA ReplaysHead ==
  ASSUME NEW E, NEW R, NEW log, NEW n \in Nat, NEW q \in Seq(E), q # <<>>,
         Replays(R, log, n, q)
  PROVE  <<log[Position(n, q)], Head(q), log[Position(n, q) + 1]>> \in R
<1>1. Len(q) \in Nat /\ 1 \in 1..Len(q) /\ Head(q) = q[1] /\ Len(q) <= n
  BY DEF Replays
<1>2. PICK k \in Nat : k = Position(n, q)
  BY <1>1 DEF Position
<1>3. <<log[k + 1 - 1], q[1], log[k + 1]>> \in R
  BY <1>1, <1>2 DEF Replays
<1>4. k + 1 - 1 = k
  OBVIOUS
<1> QED BY <1>1, <1>2, <1>3, <1>4

(* and has the rest still to replay.                                       *)
LEMMA ReplaysTail ==
  ASSUME NEW E, NEW R, NEW log, NEW n \in Nat, NEW q \in Seq(E), q # <<>>,
         Replays(R, log, n, q)
  PROVE  Replays(R, log, n, Tail(q))
<1>1. /\ Len(q) \in Nat /\ Len(q) >= 1 /\ Len(q) <= n /\ Len(Tail(q)) = Len(q) - 1
      /\ \A i \in 1..Len(Tail(q)) : Tail(q)[i] = q[i + 1]
  BY DEF Replays
<1>2. PICK k \in Nat : k = Position(n, q)
  BY <1>1 DEF Position
<1>3. Position(n, Tail(q)) = k + 1
  BY <1>1, <1>2, PositionTail
<1>4. \A i \in 1..Len(q) : <<log[k + i - 1], q[i], log[k + i]>> \in R
  BY <1>2 DEF Replays
<1>5. ASSUME NEW i \in 1..Len(Tail(q))
      PROVE  <<log[(k + 1) + i - 1], Tail(q)[i], log[(k + 1) + i]>> \in R
  <2>1. i + 1 \in 1..Len(q) /\ k + (i + 1) - 1 = (k + 1) + i - 1 /\ k + (i + 1) = (k + 1) + i
    BY <1>1
  <2> QED BY <1>1, <1>4, <2>1
<1>6. Len(Tail(q)) <= n
  BY <1>1
<1> QED BY <1>3, <1>5, <1>6 DEF Replays

-----------------------------------------------------------------------------
(* What the events of a queue will make of one fact that is now p and will *)
(* be v: A are the events that say if it holds, B those that say it does.  *)
Silent(q, A) == \A i \in 1..Len(q) : q[i] \notin A

LastSays(q, A, B, v) ==
  \A i \in 1..Len(q) :
    q[i] \in A /\ (\A j \in 1..Len(q) : j > i => q[j] \notin A) => (q[i] \in B <=> v)

Yields(q, A, B, p, v) == LastSays(q, A, B, v) /\ (Silent(q, A) => (p <=> v))

(* A new event has the last word,                                          *)
LEMMA YieldsAppend ==
  ASSUME NEW E, NEW q \in Seq(E), NEW e \in E, NEW A, NEW B, NEW p, NEW v,
         IF e \in A THEN v <=> e \in B ELSE Yields(q, A, B, p, v)
  PROVE  Yields(Append(q, e), A, B, p, v)
<1> DEFINE q2 == Append(q, e)
<1>1. /\ Len(q) \in Nat /\ Len(q2) = Len(q) + 1
      /\ \A i \in 1..Len(q) : q2[i] = q[i]
      /\ q2[Len(q) + 1] = e
  OBVIOUS
<1> HIDE DEF q2
<1>2. LastSays(q2, A, B, v)
  <2> SUFFICES ASSUME NEW i \in 1..Len(q2), q2[i] \in A,
                      \A j \in 1..Len(q2) : j > i => q2[j] \notin A
               PROVE  q2[i] \in B <=> v
    BY DEF LastSays
  <2>1. CASE e \in A
    <3>1. ~ (Len(q) + 1 > i)
      BY <1>1, <2>1
    <3>2. i = Len(q) + 1
      BY <1>1, <3>1
    <3> QED BY <1>1, <2>1, <3>2
  <2>2. CASE e \notin A
    <3>1. i \in 1..Len(q) /\ q[i] \in A /\ q2[i] = q[i]
      BY <1>1, <2>2
    <3>2. ASSUME NEW j \in 1..Len(q), j > i PROVE q[j] \notin A
      BY <1>1, <3>2
    <3> QED BY <2>2, <3>1, <3>2 DEF Yields, LastSays
  <2> QED BY <2>1, <2>2
<1>3. Silent(q2, A) => (p <=> v)
  <2> SUFFICES ASSUME Silent(q2, A) PROVE p <=> v
    OBVIOUS
  <2>1. e \notin A
    BY <1>1 DEF Silent
  <2>2. Silent(q, A)
    BY <1>1 DEF Silent
  <2> QED BY <2>1, <2>2 DEF Yields
<1>4. Yields(q2, A, B, p, v)
  BY <1>2, <1>3 DEF Yields
<1> QED BY <1>4 DEF q2

(* the first makes of the fact what it says,                               *)
LEMMA YieldsTail ==
  ASSUME NEW E, NEW q \in Seq(E), q # <<>>, NEW A, NEW B, NEW p, NEW v,
         Yields(q, A, B, p, v),
         NEW p2, p2 <=> IF Head(q) \in A THEN Head(q) \in B ELSE p
  PROVE  Yields(Tail(q), A, B, p2, v)
<1> DEFINE q2 == Tail(q)
<1>1. /\ Len(q) \in Nat /\ Len(q) >= 1 /\ Len(q2) = Len(q) - 1 /\ Head(q) = q[1]
      /\ \A i \in 1..Len(q2) : q2[i] = q[i + 1]
  OBVIOUS
<1> HIDE DEF q2
<1>2. \A i \in 1..Len(q) : i = 1 \/ (i - 1 \in 1..Len(q2) /\ q2[i - 1] = q[i])
  <2> TAKE i \in 1..Len(q)
  <2>1. i # 1 => i - 1 \in 1..Len(q2) /\ (i - 1) + 1 = i
    BY <1>1
  <2> QED BY <1>1, <2>1
<1>3. LastSays(q2, A, B, v)
  <2> SUFFICES ASSUME NEW i \in 1..Len(q2), q2[i] \in A,
                      \A j \in 1..Len(q2) : j > i => q2[j] \notin A
               PROVE  q2[i] \in B <=> v
    BY DEF LastSays
  <2>1. i + 1 \in 1..Len(q) /\ q[i + 1] = q2[i]
    BY <1>1
  <2>2. ASSUME NEW j \in 1..Len(q), j > i + 1 PROVE q[j] \notin A
    <3>1. j - 1 \in 1..Len(q2) /\ q2[j - 1] = q[j] /\ j - 1 > i
      BY <1>2, <2>2
    <3> QED BY <3>1
  <2> QED BY <2>1, <2>2 DEF Yields, LastSays
<1>4. Silent(q2, A) => (p2 <=> v)
  <2> SUFFICES ASSUME Silent(q2, A) PROVE p2 <=> v
    OBVIOUS
  <2>1. \A i \in 1..Len(q) : i = 1 \/ q[i] \notin A
    BY <1>2 DEF Silent
  <2>2. CASE Head(q) \in A
    <3>1. 1 \in 1..Len(q) /\ q[1] \in A
      BY <1>1, <2>2
    <3>2. \A j \in 1..Len(q) : j > 1 => q[j] \notin A
      BY <2>1
    <3>3. q[1] \in B <=> v
      BY <3>1, <3>2 DEF Yields, LastSays
    <3> QED BY <1>1, <2>2, <3>3
  <2>3. CASE Head(q) \notin A
    <3>1. Silent(q, A)
      BY <1>1, <2>1, <2>3 DEF Silent
    <3> QED BY <2>3, <3>1 DEF Yields
  <2> QED BY <2>2, <2>3
<1>5. Yields(q2, A, B, p2, v)
  BY <1>3, <1>4 DEF Yields
<1> QED BY <1>5 DEF q2

(* and without one the fact is.                                           *)
LEMMA SilentYields ==
  ASSUME NEW q, NEW A, NEW B, NEW p, NEW v, Silent(q, A), p <=> v
  PROVE  Yields(q, A, B, p, v)
BY DEF Yields, Silent, LastSays
=============================================================================
