----------------------- MODULE OutboundDeliveryProofs ------------------------
(***************************************************************************)
(* OutboundDelivery for any number of messages, records, places in the     *)
(* queue, attempts, faults and calls of retryDelivery: a receipt is the    *)
(* last word on a message, what is open has an owner, and "delivered" was  *)
(* said by the channel - although the outbox checks none of it.            *)
(***************************************************************************)
EXTENDS OutboundDelivery, FiniteSetTheorems, TLAPS

(* A message whose record is not open is nowhere, an open one is with its   *)
(* sender, with the dispatcher or queued, and only once: but for those that *)
(* a recovery queued while they were in flight.                             *)
OneWay(m) == /\ box[m] \notin Open => direct[m] = "none"
             /\ box[m] \notin Open \/ direct[m] # "none" => loop.msg # m
             /\ box[m] \notin Open \/ InFlight(m) => m \notin ToSet(queue)

Single == \A m \in Message \ requeued : OneWay(m)

(* Another attempt is made only while one is left, and what the dispatcher  *)
(* does it does for a message.                                              *)
Bounded == /\ \A m \in Message : direct[m] = "backoff" => attempt[m] < MaxAttempts
           /\ loop.doing = "backoff" => loop.try < MaxAttempts

IInv == TypeOK /\ IsInjective(queue) /\ Bounded /\ Single /\ OpenIsOwned /\ DeliveredWasSent
-----------------------------------------------------------------------------
(* Sequences                                                                *)

(* An order of a finite set has its members, each once.                     *)
LEMMA Ordered ==
  ASSUME NEW S, IsFiniteSet(S), NEW q \in SetToSeqs(S)
  PROVE  /\ q \in Seq(S) /\ ToSet(q) = S /\ IsInjective(q)
         /\ Len(q) = Cardinality(S) /\ Cardinality(S) \in Nat
<1> DEFINE n == Cardinality(S)
<1>1. n \in Nat
  BY FS_CardinalityType
<1>2. q \in [1..n -> S] /\ \A i, j \in 1..n : i # j => q[i] # q[j]
  BY DEF SetToSeqs
<1>3. q \in Seq(S) /\ Len(q) = n /\ DOMAIN q = 1..n
  BY <1>1, <1>2
<1>4. q \in Injection(1..n, S)
  BY <1>2 DEF Injection, IsInjective
<1>5. q \in Surjection(1..n, S)
  BY <1>1, <1>4, FS_Interval, FS_Injection
<1>6. \A x \in S : \E i \in 1..n : q[i] = x
  BY <1>5 DEF Surjection
<1>7. Len(q) = Cardinality(S) /\ Cardinality(S) \in Nat
  BY <1>1, <1>3
<1> HIDE DEF n
<1>8. ToSet(q) = S
  BY <1>2, <1>3, <1>6 DEF ToSet
<1> QED BY <1>2, <1>3, <1>7, <1>8 DEF IsInjective

(* The first of a queue is taken, the others keep their places.             *)
LEMMA Rest ==
  ASSUME NEW S, NEW q \in Seq(S), IsInjective(q), q # <<>>
  PROVE  /\ Head(q) \in ToSet(q) /\ Head(q) \in S
         /\ Tail(q) \in Seq(S) /\ IsInjective(Tail(q))
         /\ ToSet(Tail(q)) = ToSet(q) \ {Head(q)} /\ Len(Tail(q)) = Len(q) - 1
<1> DEFINE w == Tail(q)
<1>1. /\ w \in Seq(S) /\ Len(w) = Len(q) - 1 /\ Len(q) \in Nat \ {0}
      /\ \A i \in 1..(Len(q) - 1) : w[i] = q[i + 1]
      /\ Head(q) = q[1] /\ Head(q) \in S
  OBVIOUS
<1>2. DOMAIN w = 1..(Len(q) - 1) /\ DOMAIN q = 1..Len(q)
  BY <1>1
<1> HIDE DEF w
<1>3. \A i, j \in 1..Len(q) : q[i] = q[j] => i = j
  BY <1>2 DEF IsInjective
<1>4. \A i \in 1..(Len(q) - 1) : i + 1 \in 1..Len(q) /\ i + 1 # 1 /\ 1 \in 1..Len(q)
  BY <1>1
<1>5. IsInjective(w)
  <2> SUFFICES ASSUME NEW i \in 1..(Len(q) - 1), NEW j \in 1..(Len(q) - 1), w[i] = w[j]
               PROVE  i = j
    BY <1>2 DEF IsInjective
  <2>1. i + 1 = j + 1
    BY <1>1, <1>3, <1>4
  <2> QED BY <2>1
<1>6. ToSet(w) \subseteq ToSet(q) \ {Head(q)}
  BY <1>1, <1>2, <1>3, <1>4 DEF ToSet
<1>7. ASSUME NEW i \in 1..Len(q), i # 1 PROVE q[i] \in ToSet(w)
  <2>1. i - 1 \in 1..(Len(q) - 1) /\ (i - 1) + 1 = i
    BY <1>1, <1>7
  <2> QED BY <1>1, <1>2, <2>1 DEF ToSet
<1>8. ToSet(q) \ {Head(q)} \subseteq ToSet(w)
  BY <1>1, <1>2, <1>7 DEF ToSet
<1>9. Head(q) \in ToSet(q)
  BY <1>1, <1>2 DEF ToSet
<1> QED BY <1>1, <1>5, <1>6, <1>8, <1>9 DEF w

(* What was not queued comes behind what was.                               *)
LEMMA Joined ==
  ASSUME NEW S, NEW p \in Seq(S), NEW q \in Seq(S),
         IsInjective(p), IsInjective(q), ToSet(p) \cap ToSet(q) = {}
  PROVE  /\ p \o q \in Seq(S) /\ IsInjective(p \o q)
         /\ ToSet(p \o q) = ToSet(p) \cup ToSet(q) /\ Len(p \o q) = Len(p) + Len(q)
<1> DEFINE r == p \o q
<1> DEFINE m == Len(p)
<1> DEFINE n == Len(q)
<1>1. /\ r \in Seq(S) /\ Len(r) = m + n /\ m \in Nat /\ n \in Nat
      /\ \A i \in 1..m : r[i] = p[i]
      /\ \A i \in 1..n : r[m + i] = q[i]
  OBVIOUS
<1>2. DOMAIN r = 1..(m + n) /\ DOMAIN p = 1..m /\ DOMAIN q = 1..n
  BY <1>1
<1>3. Len(p \o q) = Len(p) + Len(q)
  BY <1>1
<1> HIDE DEF r, m, n
<1>4. \A i \in 1..(m + n) : i \notin 1..m => i - m \in 1..n /\ r[i] = q[i - m]
  <2> TAKE i \in 1..(m + n)
  <2>1. i \notin 1..m => i - m \in 1..n /\ i = m + (i - m)
    BY <1>1
  <2> QED BY <1>1, <2>1
<1>5. \A i \in 1..(m + n) : i \in 1..m => r[i] \in ToSet(p)
  BY <1>1, <1>2 DEF ToSet
<1>6. \A i \in 1..(m + n) : i \notin 1..m => r[i] \in ToSet(q)
  BY <1>2, <1>4 DEF ToSet
<1>7. IsInjective(r)
  <2> SUFFICES ASSUME NEW i \in 1..(m + n), NEW j \in 1..(m + n), r[i] = r[j]
               PROVE  i = j
    BY <1>2 DEF IsInjective
  <2>1. CASE i \in 1..m /\ j \in 1..m
    BY <1>1, <1>2, <2>1 DEF IsInjective
  <2>2. CASE i \notin 1..m /\ j \notin 1..m
    <3>1. i - m \in 1..n /\ j - m \in 1..n /\ q[i - m] = q[j - m]
      BY <1>4, <2>2
    <3>2. i - m = j - m
      BY <1>2, <3>1 DEF IsInjective
    <3> QED BY <1>1, <3>2
  <2> QED BY <1>5, <1>6, <2>1, <2>2
<1>8. ToSet(r) = ToSet(p) \cup ToSet(q)
  <2>1. ToSet(r) \subseteq ToSet(p) \cup ToSet(q)
    BY <1>2, <1>5, <1>6 DEF ToSet
  <2>2. ToSet(p) \subseteq ToSet(r)
    BY <1>1, <1>2 DEF ToSet
  <2>3. \A i \in 1..n : m + i \in 1..(m + n)
    BY <1>1
  <2>4. ToSet(q) \subseteq ToSet(r)
    BY <1>1, <1>2, <2>3 DEF ToSet
  <2> QED BY <2>1, <2>2, <2>4
<1> QED BY <1>1, <1>3, <1>7, <1>8 DEF r

(* What is in none is empty, and what is empty has none.                    *)
LEMMA Empty == ToSet(<<>>) = {} /\ IsInjective(<<>>) /\ Len(<<>>) = 0
BY DEF ToSet, IsInjective

(* recoverOutbound: some of what is open and not queued is put on the       *)
(* queue - the first of it taken by a dispatcher that waits - and the rest  *)
(* is left behind, unless it is in flight.                                  *)
LEMMA Recovering ==
  ASSUME TypeOK, IsInjective(queue), NEW b, NEW ready \in BOOLEAN,
         Recover(b, ready) \/ RecoverBreaks(b, ready),
         ready => loop = Idle /\ queue = <<>>
  PROVE  /\ queue' \in Seq(Message) /\ IsInjective(queue') /\ Len(queue') <= MaxQueue
         /\ (box' = Recovered(b) \/ box' = b)
         /\ \E put \in SUBSET Unqueued(b) :
              /\ requeued' = requeued \cup {m \in put : InFlight(m)}
              /\ stranded' = (stranded \cup {m \in Unqueued(b) : ~InFlight(m)}) \ put
              /\ \/ loop' = loop /\ ToSet(queue') = ToSet(queue) \cup put
                 \/ /\ loop = Idle /\ queue = <<>>
                    /\ \E m \in put : loop' = Take(m) /\ ToSet(queue') = put \ {m}
<1> DEFINE new == Unqueued(b)
<1> DEFINE room == MaxQueue - Len(queue) + IF ready THEN 1 ELSE 0
<1>0. box' = Recovered(b) \/ box' = b
  BY DEF Recover, RecoverBreaks
<1>1. PICK put \in SUBSET new : Cardinality(put) <= room /\ Put(b, put, ready)
  <2>1. CASE RecoverBreaks(b, ready)
    BY <2>1 DEF RecoverBreaks, Room
  <2>2. CASE Recover(b, ready)
    <3>1. PICK put \in Refill(new, room) : Put(b, put, ready)
      BY <2>2 DEF Recover, Room
    <3>2. /\ put \in SUBSET new /\ new \subseteq Message
          /\ Cardinality(put) = Smaller(room, Cardinality(new))
      BY <3>1 DEF Refill, Unqueued, OpenIn
    <3>3. IsFiniteSet(new)
      <4> HIDE DEF new
      <4> QED BY <3>2, FS_Subset, OutboundAssumption
    <3>4. Cardinality(new) \in Nat /\ room \in Int
      <4>1. Cardinality(new) \in Nat
        BY <3>3, FS_CardinalityType
      <4> QED BY <4>1, OutboundAssumption DEF TypeOK
    <3>5. Cardinality(put) <= room
      BY <3>2, <3>4 DEF Smaller
    <3> QED BY <3>1, <3>2, <3>5
  <2> QED BY <2>1, <2>2
<1>2. PICK order \in SetToSeqs(put) :
        IF ready /\ put # {}
        THEN loop' = Take(Head(order)) /\ queue' = Tail(order)
        ELSE queue' = queue \o order /\ UNCHANGED loop
  BY <1>1 DEF Put
<1>10. /\ requeued' = requeued \cup {m \in put : InFlight(m)}
       /\ stranded' = (stranded \cup {m \in new : ~InFlight(m)}) \ put
  BY <1>1 DEF Put
<1>3. put \in SUBSET new /\ put \subseteq Message /\ Cardinality(put) <= room
  BY <1>1 DEF Unqueued, OpenIn
<1>4. IsFiniteSet(new) /\ IsFiniteSet(put)
  <2>1. new \subseteq Message
    BY DEF Unqueued, OpenIn
  <2> HIDE DEF new
  <2> QED BY <1>3, <2>1, FS_Subset, OutboundAssumption
<1>5. /\ order \in Seq(put) /\ ToSet(order) = put /\ IsInjective(order)
      /\ Len(order) = Cardinality(put) /\ Cardinality(put) \in Nat
  BY <1>4, Ordered
<1>6. order \in Seq(Message) /\ Cardinality(new) \in Nat
  BY <1>3, <1>4, <1>5, FS_CardinalityType
<1>7. queue \in Seq(Message) /\ Len(queue) \in Nat /\ Len(queue) <= MaxQueue /\ MaxQueue \in Nat
  BY OutboundAssumption DEF TypeOK
<1>8. CASE ready /\ put # {}
  <2>1. order # <<>>
    BY <1>5, <1>8, Empty
  <2>2. /\ Head(order) \in put /\ Tail(order) \in Seq(Message) /\ IsInjective(Tail(order))
        /\ ToSet(Tail(order)) = put \ {Head(order)} /\ Len(Tail(order)) = Cardinality(put) - 1
    BY <1>5, <1>6, <2>1, Rest
  <2>3. Cardinality(put) - 1 <= MaxQueue
    BY <1>3, <1>5, <1>6, <1>7, <1>8, Empty
  <2>4. /\ loop = Idle /\ queue = <<>> /\ queue' = Tail(order) /\ loop' = Take(Head(order))
    BY <1>2, <1>8
  <2>5. \E m \in put : loop' = Take(m) /\ ToSet(queue') = put \ {m}
    BY <2>2, <2>4
  <2>6. queue' \in Seq(Message) /\ IsInjective(queue') /\ Len(queue') <= MaxQueue
    BY <2>2, <2>3, <2>4
  <2>7. loop = Idle /\ queue = <<>>
    BY <2>4
  <2>8. \E P \in SUBSET new :
          /\ requeued' = requeued \cup {m \in P : InFlight(m)}
          /\ stranded' = (stranded \cup {m \in new : ~InFlight(m)}) \ P
          /\ \/ loop' = loop /\ ToSet(queue') = ToSet(queue) \cup P
             \/ /\ loop = Idle /\ queue = <<>>
                /\ \E m \in P : loop' = Take(m) /\ ToSet(queue') = P \ {m}
    <3> HIDE DEF new
    <3> QED BY <1>3, <1>10, <2>5, <2>7, Zenon
  <2> QED BY <1>0, <2>6, <2>8, Zenon
<1>9. CASE ~(ready /\ put # {})
  <2>1. ToSet(queue) \cap ToSet(order) = {}
    BY <1>3, <1>5 DEF Unqueued
  <2>2. queue' = queue \o order /\ loop' = loop
    BY <1>2, <1>9
  <2>3. /\ queue' \in Seq(Message) /\ IsInjective(queue')
        /\ ToSet(queue') = ToSet(queue) \cup put
        /\ Len(queue') = Len(queue) + Cardinality(put)
    <3>1. /\ queue \o order \in Seq(Message) /\ IsInjective(queue \o order)
          /\ ToSet(queue \o order) = ToSet(queue) \cup ToSet(order)
          /\ Len(queue \o order) = Len(queue) + Len(order)
      <4>1. /\ queue \in Seq(Message) /\ order \in Seq(Message) /\ IsInjective(queue)
            /\ IsInjective(order) /\ ToSet(queue) \cap ToSet(order) = {}
        BY <1>5, <1>6, <1>7, <2>1
      <4> QED BY ONLY <4>1, Joined
    <3> QED BY <1>5, <2>2, <3>1
  <2>4. Len(queue) + Cardinality(put) <= MaxQueue
    <3>1. CASE ready
      <4>1. put = {} /\ Cardinality({}) = 0
        BY <1>9, <3>1, FS_EmptySet
      <4> QED BY <1>7, <4>1
    <3>2. CASE ~ready
      BY <1>3, <1>5, <1>6, <1>7, <3>2
    <3> QED BY <3>1, <3>2
  <2>5. Len(queue') <= MaxQueue
    BY <2>3, <2>4
  <2> QED BY <1>0, <1>3, <1>10, <2>2, <2>3, <2>5
<1> QED BY <1>8, <1>9
-----------------------------------------------------------------------------
(* One step                                                                 *)

LEMMA Values ==
  ASSUME TypeOK
  PROVE  /\ MaxAttempts \in Nat /\ 1 \in 0..MaxAttempts /\ 0 \in 0..MaxAttempts
         /\ Idle \in [msg   : Message \cup {NoMessage},
                      doing : {"idle", "taken", "sending", "backoff"},
                      try   : 0..MaxAttempts]
         /\ \A m \in Message : Idle.msg # m /\ Take(m).msg = m /\ Take(m).doing = "taken"
         /\ \A m \in Message : Take(m) \in [msg   : Message \cup {NoMessage},
                                           doing : {"idle", "taken", "sending", "backoff"},
                                           try   : 0..MaxAttempts]
BY OutboundAssumption DEF Idle, Take

(* A result is written on the message's own record, if there is one.        *)
LEMMA Finishing ==
  ASSUME TypeOK, NEW m \in Message, NEW result \in Terminal, Finish(m, result)
  PROVE  /\ box' \in [Message -> Open \cup Terminal \cup {"none"}] /\ tries' = tries
         /\ box'[m] \notin Open /\ (box'[m] = "delivered" => result = "delivered")
         /\ \A n \in Message : n # m => box'[n] = box[n]
BY DEF TypeOK, Finish, Open, Terminal

(* An attempt opens the message's own record, if there is one.              *)
LEMMA Marking ==
  ASSUME TypeOK, NEW m \in Message, NEW n \in 0..MaxAttempts, MarkAttempt(m, n)
  PROVE  /\ box' \in [Message -> Open \cup Terminal \cup {"none"}]
         /\ tries' \in [Message -> 0..MaxAttempts]
         /\ box[m] \in Open => box'[m] \in Open
         /\ box'[m] # "delivered"
         /\ \A k \in Message : k # m => box'[k] = box[k]
<1>1. tries[m] \in 0..MaxAttempts /\ Larger(tries[m], n) \in 0..MaxAttempts
  BY DEF TypeOK, Larger
<1> QED BY <1>1 DEF TypeOK, MarkAttempt, Open, Terminal

(* The dispatcher begins an attempt, or, stopped, cancels the message.      *)
LEMMA Trying ==
  ASSUME TypeOK, NEW m \in Message, NEW n \in 0..MaxAttempts, TryLoop(m, n)
  PROVE  /\ box' \in [Message -> Open \cup Terminal \cup {"none"}]
         /\ tries' \in [Message -> 0..MaxAttempts]
         /\ box'[m] # "delivered"
         /\ \A k \in Message : k # m => box'[k] = box[k]
         /\ \/ /\ loop' = [msg |-> m, doing |-> "sending", try |-> n]
               /\ box[m] \in Open => box'[m] \in Open
            \/ /\ loop' = Idle /\ box'[m] \notin Open
<1>1. CASE phase = "up"
  BY <1>1, Marking DEF TryLoop
<1>2. CASE phase # "up"
  <2>1. tries[m] \in 0..MaxAttempts /\ Larger(tries[m], n) \in 0..MaxAttempts
    BY DEF TypeOK, Larger
  <2> QED BY <1>2, <2>1 DEF TypeOK, TryLoop, Open, Terminal
<1> QED BY <1>1, <1>2

(* A step about one message: the others stay where they are.                *)
LEMMA Elsewhere ==
  ASSUME Single, OpenIsOwned, NEW m \in Message,
         requeued' = requeued, stranded \subseteq stranded', phase' = phase,
         \A n \in Message \ {m} :
           /\ box'[n] \in Open <=> box[n] \in Open
           /\ direct'[n] = direct[n]
           /\ loop'.msg = n <=> loop.msg = n
           /\ n \in ToSet(queue') <=> n \in ToSet(queue),
         m \notin requeued => OneWay(m)',
         phase = "up" /\ m \notin stranded' /\ box'[m] \in Open
           => direct'[m] # "none" \/ loop'.msg = m \/ m \in ToSet(queue')
  PROVE  Single' /\ OpenIsOwned'
<1>1. ASSUME NEW n \in Message \ requeued PROVE OneWay(n)'
  <2>1. CASE n = m
    BY <2>1
  <2>2. CASE n # m
    BY <2>2 DEF Single, OneWay, InFlight
  <2> QED BY <2>1, <2>2
<1>2. ASSUME phase' = "up", NEW n \in Message \ stranded', box'[n] \in Open
      PROVE  direct'[n] # "none" \/ loop'.msg = n \/ n \in ToSet(queue')
  BY <1>2 DEF OpenIsOwned, InFlight
<1>3. Single'
  BY <1>1 DEF Single
<1>4. OpenIsOwned'
  BY <1>2 DEF OpenIsOwned, InFlight
<1> QED BY <1>3, <1>4

(* The queue is in order and has room for what is in it, and an attempt     *)
(* that is to come is one of those there may be.                            *)
Sane == TypeOK /\ IsInjective(queue) /\ Bounded

LEMMA Kept ==
  ASSUME Sane, UNCHANGED vars
  PROVE  Sane'
BY DEF Sane, TypeOK, Bounded, vars, file

(* A record that is made with a status and a number of attempts.            *)
LEMMA Entering ==
  ASSUME TypeOK, NEW m \in Message, NEW status \in Open \cup Terminal,
         NEW n \in 0..MaxAttempts, Enters(m, status, n)
  PROVE  /\ box' \in [Message -> Open \cup Terminal \cup {"none"}]
         /\ tries' \in [Message -> 0..MaxAttempts]
         /\ box[m] = "none" /\ box'[m] = status /\ direct[m] = "none" /\ phase = "up"
         /\ \A k \in Message \ {m} : /\ box'[k] \in Open <=> box[k] \in Open
                                     /\ box'[k] = box[k] \/ box'[k] = "none"
         /\ UNCHANGED <<phase, queue, loop, prints, sent, requeued, retries>>
<1>1. PICK pruned \in SUBSET {k \in Message : box[k] \in Terminal} :
        /\ box'   = [k \in Message |-> IF k = m THEN status
                                       ELSE IF k \in pruned THEN "none" ELSE box[k]]
        /\ tries' = [k \in Message |-> IF k = m THEN n
                                       ELSE IF k \in pruned THEN 0 ELSE tries[k]]
  BY DEF Enters
<1>2. 0 \in 0..MaxAttempts
  BY Values
<1> QED BY <1>1, <1>2 DEF Enters, TypeOK, Open, Terminal

(* A fault is one of those there may be.                                    *)
LEMMA Faulting == ASSUME TypeOK, Fault PROVE faults' \in 0..MaxFaults
BY OutboundAssumption DEF TypeOK, Fault

(* A step of the sender.                                                    *)
LEMMA SendSane ==
  ASSUME Sane, NEW m \in Message, Send(m) \/ SendUnsaved(m) \/ DirectStep(m)
  PROVE  Sane'
<1>0. TypeOK /\ 1 \in 0..MaxAttempts /\ 0 \in 0..MaxAttempts
  BY Values DEF Sane
<1>1. CASE Send(m)
  <2>1. /\ Enters(m, "delivering", 1) /\ "delivering" \in Open \cup Terminal
        /\ direct' = [direct EXCEPT ![m] = "sending"] /\ attempt' = [attempt EXCEPT ![m] = 1]
        /\ UNCHANGED <<stranded, faults>>
    BY <1>1 DEF Send, Open
  <2>2. /\ box' \in [Message -> Open \cup Terminal \cup {"none"}]
        /\ tries' \in [Message -> 0..MaxAttempts]
        /\ UNCHANGED <<phase, queue, loop, prints, sent, requeued, retries>>
    BY <1>0, <2>1, Entering
  <2>3. Bounded'
    BY <1>0, <2>1, <2>2 DEF Sane, Bounded, TypeOK
  <2> QED BY <1>0, <2>1, <2>2, <2>3 DEF Sane, TypeOK
<1>10. CASE SendUnsaved(m)
  <2>1. PICK status \in {"failed", "pending"} : Enters(m, status, 0)
    BY <1>10 DEF SendUnsaved
  <2>2. status \in Open \cup Terminal
    BY DEF Open, Terminal
  <2>3. /\ box' \in [Message -> Open \cup Terminal \cup {"none"}]
        /\ tries' \in [Message -> 0..MaxAttempts]
        /\ UNCHANGED <<phase, queue, loop, prints, sent, requeued, retries>>
    BY <1>0, <2>1, <2>2, Entering
  <2>4. /\ faults' \in 0..MaxFaults /\ stranded' \subseteq Message
        /\ UNCHANGED <<direct, attempt>>
    BY <1>0, <1>10, Faulting DEF SendUnsaved, TypeOK
  <2>5. Bounded'
    BY <2>3, <2>4 DEF Sane, Bounded
  <2> QED BY <1>0, <2>3, <2>4, <2>5 DEF Sane, TypeOK
<1>2. ASSUME NEW result \in Terminal, DirectEnds(m, result), sent' \subseteq Message
      PROVE  Sane'
  <2>1. box' \in [Message -> Open \cup Terminal \cup {"none"}] /\ tries' = tries
    BY <1>0, <1>2, Finishing DEF DirectEnds
  <2>2. direct' = [direct EXCEPT ![m] = "none"] /\ attempt' = [attempt EXCEPT ![m] = 0]
    BY <1>2 DEF DirectEnds
  <2>3. Bounded'
    BY <1>0, <1>2, <2>2 DEF DirectEnds, Sane, Bounded, TypeOK
  <2>4. /\ direct' \in [Message -> {"none", "sending", "backoff"}]
        /\ attempt' \in [Message -> 0..MaxAttempts]
    BY <1>0, <2>2 DEF TypeOK
  <2>5. UNCHANGED <<phase, queue, loop, prints, requeued, stranded, faults, retries>>
    BY <1>2 DEF DirectEnds
  <2> QED BY <1>0, <1>2, <2>1, <2>3, <2>4, <2>5 DEF Sane, TypeOK
<1>3. CASE DirectSucceeds(m)
  BY <1>0, <1>2, <1>3 DEF DirectSucceeds, Terminal, TypeOK
<1>4. CASE DirectFails(m)
  BY <1>0, <1>2, <1>4 DEF DirectFails, Terminal, TypeOK
<1>5. CASE DirectThrows(m)
  <2>1. direct' = [direct EXCEPT ![m] = "backoff"] /\ attempt[m] < MaxAttempts
    BY <1>5 DEF DirectThrows
  <2>2. Bounded'
    BY <1>0, <1>5, <2>1 DEF DirectThrows, Sane, Bounded, TypeOK
  <2> QED BY <1>0, <1>5, <2>1, <2>2 DEF DirectThrows, Sane, TypeOK, file
<1>6. CASE DirectRetries(m)
  <2>1. attempt[m] + 1 \in 0..MaxAttempts
    <3>1. attempt[m] \in 0..MaxAttempts /\ attempt[m] < MaxAttempts
      BY <1>0, <1>6 DEF DirectRetries, Sane, Bounded, TypeOK
    <3> QED BY <3>1, <1>0, Values
  <2>2. /\ box' \in [Message -> Open \cup Terminal \cup {"none"}]
        /\ tries' \in [Message -> 0..MaxAttempts]
    BY <1>0, <1>6, <2>1, Marking DEF DirectRetries
  <2>3. /\ direct' = [direct EXCEPT ![m] = "sending"]
        /\ attempt' = [attempt EXCEPT ![m] = attempt[m] + 1]
    BY <1>6 DEF DirectRetries
  <2>4. Bounded'
    BY <1>0, <1>6, <2>3 DEF DirectRetries, Sane, Bounded, TypeOK
  <2>5. attempt' \in [Message -> 0..MaxAttempts]
    BY <1>0, <2>1, <2>3 DEF TypeOK
  <2>6. direct' \in [Message -> {"none", "sending", "backoff"}]
    BY <1>0, <2>3 DEF TypeOK
  <2> QED BY <1>0, <1>6, <2>2, <2>4, <2>5, <2>6 DEF DirectRetries, Sane, TypeOK
<1>7. CASE DirectUnsaved(m)
  <2>1. /\ direct' = [direct EXCEPT ![m] = "none"] /\ attempt' = [attempt EXCEPT ![m] = 0]
        /\ UNCHANGED <<phase, queue, loop, prints, requeued, retries>>
        /\ Finish(m, "failed") \/ UNCHANGED file
    BY <1>7 DEF DirectUnsaved
  <2>2. /\ box' \in [Message -> Open \cup Terminal \cup {"none"}]
        /\ tries' \in [Message -> 0..MaxAttempts]
    <3>1. CASE Finish(m, "failed")
      BY <1>0, <3>1, Finishing DEF Terminal, TypeOK
    <3>2. CASE UNCHANGED file
      BY <1>0, <3>2 DEF file, TypeOK
    <3> QED BY <2>1, <3>1, <3>2
  <2>3. faults' \in 0..MaxFaults /\ sent' \subseteq Message /\ stranded' \subseteq Message
    BY <1>0, <1>7, Faulting DEF DirectUnsaved, TypeOK
  <2>4. Bounded'
    BY <1>0, <2>1 DEF Sane, Bounded, TypeOK
  <2>5. /\ direct' \in [Message -> {"none", "sending", "backoff"}]
        /\ attempt' \in [Message -> 0..MaxAttempts]
    BY <1>0, <2>1 DEF TypeOK
  <2> QED BY <1>0, <2>1, <2>2, <2>3, <2>4, <2>5 DEF Sane, TypeOK
<1> QED BY <1>1, <1>3, <1>4, <1>5, <1>6, <1>7, <1>10 DEF DirectStep

(* What the dispatcher does with its message: it is done with it, or it     *)
(* tries, or waits.  The queue and the senders are not touched.             *)
LEMMA LoopDoes ==
  ASSUME Sane, NEW m \in Message, LoopStep(m)
  PROVE  /\ loop.msg = m /\ queue' = queue /\ faults' \in 0..MaxFaults
         /\ UNCHANGED <<phase, direct, attempt, requeued, retries>>
         /\ box' \in [Message -> Open \cup Terminal \cup {"none"}]
         /\ tries' \in [Message -> 0..MaxAttempts]
         /\ prints \subseteq prints' /\ prints' \subseteq Origin
         /\ sent \subseteq sent' /\ sent' \subseteq sent \cup {m}
         /\ stranded \subseteq stranded' /\ stranded' \subseteq stranded \cup {m}
         /\ \A n \in Message : n # m => box'[n] = box[n]
         /\ box'[m] = "delivered" =>
              m \in sent' \/ OriginOf[m] \in prints \/ box'[m] = box[m]
         /\ \/ loop' = Idle /\ (box'[m] \notin Open \/ m \in stranded')
            \/ /\ loop'.msg = m /\ (box[m] \in Open => box'[m] \in Open)
               /\ loop' \in [msg   : Message \cup {NoMessage},
                             doing : {"idle", "taken", "sending", "backoff"},
                             try   : 0..MaxAttempts]
               /\ loop'.doing = "backoff" => loop'.try < MaxAttempts
<1>0. /\ TypeOK /\ 1 \in 0..MaxAttempts /\ MaxAttempts \in Nat /\ loop.try \in 0..MaxAttempts
      /\ loop.doing = "backoff" => loop.try < MaxAttempts
      /\ OriginOf[m] \in Origin \cup {NoOrigin} /\ prints \subseteq Origin
      /\ faults \in 0..MaxFaults
  BY Values, OutboundAssumption DEF Sane, TypeOK, Bounded
<1>1. CASE RouteSilent(m)
  BY <1>0, <1>1 DEF RouteSilent, TypeOK, file, others
<1>2. CASE RouteStreamed(m)
  <2>1. Finish(m, "delivered") BY <1>2 DEF RouteStreamed
  <2>2. /\ box' \in [Message -> Open \cup Terminal \cup {"none"}] /\ tries' = tries
        /\ box'[m] \notin Open /\ \A n \in Message : n # m => box'[n] = box[n]
    BY <1>0, <2>1, Finishing DEF Terminal
  <2> QED BY <1>0, <1>2, <2>2 DEF RouteStreamed, TypeOK, others
<1>3. CASE RouteUnknown(m)
  <2>1. Finish(m, "failed") BY <1>3 DEF RouteUnknown
  <2>2. /\ box' \in [Message -> Open \cup Terminal \cup {"none"}] /\ tries' = tries
        /\ box'[m] \notin Open /\ box'[m] # "delivered"
        /\ \A n \in Message : n # m => box'[n] = box[n]
    BY <1>0, <2>1, Finishing DEF Terminal
  <2> QED BY <1>0, <1>3, <2>2 DEF RouteUnknown, TypeOK, others
<1>4. CASE RouteDuplicate(m)
  <2>1. Finish(m, "delivered") BY <1>4 DEF RouteDuplicate
  <2>2. /\ box' \in [Message -> Open \cup Terminal \cup {"none"}] /\ tries' = tries
        /\ box'[m] \notin Open /\ \A n \in Message : n # m => box'[n] = box[n]
    BY <1>0, <2>1, Finishing DEF Terminal
  <2> QED BY <1>0, <1>4, <2>2 DEF RouteDuplicate, TypeOK, others
<1>5. ASSUME NEW n \in 0..MaxAttempts, TryLoop(m, n)
      PROVE  /\ box' \in [Message -> Open \cup Terminal \cup {"none"}]
             /\ tries' \in [Message -> 0..MaxAttempts] /\ box'[m] # "delivered"
             /\ \A k \in Message : k # m => box'[k] = box[k]
             /\ \/ loop' = Idle /\ box'[m] \notin Open
                \/ /\ loop'.msg = m /\ (box[m] \in Open => box'[m] \in Open)
                   /\ loop' \in [msg   : Message \cup {NoMessage},
                                 doing : {"idle", "taken", "sending", "backoff"},
                                 try   : 0..MaxAttempts]
                   /\ loop'.doing # "backoff"
  BY <1>0, <1>5, Trying
<1>6. CASE RouteDeliver(m)
  <2>1. prints \subseteq prints' /\ prints' \subseteq Origin
    BY <1>0, <1>6 DEF RouteDeliver
  <2>2. TryLoop(m, 1) BY <1>6 DEF RouteDeliver
  <2> QED BY <1>0, <1>5, <1>6, <2>1, <2>2 DEF RouteDeliver, others
<1>7. CASE LoopSucceeds(m)
  <2>1. Finish(m, "delivered") BY <1>7 DEF LoopSucceeds
  <2>2. /\ box' \in [Message -> Open \cup Terminal \cup {"none"}] /\ tries' = tries
        /\ box'[m] \notin Open /\ \A n \in Message : n # m => box'[n] = box[n]
    BY <1>0, <2>1, Finishing DEF Terminal
  <2> QED BY <1>0, <1>7, <2>2 DEF LoopSucceeds, TypeOK, others
<1>8. CASE LoopFails(m)
  <2>1. Finish(m, "failed") BY <1>8 DEF LoopFails
  <2>2. /\ box' \in [Message -> Open \cup Terminal \cup {"none"}] /\ tries' = tries
        /\ box'[m] \notin Open /\ box'[m] # "delivered"
        /\ \A n \in Message : n # m => box'[n] = box[n]
    BY <1>0, <2>1, Finishing DEF Terminal
  <2> QED BY <1>0, <1>8, <2>2 DEF LoopFails, TypeOK, others
<1>9. CASE LoopThrows(m)
  BY <1>0, <1>9 DEF LoopThrows, TypeOK, file, others
<1>10. CASE LoopRetries(m)
  <2>1. loop.try + 1 \in 0..MaxAttempts
    BY <1>0, <1>10 DEF LoopRetries
  <2>2. TryLoop(m, loop.try + 1) BY <1>10 DEF LoopRetries
  <2> QED BY <1>0, <1>5, <1>10, <2>1, <2>2 DEF LoopRetries, others
<1>11. CASE LoopAborted(m)
  <2>1. Finish(m, "cancelled") BY <1>11 DEF LoopAborted
  <2>2. /\ box' \in [Message -> Open \cup Terminal \cup {"none"}] /\ tries' = tries
        /\ box'[m] \notin Open /\ box'[m] # "delivered"
        /\ \A n \in Message : n # m => box'[n] = box[n]
    BY <1>0, <2>1, Finishing DEF Terminal
  <2> QED BY <1>0, <1>11, <2>2 DEF LoopAborted, TypeOK, others
<1>12. CASE LoopUnsaved(m)
  <2>1. /\ loop.msg = m /\ queue' = queue /\ UNCHANGED <<phase, direct, attempt, requeued, retries>>
        /\ UNCHANGED <<prints, stranded>> /\ sent \subseteq sent' /\ sent' \subseteq sent \cup {m}
    BY <1>12 DEF LoopUnsaved
  <2>2. faults' \in 0..MaxFaults
    BY <1>0, <1>12, Faulting DEF LoopUnsaved
  <2>3. CASE loop.try < MaxAttempts
    <3>1. loop' = [loop EXCEPT !.doing = "backoff"] /\ box' = box /\ tries' = tries
      BY <1>12, <2>3 DEF LoopUnsaved, file
    <3> QED BY <1>0, <2>1, <2>2, <2>3, <3>1 DEF TypeOK
  <2>4. CASE ~(loop.try < MaxAttempts)
    <3>1. loop' = Idle /\ Finish(m, "failed")
      BY <1>12, <2>4 DEF LoopUnsaved
    <3>2. /\ box' \in [Message -> Open \cup Terminal \cup {"none"}] /\ tries' = tries
          /\ box'[m] \notin Open /\ box'[m] # "delivered"
          /\ \A n \in Message : n # m => box'[n] = box[n]
      BY <1>0, <3>1, Finishing DEF Terminal
    <3> QED BY <1>0, <2>1, <2>2, <3>1, <3>2 DEF TypeOK
  <2> QED BY <2>3, <2>4
<1> QED BY <1>1, <1>2, <1>3, <1>4, <1>6, <1>7, <1>8, <1>9, <1>10, <1>11, <1>12 DEF LoopStep

(* A step of the dispatcher on its message.                                 *)
LEMMA LoopSane ==
  ASSUME Sane, NEW m \in Message, LoopStep(m)
  PROVE  Sane'
<1>1. /\ UNCHANGED <<phase, direct, attempt, requeued, retries>> /\ faults' \in 0..MaxFaults
      /\ queue' = queue
      /\ box' \in [Message -> Open \cup Terminal \cup {"none"}]
      /\ tries' \in [Message -> 0..MaxAttempts]
      /\ prints' \subseteq Origin /\ sent' \subseteq sent \cup {m}
      /\ stranded' \subseteq stranded \cup {m}
  BY LoopDoes
<1>2. /\ loop' \in [msg   : Message \cup {NoMessage},
                    doing : {"idle", "taken", "sending", "backoff"},
                    try   : 0..MaxAttempts]
      /\ loop'.doing = "backoff" => loop'.try < MaxAttempts
  <2>1. \/ loop' = Idle
        \/ /\ loop' \in [msg   : Message \cup {NoMessage},
                          doing : {"idle", "taken", "sending", "backoff"},
                          try   : 0..MaxAttempts]
           /\ loop'.doing = "backoff" => loop'.try < MaxAttempts
    BY LoopDoes
  <2>2. TypeOK BY DEF Sane
  <2>3. Idle.doing # "backoff" BY DEF Idle
  <2> QED BY <2>1, <2>2, <2>3, Values
<1> QED BY <1>1, <1>2 DEF Sane, TypeOK, Bounded

(* A recovery.                                                              *)
LEMMA RecoverSane ==
  ASSUME Sane, NEW b \in [Message -> Open \cup Terminal \cup {"none"}],
         NEW ready \in BOOLEAN, Recover(b, ready) \/ RecoverBreaks(b, ready),
         ready => loop = Idle /\ queue = <<>>,
         tries' \in [Message -> 0..MaxAttempts], phase' = "up", faults' \in 0..MaxFaults,
         UNCHANGED <<direct, attempt, prints, sent>>, retries' \in 0..MaxRetries
  PROVE  Sane'
<1>0. TypeOK /\ IsInjective(queue)
  BY DEF Sane
<1>1. /\ queue' \in Seq(Message) /\ IsInjective(queue') /\ Len(queue') <= MaxQueue
      /\ (box' = Recovered(b) \/ box' = b)
      /\ \E put \in SUBSET Unqueued(b) :
           /\ requeued' = requeued \cup {m \in put : InFlight(m)}
           /\ stranded' = (stranded \cup {m \in Unqueued(b) : ~InFlight(m)}) \ put
           /\ loop' = loop \/ \E m \in put : loop' = Take(m)
  BY <1>0, Recovering, Zenon
<1>2. Unqueued(b) \subseteq Message
  BY DEF Unqueued, OpenIn
<1>3. requeued' \subseteq Message /\ stranded' \subseteq Message
  BY <1>0, <1>1, <1>2 DEF TypeOK
<1>4. loop' = loop \/ \E m \in Message : loop' = Take(m)
  BY <1>1, <1>2
<1>5. /\ loop' \in [msg   : Message \cup {NoMessage},
                    doing : {"idle", "taken", "sending", "backoff"},
                    try   : 0..MaxAttempts]
      /\ loop'.doing = "backoff" => loop'.try < MaxAttempts
  <2>1. CASE loop' = loop
    BY <1>0, <2>1 DEF TypeOK, Sane, Bounded
  <2>2. ASSUME NEW m \in Message, loop' = Take(m)
        PROVE  /\ loop' \in [msg   : Message \cup {NoMessage},
                             doing : {"idle", "taken", "sending", "backoff"},
                             try   : 0..MaxAttempts]
               /\ loop'.doing # "backoff"
    BY <1>0, <2>2, Values
  <2> QED BY <1>4, <2>1, <2>2
<1>6. box' \in [Message -> Open \cup Terminal \cup {"none"}]
  BY <1>1 DEF Recovered, Open, Terminal
<1>7. TypeOK'
  BY <1>0, <1>1, <1>3, <1>5, <1>6 DEF TypeOK
<1>8. Bounded'
  BY <1>5 DEF Sane, Bounded
<1> QED BY <1>1, <1>7, <1>8 DEF Sane

LEMMA SaneStep ==
  ASSUME Sane, [Next]_vars
  PROVE  Sane'
<1>0. TypeOK /\ IsInjective(queue) /\ queue \in Seq(Message)
  BY DEF Sane, TypeOK
<1>1. ASSUME NEW m \in Message, Send(m) \/ SendUnsaved(m) \/ DirectStep(m) PROVE Sane'
  BY <1>1, SendSane
<1>2. ASSUME NEW m \in Message, LoopStep(m) PROVE Sane'
  BY <1>2, LoopSane
<1>3. ASSUME NEW m \in Message, RetryDelivery(m) PROVE Sane'
  <2> DEFINE b == [box EXCEPT ![m] = "pending"]
  <2> DEFINE ready == loop = Idle /\ queue = <<>>
  <2>1. b \in [Message -> Open \cup Terminal \cup {"none"}] /\ ready \in BOOLEAN
    BY <1>0 DEF TypeOK, Open
  <2>2. /\ tries' \in [Message -> 0..MaxAttempts]
        /\ \/ Recover(b, ready) /\ UNCHANGED faults
           \/ RecoverBreaks(b, ready) /\ Fault
    BY <1>0, <1>3, Values DEF RetryDelivery, TypeOK
  <2>3. retries' \in 0..MaxRetries
    BY <1>0, <1>3, OutboundAssumption DEF RetryDelivery, TypeOK
  <2>4. phase' = "up" /\ UNCHANGED <<direct, attempt, prints, sent>>
    BY <1>3 DEF RetryDelivery
  <2>6. faults' \in 0..MaxFaults
    <3> HIDE DEF b, ready
    <3> QED BY <1>0, <2>2, Faulting DEF TypeOK
  <2>5. ready => loop = Idle /\ queue = <<>>
    OBVIOUS
  <2> HIDE DEF b, ready
  <2> QED BY <2>1, <2>2, <2>3, <2>4, <2>5, <2>6, RecoverSane
<1>4. ASSUME NEW m \in Message, Clean(m) PROVE Sane'
  <2>1. 0 \in 0..MaxAttempts
    BY <1>0, Values
  <2>2. /\ box' \in [Message -> Open \cup Terminal \cup {"none"}]
        /\ tries' \in [Message -> 0..MaxAttempts]
    BY <1>0, <1>4, <2>1 DEF Clean, TypeOK
  <2> QED BY <1>4, <2>2 DEF Clean, Sane, TypeOK, Bounded
<1>5. CASE Consume
  <2>1. Head(queue) \in Message
    BY <1>0, <1>5, Rest DEF Consume
  <2>2. Tail(queue) \in Seq(Message) /\ IsInjective(Tail(queue)) /\ Len(Tail(queue)) = Len(queue) - 1
    BY <1>0, <1>5, Rest DEF Consume
  <2>3. Len(Tail(queue)) <= MaxQueue
    BY <1>0, <2>2, OutboundAssumption DEF TypeOK
  <2>4. /\ loop' \in [msg   : Message \cup {NoMessage},
                      doing : {"idle", "taken", "sending", "backoff"},
                      try   : 0..MaxAttempts]
        /\ loop'.doing # "backoff"
    BY <1>0, <1>5, <2>1, Values DEF Consume
  <2>5. queue' = Tail(queue) /\ UNCHANGED <<file, prints, sent, stranded, others>>
    BY <1>5 DEF Consume
  <2> QED BY <2>2, <2>3, <2>4, <2>5 DEF Sane, TypeOK, Bounded, file, others
<1>6. CASE Start
  <2>1. /\ \/ Recover(box, FALSE) /\ UNCHANGED faults
           \/ RecoverBreaks(box, FALSE) /\ Fault
        /\ phase' = "up" /\ UNCHANGED <<tries, direct, attempt, prints, sent, retries>>
    BY <1>6 DEF Start
  <2>3. faults' \in 0..MaxFaults
    BY <1>0, <2>1, Faulting DEF TypeOK
  <2>2. /\ box \in [Message -> Open \cup Terminal \cup {"none"}]
        /\ tries' \in [Message -> 0..MaxAttempts] /\ retries' \in 0..MaxRetries
    BY <1>0, <2>1 DEF TypeOK
  <2> QED BY <2>1, <2>2, <2>3, RecoverSane
<1>7. <<>> \in Seq(Message) /\ IsInjective(<<>>) /\ Len(<<>>) <= MaxQueue
  BY Empty, OutboundAssumption
<1>8. CASE Stop
  <2>1. faults' \in 0..MaxFaults
    BY <1>0, <1>8, Faulting DEF Stop
  <2>2. UNCHANGED <<file, direct, attempt, loop, prints, sent, requeued, stranded, retries>>
        /\ queue' = <<>> /\ phase' = "stopping"
    BY <1>8 DEF Stop
  <2> QED BY <1>7, <2>1, <2>2 DEF Sane, TypeOK, Bounded, file
<1>9. ASSUME Lost, faults' \in 0..MaxFaults PROVE Sane'
  <2>1. /\ 0 \in 0..MaxAttempts
        /\ Idle \in [msg   : Message \cup {NoMessage},
                     doing : {"idle", "taken", "sending", "backoff"},
                     try   : 0..MaxAttempts]
    BY <1>0, Values
  <2>2. attempt' \in [Message -> 0..MaxAttempts] /\ direct' \in [Message -> {"none", "sending", "backoff"}]
    BY <1>9, <2>1 DEF Lost
  <2>3. Bounded'
    BY <1>9 DEF Bounded, Lost, Idle
  <2> QED BY <1>7, <1>9, <2>1, <2>2, <2>3 DEF Lost, Sane, TypeOK, file
<1>10. CASE Exit
  BY <1>0, <1>9, <1>10 DEF Exit, TypeOK
<1>11. CASE Crash
  <2>1. faults' \in 0..MaxFaults
    BY <1>0, <1>11, Faulting DEF Crash
  <2> QED BY <1>9, <1>11, <2>1 DEF Crash
<1>12. CASE UNCHANGED vars
  BY <1>12, Kept
<1> QED BY <1>1, <1>2, <1>3, <1>4, <1>5, <1>6, <1>8, <1>10, <1>11, <1>12 DEF Next
-----------------------------------------------------------------------------
(* Where a message is                                                       *)

(* A step of the sender, about the message that it sends.                   *)
LEMMA SendWay ==
  ASSUME TypeOK, Single, OpenIsOwned, NEW m \in Message,
         Send(m) \/ SendUnsaved(m) \/ DirectStep(m)
  PROVE  Single' /\ OpenIsOwned'
<1>1. /\ requeued' = requeued /\ stranded \subseteq stranded' /\ phase' = phase
      /\ loop' = loop /\ queue' = queue
  BY DEF Send, SendUnsaved, Enters, DirectStep, DirectSucceeds, DirectFails, DirectThrows,
         DirectRetries, DirectUnsaved, DirectEnds
<1>2. m \notin requeued => OneWay(m)
  BY DEF Single
<1>3. CASE Send(m)
  <2>1. Enters(m, "delivering", 1) /\ direct' = [direct EXCEPT ![m] = "sending"]
    BY <1>3 DEF Send
  <2>2. "delivering" \in Open \cup Terminal /\ "delivering" \in Open /\ "none" \notin Open
        /\ 1 \in 0..MaxAttempts
    BY Values DEF Open
  <2>3. /\ box'[m] \in Open /\ direct'[m] # "none" /\ box[m] \notin Open
        /\ \A n \in Message \ {m} : (box'[n] \in Open <=> box[n] \in Open) /\ direct'[n] = direct[n]
    BY <2>1, <2>2, Entering DEF TypeOK
  <2>4. m \notin requeued => OneWay(m)'
    BY <1>1, <1>2, <2>3 DEF OneWay
  <2> QED BY <1>1, <2>3, <2>4, Elsewhere
<1>10. CASE SendUnsaved(m)
  <2>1. PICK status \in {"failed", "pending"} :
          Enters(m, status, 0) /\ (status = "pending" => m \in stranded')
    BY <1>10 DEF SendUnsaved
  <2>2. /\ status \in Open \cup Terminal /\ "none" \notin Open /\ 0 \in 0..MaxAttempts
        /\ "failed" \notin Open
    BY Values DEF Open, Terminal
  <2>3. /\ box[m] = "none" /\ box'[m] = status /\ direct[m] = "none" /\ direct' = direct
        /\ \A n \in Message \ {m} : box'[n] \in Open <=> box[n] \in Open
    BY <1>10, <2>1, <2>2, Entering DEF SendUnsaved
  <2>4. box'[m] \in Open => m \in stranded'
    BY <2>1, <2>2, <2>3
  <2>5. m \notin requeued => OneWay(m)'
    BY <1>1, <1>2, <2>2, <2>3 DEF OneWay, InFlight
  <2> QED BY <1>1, <2>3, <2>4, <2>5, Elsewhere
<1>4. ASSUME NEW result \in Terminal, direct[m] = "sending", DirectEnds(m, result)
      PROVE  Single' /\ OpenIsOwned'
  <2>1. direct' = [direct EXCEPT ![m] = "none"] /\ Finish(m, result)
    BY <1>4 DEF DirectEnds
  <2>2. box'[m] \notin Open /\ \A n \in Message \ {m} : box'[n] = box[n]
    BY <2>1, Finishing
  <2>3. /\ direct'[m] = "none" /\ direct[m] # "none"
        /\ \A n \in Message \ {m} : (box'[n] \in Open <=> box[n] \in Open) /\ direct'[n] = direct[n]
    BY <1>4, <2>1, <2>2 DEF TypeOK
  <2>4. m \notin requeued => OneWay(m)'
    BY <1>1, <1>2, <2>2, <2>3 DEF OneWay, InFlight
  <2> QED BY <1>1, <2>2, <2>3, <2>4, Elsewhere
<1>5. CASE DirectSucceeds(m)
  BY <1>4, <1>5 DEF DirectSucceeds, Terminal
<1>6. CASE DirectFails(m)
  BY <1>4, <1>6 DEF DirectFails, Terminal
<1>7. ASSUME direct[m] # "none", direct'[m] # "none", box[m] \in Open => box'[m] \in Open,
             \A n \in Message \ {m} : box'[n] = box[n] /\ direct'[n] = direct[n]
      PROVE  Single' /\ OpenIsOwned'
  <2>1. m \notin requeued => OneWay(m)'
    BY <1>1, <1>2, <1>7 DEF OneWay, InFlight
  <2> QED BY <1>1, <1>7, <2>1, Elsewhere
<1>8. CASE DirectThrows(m)
  <2>1. direct[m] = "sending" /\ direct' = [direct EXCEPT ![m] = "backoff"] /\ box' = box
    BY <1>8 DEF DirectThrows, file
  <2>2. direct'[m] = "backoff" /\ \A n \in Message \ {m} : direct'[n] = direct[n]
    BY <2>1 DEF TypeOK
  <2> QED BY <1>7, <2>1, <2>2
<1>9. CASE DirectRetries(m)
  <2>1. direct[m] = "backoff" /\ direct' = [direct EXCEPT ![m] = "sending"]
    BY <1>9 DEF DirectRetries
  <2>2. direct'[m] = "sending" /\ \A n \in Message \ {m} : direct'[n] = direct[n]
    BY <2>1 DEF TypeOK
  <2>3. box' = [box EXCEPT ![m] = IF @ = "none" THEN @ ELSE "delivering"]
    BY <1>9 DEF DirectRetries, MarkAttempt
  <2>4. (box[m] \in Open => box'[m] \in Open) /\ \A n \in Message \ {m} : box'[n] = box[n]
    BY <2>3 DEF TypeOK, Open
  <2> QED BY <1>7, <2>1, <2>2, <2>4
<1>11. CASE DirectUnsaved(m)
  <2>1. /\ direct[m] # "none" /\ direct' = [direct EXCEPT ![m] = "none"]
        /\ \/ Finish(m, "failed")
           \/ box' = box /\ (box[m] \in Open => m \in stranded')
    BY <1>11 DEF DirectUnsaved, file, OpenIn
  <2>2. /\ box'[m] \in Open => m \in stranded' /\ box[m] \in Open
        /\ \A n \in Message \ {m} : box'[n] = box[n]
    <3>1. CASE Finish(m, "failed")
      BY <3>1, Finishing DEF Terminal
    <3>2. CASE box' = box /\ (box[m] \in Open => m \in stranded')
      BY <3>2
    <3> QED BY <2>1, <3>1, <3>2
  <2>3. direct'[m] = "none" /\ \A n \in Message \ {m} : direct'[n] = direct[n]
    BY <2>1 DEF TypeOK
  <2>4. m \notin requeued => OneWay(m)'
    BY <1>1, <1>2, <2>1, <2>2, <2>3 DEF OneWay, InFlight
  <2> QED BY <1>1, <2>2, <2>3, <2>4, Elsewhere
<1> QED BY <1>3, <1>5, <1>6, <1>8, <1>9, <1>10, <1>11 DEF DirectStep

(* A step of the dispatcher, about the message that it has.                 *)
LEMMA LoopWay ==
  ASSUME Sane, Single, OpenIsOwned, NEW m \in Message, LoopStep(m)
  PROVE  Single' /\ OpenIsOwned'
<1>1. TypeOK
  BY DEF Sane
<1>2. /\ loop.msg = m /\ queue' = queue /\ stranded \subseteq stranded'
      /\ phase' = phase /\ requeued' = requeued /\ direct' = direct
      /\ \A n \in Message \ {m} : box'[n] = box[n]
  BY LoopDoes
<1>3. \/ loop' = Idle /\ (box'[m] \notin Open \/ m \in stranded')
      \/ loop'.msg = m /\ (box[m] \in Open => box'[m] \in Open)
  BY LoopDoes, Zenon
<1>4. m \notin requeued => OneWay(m)
  BY DEF Single
<1>5. CASE loop' = Idle /\ (box'[m] \notin Open \/ m \in stranded')
  <2>1. \A n \in Message : loop'.msg # n
    BY <1>1, <1>5, Values
  <2>2. m \notin requeued => OneWay(m)'
    BY <1>2, <1>4, <2>1 DEF OneWay, InFlight
  <2> QED BY <1>2, <1>5, <2>1, <2>2, Elsewhere
<1>6. CASE loop'.msg = m /\ (box[m] \in Open => box'[m] \in Open)
  <2>1. m \notin requeued => OneWay(m)'
    BY <1>2, <1>4, <1>6 DEF OneWay, InFlight
  <2> QED BY <1>2, <1>6, <2>1, Elsewhere
<1> QED BY <1>3, <1>5, <1>6

(* A recovery: what it finds without an owner it queues, and remembers who  *)
(* had one.                                                                 *)
LEMMA RecoverWay ==
  ASSUME Sane, Single, OpenIsOwned, NEW b, NEW ready \in BOOLEAN,
         Recover(b, ready) \/ RecoverBreaks(b, ready),
         ready => loop = Idle /\ queue = <<>>, direct' = direct,
         \A n \in Message : box[n] \in Open => b[n] \in Open
  PROVE  Single' /\ OpenIsOwned'
<1>0. TypeOK /\ IsInjective(queue)
  BY DEF Sane
<1>1. box' = Recovered(b) \/ box' = b
  BY <1>0, Recovering
<1>2. PICK put \in SUBSET Unqueued(b) :
        /\ requeued' = requeued \cup {m \in put : InFlight(m)}
        /\ stranded' = (stranded \cup {m \in Unqueued(b) : ~InFlight(m)}) \ put
        /\ \/ loop' = loop /\ ToSet(queue') = ToSet(queue) \cup put
           \/ /\ loop = Idle /\ queue = <<>>
              /\ \E m \in put : loop' = Take(m) /\ ToSet(queue') = put \ {m}
  BY <1>0, Recovering, Zenon
<1>3. \A n \in Message : box'[n] \in Open <=> b[n] \in Open
  BY <1>1 DEF Recovered, Open
<1>4. put \subseteq Message /\ \A n \in put : b[n] \in Open /\ n \notin ToSet(queue)
  BY <1>2 DEF Unqueued, OpenIn
<1>5. \A n \in Message : b[n] \in Open /\ n \notin ToSet(queue) /\ n \notin put
                         => n \in stranded' \/ InFlight(n)
  BY <1>2 DEF Unqueued, OpenIn
<1>6. ASSUME loop' = loop, ToSet(queue') = ToSet(queue) \cup put PROVE Single' /\ OpenIsOwned'
  <2>1. ASSUME NEW n \in Message \ requeued' PROVE OneWay(n)'
    <3>1. OneWay(n) /\ (n \in put => ~InFlight(n))
      BY <1>2, <2>1 DEF Single
    <3>2. (box[n] \in Open => box'[n] \in Open) /\ (n \in put => box'[n] \in Open)
      BY <1>3, <1>4
    <3> QED BY <1>6, <3>1, <3>2 DEF OneWay, InFlight
  <2>2. Single'
    BY <2>1 DEF Single
  <2>3. ASSUME NEW n \in Message \ stranded', box'[n] \in Open
        PROVE  n \in ToSet(queue') \/ InFlight(n)'
    BY <1>3, <1>5, <1>6, <2>3 DEF InFlight
  <2> QED BY <2>2, <2>3 DEF OpenIsOwned
<1>7. ASSUME loop = Idle, queue = <<>>, NEW k \in put, loop' = Take(k), ToSet(queue') = put \ {k}
      PROVE  Single' /\ OpenIsOwned'
  <2>0. ToSet(queue) = {} /\ loop'.msg = k /\ \A n \in Message : loop.msg # n
    BY <1>0, <1>4, <1>7, Empty, Values
  <2>1. ASSUME NEW n \in Message \ requeued' PROVE OneWay(n)'
    <3>1. OneWay(n) /\ (n \in put => ~InFlight(n))
      BY <1>2, <2>1 DEF Single
    <3>2. (box[n] \in Open => box'[n] \in Open) /\ (n \in put => box'[n] \in Open)
      BY <1>3, <1>4
    <3> QED BY <1>7, <2>0, <3>1, <3>2 DEF OneWay, InFlight
  <2>2. Single'
    BY <2>1 DEF Single
  <2>3. ASSUME NEW n \in Message \ stranded', box'[n] \in Open
        PROVE  n \in ToSet(queue') \/ loop'.msg = n \/ direct'[n] # "none"
    BY <1>3, <1>5, <1>7, <2>0, <2>3 DEF InFlight
  <2>4. OpenIsOwned'
    BY <2>3 DEF OpenIsOwned, InFlight
  <2> QED BY <2>2, <2>4
<1> QED BY <1>2, <1>6, <1>7

LEMMA WayStep ==
  ASSUME Sane, Single, OpenIsOwned, [Next]_vars
  PROVE  Single' /\ OpenIsOwned'
<1>0. TypeOK /\ IsInjective(queue) /\ queue \in Seq(Message)
  BY DEF Sane, TypeOK
<1>1. ASSUME NEW m \in Message, Send(m) \/ SendUnsaved(m) \/ DirectStep(m)
      PROVE  Single' /\ OpenIsOwned'
  BY <1>0, <1>1, SendWay
<1>2. ASSUME NEW m \in Message, LoopStep(m) PROVE Single' /\ OpenIsOwned'
  BY <1>2, LoopWay
<1>3. ASSUME NEW m \in Message, RetryDelivery(m) PROVE Single' /\ OpenIsOwned'
  <2> DEFINE b == [box EXCEPT ![m] = "pending"]
  <2> DEFINE ready == loop = Idle /\ queue = <<>>
  <2>1. ready \in BOOLEAN /\ (ready => loop = Idle /\ queue = <<>>)
    OBVIOUS
  <2>2. \A n \in Message : box[n] \in Open => b[n] \in Open
    BY <1>0 DEF TypeOK, Open
  <2>3. (Recover(b, ready) \/ RecoverBreaks(b, ready)) /\ direct' = direct
    BY <1>3 DEF RetryDelivery
  <2> HIDE DEF b, ready
  <2> QED BY <2>1, <2>2, <2>3, RecoverWay
<1>4. ASSUME NEW m \in Message, Clean(m) PROVE Single' /\ OpenIsOwned'
  <2>1. \A n \in Message : box'[n] \in Open <=> box[n] \in Open
    BY <1>0, <1>4 DEF Clean, TypeOK, Open, Terminal
  <2>2. UNCHANGED <<phase, direct, loop, queue, requeued, stranded>>
    BY <1>4 DEF Clean
  <2> QED BY <2>1, <2>2 DEF Single, OneWay, OpenIsOwned, InFlight
<1>5. CASE Consume
  <2>1. /\ loop = Idle /\ loop' = Take(Head(queue)) /\ queue' = Tail(queue)
        /\ UNCHANGED <<box, phase, direct, requeued, stranded>>
    BY <1>5 DEF Consume, file, others
  <2>2. Head(queue) \in Message /\ Head(queue) \in ToSet(queue)
    BY <1>0, <1>5, Rest DEF Consume
  <2>3. ToSet(Tail(queue)) = ToSet(queue) \ {Head(queue)}
    BY <1>0, <1>5, Rest DEF Consume
  <2>4. loop'.msg = Head(queue) /\ \A n \in Message : loop.msg # n
    BY <1>0, <2>1, <2>2, Values
  <2>5. ToSet(queue') = ToSet(queue) \ {Head(queue)}
    BY <2>1, <2>3
  <2>6. PICK h \in Message :
          /\ h \in ToSet(queue) /\ loop'.msg = h /\ ToSet(queue') = ToSet(queue) \ {h}
    BY <2>2, <2>4, <2>5
  <2>7. /\ requeued' = requeued /\ stranded \subseteq stranded' /\ phase' = phase
        /\ box' = box /\ direct' = direct /\ \A n \in Message : loop.msg # n
    BY <2>1, <2>4
  <2>8. h \notin requeued => OneWay(h)'
    <3>1. h \notin requeued => OneWay(h)
      BY <2>6 DEF Single
    <3>2. h \notin requeued => box'[h] \in Open /\ direct'[h] = "none"
      BY <2>6, <2>7, <3>1 DEF OneWay, InFlight
    <3> QED BY <2>6, <3>2 DEF OneWay, InFlight
  <2>9. \A n \in Message \ {h} :
          /\ box'[n] \in Open <=> box[n] \in Open
          /\ direct'[n] = direct[n]
          /\ loop'.msg = n <=> loop.msg = n
          /\ n \in ToSet(queue') <=> n \in ToSet(queue)
    BY <2>6, <2>7
  <2> QED BY <2>6, <2>7, <2>8, <2>9, Elsewhere
<1>6. CASE Start
  <2>1. (Recover(box, FALSE) \/ RecoverBreaks(box, FALSE)) /\ direct' = direct
    BY <1>6 DEF Start
  <2> QED BY <2>1, RecoverWay
<1>7. CASE Stop
  <2>1. UNCHANGED <<box, direct, loop, requeued>> /\ ToSet(queue') = {} /\ phase' # "up"
    BY <1>7, Empty DEF Stop, file
  <2>2. Single'
    BY <2>1 DEF Single, OneWay, InFlight
  <2> QED BY <2>1, <2>2 DEF OpenIsOwned
<1>8. ASSUME Lost PROVE Single' /\ OpenIsOwned'
  <2>1. /\ phase' # "up" /\ ToSet(queue') = {}
        /\ \A n \in Message : direct'[n] = "none" /\ loop'.msg # n
    BY <1>0, <1>8, Empty, Values DEF Lost
  <2> QED BY <2>1 DEF Single, OneWay, InFlight, OpenIsOwned
<1>9. CASE Exit \/ Crash
  BY <1>8, <1>9 DEF Exit, Crash
<1>10. CASE UNCHANGED vars
  <2>1. UNCHANGED <<box, phase, direct, queue, loop, requeued, stranded>>
    BY <1>10 DEF vars, file
  <2> QED BY <2>1 DEF Single, OneWay, InFlight, OpenIsOwned
<1> QED BY <1>1, <1>2, <1>3, <1>4, <1>5, <1>6, <1>7, <1>9, <1>10 DEF Next
-----------------------------------------------------------------------------
(* What "delivered" says                                                    *)

LEMMA SaidStep ==
  ASSUME Sane, DeliveredWasSent, [Next]_vars
  PROVE  DeliveredWasSent'
<1>0. TypeOK
  BY DEF Sane
<1>1. ASSUME sent \subseteq sent',
             \A n \in Message : box'[n] = "delivered" => box[n] = "delivered"
      PROVE  DeliveredWasSent'
  BY <1>1 DEF DeliveredWasSent
<1>2. ASSUME NEW m \in Message, Send(m) \/ SendUnsaved(m) PROVE DeliveredWasSent'
  <2>1. PICK status \in {"delivering", "failed", "pending"}, n \in {0, 1} : Enters(m, status, n)
    BY <1>2 DEF Send, SendUnsaved
  <2>2. status \in Open \cup Terminal /\ n \in 0..MaxAttempts
    BY <1>0, Values DEF Open, Terminal
  <2>3. sent' = sent /\ \A k \in Message : box'[k] = "delivered" => box[k] = "delivered"
    BY <1>0, <2>1, <2>2, Entering
  <2> QED BY <1>1, <2>3
<1>3. ASSUME NEW m \in Message, DirectSucceeds(m) PROVE DeliveredWasSent'
  <2>1. sent' = sent \cup {m} /\ Finish(m, "delivered")
    BY <1>3 DEF DirectSucceeds, DirectEnds
  <2>2. \A n \in Message : n # m => box'[n] = box[n]
    BY <1>0, <2>1, Finishing DEF Terminal
  <2> QED BY <2>1, <2>2 DEF DeliveredWasSent
<1>4. ASSUME NEW m \in Message, DirectFails(m) PROVE DeliveredWasSent'
  <2>1. sent' = sent /\ Finish(m, "failed")
    BY <1>4 DEF DirectFails, DirectEnds
  <2>2. box'[m] # "delivered" /\ \A n \in Message : n # m => box'[n] = box[n]
    BY <1>0, <2>1, Finishing DEF Terminal
  <2> QED BY <1>1, <2>1, <2>2
<1>5. ASSUME NEW m \in Message, DirectThrows(m) PROVE DeliveredWasSent'
  BY <1>1, <1>5 DEF DirectThrows, file
<1>6. ASSUME NEW m \in Message, DirectRetries(m) PROVE DeliveredWasSent'
  <2>1. sent' = sent /\ box' = [box EXCEPT ![m] = IF @ = "none" THEN @ ELSE "delivering"]
    BY <1>6 DEF DirectRetries, MarkAttempt
  <2>2. \A n \in Message : box'[n] = "delivered" => box[n] = "delivered"
    BY <1>0, <2>1 DEF TypeOK
  <2> QED BY <1>1, <2>1, <2>2
<1>7. ASSUME NEW m \in Message, LoopStep(m) PROVE DeliveredWasSent'
  <2>1. /\ sent \subseteq sent' /\ \A n \in Message : n # m => box'[n] = box[n]
        /\ box'[m] = "delivered" =>
             m \in sent' \/ OriginOf[m] \in prints \/ box'[m] = box[m]
    BY <1>7, LoopDoes
  <2>2. prints \subseteq Origin
    BY <1>0 DEF TypeOK
  <2> QED BY <2>1, <2>2, OutboundAssumption DEF DeliveredWasSent
<1>13. ASSUME NEW m \in Message, DirectUnsaved(m) PROVE DeliveredWasSent'
  <2>1. sent \subseteq sent' /\ (Finish(m, "failed") \/ box' = box)
    BY <1>13 DEF DirectUnsaved, file
  <2>2. \A n \in Message : box'[n] = "delivered" => box[n] = "delivered"
    <3>1. CASE Finish(m, "failed")
      BY <1>0, <3>1, Finishing DEF Terminal
    <3>2. CASE box' = box
      BY <3>2
    <3> QED BY <2>1, <3>1, <3>2
  <2> QED BY <1>1, <2>1, <2>2
<1>8. ASSUME NEW b, box' = Recovered(b) \/ box' = b, sent' = sent,
             \A n \in Message : b[n] = "delivered" => box[n] = "delivered"
      PROVE  DeliveredWasSent'
  <2>1. \A n \in Message : box'[n] = "delivered" => box[n] = "delivered"
    BY <1>8 DEF Recovered
  <2> QED BY <1>1, <1>8, <2>1
<1>9. ASSUME NEW m \in Message, RetryDelivery(m) PROVE DeliveredWasSent'
  <2> DEFINE b == [box EXCEPT ![m] = "pending"]
  <2>1. (box' = Recovered(b) \/ box' = b) /\ sent' = sent
    BY <1>9 DEF RetryDelivery, Recover, RecoverBreaks
  <2>2. \A n \in Message : b[n] = "delivered" => box[n] = "delivered"
    BY <1>0 DEF TypeOK
  <2> HIDE DEF b
  <2> QED BY <1>8, <2>1, <2>2
<1>10. ASSUME NEW m \in Message, Clean(m) PROVE DeliveredWasSent'
  BY <1>0, <1>1, <1>10 DEF Clean, TypeOK
<1>11. CASE Start
  <2>1. (box' = Recovered(box) \/ box' = box) /\ sent' = sent
    BY <1>11 DEF Start, Recover, RecoverBreaks
  <2> QED BY <1>8, <2>1
<1>12. CASE Consume \/ Stop \/ Exit \/ Crash \/ UNCHANGED vars
  <2>1. box' = box /\ sent' = sent
    BY <1>12 DEF Consume, Stop, Exit, Crash, Lost, file, vars
  <2> QED BY <1>1, <2>1
<1> QED BY <1>2, <1>3, <1>4, <1>5, <1>6, <1>7, <1>9, <1>10, <1>11, <1>12, <1>13
     DEF Next, DirectStep
-----------------------------------------------------------------------------
(* The theorems                                                             *)

LEMMA AtFirst == Init => IInv
<1> SUFFICES ASSUME Init PROVE IInv
  OBVIOUS
<1>1. /\ 0 \in 0..MaxAttempts /\ 0 \in 0..MaxFaults /\ 0 \in 0..MaxRetries
      /\ Idle \in [msg   : Message \cup {NoMessage},
                   doing : {"idle", "taken", "sending", "backoff"},
                   try   : 0..MaxAttempts]
      /\ \A m \in Message : Idle.msg # m
      /\ <<>> \in Seq(Message) /\ Len(<<>>) <= MaxQueue
  BY Empty, OutboundAssumption DEF Idle
<1>2. box \in [Message -> Open \cup Terminal \cup {"none"}]
  BY DEF Init
<1>3. /\ tries \in [Message -> 0..MaxAttempts] /\ attempt \in [Message -> 0..MaxAttempts]
      /\ direct \in [Message -> {"none", "sending", "backoff"}]
  BY <1>1 DEF Init
<1>4. TypeOK
  BY <1>1, <1>2, <1>3 DEF Init, TypeOK
<1>5. IsInjective(queue) /\ ToSet(queue) = {}
  BY Empty DEF Init
<1>6. Bounded
  BY DEF Init, Bounded, Idle
<1>7. Single
  BY <1>1, <1>5 DEF Init, Single, OneWay
<1>8. OpenIsOwned /\ DeliveredWasSent
  BY DEF Init, OpenIsOwned, DeliveredWasSent
<1> QED BY <1>4, <1>5, <1>6, <1>7, <1>8 DEF IInv

LEMMA Always == Spec => []IInv
<1>1. IInv /\ [Next]_vars => IInv'
  <2> SUFFICES ASSUME IInv, [Next]_vars PROVE IInv'
    OBVIOUS
  <2>1. Sane /\ Single /\ OpenIsOwned /\ DeliveredWasSent
    BY DEF IInv, Sane
  <2>2. Sane' BY <2>1, SaneStep
  <2>3. Single' /\ OpenIsOwned' BY <2>1, WayStep
  <2>4. DeliveredWasSent' BY <2>1, SaidStep
  <2> QED BY <2>2, <2>3, <2>4 DEF IInv, Sane
<1> QED BY <1>1, AtFirst, PTL DEF Spec

(* The variables stay what they are, a receipt is the last word, and        *)
(* "delivered" is what the channel said, whatever retries, stops and late   *)
(* failures make of a record: nothing in the outbox or in the bus looks.    *)
THEOREM ConsistentHolds == Spec => []Consistent
<1>1. IInv => ReceiptIsLast
  BY DEF IInv, Single, OneWay, ReceiptIsLast, InFlight, Open, Terminal
<1>2. IInv => Consistent
  BY <1>1 DEF IInv, Consistent
<1> QED BY <1>2, Always, PTL

(* Every open record has an owner, but those that are stranded: the queue   *)
(* was full, a recovery threw, the channel does not show the event, or the  *)
(* last receipt of a send could not be written.                             *)
THEOREM OpenIsOwnedHolds == Spec => []OpenIsOwned
<1>1. IInv => OpenIsOwned
  BY DEF IInv
<1> QED BY <1>1, Always, PTL
-----------------------------------------------------------------------------
(* OutboundDelivery implements Receipts                                     *)

(* A process that does not run sends nothing: when it starts, no message    *)
(* gets a second sender.                                                    *)
Quiet == phase = "down" => \A m \in Message : ~InFlight(m)

LEMMA QuietStep ==
  ASSUME TypeOK, Quiet, [Next]_vars
  PROVE  Quiet'
<1>0. NoMessage \notin Message
  BY OutboundAssumption
<1>1. ASSUME phase' # "down" PROVE Quiet'
  BY <1>1 DEF Quiet
<1>2. ASSUME NEW m \in Message,
             \/ Send(m) \/ SendUnsaved(m) \/ DirectStep(m) \/ LoopStep(m)
             \/ RetryDelivery(m) \/ Clean(m)
      PROVE  Quiet'
  <2>1. CASE Send(m) \/ SendUnsaved(m) \/ RetryDelivery(m) \/ Clean(m)
    BY <1>1, <2>1 DEF Send, SendUnsaved, Enters, RetryDelivery, Clean
  <2>2. CASE DirectStep(m)
    <3>1. phase' = phase /\ InFlight(m)
      BY <2>2 DEF DirectStep, DirectSucceeds, DirectFails, DirectThrows, DirectRetries,
                  DirectUnsaved, DirectEnds, InFlight
    <3> QED BY <1>1, <3>1 DEF Quiet
  <2>3. CASE LoopStep(m)
    <3>1. phase' = phase /\ InFlight(m)
      BY <2>3 DEF LoopStep, RouteSilent, RouteStreamed, RouteUnknown, RouteDuplicate,
                  RouteDeliver, LoopSucceeds, LoopFails, LoopThrows, LoopRetries,
                  LoopAborted, LoopUnsaved, InFlight, others
    <3> QED BY <1>1, <3>1 DEF Quiet
  <2> QED BY <1>2, <2>1, <2>2, <2>3
<1>3. CASE Consume \/ Start \/ Stop
  BY <1>1, <1>3 DEF Consume, Start, Stop, others
<1>4. CASE Exit \/ Crash
  <2>1. (\A m \in Message : direct'[m] = "none") /\ loop' = Idle
    BY <1>4 DEF Exit, Crash, Lost
  <2> QED BY <1>0, <2>1 DEF Quiet, InFlight, Idle
<1>5. CASE UNCHANGED vars
  BY <1>5 DEF Quiet, InFlight, vars
<1> QED BY <1>2, <1>3, <1>4, <1>5 DEF Next

LEMMA AlwaysQuiet == Spec => []Quiet
<1>1. Init => Quiet
  BY OutboundAssumption DEF Init, Quiet, InFlight, Idle
<1>2. IInv /\ Quiet /\ [Next]_vars => Quiet'
  BY QuietStep DEF IInv
<1> QED BY <1>1, <1>2, Always, PTL DEF Spec

(* What the promise sees of the outbox.                                     *)
Status == [m \in Message |-> ReceiptOf(box[m])]

LEMMA Statuses ==
  ASSUME TypeOK
  PROVE  /\ \A m \in Message : Status[m] = "open" <=> box[m] \in Open
         /\ \A m \in Message : box[m] \notin Open => Status[m] = box[m]
         /\ \A m \in Message : Status[m] = "none" <=> box[m] = "none"
         /\ \A m \in Message : Status[m] \in Terminal <=> box[m] \in Terminal
         /\ Terminal = Ledger!Final
BY DEF TypeOK, Status, ReceiptOf, Open, Terminal, Ledger!Final

(* Whoever has a message in hand may report on it.                          *)
LEMMA HandsHold ==
  ASSUME TypeOK, Single, NEW m \in Message, InFlight(m)
  PROVE  Ledger!InHand(m)
<1>1. box[m] \in Open \/ m \in requeued
  BY DEF Single, OneWay, InFlight
<1> QED BY <1>1, Statuses DEF Ledger!InHand, Status

LEMMA Reports ==
  ASSUME TypeOK, NEW m \in Message, NEW status \in Open \cup Terminal,
         box' = [box EXCEPT ![m] = IF @ = "none" THEN @ ELSE status]
  PROVE  Status' = [Status EXCEPT ![m] = IF @ = "none" THEN @ ELSE ReceiptOf(status)]
<1>1. \A n \in Message : n # m => Status'[n] = Status[n]
  BY DEF TypeOK, Status
<1>2. Status'[m] = IF Status[m] = "none" THEN Status[m] ELSE ReceiptOf(status)
  BY DEF TypeOK, Status, ReceiptOf, Open, Terminal
<1>3. DOMAIN Status = Message /\ DOMAIN Status' = Message
  BY DEF Status
<1>4. Status = [n \in Message |-> Status[n]] /\ Status' = [n \in Message |-> Status'[n]]
  BY DEF Status
<1> QED BY <1>1, <1>2, <1>3, <1>4

(* Every way to finish is a receipt the promise knows.                      *)
LEMMA FinishRefines ==
  ASSUME TypeOK, Single, NEW m \in Message, InFlight(m), NEW result \in Terminal,
         Finish(m, result), requeued' = requeued, retries' = retries
  PROVE  /\ result = "delivered" /\ sent' = sent \cup {m} => Ledger!Show(m)
         /\ result = "delivered" /\ sent' = sent /\ OriginOf[m] # NoOrigin
              => Ledger!Repeat(m)
         /\ result # "delivered" /\ sent' \in {sent, sent \cup {m}} => Ledger!GiveUp(m)
<1>1. ReceiptOf(result) = result
  BY DEF ReceiptOf, Open, Terminal
<1>2. Status' = [Status EXCEPT ![m] = IF @ = "none" THEN @ ELSE result]
  BY <1>1, Reports DEF Finish
<1>3. Ledger!InHand(m)
  BY HandsHold
<1>4. Status' = Ledger!Written(m, result)
  BY <1>2 DEF Ledger!Written, Status
<1>5. ASSUME result = "delivered", sent' = sent \cup {m} PROVE Ledger!Show(m)
  BY <1>3, <1>4, <1>5 DEF Ledger!Show, Status
<1>6. ASSUME result = "delivered", sent' = sent, OriginOf[m] # NoOrigin PROVE Ledger!Repeat(m)
  BY <1>3, <1>4, <1>6 DEF Ledger!Repeat, Status
<1>7. ASSUME result # "delivered", sent' \in {sent, sent \cup {m}} PROVE Ledger!GiveUp(m)
  <2>1. result \in {"failed", "cancelled"}
    BY <1>7 DEF Terminal
  <2> QED BY <1>3, <1>4, <1>7, <2>1 DEF Ledger!GiveUp, Status
<1> QED BY <1>5, <1>6, <1>7

(* Without a receipt the promise sees at most that the channel has shown it.*)
LEMMA UnseenRefines ==
  ASSUME TypeOK, Single, NEW m \in Message, InFlight(m), box' = box,
         sent' \in {sent, sent \cup {m}}, requeued' = requeued, retries' = retries
  PROVE  [Ledger!Next]_(Ledger!promised)
<1>1. CASE sent' = sent
  BY <1>1 DEF Ledger!promised
<1>2. CASE sent' = sent \cup {m}
  <2>1. Ledger!ShowUnseen(m)
    BY <1>2, HandsHold DEF Ledger!ShowUnseen
  <2> QED BY <2>1 DEF Ledger!Next
<1> QED BY <1>1, <1>2

(* Another attempt keeps an open message open; only of a message with two   *)
(* senders does it take a receipt away.                                     *)
LEMMA AttemptRefines ==
  ASSUME TypeOK, Single, NEW m \in Message, InFlight(m), NEW n, MarkAttempt(m, n),
         sent' = sent, requeued' = requeued, retries' = retries
  PROVE  [Ledger!Next]_(Ledger!promised)
<1>1. /\ "delivering" \in Open \cup Terminal /\ ReceiptOf("delivering") = "open"
  BY DEF Open, ReceiptOf
<1>2. Status' = [Status EXCEPT ![m] = IF @ = "none" THEN @ ELSE "open"]
  BY <1>1, Reports DEF MarkAttempt
<1>3. CASE m \in requeued
  <2>1. Status' = Ledger!Written(m, "open")
    BY <1>2 DEF Ledger!Written, Status
  <2>2. Ledger!Reopen(m)
    BY <1>3, <2>1 DEF Ledger!Reopen, Status
  <2> QED BY <2>2 DEF Ledger!Next
<1>4. CASE m \notin requeued
  <2>1. Status[m] = "open"
    BY <1>4, Statuses DEF Single, OneWay, InFlight
  <2>2. Status' = Status
    BY <1>2, <2>1 DEF Status
  <2> QED BY <2>2 DEF Ledger!promised, Status
<1> QED BY <1>3, <1>4

LEMMA TryRefines ==
  ASSUME TypeOK, Single, NEW m \in Message, loop.msg = m, NEW n, TryLoop(m, n),
         sent' = sent, requeued' = requeued, retries' = retries
  PROVE  [Ledger!Next]_(Ledger!promised)
<1>1. InFlight(m)
  BY DEF InFlight
<1>2. CASE phase = "up"
  BY <1>1, <1>2, AttemptRefines DEF TryLoop
<1>3. CASE phase # "up"
  <2>1. "cancelled" \in Open \cup Terminal /\ ReceiptOf("cancelled") = "cancelled"
    BY DEF Open, Terminal, ReceiptOf
  <2>2. Status' = [Status EXCEPT ![m] = IF @ = "none" THEN @ ELSE "cancelled"]
    BY <1>3, <2>1, Reports DEF TryLoop
  <2>3. Status' = Ledger!Written(m, "cancelled")
    BY <2>2 DEF Ledger!Written, Status
  <2>4. Ledger!GiveUp(m)
    BY <1>1, <2>3, HandsHold DEF Ledger!GiveUp, Status
  <2> QED BY <2>4 DEF Ledger!Next
<1> QED BY <1>2, <1>3

LEMMA LoopRefines ==
  ASSUME TypeOK, Single, NEW m \in Message, LoopStep(m)
  PROVE  [Ledger!Next]_(Ledger!promised)
<1>0. InFlight(m) /\ loop.msg = m /\ requeued' = requeued /\ retries' = retries
  BY DEF LoopStep, RouteSilent, RouteStreamed, RouteUnknown, RouteDuplicate, RouteDeliver,
         LoopSucceeds, LoopFails, LoopThrows, LoopRetries, LoopAborted, LoopUnsaved,
         InFlight, others
<1>1. CASE RouteSilent(m) \/ LoopThrows(m)
  <2>1. box' = box /\ sent' = sent
    BY <1>1 DEF RouteSilent, LoopThrows, file
  <2> QED BY <1>0, <2>1 DEF Ledger!promised
<1>2. CASE RouteStreamed(m) \/ LoopSucceeds(m)
  <2>1. Finish(m, "delivered") /\ sent' = sent \cup {m}
    BY <1>2 DEF RouteStreamed, LoopSucceeds
  <2>2. Ledger!Show(m)
    BY <1>0, <2>1, FinishRefines DEF Terminal
  <2> QED BY <2>2 DEF Ledger!Next
<1>3. CASE RouteUnknown(m) \/ LoopFails(m)
  <2>1. Finish(m, "failed") /\ sent' = sent
    BY <1>3 DEF RouteUnknown, LoopFails
  <2>2. Ledger!GiveUp(m)
    BY <1>0, <2>1, FinishRefines DEF Terminal
  <2> QED BY <2>2 DEF Ledger!Next
<1>4. CASE LoopAborted(m)
  <2>1. Finish(m, "cancelled") /\ sent' = sent
    BY <1>4 DEF LoopAborted
  <2>2. Ledger!GiveUp(m)
    BY <1>0, <2>1, FinishRefines DEF Terminal
  <2> QED BY <2>2 DEF Ledger!Next
<1>5. CASE RouteDuplicate(m)
  <2>1. Finish(m, "delivered") /\ sent' = sent
    BY <1>5 DEF RouteDuplicate
  <2>2. OriginOf[m] # NoOrigin
    BY <1>5, OutboundAssumption DEF RouteDuplicate, TypeOK
  <2>3. Ledger!Repeat(m)
    BY <1>0, <2>1, <2>2, FinishRefines DEF Terminal
  <2> QED BY <2>3 DEF Ledger!Next
<1>6. CASE RouteDeliver(m)
  BY <1>0, <1>6, TryRefines DEF RouteDeliver
<1>7. CASE LoopRetries(m)
  BY <1>0, <1>7, TryRefines DEF LoopRetries
<1>8. CASE LoopUnsaved(m)
  <2>1. sent' \in {sent, sent \cup {m}} /\ (box' = box \/ Finish(m, "failed"))
    BY <1>8 DEF LoopUnsaved, file
  <2>2. CASE box' = box
    BY <1>0, <2>1, <2>2, UnseenRefines
  <2>3. CASE Finish(m, "failed")
    <3>1. Ledger!GiveUp(m)
      BY <1>0, <2>1, <2>3, FinishRefines DEF Terminal
    <3> QED BY <3>1 DEF Ledger!Next
  <2> QED BY <2>1, <2>2, <2>3
<1> QED BY <1>1, <1>2, <1>3, <1>4, <1>5, <1>6, <1>7, <1>8 DEF LoopStep

LEMMA DirectRefines ==
  ASSUME TypeOK, Single, NEW m \in Message, DirectStep(m)
  PROVE  [Ledger!Next]_(Ledger!promised)
<1>0. InFlight(m) /\ requeued' = requeued /\ retries' = retries
  BY DEF DirectStep, DirectSucceeds, DirectFails, DirectThrows, DirectRetries,
         DirectUnsaved, DirectEnds, InFlight
<1>1. CASE DirectSucceeds(m)
  <2>1. Finish(m, "delivered") /\ sent' = sent \cup {m}
    BY <1>1 DEF DirectSucceeds, DirectEnds
  <2>2. Ledger!Show(m)
    BY <1>0, <2>1, FinishRefines DEF Terminal
  <2> QED BY <2>2 DEF Ledger!Next
<1>2. CASE DirectFails(m)
  <2>1. Finish(m, "failed") /\ sent' = sent
    BY <1>2 DEF DirectFails, DirectEnds
  <2>2. Ledger!GiveUp(m)
    BY <1>0, <2>1, FinishRefines DEF Terminal
  <2> QED BY <2>2 DEF Ledger!Next
<1>3. CASE DirectThrows(m)
  <2>1. box' = box /\ sent' = sent
    BY <1>3 DEF DirectThrows, file
  <2> QED BY <1>0, <2>1 DEF Ledger!promised
<1>4. CASE DirectRetries(m)
  BY <1>0, <1>4, AttemptRefines DEF DirectRetries
<1>5. CASE DirectUnsaved(m)
  <2>1. sent' \in {sent, sent \cup {m}} /\ (box' = box \/ Finish(m, "failed"))
    BY <1>5 DEF DirectUnsaved, file
  <2>2. CASE box' = box
    BY <1>0, <2>1, <2>2, UnseenRefines
  <2>3. CASE Finish(m, "failed")
    <3>1. Ledger!GiveUp(m)
      BY <1>0, <2>1, <2>3, FinishRefines DEF Terminal
    <3> QED BY <3>1 DEF Ledger!Next
  <2> QED BY <2>1, <2>2, <2>3
<1> QED BY <1>1, <1>2, <1>3, <1>4, <1>5 DEF DirectStep

LEMMA RecallRefines ==
  ASSUME TypeOK, NEW m \in Message, RetryDelivery(m), Single
  PROVE  Ledger!Recall(m)
<1> DEFINE b == [box EXCEPT ![m] = "pending"]
<1>1. /\ box[m] \in {"failed", "cancelled"}
      /\ (box' = Recovered(b) \/ box' = b)
      /\ sent' = sent /\ retries' = retries + 1
  BY DEF RetryDelivery, Recover, RecoverBreaks
<1>2. \A n \in Message : b[n] = IF n = m THEN "pending" ELSE box[n]
  BY DEF TypeOK
<1>3. PICK put \in SUBSET Unqueued(b) :
        requeued' = requeued \cup {n \in put : InFlight(n)}
  BY DEF RetryDelivery, Recover, RecoverBreaks, Put, Refill
<1>4. Status' = [Status EXCEPT ![m] = "open"]
  <2> HIDE DEF b
  <2>1. \A n \in Message : Status'[n] = IF n = m THEN "open" ELSE Status[n]
    BY <1>1, <1>2 DEF Status, Recovered, ReceiptOf, Open
  <2>2. Status' = [n \in Message |-> Status'[n]]
    BY DEF Status
  <2> QED BY <2>1, <2>2 DEF Status
<1>5. \E more \in SUBSET {n \in Message : Status[n] = "open"} : requeued' = requeued \cup more
  <2> DEFINE extra == {n \in put : InFlight(n)} \ requeued
  <2>1. requeued' = requeued \cup extra
    BY <1>3
  <2>2. ASSUME NEW n \in extra PROVE n \in Message /\ Status[n] = "open"
    <3>1. n \in Message /\ InFlight(n) /\ n \notin requeued
      BY <1>3 DEF Unqueued, OpenIn
    <3> QED BY <3>1, Statuses DEF Single, OneWay, InFlight
  <2> HIDE DEF extra
  <2>3. extra \in SUBSET {n \in Message : Status[n] = "open"}
    BY <2>2
  <2> QED BY <2>1, <2>3
<1>6. Status[m] \in {"failed", "cancelled"}
  BY <1>1 DEF Status, ReceiptOf, Open
<1> QED BY <1>1, <1>4, <1>5, <1>6 DEF Ledger!Recall, Status

LEMMA AcceptRefines ==
  ASSUME TypeOK, NEW m \in Message, Send(m) \/ SendUnsaved(m)
  PROVE  Ledger!Accept(m)
<1>1. PICK status \in {"delivering", "failed", "pending"}, n \in {0, 1} : Enters(m, status, n)
  BY DEF Send, SendUnsaved
<1>2. /\ box[m] = "none" /\ sent' = sent /\ requeued' = requeued /\ retries' = retries
  BY <1>1 DEF Enters
<1>3. PICK pruned \in SUBSET {k \in Message : box[k] \in Terminal} :
        box' = [k \in Message |-> IF k = m THEN status
                                  ELSE IF k \in pruned THEN "none" ELSE box[k]]
  BY <1>1 DEF Enters
<1>4. ReceiptOf(status) \in {"open", "failed"}
  BY DEF ReceiptOf, Open
<1>5. Status' = [k \in Message |-> IF k = m THEN ReceiptOf(status)
                                   ELSE IF k \in pruned THEN "none" ELSE Status[k]]
  <2>1. \A k \in Message : Status'[k] = IF k = m THEN ReceiptOf(status)
                                         ELSE IF k \in pruned THEN "none" ELSE Status[k]
    BY <1>3 DEF Status, ReceiptOf, Open
  <2>2. Status' = [k \in Message |-> Status'[k]]
    BY DEF Status
  <2> QED BY <2>1, <2>2
<1>6. pruned \in SUBSET {k \in Message : Status[k] \in Ledger!Final}
  BY <1>3, Statuses
<1>7. Status[m] = "none"
  BY <1>2, Statuses
<1> QED BY <1>2, <1>4, <1>5, <1>6, <1>7 DEF Ledger!Accept, Status

LEMMA LedgerStep ==
  ASSUME TypeOK, Single, Quiet, [Next]_vars
  PROVE  [Ledger!Next]_(Ledger!promised)
<1>1. ASSUME NEW m \in Message,
             \/ Send(m) \/ SendUnsaved(m) \/ DirectStep(m) \/ LoopStep(m)
             \/ RetryDelivery(m) \/ Clean(m)
      PROVE  [Ledger!Next]_(Ledger!promised)
  <2>1. CASE Send(m) \/ SendUnsaved(m)
    BY <2>1, AcceptRefines DEF Ledger!Next
  <2>2. CASE DirectStep(m)
    BY <2>2, DirectRefines
  <2>3. CASE LoopStep(m)
    BY <2>3, LoopRefines
  <2>4. CASE RetryDelivery(m)
    BY <2>4, RecallRefines DEF Ledger!Next
  <2>5. CASE Clean(m)
    <3>1. /\ box[m] \in Terminal /\ box' = [box EXCEPT ![m] = "none"]
          /\ sent' = sent /\ requeued' = requeued /\ retries' = retries
      BY <2>5 DEF Clean
    <3>2. \A n \in Message : Status'[n] = IF n = m THEN "none" ELSE Status[n]
      BY <3>1 DEF Status, ReceiptOf, Open, TypeOK
    <3>3. Status' = [n \in Message |-> Status'[n]]
      BY DEF Status
    <3>4. Status' = [Status EXCEPT ![m] = "none"]
      BY <3>2, <3>3 DEF Status
    <3>5. Status[m] \in Ledger!Final
      BY <3>1, Statuses
    <3>6. Ledger!Forget(m)
      BY <3>1, <3>4, <3>5 DEF Ledger!Forget, Status
    <3> QED BY <3>6 DEF Ledger!Next
  <2> QED BY <1>1, <2>1, <2>2, <2>3, <2>4, <2>5
<1>2. CASE Start
  <2>1. /\ box' = Recovered(box) \/ box' = box
        /\ sent' = sent /\ retries' = retries /\ phase = "down"
    BY <1>2 DEF Start, Recover, RecoverBreaks
  <2>2. Status' = Status
    <3>1. \A n \in Message : Status'[n] = Status[n]
      BY <2>1 DEF Status, Recovered, ReceiptOf, Open
    <3> QED BY <3>1 DEF Status
  <2>3. requeued' = requeued
    <3>1. PICK put \in SUBSET Unqueued(box) :
            requeued' = requeued \cup {n \in put : InFlight(n)}
      BY <1>2 DEF Start, Recover, RecoverBreaks, Put, Refill
    <3> QED BY <2>1, <3>1 DEF Unqueued, OpenIn, Quiet
  <2> QED BY <2>1, <2>2, <2>3 DEF Ledger!promised, Status
<1>3. CASE Consume \/ Stop
  <2>1. box' = box /\ sent' = sent /\ requeued' = requeued /\ retries' = retries
    BY <1>3 DEF Consume, Stop, file, others
  <2> QED BY <2>1 DEF Ledger!promised
<1>4. CASE Exit \/ Crash
  <2>1. box' = box /\ sent' = sent /\ requeued' = {} /\ retries' = retries
    BY <1>4 DEF Exit, Crash, Lost, file
  <2>2. Ledger!Restart
    BY <2>1 DEF Ledger!Restart
  <2> QED BY <2>2 DEF Ledger!Next
<1>5. CASE UNCHANGED vars
  BY <1>5 DEF vars, file, Ledger!promised
<1> QED BY <1>1, <1>2, <1>3, <1>4, <1>5 DEF Next

(* No step of the promise replaces the receipt of a message with one        *)
(* sender.                                                                  *)
LEMMA PromiseIsLast ==
  ASSUME TypeOK, [Ledger!Next]_(Ledger!promised), UNCHANGED retries,
         NEW m \in Message, Status[m] \in Ledger!Final, m \notin requeued
  PROVE  Status'[m] \in {Status[m], "none"}
<1>0. Status[m] # "open" /\ m \notin requeued
  BY DEF Ledger!Final
<1>1. ASSUME NEW n \in Message, NEW word, Status' = Ledger!Written(n, word), n # m
      PROVE  Status'[m] = Status[m]
  BY <1>1 DEF Ledger!Written, Status
<1>2. ASSUME NEW n \in Message,
             Ledger!Show(n) \/ Ledger!Repeat(n) \/ Ledger!GiveUp(n) \/ Ledger!Reopen(n)
      PROVE  Status'[m] = Status[m]
  <2>1. n # m
    BY <1>0, <1>2 DEF Ledger!Show, Ledger!Repeat, Ledger!GiveUp, Ledger!Reopen, Ledger!InHand,
                      Status
  <2>2. \E word : Status' = Ledger!Written(n, word)
    BY <1>2 DEF Ledger!Show, Ledger!Repeat, Ledger!GiveUp, Ledger!Reopen, Status
  <2> QED BY <1>1, <2>1, <2>2
<1>7. ASSUME NEW n \in Message, Ledger!ShowUnseen(n) PROVE Status'[m] = Status[m]
  BY <1>7 DEF Ledger!ShowUnseen, Status
<1>3. ASSUME NEW n \in Message, Ledger!Accept(n) PROVE Status'[m] \in {Status[m], "none"}
  <2>1. n # m
    BY <1>3 DEF Ledger!Accept, Ledger!Final, Status
  <2> QED BY <1>3, <2>1 DEF Ledger!Accept, Status
<1>4. ASSUME NEW n \in Message, Ledger!Recall(n) PROVE FALSE
  <2>1. retries \in Nat
    BY OutboundAssumption DEF TypeOK
  <2> QED BY <1>4, <2>1 DEF Ledger!Recall
<1>5. ASSUME NEW n \in Message, Ledger!Forget(n) PROVE Status'[m] \in {Status[m], "none"}
  BY <1>5 DEF Ledger!Forget, Status
<1>6. CASE Ledger!Restart \/ UNCHANGED Ledger!promised
  BY <1>6 DEF Ledger!Restart, Ledger!promised, Status
<1> QED BY <1>2, <1>3, <1>4, <1>5, <1>6, <1>7 DEF Ledger!Next

(* Those who send may think in terms of Receipts: a receipt is the last     *)
(* word until an operator recalls the message, "delivered" was shown, and   *)
(* the two senders of one message - the direct send and the dispatcher,     *)
(* neither of which looks at the record - show only where a recall met a    *)
(* message in flight, and only until the process ends.                      *)
THEOREM ReceiptsRefinement == Spec => ImplementsReceipts
<1>1. Init => Ledger!Init
  BY DEF Init, Ledger!Init, ReceiptOf, Open
<1>2. IInv /\ Quiet /\ [Next]_vars => [Ledger!Next]_(Ledger!promised)
  BY LedgerStep DEF IInv
<1> QED BY <1>1, <1>2, Always, AlwaysQuiet, PTL DEF Spec, ImplementsReceipts, Ledger!Spec

(* A receipt is not replaced: what a sender concludes from the promise.     *)
THEOREM LastWordHolds == Spec => Ledger!LastWord
<1> DEFINE Keeps == \A m \in Message :
                      Status[m] \in Ledger!Final /\ m \notin requeued /\ retries' = retries
                        => Status'[m] \in {Status[m], "none"}
<1>1. IInv /\ Quiet /\ [Next]_vars => [Keeps]_(Ledger!promised)
  BY LedgerStep, PromiseIsLast DEF IInv
<1> QED BY <1>1, Always, AlwaysQuiet, PTL DEF Spec, Ledger!LastWord, Status
=============================================================================
