----------------------- MODULE ProactiveDeliveryProofs -----------------------
(***************************************************************************)
(* ProactiveDelivery for any number of deliveries, targets, ticks, faults, *)
(* pauses and ends of the process: the table says success only of what the *)
(* provider took, a target is sent a second message only after a lost      *)
(* answer or under two senders, and an accepted open delivery has a holder. *)
(***************************************************************************)
EXTENDS ProactiveDelivery, FiniteSetTheorems, WellFoundedInduction, TLAPS

Busy == {s \in Sender : send[s] # None}

(* The provider took the message, the answer has not come.                  *)
Flying(s, d, t) == Trying(s, "answer") /\ send[s].d = d /\ Now(s) = t

(* What the table, a sender or a call on its way takes for sent was sent.   *)
Backed == /\ AckedIsSent
          /\ \A s \in Busy, d \in Delivery, c \in Chat :
               send[s].d = d /\ send[s].got[c] = "success" => Reached(d, c)
          /\ \A s \in Busy, d \in Delivery, t \in Target :
               Flying(s, d, t) => sent[d][t] >= 1

(* Two senders of a delivery are on record.                                 *)
Alone == \A s, o \in Busy : s # o /\ send[s].d = send[o].d => send[s].d \in raced

(* A sender alone on its delivery has the receipts of the table, and the    *)
(* chat of what is left to it has no success there.                         *)
Agrees == \A s \in Busy : send[s].d \notin raced =>
            /\ send[s].got = receipts[send[s].d]
            /\ \A t \in send[s].left : send[s].got[ChatOf[t]] # "success"

(* Unless two senders met, each message is a lost answer, the receipt of    *)
(* the chat, or the one that is on its way.                                 *)
Tally == /\ SentOnce
         /\ \A d \in Delivery \ raced, t \in Target :
              sent[d][t] > lost[d][t] =>
                receipts[d][ChatOf[t]] = "success" \/ \E s \in Sender : Flying(s, d, t)

Sound == Backed /\ Alone /\ Agrees /\ Tally

IInv == TypeOK /\ Sound /\ OwedIsHeld
-----------------------------------------------------------------------------
(* Sets, sequences and records                                              *)

(* The first of some targets is one of them.                                *)
LEMMA First == ASSUME NEW S \in SUBSET Nat, S # {} PROVE Min(S) \in S
<1> DEFINE R == OpToRel(<, Nat)
<1>1. PICK x \in S : \A y \in S : <<y, x>> \notin R
  <2>1. IsWellFoundedOn(R, Nat)
    BY NatLessThanWellFounded
  <2> HIDE DEF R
  <2> QED BY <2>1, WFMin
<1>2. \A y \in S : <<y, x>> \in R <=> y < x
  BY DEF OpToRel
<1> HIDE DEF R
<1>3. ASSUME NEW y \in S PROVE x <= y
  <2>1. x \in Nat /\ y \in Nat /\ ~(y < x)
    BY <1>1, <1>2
  <2> QED BY ONLY <2>1
<1> QED BY <1>1, <1>3 DEF Min

(* An order of a finite set has its members, each once.                     *)
LEMMA Ordered ==
  ASSUME NEW S, IsFiniteSet(S), NEW q \in SetToSeqs(S)
  PROVE  q \in Seq(S) /\ ToSet(q) = S /\ IsInjective(q)
<1> DEFINE n == Cardinality(S)
<1>1. n \in Nat
  BY FS_CardinalityType
<1>2. q \in [1..n -> S] /\ \A i, j \in 1..n : i # j => q[i] # q[j]
  BY DEF SetToSeqs
<1>3. q \in Seq(S) /\ Len(q) = n /\ DOMAIN q = 1..n
  BY <1>1, <1>2
<1>4. q \in Injection(1..n, S)
  BY <1>2 DEF Injection, IsInjective
<1>5. q \in Surjection(1..n, S)
  BY <1>1, <1>4, FS_Interval, FS_Injection
<1>6. \A x \in S : \E i \in 1..n : q[i] = x
  BY <1>5 DEF Surjection
<1> HIDE DEF n
<1>7. ToSet(q) = S
  BY <1>2, <1>3, <1>6 DEF ToSet
<1> QED BY <1>2, <1>3, <1>7 DEF IsInjective

(* What a sequence of deliveries holds after each operation of the queue.   *)
LEMMA Queues ==
  ASSUME NEW q \in Seq(Delivery), IsInjective(q)
  PROVE  /\ q # <<>> => /\ Head(q) \in Delivery /\ Tail(q) \in Seq(Delivery)
                        /\ IsInjective(Tail(q))
                        /\ ToSet(q) = {Head(q)} \cup ToSet(Tail(q))
         /\ \A d \in Delivery : /\ Put(q, d) \in Seq(Delivery)
                                /\ IsInjective(Put(q, d))
                                /\ ToSet(Put(q, d)) = ToSet(q) \cup {d}
<1> USE DEF ToSet, IsInjective
<1>1. ASSUME q # <<>>
      PROVE  /\ Head(q) \in Delivery /\ Tail(q) \in Seq(Delivery)
             /\ IsInjective(Tail(q))
             /\ ToSet(q) = {Head(q)} \cup ToSet(Tail(q))
  <2>1. /\ Tail(q) \in Seq(Delivery) /\ Len(Tail(q)) = Len(q) - 1
        /\ \A i \in 1..(Len(q) - 1) : Tail(q)[i] = q[i + 1]
        /\ Len(q) >= 1 /\ Head(q) = q[1] /\ Head(q) \in Delivery
    BY <1>1
  <2>2. IsInjective(Tail(q))
    BY <2>1
  <2>3. \A i \in 2..Len(q) : q[i] = Tail(q)[i - 1] /\ i - 1 \in 1..(Len(q) - 1)
    BY <2>1
  <2>4. ToSet(q) \subseteq {Head(q)} \cup ToSet(Tail(q))
    <3> SUFFICES ASSUME NEW i \in 1..Len(q), i # 1 PROVE q[i] \in ToSet(Tail(q))
      BY <2>1
    <3>1. i \in 2..Len(q)
      BY <2>1
    <3>2. DOMAIN Tail(q) = 1..(Len(q) - 1)
      BY <2>1
    <3>3. q[i] = Tail(q)[i - 1] /\ i - 1 \in DOMAIN Tail(q)
      BY <2>3, <3>1, <3>2
    <3> QED BY ONLY <3>3 DEF ToSet
  <2>5. {Head(q)} \cup ToSet(Tail(q)) \subseteq ToSet(q)
    BY <2>1
  <2> QED BY <2>1, <2>2, <2>4, <2>5
<1>2. ASSUME NEW d \in Delivery
      PROVE  /\ Put(q, d) \in Seq(Delivery) /\ IsInjective(Put(q, d))
             /\ ToSet(Put(q, d)) = ToSet(q) \cup {d}
  <2>1. CASE d \in ToSet(q)
    BY <2>1 DEF Put
  <2>2. CASE d \notin ToSet(q)
    <3> DEFINE p == Append(q, d)
    <3>1. /\ p \in Seq(Delivery) /\ Len(p) = Len(q) + 1
          /\ \A i \in 1..Len(q) : p[i] = q[i]
          /\ p[Len(q) + 1] = d
      OBVIOUS
    <3>2. DOMAIN p = 1..(Len(q) + 1) /\ Len(q) \in Nat
      BY <3>1
    <3> HIDE DEF p
    <3>3. IsInjective(p)
      BY <2>2, <3>1, <3>2
    <3>4. ToSet(p) = ToSet(q) \cup {d}
      BY <3>1, <3>2
    <3> QED BY <2>2, <3>1, <3>3, <3>4 DEF Put, p
  <2> QED BY <2>1, <2>2
<1> QED BY <1>1, <1>2

(* Rows that were not queued come behind those that were.                   *)
LEMMA Joined ==
  ASSUME NEW p \in Seq(Delivery), NEW q \in Seq(Delivery),
         IsInjective(p), IsInjective(q), ToSet(p) \cap ToSet(q) = {}
  PROVE  /\ p \o q \in Seq(Delivery) /\ IsInjective(p \o q)
         /\ ToSet(p \o q) = ToSet(p) \cup ToSet(q)
<1> DEFINE r == p \o q
<1> DEFINE m == Len(p)
<1> DEFINE n == Len(q)
<1>1. /\ r \in Seq(Delivery) /\ Len(r) = m + n /\ m \in Nat /\ n \in Nat
      /\ \A i \in 1..m : r[i] = p[i]
      /\ \A i \in 1..n : r[m + i] = q[i]
  OBVIOUS
<1>2. DOMAIN r = 1..(m + n) /\ DOMAIN p = 1..m /\ DOMAIN q = 1..n
  BY <1>1
<1> HIDE DEF r, m, n
<1>3. \A i \in 1..(m + n) : i \notin 1..m => i - m \in 1..n /\ r[i] = q[i - m]
  <2> TAKE i \in 1..(m + n)
  <2>1. i \notin 1..m => i - m \in 1..n /\ i = m + (i - m)
    BY <1>1
  <2> QED BY <1>1, <2>1
<1>4. \A i \in 1..(m + n) : i \in 1..m => r[i] \in ToSet(p)
  BY <1>1, <1>2 DEF ToSet
<1>5. \A i \in 1..(m + n) : i \notin 1..m => r[i] \in ToSet(q)
  BY <1>2, <1>3 DEF ToSet
<1>6. IsInjective(r)
  <2> SUFFICES ASSUME NEW i \in 1..(m + n), NEW j \in 1..(m + n), r[i] = r[j]
               PROVE  i = j
    BY <1>2 DEF IsInjective
  <2>1. CASE i \in 1..m /\ j \in 1..m
    BY <1>1, <1>2, <2>1 DEF IsInjective
  <2>2. CASE i \notin 1..m /\ j \notin 1..m
    <3>1. i - m \in 1..n /\ j - m \in 1..n /\ q[i - m] = q[j - m]
      BY <1>3, <2>2
    <3>2. i - m = j - m
      BY <1>2, <3>1 DEF IsInjective
    <3> QED BY <1>1, <3>2
  <2> QED BY <1>4, <1>5, <2>1, <2>2
<1>7. ToSet(r) = ToSet(p) \cup ToSet(q)
  <2>1. ToSet(r) \subseteq ToSet(p) \cup ToSet(q)
    BY <1>2, <1>4, <1>5 DEF ToSet
  <2>2. ToSet(p) \subseteq ToSet(r)
    BY <1>1, <1>2 DEF ToSet
  <2>3. \A i \in 1..n : m + i \in 1..(m + n)
    BY <1>1
  <2>4. ToSet(q) \subseteq ToSet(r)
    BY <1>1, <1>2, <2>3 DEF ToSet
  <2> QED BY <2>1, <2>2, <2>4
<1> QED BY <1>1, <1>6, <1>7 DEF r
-----------------------------------------------------------------------------
(* Types                                                                    *)

(* What a sender holds is a send, and the target it is at is one of those   *)
(* that are left.                                                           *)
LEMMA Held ==
  ASSUME TypeOK, NEW s \in Sender, send[s] # None
  PROVE  /\ send[s] \in Send
         /\ send[s].left # {} => Now(s) \in send[s].left /\ Now(s) \in Target
<1>1. send[s] \in Send
  BY DEF TypeOK
<1>2. send[s].left \subseteq Target /\ send[s].left \in SUBSET Nat
  BY <1>1, DeliveryAssumption DEF Send, Target
<1> QED BY <1>1, <1>2, First DEF Now

(* The chat of a target is a chat.                                          *)
LEMMA Chats == \A t \in Target : ChatOf[t] \in Chat
BY DEF Chat

(* A record that is a send is not None.                                     *)
LEMMA Sending == \A e \in Send : e # None
BY DeliveryAssumption

(* A sender begins: it has the receipts of the table, and those who have    *)
(* the delivery already are on record.                                      *)
LEMMA Beginning ==
  ASSUME TypeOK, NEW s \in Sender, NEW d \in Delivery, Begins(s, d)
  PROVE  /\ send' \in [Sender -> Send \cup {None}]
         /\ \A o \in Sender \ {s} : send'[o] = send[o]
         /\ send'[s] \in Send /\ send'[s] # None
         /\ send'[s].d = d /\ send'[s].got = receipts[d] /\ send'[s].at = "next"
         /\ send'[s].left = {t \in Target : Accepts(d) /\ receipts[d][ChatOf[t]] # "success"}
         /\ raced \subseteq raced' /\ raced' \subseteq Delivery
         /\ (\E o \in Sender \ {s} : send[o] # None /\ send[o].d = d) => d \in raced'
<1> DEFINE L == {t \in Target : Accepts(d) /\ receipts[d][ChatOf[t]] # "success"}
<1> DEFINE e == [d |-> d, got |-> receipts[d], tries |-> 0, at |-> "next", left |-> L]
<1>1. send' = [send EXCEPT ![s] = e]
  BY DEF Begins
<1>2. L \in SUBSET Target
  OBVIOUS
<1> HIDE DEF L
<1>3. 0 \in 0..MaxAttempts
  BY DeliveryAssumption
<1>4. e \in Send
  BY <1>2, <1>3 DEF Send, TypeOK
<1>5. e.d = d /\ e.got = receipts[d] /\ e.at = "next" /\ e.left = L
  OBVIOUS
<1> HIDE DEF e
<1>6. e # None
  BY <1>4, Sending
<1>7. send' \in [Sender -> Send \cup {None}] /\ send'[s] = e
      /\ \A o \in Sender \ {s} : send'[o] = send[o]
  BY <1>1, <1>4 DEF TypeOK
<1>8. /\ raced \subseteq raced' /\ raced' \subseteq Delivery
      /\ (\E o \in Sender \ {s} : send[o] # None /\ send[o].d = d) => d \in raced'
  BY DEF TypeOK, Begins
<1> QED BY <1>4, <1>5, <1>6, <1>7, <1>8 DEF L

(* What a result changes: the chat of the target at hand has it, in the     *)
(* table and with the sender; the target is left no more, and after a       *)
(* success no other of the chat is.                                         *)
LEMMA Resulting ==
  ASSUME TypeOK, NEW s \in Sender, send[s] # None, send[s].left # {},
         NEW status \in Receipt, Result(s, status)
  PROVE  LET c == ChatOf[Now(s)] IN
         /\ send' \in [Sender -> Send \cup {None}]
         /\ \A o \in Sender \ {s} : send'[o] = send[o]
         /\ send'[s] \in Send /\ send'[s] # None
         /\ send'[s].d = send[s].d /\ send'[s].at = "next"
         /\ send'[s].left = {u \in send[s].left :
                              u # Now(s) /\ (ChatOf[u] = c => status # "success")}
         /\ send'[s].got = [send[s].got EXCEPT ![c] = status]
         /\ receipts' = [receipts EXCEPT ![send[s].d][c] = status]
         /\ receipts' \in [Delivery -> [Chat -> Receipt]]
<1> DEFINE t == Now(s)
<1> DEFINE c == ChatOf[t]
<1>1. send[s] \in Send /\ t \in Target /\ c \in Chat
  BY Held, Chats
<1>2. /\ receipts' = [receipts EXCEPT ![send[s].d][c] = status]
      /\ send' = [send EXCEPT
           ![s].got[c] = status, ![s].tries = 0, ![s].at = "next",
           ![s].left = {u \in @ : u # t /\ (ChatOf[u] = c => status # "success")}]
  BY DEF Result
<1> DEFINE L == {u \in send[s].left : u # t /\ (ChatOf[u] = c => status # "success")}
<1>3. 0 \in 0..MaxAttempts /\ L \subseteq send[s].left
  BY DeliveryAssumption
<1>4. send' = [send EXCEPT ![s].got[c] = status, ![s].tries = 0, ![s].at = "next",
                           ![s].left = L]
  BY <1>2
<1> HIDE DEF L, t, c
<1>5. /\ send'[s] \in Send /\ send'[s].d = send[s].d /\ send'[s].at = "next"
      /\ send'[s].left = L
      /\ send'[s].got = [send[s].got EXCEPT ![c] = status]
  BY <1>1, <1>3, <1>4 DEF TypeOK, Send
<1>6. send'[s] # None
  BY <1>5, Sending
<1>7. send' \in [Sender -> Send \cup {None}] /\ \A o \in Sender \ {s} : send'[o] = send[o]
  BY <1>4, <1>5 DEF TypeOK
<1>8. receipts' \in [Delivery -> [Chat -> Receipt]]
  BY <1>1, <1>2 DEF TypeOK, Send
<1> QED BY <1>2, <1>5, <1>6, <1>7, <1>8 DEF L, t, c

(* The work of a sender stays in its hands, one answer at a time.           *)
LEMMA Missing ==
  ASSUME TypeOK, NEW s \in Sender, send[s] # None, send[s].left # {}, Misses(s)
  PROVE  /\ faults' \in 0..MaxFaults
         /\ \/ Result(s, "failed")
            \/ /\ send' \in [Sender -> Send \cup {None}]
               /\ \A o \in Sender \ {s} : send'[o] = send[o]
               /\ send'[s] \in Send /\ send'[s] # None
               /\ send'[s].d = send[s].d /\ send'[s].at = "next"
               /\ send'[s].left = send[s].left /\ send'[s].got = send[s].got
               /\ receipts' = receipts
<1>1. faults' \in 0..MaxFaults
  BY DeliveryAssumption DEF Misses, Fault, TypeOK
<1>2. send[s] \in Send
  BY Held
<1>3. CASE send[s].tries + 1 < MaxAttempts
  <2>1. send[s].tries + 1 \in 0..MaxAttempts
    BY <1>2, <1>3, DeliveryAssumption DEF Send
  <2>2. /\ send' = [send EXCEPT ![s].tries = @ + 1, ![s].at = "next"]
        /\ receipts' = receipts
    BY <1>3 DEF Misses
  <2>3. /\ send'[s] \in Send /\ send'[s].d = send[s].d /\ send'[s].at = "next"
        /\ send'[s].left = send[s].left /\ send'[s].got = send[s].got
    BY <1>2, <2>1, <2>2 DEF TypeOK, Send
  <2>4. send'[s] # None
    BY <2>3, Sending
  <2>5. send' \in [Sender -> Send \cup {None}] /\ \A o \in Sender \ {s} : send'[o] = send[o]
    BY <2>2, <2>3 DEF TypeOK
  <2> QED BY <1>1, <2>2, <2>3, <2>4, <2>5
<1>4. CASE ~(send[s].tries + 1 < MaxAttempts)
  BY <1>1, <1>4 DEF Misses
<1> QED BY <1>3, <1>4

(* A sender ends: its receipts are the table's, and it is free.             *)
LEMMA Recording ==
  ASSUME TypeOK, NEW s \in Sender, send[s] # None, Record(s)
  PROVE  /\ send' \in [Sender -> Send \cup {None}]
         /\ \A o \in Sender \ {s} : send'[o] = send[o]
         /\ send'[s] = None
         /\ receipts' = [receipts EXCEPT ![send[s].d] = send[s].got]
         /\ receipts' \in [Delivery -> [Chat -> Receipt]]
         /\ row' \in [Delivery -> {"none", "acked"} \cup Open]
         /\ \A d \in Delivery \ {send[s].d} : row'[d] = row[d]
         /\ row'[send[s].d] = "acked" <=> All(s)
         /\ send[s] \in Send
<1>1. send[s] \in Send /\ send[s].d \in Delivery /\ send[s].got \in [Chat -> Receipt]
  BY Held DEF Send
<1>2. send' = [send EXCEPT ![s] = None] /\ receipts' = [receipts EXCEPT ![send[s].d] = send[s].got]
  BY DEF Record
<1>3. row' = [row EXCEPT ![send[s].d] = IF All(s) THEN "acked"
                                        ELSE IF Some(s) THEN "partial" ELSE "failed"]
  BY DEF Record
<1>4. row' \in [Delivery -> {"none", "acked"} \cup Open]
  BY <1>1, <1>3 DEF TypeOK, Open
<1>5. row'[send[s].d] = "acked" <=> All(s)
  BY <1>1, <1>3 DEF TypeOK
<1>6. \A d \in Delivery \ {send[s].d} : row'[d] = row[d]
  BY <1>1, <1>3 DEF TypeOK
<1>7. receipts' \in [Delivery -> [Chat -> Receipt]]
  BY <1>1, <1>2 DEF TypeOK
<1> QED BY <1>1, <1>2, <1>4, <1>5, <1>6, <1>7 DEF TypeOK

(* A replay: every row it reads and accepts is queued, each once.           *)
LEMMA Replaying ==
  ASSUME TypeOK, Replay
  PROVE  /\ queue' \in Seq(Delivery) /\ IsInjective(queue')
         /\ ToSet(queue') = ToSet(queue) \cup {d \in Replayed : Accepts(d)}
         /\ skipped' = OpenRows \ Replayed /\ skipped' \subseteq Delivery
         /\ draining' = TRUE
<1> DEFINE S == {d \in Replayed : Accepts(d)} \ ToSet(queue)
<1>1. S \subseteq Delivery /\ OpenRows \subseteq Delivery
  BY DEF Replayed, OpenRows
<1>2. IsFiniteSet(S)
  BY <1>1, DeliveryAssumption, FS_Interval, FS_Subset DEF Delivery
<1>3. PICK q \in SetToSeqs(S) : queue' = queue \o q
  BY DEF Replay
<1>4. q \in Seq(S) /\ ToSet(q) = S /\ IsInjective(q)
  BY <1>2, Ordered
<1>5. q \in Seq(Delivery)
  <2> HIDE DEF S
  <2> QED BY <1>1, <1>4
<1>6. queue \in Seq(Delivery) /\ IsInjective(queue)
  BY DEF TypeOK
<1>7. ToSet(queue) \cap ToSet(q) = {}
  BY <1>4
<1>8. queue' \in Seq(Delivery) /\ IsInjective(queue') /\ ToSet(queue') = ToSet(queue) \cup ToSet(q)
  BY <1>3, <1>4, <1>5, <1>6, <1>7, Joined
<1> QED BY <1>1, <1>4, <1>8 DEF Replay

(* The senders whose message is on its way are finitely many: a crash       *)
(* loses that many answers.                                                 *)
LEMMA Lost ==
  ASSUME NEW F \in SUBSET Sender
  PROVE  Cardinality(F) \in Nat /\ (F # {} => Cardinality(F) >= 1)
<1>1. IsFiniteSet(Sender)
  BY DeliveryAssumption, FS_AddElement DEF Sender
<1>2. IsFiniteSet(F)
  BY <1>1, FS_Subset
<1>3. Cardinality(F) \in Nat
  BY <1>2, FS_CardinalityType
<1>4. ASSUME F # {} PROVE Cardinality(F) >= 1
  <2>1. Cardinality(F) # 0
    BY <1>2, <1>4, FS_EmptySet
  <2> QED BY <1>3, <2>1
<1> QED BY <1>3, <1>4

(* Types, step by step.                                                     *)
LEMMA TypeStep == ASSUME TypeOK, [Next]_vars PROVE TypeOK'
<1>1. CASE UNCHANGED vars
  BY <1>1 DEF vars, table, outlet, past, counts, TypeOK
<1>2. ASSUME NEW p \in Proposer, NEW d \in Delivery, Propose(p, d) \/ SendStaged(p, d)
      PROVE  TypeOK'
  <2>1. Sends(p, d) /\ p \in Sender
    BY <1>2 DEF Propose, SendStaged, Sender
  <2>2. row' \in [Delivery -> {"none", "acked"} \cup Open]
    BY <2>1 DEF Sends, TypeOK, Open
  <2>3. send' \in [Sender -> Send \cup {None}] /\ raced' \subseteq Delivery
    BY <2>1, Beginning DEF Sends
  <2> QED BY <2>1, <2>2, <2>3 DEF Sends, TypeOK, outlet, counts
<1>3. ASSUME NEW s \in Sender, Sent(s) \/ (Drained /\ s = Drain) PROVE TypeOK'
  <2>1. send[s] # None /\ Record(s)
    BY <1>3 DEF Sent, Drained, Done
  <2>2. send[s].d \in Delivery
    BY <2>1, Recording DEF Send
  <2>3. /\ send' \in [Sender -> Send \cup {None}]
        /\ receipts' \in [Delivery -> [Chat -> Receipt]]
        /\ row' \in [Delivery -> {"none", "acked"} \cup Open]
    BY <2>1, Recording
  <2>4. /\ Put(queue, send[s].d) \in Seq(Delivery)
        /\ IsInjective(Put(queue, send[s].d))
    BY <2>2, Queues DEF TypeOK
  <2>5. queue' = queue \/ queue' = Put(queue, send[s].d)
    BY <1>3 DEF Sent, Drained, Enqueue, outlet
  <2>6. queue' \in Seq(Delivery) /\ IsInjective(queue')
    BY <2>4, <2>5 DEF TypeOK
  <2>7. draining' \in BOOLEAN /\ timer' \in BOOLEAN
    BY <1>3 DEF Sent, Drained, Enqueue, outlet, ScheduleRetry, TypeOK
  <2>8. UNCHANGED <<life, past, counts>>
    BY <1>3 DEF Sent, Drained
  <2> QED BY <2>3, <2>6, <2>7, <2>8 DEF TypeOK, past, counts
<1>4. ASSUME NEW s \in Sender, Accept(s) PROVE TypeOK'
  <2>1. send[s] # None /\ send[s].left # {}
    BY <1>4 DEF Accept, Trying
  <2>2. send[s] \in Send /\ Now(s) \in Target
    BY <2>1, Held
  <2>3. send' = [send EXCEPT ![s].at = "answer"]
    BY <1>4 DEF Accept
  <2>4. send' \in [Sender -> Send \cup {None}]
    BY <2>2, <2>3 DEF TypeOK, Send
  <2>5. sent' \in [Delivery -> [Target -> Nat]]
    BY <1>4, <2>2 DEF TypeOK, Send, Accept
  <2> QED BY <1>4, <2>4, <2>5 DEF Accept, TypeOK, table, outlet, counts
<1>5. ASSUME NEW s \in Sender, Answer(s) PROVE TypeOK'
  <2>1. /\ send[s] # None /\ send[s].left # {} /\ Result(s, "success")
        /\ "success" \in Receipt
    BY <1>5 DEF Answer, Trying, Receipt
  <2>2. /\ send' \in [Sender -> Send \cup {None}]
        /\ receipts' \in [Delivery -> [Chat -> Receipt]]
    BY <2>1, Resulting
  <2> QED BY <1>5, <2>2 DEF Answer, TypeOK, outlet, past, counts
<1>6. ASSUME NEW s \in Sender, Refuse(s) \/ LoseAnswer(s) PROVE TypeOK'
  <2>1. send[s] # None /\ send[s].left # {} /\ Misses(s) /\ "failed" \in Receipt
    BY <1>6 DEF Refuse, LoseAnswer, Trying, Receipt
  <2>2. /\ send' \in [Sender -> Send \cup {None}]
        /\ receipts' \in [Delivery -> [Chat -> Receipt]]
        /\ faults' \in 0..MaxFaults
    BY <2>1, Missing, Resulting DEF TypeOK
  <2>3. send[s].d \in Delivery /\ Now(s) \in Target
    BY <2>1, Held DEF Send
  <2>4. lost' \in [Delivery -> [Target -> Nat]]
    <3>1. CASE Refuse(s)
      BY <3>1 DEF Refuse, TypeOK, past
    <3>2. CASE LoseAnswer(s)
      BY <2>3, <3>2 DEF LoseAnswer, TypeOK
    <3> QED BY <1>6, <3>1, <3>2
  <2> QED BY <1>6, <2>2, <2>4 DEF Refuse, LoseAnswer, TypeOK, outlet, past
<1>7. ASSUME Take PROVE TypeOK'
  <2>1. Drain \in Sender /\ queue # <<>> /\ Begins(Drain, Head(queue))
    BY <1>7 DEF Take, Sender
  <2>2. /\ queue' = Tail(queue) /\ Head(queue) \in Delivery
        /\ Tail(queue) \in Seq(Delivery) /\ IsInjective(Tail(queue))
    BY <1>7, <2>1, Queues DEF TypeOK, Take
  <2>3. send' \in [Sender -> Send \cup {None}] /\ raced' \subseteq Delivery
    BY <2>1, <2>2, Beginning
  <2> QED BY <1>7, <2>2, <2>3 DEF Take, TypeOK, table, counts
<1>8. ASSUME Start \/ Resume PROVE TypeOK'
  <2>1. /\ queue' \in Seq(Delivery) /\ IsInjective(queue')
        /\ skipped' \subseteq Delivery /\ draining' \in BOOLEAN
    BY <1>8, Replaying DEF Start, Resume
  <2> QED BY <1>8, <2>1 DEF Start, Resume, TypeOK, table, counts
<1>9. CASE DrainEnds \/ Retry \/ Pause \/ Paused \/ Stop \/ Stopped
  <2> USE DEF TypeOK, table, outlet, past, counts
  <2>1. CASE DrainEnds \/ Retry
    BY <2>1 DEF DrainEnds, Retry
  <2>2. CASE Pause
    <3>1. pauses' \in 0..MaxPauses
      BY <2>2, DeliveryAssumption DEF Pause
    <3> QED BY <2>2, <3>1 DEF Pause
  <2>3. CASE Paused \/ Stopped
    BY <2>3 DEF Paused, Stopped
  <2>4. CASE Stop
    BY <2>4 DEF Stop
  <2> QED BY <1>9, <2>1, <2>2, <2>3, <2>4
<1>10. ASSUME Ends PROVE TypeOK'
  <2>1. ends' \in 0..MaxEnds
    BY <1>10, DeliveryAssumption DEF Ends, TypeOK
  <2>2. send' \in [Sender -> Send \cup {None}]
    BY <1>10 DEF Ends
  <2>3. lost' \in [Delivery -> [Target -> Nat]]
    <3>1. \A d \in Delivery, t \in Target :
            lost[d][t] + Cardinality({s \in Sender : /\ Trying(s, "answer")
                                                     /\ send[s].d = d /\ Now(s) = t}) \in Nat
      <4> TAKE d \in Delivery, t \in Target
      <4> DEFINE F == {s \in Sender : Trying(s, "answer") /\ send[s].d = d /\ Now(s) = t}
      <4>1. F \in SUBSET Sender
        OBVIOUS
      <4>2. Cardinality(F) \in Nat
        <5> HIDE DEF F
        <5> QED BY <4>1, Lost
      <4>3. lost[d][t] \in Nat
        BY DEF TypeOK
      <4> QED BY <4>2, <4>3
    <3> QED BY <1>10, <3>1 DEF Ends
  <2>4. <<>> \in Seq(Delivery) /\ IsInjective(<<>>)
    BY DEF IsInjective
  <2> QED BY <1>10, <2>1, <2>2, <2>3, <2>4 DEF Ends, TypeOK, table
<1> QED BY <1>1, <1>2, <1>3, <1>4, <1>5, <1>6, <1>7, <1>8, <1>9, <1>10
        DEF Next, Work, Sender, Crash, Exit
-----------------------------------------------------------------------------
(* Senders, the table and what was sent                                     *)

(* A sender that a step leaves alone has on its way what it had.            *)
LEMMA Unmoved ==
  ASSUME NEW o \in Sender, send'[o] = send[o]
  PROVE  \A d, t : Flying(o, d, t)' <=> Flying(o, d, t)
<1>1. Now(o)' = Now(o)
  BY DEF Now
<1>2. Trying(o, "answer")' <=> Trying(o, "answer")
  BY DEF Trying
<1> QED BY <1>1, <1>2 DEF Flying

(* A sender begins: on a row that others have it puts the row on record,    *)
(* otherwise it has what the table says.                                    *)
LEMMA Begun ==
  ASSUME TypeOK, Sound, NEW s \in Sender, NEW d \in Delivery,
         send[s] = None, Begins(s, d),
         \A e \in Delivery : row'[e] = "acked" => row[e] = "acked",
         receipts' = receipts, sent' = sent, lost' = lost
  PROVE  Sound'
<1>1. /\ \A o \in Sender \ {s} : send'[o] = send[o]
      /\ send'[s] \in Send /\ send'[s] # None
      /\ send'[s].d = d /\ send'[s].got = receipts[d] /\ send'[s].at = "next"
      /\ send'[s].left = {t \in Target : Accepts(d) /\ receipts[d][ChatOf[t]] # "success"}
      /\ raced \subseteq raced'
      /\ (\E o \in Sender \ {s} : send[o] # None /\ send[o].d = d) => d \in raced'
  BY Beginning
<1>2. \A o \in Sender \ {s} : \A e, t : Flying(o, e, t)' <=> Flying(o, e, t)
  BY <1>1, Unmoved
<1>3. \A e, t : ~Flying(s, e, t) /\ ~Flying(s, e, t)'
  BY <1>1 DEF Flying, Trying
<1>4. Busy' = Busy \cup {s} /\ s \notin Busy
  BY <1>1 DEF Busy
<1>5. Backed'
  <2>1. AckedIsSent'
    BY DEF Sound, Backed, AckedIsSent, Reached
  <2>2. ASSUME NEW o \in Busy', NEW e \in Delivery, NEW c \in Chat,
               send'[o].d = e, send'[o].got[c] = "success"
        PROVE  Reached(e, c)
    BY <1>1, <1>4, <2>2 DEF Sound, Backed, AckedIsSent, Busy
  <2>3. ASSUME NEW o \in Busy', NEW e \in Delivery, NEW t \in Target, Flying(o, e, t)'
        PROVE  sent[e][t] >= 1
    <3>1. o # s /\ o \in Busy /\ Flying(o, e, t)
      BY <1>2, <1>3, <1>4, <2>3 DEF Busy
    <3> QED BY <3>1 DEF Sound, Backed
  <2> QED BY <2>1, <2>2, <2>3 DEF Backed, Reached
<1>6. Alone'
  BY <1>1, <1>4 DEF Sound, Alone, Busy
<1>7. Agrees'
  <2>1. \A o \in Busy : send[o].d \notin raced' => send[o].d \notin raced
    BY <1>1
  <2> QED BY <1>1, <1>4, <2>1 DEF Sound, Agrees, Busy
<1>8. Tally'
  <2>1. Delivery \ raced' \subseteq Delivery \ raced
    BY <1>1
  <2>2. SentOnce'
    BY <2>1 DEF Sound, Tally, SentOnce
  <2>3. \A e \in Delivery, t \in Target :
          (\E o \in Sender : Flying(o, e, t)) => \E o \in Sender : Flying(o, e, t)'
    BY <1>2, <1>3
  <2> QED BY <2>1, <2>2, <2>3 DEF Sound, Tally
<1> QED BY <1>5, <1>6, <1>7, <1>8 DEF Sound

(* A sender works: it changes the target at hand and the receipt of its     *)
(* chat, and nothing of another.                                            *)
LEMMA Worked ==
  ASSUME TypeOK, Sound, NEW s \in Sender, NEW d, NEW t, NEW c,
         send[s] # None, send[s].left # {}, d = send[s].d, t = Now(s), c = ChatOf[t],
         \A o \in Sender \ {s} : send'[o] = send[o],
         send'[s] # None, send'[s].d = d, send'[s].at = "next",
         send'[s].left \subseteq send[s].left,
         row' = row, sent' = sent, raced' = raced,
         \A e \in Delivery, u \in Target : e # d \/ u # t => lost'[e][u] = lost[e][u],
         \A e \in Delivery, b \in Chat : e # d \/ b # c => receipts'[e][b] = receipts[e][b],
         receipts' \in [Delivery -> [Chat -> Receipt]], send'[s] \in Send,
         \A b \in Chat \ {c} : send'[s].got[b] = send[s].got[b],
         \/ receipts' = receipts /\ send'[s].got = send[s].got
         \/ /\ send'[s].got[c] = receipts'[d][c]
            /\ \A u \in send'[s].left : ChatOf[u] = c => receipts'[d][c] # "success",
         receipts'[d][c] = "success" => receipts[d][c] = "success" \/ Flying(s, d, t),
         lost'[d][t] >= lost[d][t],
         Flying(s, d, t) => receipts'[d][c] = "success" \/ lost'[d][t] >= lost[d][t] + 1,
         lost' \in [Delivery -> [Target -> Nat]]
  PROVE  Sound'
<1>1. send[s] \in Send /\ d \in Delivery /\ t \in Target /\ t \in send[s].left /\ c \in Chat
  BY Held, Chats DEF Send
<1>2. \A o \in Sender \ {s} : \A e, u : Flying(o, e, u)' <=> Flying(o, e, u)
  BY Unmoved
<1>3. \A e, u : ~Flying(s, e, u)'
  BY DEF Flying, Trying
<1>4. \A e, u : Flying(s, e, u) => e = d /\ u = t
  BY DEF Flying
<1>5. Busy' = Busy /\ s \in Busy
  BY DEF Busy
<1>6. \A e \in Delivery, b \in Chat : receipts'[e][b] = "success" => Reached(e, b)
  <2> SUFFICES ASSUME NEW e \in Delivery, NEW b \in Chat, receipts'[e][b] = "success"
               PROVE  Reached(e, b)
    OBVIOUS
  <2>1. CASE receipts[e][b] = "success"
    BY <2>1 DEF Sound, Backed, AckedIsSent
  <2>2. CASE receipts[e][b] # "success"
    <3>1. e = d /\ b = c /\ Flying(s, d, t)
      BY <2>2
    <3>2. sent[d][t] >= 1
      BY <1>1, <1>5, <3>1 DEF Sound, Backed
    <3> QED BY <1>1, <3>1, <3>2 DEF Reached
  <2> QED BY <2>1, <2>2
<1>7. Backed'
  <2>1. AckedIsSent'
    BY <1>6 DEF Sound, Backed, AckedIsSent, Reached
  <2>2. ASSUME NEW o \in Busy, NEW e \in Delivery, NEW b \in Chat,
               send'[o].d = e, send'[o].got[b] = "success"
        PROVE  Reached(e, b)
    <3>1. CASE o # s
      BY <2>2, <3>1 DEF Sound, Backed, Busy
    <3>2. CASE o = s
      <4>1. send[s].got[b] = "success" \/ receipts'[e][b] = "success"
        BY <1>1, <2>2, <3>2
      <4> QED BY <1>5, <1>6, <2>2, <3>2, <4>1 DEF Sound, Backed
    <3> QED BY <3>1, <3>2
  <2>3. ASSUME NEW o \in Busy, NEW e \in Delivery, NEW u \in Target, Flying(o, e, u)'
        PROVE  sent[e][u] >= 1
    <3>1. o # s /\ Flying(o, e, u)
      BY <1>2, <1>3, <2>3 DEF Busy
    <3> QED BY <3>1 DEF Sound, Backed
  <2> QED BY <1>5, <2>1, <2>2, <2>3 DEF Backed, Reached
<1>8. Alone'
  BY <1>5 DEF Sound, Alone, Busy
<1>9. Agrees'
  <2> SUFFICES ASSUME NEW o \in Busy, send'[o].d \notin raced
               PROVE  /\ send'[o].got = receipts'[send'[o].d]
                      /\ \A u \in send'[o].left : send'[o].got[ChatOf[u]] # "success"
    BY <1>5 DEF Agrees
  <2>1. CASE o # s
    <3>1. send'[o] = send[o] /\ send[o].d # d /\ send[o].d \in Delivery
      BY <1>5, <2>1, Held DEF Sound, Alone, Busy, Send
    <3>2. receipts'[send[o].d] = receipts[send[o].d]
      BY <3>1 DEF TypeOK
    <3> QED BY <3>1, <3>2 DEF Sound, Agrees
  <2>2. CASE o = s
    <3>1. /\ send[s].got = receipts[d]
          /\ \A u \in send[s].left : send[s].got[ChatOf[u]] # "success"
      BY <1>5, <2>2 DEF Sound, Agrees
    <3>2. send'[s].got = receipts'[d]
      <4>1. send'[s].got \in [Chat -> Receipt] /\ receipts'[d] \in [Chat -> Receipt]
        BY <1>1 DEF Send
      <4>2. \A b \in Chat : send'[s].got[b] = receipts'[d][b]
        BY <1>1, <3>1
      <4> QED BY ONLY <4>1, <4>2
    <3>3. ASSUME NEW u \in send'[s].left PROVE send'[s].got[ChatOf[u]] # "success"
      <4>1. u \in Target /\ ChatOf[u] \in Chat /\ send[s].got[ChatOf[u]] # "success"
        BY <1>1, <3>1, Chats DEF Send
      <4>2. CASE ChatOf[u] # c
        BY <4>1, <4>2
      <4>3. CASE ChatOf[u] = c
        BY <4>1, <4>3
      <4> QED BY <4>2, <4>3
    <3> QED BY <2>2, <3>2, <3>3
  <2> QED BY <2>1, <2>2
<1>10. Tally'
  <2>1. \A e \in Delivery, u \in Target :
          /\ lost'[e][u] >= lost[e][u]
          /\ sent[e][u] \in Nat /\ lost[e][u] \in Nat /\ lost'[e][u] \in Nat
    <3> TAKE e \in Delivery, u \in Target
    <3>1. sent[e][u] \in Nat /\ lost[e][u] \in Nat /\ lost'[e][u] \in Nat
      BY DEF TypeOK
    <3>2. lost'[e][u] = lost[e][u] \/ lost'[e][u] >= lost[e][u]
      OBVIOUS
    <3> QED BY ONLY <3>1, <3>2
  <2>2. SentOnce'
    BY <2>1 DEF Sound, Tally, SentOnce
  <2>3. ASSUME NEW e \in Delivery \ raced, NEW u \in Target, sent[e][u] > lost'[e][u]
        PROVE  receipts'[e][ChatOf[u]] = "success" \/ \E o \in Sender : Flying(o, e, u)'
    <3>1. sent[e][u] > lost[e][u] /\ sent[e][u] <= 1 + lost[e][u]
      BY <2>1, <2>3 DEF Sound, Tally, SentOnce
    <3>2. receipts[e][ChatOf[u]] = "success" \/ \E o \in Sender : Flying(o, e, u)
      BY <3>1 DEF Sound, Tally
    <3>3. CASE receipts[e][ChatOf[u]] = "success"
      <4>1. e = d => receipts[d][c] # "success"
        BY <1>1, <1>5 DEF Sound, Agrees
      <4> QED BY <3>3, <4>1, Chats
    <3>4. CASE Flying(s, e, u)
      <4>1. e = d /\ u = t /\ ~(lost'[e][u] >= lost[e][u] + 1)
        BY <1>4, <2>1, <2>3, <3>1, <3>4
      <4> QED BY <3>4, <4>1
    <3>5. ASSUME NEW o \in Sender \ {s}, Flying(o, e, u) PROVE Flying(o, e, u)'
      BY <1>2, <3>5
    <3> QED BY <3>2, <3>3, <3>4, <3>5
  <2> QED BY <2>2, <2>3 DEF Tally
<1> QED BY <1>7, <1>8, <1>9, <1>10 DEF Sound

(* A message is taken: by a sender that has no other on its way.            *)
LEMMA Accepted ==
  ASSUME TypeOK, TypeOK', Sound, NEW s \in Sender, Accept(s) PROVE Sound'
<1> DEFINE d == send[s].d
<1> DEFINE t == Now(s)
<1>1. /\ send[s] # None /\ send[s].left # {} /\ send[s].at = "next"
      /\ send' = [send EXCEPT ![s].at = "answer"]
      /\ sent' = [sent EXCEPT ![d][t] = @ + 1]
      /\ row' = row /\ receipts' = receipts /\ lost' = lost /\ raced' = raced
  BY DEF Accept, Trying, table
<1>2. send[s] \in Send /\ d \in Delivery /\ t \in Target /\ t \in send[s].left
  BY <1>1, Held DEF Send
<1>3. /\ \A o \in Sender \ {s} : send'[o] = send[o]
      /\ send'[s].d = d /\ send'[s].at = "answer" /\ send'[s].left = send[s].left
      /\ send'[s].got = send[s].got /\ send'[s] \in Send
  BY <1>1, <1>2 DEF TypeOK, Send
<1>4. send'[s] # None /\ Busy' = Busy /\ s \in Busy
  BY <1>1, <1>3, Sending DEF Busy
<1>5. Now(s)' = t
  BY <1>3 DEF Now
<1> HIDE DEF d, t
<1>6. \A o \in Sender \ {s} : \A e, u : Flying(o, e, u)' <=> Flying(o, e, u)
  BY <1>3, Unmoved
<1>7. \A e, u : ~Flying(s, e, u) /\ (Flying(s, e, u)' <=> e = d /\ u = t)
  BY <1>1, <1>3, <1>4, <1>5 DEF Flying, Trying
<1>8. \A e \in Delivery, u \in Target :
        /\ sent[e][u] \in Nat /\ sent'[e][u] \in Nat /\ lost[e][u] \in Nat
        /\ IF e = d /\ u = t THEN sent'[e][u] = sent[e][u] + 1
           ELSE sent'[e][u] = sent[e][u]
  BY <1>1, <1>2 DEF TypeOK
<1>9. \A e \in Delivery, u \in Target : sent[e][u] >= 1 => sent'[e][u] >= 1
  BY <1>8
<1>10. sent'[d][t] >= 1
  BY <1>2, <1>8
<1>11. \A e \in Delivery, c \in Chat : Reached(e, c) => Reached(e, c)'
  BY <1>9 DEF Reached
<1>12. Backed'
  <2>1. AckedIsSent'
    BY <1>1, <1>11 DEF Sound, Backed, AckedIsSent
  <2>2. ASSUME NEW o \in Busy, NEW e \in Delivery, NEW c \in Chat,
               send'[o].d = e, send'[o].got[c] = "success"
        PROVE  Reached(e, c)'
    BY <1>3, <1>11, <2>2 DEF Sound, Backed, Busy, d
  <2>3. ASSUME NEW o \in Busy, NEW e \in Delivery, NEW u \in Target, Flying(o, e, u)'
        PROVE  sent'[e][u] >= 1
    <3>1. Flying(o, e, u) => sent[e][u] >= 1
      BY DEF Sound, Backed
    <3> QED BY <1>6, <1>7, <1>9, <1>10, <2>3, <3>1 DEF Busy
  <2> QED BY <1>4, <2>1, <2>2, <2>3 DEF Backed
<1>13. \A o \in Busy : send'[o].d = send[o].d /\ send'[o].got = send[o].got
                        /\ send'[o].left = send[o].left
  BY <1>3 DEF Busy, d
<1>14. Alone'
  BY <1>1, <1>4, <1>13 DEF Sound, Alone
<1>15. Agrees'
  BY <1>1, <1>4, <1>13 DEF Sound, Agrees
<1>16. Tally'
  <2>1. d \notin raced => sent[d][t] <= lost[d][t]
    <3> SUFFICES ASSUME d \notin raced PROVE ~(sent[d][t] > lost[d][t])
      BY <1>2, <1>8
    <3>1. receipts[d][ChatOf[t]] # "success"
      BY <1>2, <1>4 DEF Sound, Agrees, d
    <3>2. \A o \in Sender : ~Flying(o, d, t)
      BY <1>4, <1>7 DEF Sound, Alone, Busy, Flying, Trying, d
    <3> QED BY <1>2, <3>1, <3>2 DEF Sound, Tally
  <2>2. SentOnce'
    <3> SUFFICES ASSUME NEW e \in Delivery \ raced, NEW u \in Target
                 PROVE  sent'[e][u] <= 1 + lost[e][u]
      BY <1>1 DEF SentOnce
    <3>1. sent[e][u] <= 1 + lost[e][u]
      BY DEF Sound, Tally, SentOnce
    <3> QED BY <1>8, <2>1, <3>1
  <2>3. ASSUME NEW e \in Delivery \ raced, NEW u \in Target, sent'[e][u] > lost[e][u]
        PROVE  receipts[e][ChatOf[u]] = "success" \/ \E o \in Sender : Flying(o, e, u)'
    <3>1. CASE e = d /\ u = t
      BY <1>7, <3>1
    <3>2. CASE ~(e = d /\ u = t)
      <4>1. receipts[e][ChatOf[u]] = "success" \/ \E o \in Sender : Flying(o, e, u)
        BY <1>8, <2>3, <3>2 DEF Sound, Tally
      <4> QED BY <1>6, <1>7, <4>1
    <3> QED BY <3>1, <3>2
  <2> QED BY <1>1, <2>2, <2>3 DEF Tally
<1> QED BY <1>12, <1>14, <1>15, <1>16 DEF Sound

(* A sender records what it has: alone, it changes no receipt; with others, *)
(* a success it writes was one.                                             *)
LEMMA Recorded ==
  ASSUME TypeOK, Sound, NEW s \in Sender, Done(s), Record(s), UNCHANGED past
  PROVE  Sound'
<1> DEFINE d == send[s].d
<1>1. send[s] # None /\ send[s].left = {}
  BY DEF Done
<1>2. /\ \A o \in Sender \ {s} : send'[o] = send[o]
      /\ send'[s] = None /\ receipts' = [receipts EXCEPT ![d] = send[s].got]
      /\ row'[d] = "acked" <=> All(s)
      /\ \A e \in Delivery \ {d} : row'[e] = row[e]
      /\ send[s] \in Send
  BY <1>1, Recording
<1>3. sent' = sent /\ lost' = lost /\ raced' = raced
  BY DEF past
<1>4. d \in Delivery /\ s \in Busy
  BY <1>1, <1>2 DEF Send, Busy
<1>5. All(s) <=> \A c \in Chat : send[s].got[c] = "success"
  BY DEF All
<1>6. \A e, u : ~Flying(s, e, u) /\ ~Flying(s, e, u)'
  BY <1>1, <1>2 DEF Flying, Trying
<1> HIDE DEF d
<1>7. \A o \in Sender \ {s} : \A e, u : Flying(o, e, u)' <=> Flying(o, e, u)
  BY <1>2, Unmoved
<1>8. Busy' = Busy \ {s}
  BY <1>2 DEF Busy
<1>9. \A e \in Delivery : IF e = d THEN receipts'[e] = send[s].got
                           ELSE receipts'[e] = receipts[e]
  BY <1>2 DEF TypeOK
<1>10. d \notin raced => receipts'[d] = receipts[d]
  BY <1>4, <1>9 DEF Sound, Agrees, d
<1>11. \A c \in Chat : send[s].got[c] = "success" => Reached(d, c)
  BY <1>4 DEF Sound, Backed, d
<1>12. Backed'
  <2>1. ASSUME NEW e \in Delivery, NEW c \in Chat,
               row'[e] = "acked" \/ receipts'[e][c] = "success"
        PROVE  Reached(e, c)
    <3>1. CASE e = d
      BY <1>2, <1>5, <1>9, <1>11, <2>1, <3>1
    <3>2. CASE e # d
      BY <1>2, <1>9, <2>1, <3>2 DEF Sound, Backed, AckedIsSent
    <3> QED BY <3>1, <3>2
  <2>2. AckedIsSent'
    BY <1>3, <2>1 DEF AckedIsSent, Reached
  <2>3. ASSUME NEW o \in Busy', NEW e \in Delivery, NEW c \in Chat,
               send'[o].d = e, send'[o].got[c] = "success"
        PROVE  Reached(e, c)
    BY <1>2, <1>8, <2>3 DEF Sound, Backed, Busy
  <2>4. ASSUME NEW o \in Busy', NEW e \in Delivery, NEW t \in Target, Flying(o, e, t)'
        PROVE  sent[e][t] >= 1
    BY <1>2, <1>7, <1>8, <2>4 DEF Sound, Backed, Busy
  <2> QED BY <1>3, <2>2, <2>3, <2>4 DEF Backed, Reached
<1>13. Alone'
  BY <1>2, <1>3, <1>8 DEF Sound, Alone, Busy
<1>14. Agrees'
  <2> SUFFICES ASSUME NEW o \in Busy \ {s}, send[o].d \notin raced
               PROVE  /\ send[o].got = receipts'[send[o].d]
                      /\ \A t \in send[o].left : send[o].got[ChatOf[t]] # "success"
    BY <1>2, <1>3, <1>8 DEF Agrees, Busy
  <2>1. send[o].d # d /\ send[o].d \in Delivery
    BY <1>4, Held DEF Sound, Alone, Busy, Send, d
  <2> QED BY <1>9, <2>1 DEF Sound, Agrees
<1>15. Tally'
  <2>1. SentOnce'
    BY <1>3 DEF Sound, Tally, SentOnce
  <2>2. \A e \in Delivery \ raced : receipts'[e] = receipts[e]
    BY <1>9, <1>10
  <2>3. \A e, t : (\E o \in Sender : Flying(o, e, t)) => \E o \in Sender : Flying(o, e, t)'
    BY <1>6, <1>7
  <2> QED BY <1>3, <2>1, <2>2, <2>3 DEF Sound, Tally
<1> QED BY <1>12, <1>13, <1>14, <1>15 DEF Sound

(* The outlet alone moves: no sender, no row, no receipt.                   *)
LEMMA Idle ==
  ASSUME Sound, UNCHANGED <<table, send, sent, lost, raced>> PROVE Sound'
<1>1. \A o \in Sender : \A e, u : Flying(o, e, u)' <=> Flying(o, e, u)
  BY Unmoved
<1>2. Busy' = Busy
  BY DEF Busy
<1>3. Backed'
  BY <1>1, <1>2 DEF Sound, Backed, AckedIsSent, Reached, Busy, table
<1>4. Alone' /\ Agrees'
  BY <1>2 DEF Sound, Alone, Agrees, table
<1>5. Tally'
  <2>1. SentOnce'
    BY DEF Sound, Tally, SentOnce
  <2> QED BY <1>1, <2>1 DEF Sound, Tally, table
<1> QED BY <1>3, <1>4, <1>5 DEF Sound

(* The process ends: what is on its way has lost its answer.                *)
LEMMA Ended ==
  ASSUME TypeOK, Sound, Ends PROVE Sound'
<1>1. /\ row' = row /\ receipts' = receipts /\ sent' = sent /\ raced' = raced
      /\ send' = [s \in Sender |-> None]
  BY DEF Ends, table
<1>2. Busy' = {}
  BY <1>1 DEF Busy
<1>3. ASSUME NEW d \in Delivery, NEW t \in Target
      PROVE  /\ lost'[d][t] >= lost[d][t] /\ lost'[d][t] \in Nat /\ lost[d][t] \in Nat
             /\ (\E s \in Sender : Flying(s, d, t)) => lost'[d][t] >= lost[d][t] + 1
  <2> DEFINE F == {s \in Sender : Trying(s, "answer") /\ send[s].d = d /\ Now(s) = t}
  <2>1. F \in SUBSET Sender /\ ((\E s \in Sender : Flying(s, d, t)) => F # {})
    BY DEF Flying
  <2>2. lost'[d][t] = lost[d][t] + Cardinality(F)
    BY DEF Ends
  <2> HIDE DEF F
  <2>3. Cardinality(F) \in Nat /\ (F # {} => Cardinality(F) >= 1)
    BY <2>1, Lost
  <2>4. lost[d][t] \in Nat
    BY DEF TypeOK
  <2>5. lost'[d][t] >= lost[d][t] /\ lost'[d][t] \in Nat
        /\ (Cardinality(F) >= 1 => lost'[d][t] >= lost[d][t] + 1)
    BY ONLY <2>2, <2>3, <2>4
  <2> QED BY <2>1, <2>3, <2>4, <2>5
<1>4. Backed' /\ Alone' /\ Agrees'
  <2>1. AckedIsSent'
    BY <1>1 DEF Sound, Backed, AckedIsSent, Reached
  <2> QED BY <1>2, <2>1 DEF Backed, Alone, Agrees
<1>5. Tally'
  <2>1. \A d \in Delivery, t \in Target : sent[d][t] \in Nat
    BY DEF TypeOK
  <2>2. SentOnce'
    <3> SUFFICES ASSUME NEW d \in Delivery \ raced, NEW t \in Target
                 PROVE  sent[d][t] <= 1 + lost'[d][t]
      BY <1>1 DEF SentOnce
    <3>1. sent[d][t] <= 1 + lost[d][t]
      BY DEF Sound, Tally, SentOnce
    <3> QED BY <1>3, <2>1, <3>1
  <2>3. ASSUME NEW d \in Delivery \ raced, NEW t \in Target, sent[d][t] > lost'[d][t]
        PROVE  receipts[d][ChatOf[t]] = "success"
    <3>1. sent[d][t] > lost[d][t] /\ sent[d][t] <= 1 + lost[d][t]
      BY <1>3, <2>1, <2>3 DEF Sound, Tally, SentOnce
    <3>2. ~(lost'[d][t] >= lost[d][t] + 1)
      BY <1>3, <2>1, <2>3, <3>1
    <3>3. \A s \in Sender : ~Flying(s, d, t)
      BY <1>3, <3>2
    <3> QED BY <3>1, <3>3 DEF Sound, Tally
  <2> QED BY <1>1, <2>2, <2>3 DEF Tally
<1> QED BY <1>4, <1>5 DEF Sound

(* Every step keeps the table, the senders and the history together.        *)
LEMMA SoundStep == ASSUME TypeOK, TypeOK', Sound, [Next]_vars PROVE Sound'
<1>1. CASE UNCHANGED vars
  BY <1>1, Idle DEF vars, past
<1>2. ASSUME NEW p \in Proposer, NEW d \in Delivery, Propose(p, d) \/ SendStaged(p, d)
      PROVE  Sound'
  <2>1. p \in Sender /\ Sends(p, d) /\ row[d] # "acked"
    BY <1>2 DEF Propose, SendStaged, Sender
  <2>2. /\ send[p] = None /\ Begins(p, d) /\ receipts' = receipts
        /\ sent' = sent /\ lost' = lost
        /\ \A e \in Delivery : row'[e] = "acked" => row[e] = "acked"
    BY <2>1 DEF Sends, TypeOK
  <2> QED BY <2>1, <2>2, Begun
<1>3. ASSUME Take PROVE Sound'
  <2>1. /\ send[Drain] = None /\ Begins(Drain, Head(queue)) /\ Drain \in Sender
        /\ row' = row /\ receipts' = receipts /\ sent' = sent /\ lost' = lost
    BY <1>3 DEF Take, table, Sender
  <2>2. Head(queue) \in Delivery
    BY <1>3, Queues DEF Take, TypeOK
  <2> QED BY <2>1, <2>2, Begun
<1>4. ASSUME NEW s \in Sender, Sent(s) \/ (Drained /\ s = Drain) PROVE Sound'
  <2>1. Done(s) /\ Record(s) /\ UNCHANGED past
    BY <1>4 DEF Sent, Drained
  <2> QED BY <2>1, Recorded
<1>5. ASSUME NEW s \in Sender, Accept(s) PROVE Sound'
  BY <1>5, Accepted
<1>6. ASSUME NEW s \in Sender, Answer(s) PROVE Sound'
  <2>1. /\ Trying(s, "answer") /\ Result(s, "success") /\ "success" \in Receipt
        /\ send[s] # None /\ send[s].left # {}
        /\ row' = row /\ sent' = sent /\ lost' = lost /\ raced' = raced
    BY <1>6 DEF Answer, Trying, past, Receipt
  <2> DEFINE d == send[s].d
  <2> DEFINE t == Now(s)
  <2> DEFINE c == ChatOf[t]
  <2>2. /\ d \in Delivery /\ t \in Target /\ c \in Chat /\ Flying(s, d, t)
        /\ send[s].got \in [Chat -> Receipt]
    BY <2>1, Held, Chats DEF Send, Flying
  <2>3. /\ \A o \in Sender \ {s} : send'[o] = send[o]
        /\ send'[s] \in Send /\ send'[s] # None
        /\ send'[s].d = d /\ send'[s].at = "next"
        /\ receipts' \in [Delivery -> [Chat -> Receipt]]
    BY <2>1, Resulting
  <2>4. /\ send'[s].left = {u \in send[s].left :
                             u # t /\ (ChatOf[u] = c => "success" # "success")}
        /\ send'[s].got = [send[s].got EXCEPT ![c] = "success"]
        /\ receipts' = [receipts EXCEPT ![d][c] = "success"]
    BY <2>1, Resulting
  <2> HIDE DEF d, t, c
  <2>5. send'[s].left \subseteq send[s].left /\ \A u \in send'[s].left : ChatOf[u] # c
    BY <2>4
  <2>6. /\ receipts'[d][c] = "success" /\ send'[s].got[c] = "success"
        /\ \A e \in Delivery, b \in Chat : e # d \/ b # c => receipts'[e][b] = receipts[e][b]
        /\ \A b \in Chat \ {c} : send'[s].got[b] = send[s].got[b]
    BY <2>2, <2>4 DEF TypeOK
  <2>7. /\ lost'[d][t] >= lost[d][t] /\ lost' \in [Delivery -> [Target -> Nat]]
        /\ \A e \in Delivery, u \in Target : e # d \/ u # t => lost'[e][u] = lost[e][u]
    BY <2>1, <2>2 DEF TypeOK
  <2>8. d = send[s].d /\ t = Now(s) /\ c = ChatOf[t]
    BY DEF d, t, c
  <2>9. send[s] # None /\ send[s].left # {} /\ row' = row /\ sent' = sent /\ raced' = raced
    BY <2>1
  <2>10. Flying(s, d, t)
    BY <2>2
  <2> QED BY <2>3, <2>5, <2>6, <2>7, <2>8, <2>9, <2>10, Worked
<1>7. ASSUME NEW s \in Sender, Refuse(s) \/ LoseAnswer(s) PROVE Sound'
  <2> DEFINE d == send[s].d
  <2> DEFINE t == Now(s)
  <2> DEFINE c == ChatOf[t]
  <2>1. /\ Misses(s) /\ "failed" \in Receipt /\ send[s] # None /\ send[s].left # {}
        /\ row' = row /\ sent' = sent /\ raced' = raced
    BY <1>7 DEF Refuse, LoseAnswer, Trying, past, Receipt
  <2>2. d \in Delivery /\ t \in Target /\ c \in Chat /\ send[s] \in Send
    BY <2>1, Held, Chats DEF Send
  <2>3. /\ \A e \in Delivery, u \in Target : e # d \/ u # t => lost'[e][u] = lost[e][u]
        /\ lost'[d][t] >= lost[d][t]
        /\ Flying(s, d, t) => lost'[d][t] >= lost[d][t] + 1
    <3>1. CASE Refuse(s)
      <4>1. lost' = lost /\ ~Flying(s, d, t) /\ lost[d][t] \in Nat
        BY <2>2, <3>1 DEF Refuse, past, Flying, Trying, TypeOK
      <4> HIDE DEF d, t
      <4> QED BY <4>1
    <3>2. CASE LoseAnswer(s)
      <4>1. lost' = [lost EXCEPT ![d][t] = @ + 1]
        BY <3>2 DEF LoseAnswer
      <4> HIDE DEF d, t
      <4>2. lost'[d][t] = lost[d][t] + 1 /\ lost[d][t] \in Nat
        BY <2>2, <4>1 DEF TypeOK
      <4> QED BY <2>2, <4>1, <4>2 DEF TypeOK
    <3> QED BY <1>7, <3>1, <3>2
  <2>4. lost' \in [Delivery -> [Target -> Nat]] /\ receipts' \in [Delivery -> [Chat -> Receipt]]
    BY DEF TypeOK
  <2>5. CASE Result(s, "failed")
    <3>1. /\ \A o \in Sender \ {s} : send'[o] = send[o]
          /\ send'[s] \in Send /\ send'[s] # None
          /\ send'[s].d = d /\ send'[s].at = "next"
      BY <2>1, <2>5, Resulting
    <3>2. /\ send'[s].left \subseteq send[s].left
          /\ send'[s].got = [send[s].got EXCEPT ![c] = "failed"]
          /\ receipts' = [receipts EXCEPT ![d][c] = "failed"]
      BY <2>1, <2>5, Resulting
    <3>3. send[s].got \in [Chat -> Receipt]
      BY <2>2 DEF Send
    <3>4. d = send[s].d /\ t = Now(s) /\ c = ChatOf[t]
      OBVIOUS
    <3> HIDE DEF d, t, c
    <3>5. /\ receipts'[d][c] = "failed" /\ send'[s].got[c] = "failed"
          /\ \A e \in Delivery, b \in Chat : e # d \/ b # c => receipts'[e][b] = receipts[e][b]
          /\ \A b \in Chat \ {c} : send'[s].got[b] = send[s].got[b]
      BY <2>2, <3>2, <3>3 DEF TypeOK
    <3>6. send'[s].got[c] = receipts'[d][c] /\ receipts'[d][c] # "success"
      BY <3>5
    <3>7. \A e \in Delivery, u \in Target : e # d \/ u # t => lost'[e][u] = lost[e][u]
      BY <2>3
    <3>8. /\ \A e \in Delivery, b \in Chat : e # d \/ b # c => receipts'[e][b] = receipts[e][b]
          /\ \A b \in Chat \ {c} : send'[s].got[b] = send[s].got[b]
          /\ send'[s].left \subseteq send[s].left
      BY <3>2, <3>5
    <3> QED BY <2>1, <2>3, <2>4, <3>1, <3>4, <3>6, <3>7, <3>8, Worked
  <2>6. CASE ~Result(s, "failed")
    <3>1. /\ \A o \in Sender \ {s} : send'[o] = send[o]
          /\ send'[s] \in Send /\ send'[s] # None
          /\ send'[s].d = d /\ send'[s].at = "next"
          /\ send'[s].left = send[s].left /\ send'[s].got = send[s].got
          /\ receipts' = receipts
      BY <2>1, <2>6, Missing
    <3>2. d = send[s].d /\ t = Now(s) /\ c = ChatOf[t]
      OBVIOUS
    <3> HIDE DEF d, t, c
    <3> QED BY <2>1, <2>2, <2>3, <2>4, <3>1, <3>2, Worked
  <2> QED BY <2>5, <2>6
<1>8. CASE DrainEnds \/ Retry \/ Start \/ Pause \/ Paused \/ Resume \/ Stop \/ Stopped
  <2>1. UNCHANGED <<table, send, sent, lost, raced>>
    BY <1>8 DEF DrainEnds, Retry, Start, Pause, Paused, Resume, Stop, Stopped, past
  <2> QED BY <2>1, Idle
<1>9. CASE Ends
  BY <1>9, Ended
<1> QED BY <1>1, <1>2, <1>3, <1>4, <1>5, <1>6, <1>7, <1>8, <1>9
        DEF Next, Work, Sender, Crash, Exit
-----------------------------------------------------------------------------
(* Who owes an open row                                                     *)

(* Queued, in the hands of a sender, or left out by the last replay.        *)
Owed(d) == d \in skipped \/ d \in ToSet(queue) \/ \E s \in Busy : send[s].d = d

(* OwedIsHeld, a row at a time.                                             *)
LEMMA Owing ==
  OwedIsHeld <=> /\ life \in {"up", "pausing", "paused"} =>
                      \A d \in OpenRows : Accepts(d) => Owed(d)
                 /\ life = "up" /\ queue # <<>> => draining \/ timer
BY DEF OwedIsHeld, Owed, Busy

(* Rows that are open, queued and skipped as before, senders that work on.  *)
LEMMA Kept ==
  ASSUME TypeOK, OwedIsHeld,
         life' \in {"up", "pausing", "paused"} => life \in {"up", "pausing", "paused"},
         OpenRows' \subseteq OpenRows, skipped' = skipped, queue' = queue,
         \A s \in Busy : send'[s] # None /\ send'[s].d = send[s].d,
         life' = "up" /\ queue # <<>> => draining' \/ timer'
  PROVE  OwedIsHeld'
<1>1. \A d : Owed(d) => Owed(d)'
  BY DEF Owed, Busy
<1> QED BY <1>1, Owing DEF OwedIsHeld, Owed, Busy

(* Every step leaves each open row with somebody who owes it.               *)
LEMMA OwedStep == ASSUME TypeOK, TypeOK', OwedIsHeld, [Next]_vars PROVE OwedIsHeld'
<1> DEFINE Lives == {"up", "pausing", "paused"}
<1>1. CASE UNCHANGED vars
  BY <1>1 DEF vars, table, outlet, past, OwedIsHeld, OpenRows
<1>2. ASSUME NEW p \in Proposer, NEW d \in Delivery, Propose(p, d) \/ SendStaged(p, d)
      PROVE  OwedIsHeld'
  <2>1. p \in Sender /\ Sends(p, d)
    BY <1>2 DEF Propose, SendStaged, Sender
  <2>2. /\ send[p] = None /\ Begins(p, d) /\ life' = life
        /\ queue' = queue /\ draining' = draining /\ timer' = timer
        /\ skipped' = skipped
        /\ \A e \in Delivery \ {d} : row'[e] = row[e]
    BY <2>1 DEF Sends, outlet, TypeOK
  <2>3. /\ \A o \in Sender \ {p} : send'[o] = send[o]
        /\ send'[p] # None /\ send'[p].d = d
    BY <2>1, <2>2, Beginning
  <2>4. Owed(d)'
    BY <2>1, <2>3 DEF Owed, Busy
  <2>5. \A e : Owed(e) => Owed(e)'
    BY <2>2, <2>3 DEF Owed, Busy
  <2>6. OpenRows' \subseteq OpenRows \cup {d}
    BY <2>2 DEF OpenRows
  <2>7. (life' \in Lives => \A e \in OpenRows' : Accepts(e) => Owed(e)')
    BY <2>2, <2>4, <2>5, <2>6, Owing
  <2>8. life' = "up" /\ queue' # <<>> => draining' \/ timer'
    BY <2>2, Owing
  <2> QED BY <2>7, <2>8 DEF OwedIsHeld, Owed, Busy
<1>3. ASSUME NEW s \in Sender, Sent(s) \/ (Drained /\ s = Drain) PROVE OwedIsHeld'
  <2> DEFINE d == send[s].d
  <2>1. send[s] # None /\ Record(s) /\ life' = life /\ skipped' = skipped
    BY <1>3 DEF Sent, Drained, Done, past
  <2>2. /\ \A o \in Sender \ {s} : send'[o] = send[o]
        /\ \A e \in Delivery \ {d} : row'[e] = row[e]
        /\ row'[d] = "acked" <=> All(s)
        /\ send[s] \in Send
    BY <2>1, Recording
  <2>3. d \in Delivery
    BY <2>2 DEF Send
  <2>4. \/ All(s) /\ queue' = queue
        \/ ~All(s) /\ life = "stopping" /\ queue' = queue
        \/ ~All(s) /\ life = "stopped" /\ queue' = queue
        \/ ~All(s) /\ ~Accepts(d) /\ queue' = queue
        \/ ~All(s) /\ queue' = Put(queue, d)
    BY <1>3 DEF Sent, Drained, Enqueue, stopped, outlet
  <2>5. ToSet(Put(queue, d)) = ToSet(queue) \cup {d}
    BY <2>3, Queues DEF TypeOK
  <2>6. life' = "up" /\ queue' # <<>> => draining' \/ timer'
    <3>1. life = "up" /\ queue # <<>> => draining \/ timer
      BY Owing
    <3> QED BY <1>3, <2>1, <3>1
            DEF Sent, Drained, Enqueue, stopped, started, outlet, ScheduleRetry, TypeOK
  <2> HIDE DEF d
  <2>7. ASSUME life' \in Lives, NEW e \in OpenRows', Accepts(e) PROVE Owed(e)'
    <3>1. e \in Delivery /\ row'[e] \in Open
      BY <2>7 DEF OpenRows
    <3>2. CASE e = d
      <4>1. ~All(s)
        BY <2>2, <3>1, <3>2 DEF Open
      <4>2. queue' = Put(queue, d)
        BY <2>1, <2>4, <2>7, <3>2, <4>1
      <4> QED BY <2>5, <3>2, <4>2 DEF Owed
    <3>3. CASE e # d
      <4>1. e \in OpenRows
        BY <2>2, <3>1, <3>3 DEF OpenRows
      <4>2. Owed(e)
        BY <2>1, <2>7, <4>1, Owing
      <4>3. ToSet(queue) \subseteq ToSet(queue')
        BY <2>4, <2>5
      <4> QED BY <2>1, <2>2, <3>3, <4>2, <4>3 DEF Owed, Busy, d
    <3> QED BY <3>2, <3>3
  <2> QED BY <2>6, <2>7 DEF OwedIsHeld, Owed, Busy
<1>4. ASSUME NEW s \in Sender, Work(s) PROVE OwedIsHeld'
  <2>1. /\ send[s] # None /\ send[s].left # {} /\ send[s] \in Send
        /\ row' = row /\ life' = life /\ queue' = queue /\ draining' = draining
        /\ timer' = timer /\ skipped' = skipped
    <3>1. send[s] # None /\ send[s].left # {}
      BY <1>4 DEF Work, Accept, Answer, Refuse, LoseAnswer, Trying
    <3>2. /\ row' = row /\ life' = life /\ queue' = queue /\ draining' = draining
          /\ timer' = timer /\ skipped' = skipped
      BY <1>4 DEF Work, Accept, Answer, Refuse, LoseAnswer, table, outlet, past
    <3> QED BY <3>1, <3>2, Held
  <2>2. /\ \A o \in Sender \ {s} : send'[o] = send[o]
        /\ send'[s] # None /\ send'[s].d = send[s].d
    <3>1. CASE Accept(s)
      <4>1. send' = [send EXCEPT ![s].at = "answer"]
        BY <3>1 DEF Accept
      <4>2. send'[s] \in Send /\ send'[s].d = send[s].d
        BY <2>1, <4>1 DEF TypeOK, Send
      <4> QED BY <4>1, <4>2, Sending DEF TypeOK
    <3>2. CASE Answer(s)
      BY <2>1, <3>2, Resulting DEF Answer, Receipt
    <3>3. CASE Refuse(s) \/ LoseAnswer(s)
      <4>1. Misses(s) /\ "failed" \in Receipt
        BY <3>3 DEF Refuse, LoseAnswer, Receipt
      <4> QED BY <2>1, <4>1, Missing, Resulting
    <3> QED BY <1>4, <3>1, <3>2, <3>3 DEF Work
  <2>3. OpenRows' = OpenRows
    BY <2>1 DEF OpenRows
  <2>4. \A o \in Busy : send'[o] # None /\ send'[o].d = send[o].d
    BY <2>2 DEF Busy
  <2>5. life' = "up" /\ queue # <<>> => draining' \/ timer'
    BY <2>1, Owing
  <2> QED BY <2>1, <2>3, <2>4, <2>5, Kept
<1>5. ASSUME Take PROVE OwedIsHeld'
  <2>1. /\ Drain \in Sender /\ queue # <<>> /\ send[Drain] = None /\ draining
        /\ Begins(Drain, Head(queue)) /\ queue' = Tail(queue)
        /\ row' = row /\ life' = life /\ draining' = draining /\ skipped' = skipped
    BY <1>5 DEF Take, Sender, table
  <2>2. Head(queue) \in Delivery /\ ToSet(queue) = {Head(queue)} \cup ToSet(Tail(queue))
    BY <2>1, Queues DEF TypeOK
  <2>3. /\ \A o \in Sender \ {Drain} : send'[o] = send[o]
        /\ send'[Drain] # None /\ send'[Drain].d = Head(queue)
    BY <2>1, <2>2, Beginning
  <2>4. \A e : Owed(e) => Owed(e)'
    BY <2>1, <2>2, <2>3 DEF Owed, Busy
  <2>5. OpenRows' = OpenRows
    BY <2>1 DEF OpenRows
  <2> QED BY <2>1, <2>4, <2>5, Owing DEF OwedIsHeld, Owed, Busy
<1>6. ASSUME Start \/ Resume PROVE OwedIsHeld'
  <2>1. ToSet(queue') = ToSet(queue) \cup {d \in Replayed : Accepts(d)}
        /\ skipped' = OpenRows \ Replayed /\ draining' = TRUE
    BY <1>6, Replaying DEF Start, Resume
  <2>2. row' = row
    BY <1>6 DEF Start, Resume, table
  <2>3. OpenRows' = OpenRows
    BY <2>2 DEF OpenRows
  <2> QED BY <2>1, <2>3 DEF OwedIsHeld
<1>7. CASE DrainEnds \/ Retry \/ Pause \/ Paused \/ Stop \/ Stopped
  <2>1. /\ row' = row /\ send' = send /\ queue' = queue /\ skipped' = skipped
        /\ (life' \in Lives => life \in Lives)
    BY <1>7 DEF DrainEnds, Retry, Pause, Paused, Stop, Stopped, table, outlet, past
  <2>2. life' = "up" /\ queue # <<>> => draining' \/ timer'
    <3>1. life = "up" /\ queue # <<>> => draining \/ timer
      BY Owing
    <3> QED BY <1>7, <3>1 DEF DrainEnds, Retry, Pause, Paused, Stop, Stopped, outlet
  <2>3. OpenRows' = OpenRows
    BY <2>1 DEF OpenRows
  <2> QED BY <2>1, <2>2, <2>3, Kept DEF Busy
<1>8. CASE Ends
  BY <1>8 DEF Ends, OwedIsHeld
<1> QED BY <1>1, <1>2, <1>3, <1>4, <1>5, <1>6, <1>7, <1>8
        DEF Next, Work, Sender, Crash, Exit
-----------------------------------------------------------------------------
(* At the start nobody sends, nothing is queued, and nothing was sent.      *)
LEMMA Initial == Init => IInv
<1> SUFFICES ASSUME Init PROVE IInv
  OBVIOUS
<1>1. TypeOK
  <2>1. <<>> \in Seq(Delivery) /\ IsInjective(<<>>)
    BY DEF IsInjective
  <2>2. 0 \in 0..MaxFaults /\ 0 \in 0..MaxEnds /\ 0 \in 0..MaxPauses
    BY DeliveryAssumption
  <2> QED BY <2>1, <2>2 DEF Init, TypeOK, Receipt
<1>2. Busy = {}
  BY DEF Init, Busy
<1>3. Backed
  BY <1>2 DEF Init, Backed, AckedIsSent
<1>4. Alone /\ Agrees
  BY <1>2 DEF Alone, Agrees
<1>5. Tally
  BY DEF Init, Tally, SentOnce
<1>6. OwedIsHeld
  BY DEF Init, OwedIsHeld
<1> QED BY <1>1, <1>3, <1>4, <1>5, <1>6 DEF IInv, Sound

(* The invariant of every behaviour of the specification.                   *)
LEMMA Invariant == Spec => []IInv
<1>1. IInv /\ [Next]_vars => IInv'
  BY TypeStep, SoundStep, OwedStep DEF IInv
<1> QED BY <1>1, Initial, PTL DEF Spec

(* The types hold, and a success on the table, or an acknowledged row, was  *)
(* accepted by the provider for a target of the chat, or for one of each    *)
(* chat: whatever senders overlapped, answers were lost and processes       *)
(* crashed.                                                                 *)
THEOREM ConsistentHolds == Spec => []Consistent
<1>1. IInv => Consistent
  BY DEF IInv, Sound, Backed, Consistent
<1> QED BY <1>1, Invariant, PTL

(* A target is sent a message again only after an answer was lost, or when  *)
(* two senders had the delivery at once: receipts survive attempts, retries *)
(* and restarts (deliverWithRetry's look at target_receipts).               *)
THEOREM SentOnceHolds == Spec => []SentOnce
<1>1. IInv => SentOnce
  BY DEF IInv, Sound, Tally
<1> QED BY <1>1, Invariant, PTL

(* While the outlet lives an open row it accepts, and that the replay limit *)
(* did not leave out, is queued or in a sender's hands, and a queue is      *)
(* drained or has its timer.                                                *)
THEOREM OwedIsHeldHolds == Spec => []OwedIsHeld
<1>1. IInv => OwedIsHeld
  BY DEF IInv
<1> QED BY <1>1, Invariant, PTL
=============================================================================
