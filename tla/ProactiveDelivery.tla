--------------------------- MODULE ProactiveDelivery ---------------------------
(***************************************************************************)
(* packages/proactive: the outlet that delivers proactive messages through *)
(* the gateway (src/gateway-delivery.ts), the table of deliveries it works *)
(* from (src/store.ts) and the ticks and drift runs that send through it   *)
(* (src/stages/deliver.ts, src/index.ts).                                  *)
(*                                                                         *)
(* Every delivery is a row.  A sender - a tick or run that proposes the    *)
(* message, or the drain of the outlet's queue - takes the targets without *)
(* a successful receipt, sends to each with some attempts, writes each     *)
(* receipt, and at the end acknowledges the row or marks it failed and     *)
(* leaves it to the queue, which drains again after a delay.  Two senders  *)
(* may work on one row.  Pause and stop wait for one drain; a crash leaves *)
(* the table only, and a start queues the oldest ReplayLimit open rows.    *)
(*                                                                         *)
(* A receipt carries the chatId of its target and not the channel: targets *)
(* of two channels with one chatId share it, and the second is skipped     *)
(* once the first has the message.  A staged row may name a channel that   *)
(* is no target: the outlet refuses it, and it is never queued.            *)
(*                                                                         *)
(* A receipt "partial" of one target counts here as "failed": every test   *)
(* of the code is for "success".  Deduplication by content is left out: a  *)
(* delivery is an idempotency key.                                         *)
(***************************************************************************)
EXTENDS Integers, Sequences, FiniteSets, SequencesExt

CONSTANTS Deliveries,   \* deliveries, numbered in the order they are made
          Targets,      \* targets of each, numbered in the order configured
          ChatOf,       \* the chatId of each target
          Dead,         \* deliveries the provider always refuses
          Staged,       \* deliveries a drift run staged; a tick makes the others
          Foreign,      \* of these, the ones for a channel that is no target
          Proposer,     \* ticks and runs that may send at once
          Drain,        \* the drain of the queue
          None,         \* no send in progress
          ReplayLimit,  \* rows a start or resume reads (10 in the code)
          MaxAttempts,  \* attempts per target
          MaxFaults,    \* bound: attempts on other deliveries that fail
          MaxEnds,      \* bound: times the process ends, crashed or stopped
          MaxPauses     \* bound: pauses

Delivery == 1..Deliveries
Target   == 1..Targets
Chat     == {ChatOf[t] : t \in Target}
Sender   == Proposer \cup {Drain}

Receipt == {"none", "success", "failed"}
Send    == [d : Delivery, left : SUBSET Target, got : [Chat -> Receipt],
            tries : 0..MaxAttempts, at : {"next", "answer"}]
Open    == {"pending", "partial", "failed"}

ASSUME DeliveryAssumption ==
  /\ Deliveries \in Nat /\ Targets \in Nat \ {0}
  /\ ChatOf \in [Target -> Chat]
  /\ Dead \subseteq Delivery /\ Staged \subseteq Delivery /\ Foreign \subseteq Staged
  /\ Drain \notin Proposer /\ IsFiniteSet(Proposer) /\ None \notin Send
  /\ ReplayLimit \in Nat /\ MaxAttempts \in Nat \ {0}
  /\ MaxFaults \in Nat /\ MaxEnds \in Nat /\ MaxPauses \in Nat

VARIABLES row,       \* the table: delivery_status, with acked
          receipts,  \* the table: target_receipts, by chatId
          send,      \* the delivery each sender works on
          queue,     \* queued, a map in insertion order
          draining,  \* flushPromise is set
          timer,     \* retryTimer is set
          life,      \* started, paused and stopped, in one
          sent,      \* history: times the provider took it for the target
          lost,      \* history: of these, the answers that never came
          raced,     \* history: deliveries two senders had at once
          skipped,   \* history: open rows the last replay did not read
          faults, ends, pauses

table  == <<row, receipts>>
outlet == <<queue, draining, timer>>
past   == <<sent, lost, raced, skipped>>
counts == <<faults, ends, pauses>>
vars   == <<table, send, outlet, life, past, counts>>

TypeOK == /\ row \in [Delivery -> {"none", "acked"} \cup Open]
          /\ receipts \in [Delivery -> [Chat -> Receipt]]
          /\ send \in [Sender -> Send \cup {None}]
          /\ queue \in Seq(Delivery) /\ IsInjective(queue)
          /\ draining \in BOOLEAN /\ timer \in BOOLEAN
          /\ life \in {"down", "up", "pausing", "paused", "stopping", "stopped"}
          /\ sent \in [Delivery -> [Target -> Nat]]
          /\ lost \in [Delivery -> [Target -> Nat]]
          /\ raced \subseteq Delivery /\ skipped \subseteq Delivery
          /\ faults \in 0..MaxFaults /\ ends \in 0..MaxEnds
          /\ pauses \in 0..MaxPauses

Init == /\ row = [d \in Delivery |-> "none"]
        /\ receipts = [d \in Delivery |-> [c \in Chat |-> "none"]]
        /\ send = [s \in Sender |-> None]
        /\ queue = <<>> /\ draining = FALSE /\ timer = FALSE
        /\ life = "down"
        /\ sent = [d \in Delivery |-> [t \in Target |-> 0]]
        /\ lost = [d \in Delivery |-> [t \in Target |-> 0]]
        /\ raced = {} /\ skipped = {}
        /\ faults = 0 /\ ends = 0 /\ pauses = 0

started == life \in {"up", "pausing", "stopping"}
stopped == life \in {"stopping", "stopped"}

(* Map.set: a key that is there keeps its place.                            *)
Put(q, d) == IF d \in ToSet(q) THEN q ELSE Append(q, d)

OpenRows == {d \in Delivery : row[d] \in Open}
(* SELECT ... WHERE acked = 0 ORDER BY delivered_at ASC LIMIT ...           *)
Replayed == {d \in OpenRows : Cardinality({e \in OpenRows : e < d}) < ReplayLimit}
-----------------------------------------------------------------------------
(* send, deliverWithRetry, deliverTargetWithRetry                           *)

(* accepts *)
Accepts(d) == d \notin Foreign

(* Mutant: the receipts of an earlier attempt are not looked at.            *)
BeginsAnew(s, d) ==
  /\ send' = [send EXCEPT ![s] =
       [d |-> d, got |-> receipts[d], tries |-> 0, at |-> "next",
        left |-> IF Accepts(d) THEN Target ELSE {}]]
  /\ raced' = IF \E o \in Sender \ {s} : send[o] # None /\ send[o].d = d
              THEN raced \cup {d} ELSE raced

(* The row is read again: the receipts of the chats say which targets are   *)
(* left.  A row that is not accepted throws before it has a receipt.        *)
Begins(s, d) ==
  /\ send' = [send EXCEPT ![s] =
       [d |-> d, got |-> receipts[d], tries |-> 0, at |-> "next",
        left |-> {t \in Target : Accepts(d) /\ receipts[d][ChatOf[t]] # "success"}]]
  /\ raced' = IF \E o \in Sender \ {s} : send[o] # None /\ send[o].d = d
              THEN raced \cup {d} ELSE raced

Trying(s, at) == send[s] # None /\ send[s].at = at /\ send[s].left # {}
Now(s) == Min(send[s].left)

(* The result of a target: the receipt of its chat, written at once, then   *)
(* the next target whose chat has no success.                               *)
Result(s, status) ==
  LET d == send[s].d  t == Now(s)  c == ChatOf[t] IN
  /\ receipts' = [receipts EXCEPT ![d][c] = status]
  /\ send' = [send EXCEPT
       ![s].got[c] = status, ![s].tries = 0, ![s].at = "next",
       ![s].left = {u \in @ : u # t /\ (ChatOf[u] = c => status # "success")}]

Fault(d) == IF d \in Dead THEN UNCHANGED faults
            ELSE faults < MaxFaults /\ faults' = faults + 1

(* An attempt failed: another, or the target has failed.                    *)
Misses(s) ==
  /\ Fault(send[s].d)
  /\ IF send[s].tries + 1 < MaxAttempts
     THEN /\ send' = [send EXCEPT ![s].tries = @ + 1, ![s].at = "next"]
          /\ UNCHANGED receipts
     ELSE Result(s, "failed")

(* The provider takes the message; its answer is on the way.                *)
Accept(s) == /\ Trying(s, "next") /\ send[s].d \notin Dead
             /\ sent' = [sent EXCEPT ![send[s].d][Now(s)] = @ + 1]
             /\ send' = [send EXCEPT ![s].at = "answer"]
             /\ UNCHANGED <<table, outlet, life, lost, raced, skipped, counts>>

Answer(s) == /\ Trying(s, "answer")
             /\ Result(s, "success")
             /\ UNCHANGED <<row, outlet, life, past, counts>>

Refuse(s) == /\ Trying(s, "next")
             /\ Misses(s)
             /\ UNCHANGED <<row, outlet, life, past, ends, pauses>>

(* The message was taken, and client.send throws.                           *)
LoseAnswer(s) == /\ Trying(s, "answer")
                 /\ lost' = [lost EXCEPT ![send[s].d][Now(s)] = @ + 1]
                 /\ Misses(s)
                 /\ UNCHANGED <<row, outlet, life, sent, raced, skipped,
                                ends, pauses>>
-----------------------------------------------------------------------------
(* deliverProactiveProposal and sendDelivery of the drift sink              *)

(* insertDelivery without a notification, then outlet.send.                 *)
Sends(p, d) ==
  /\ life = "up" /\ send[p] = None
  /\ \A e \in 1..(d - 1) : row[e] # "none"
  /\ row' = [row EXCEPT ![d] = IF @ = "none" THEN "pending" ELSE @]
  /\ Begins(p, d)
  /\ UNCHANGED <<receipts, outlet, life, sent, lost, skipped, counts>>

(* A row that is acknowledged or still pending is left alone.               *)
Propose(p, d) == /\ d \notin Staged /\ row[d] \notin {"acked", "pending"}
                 /\ Sends(p, d)

(* A run asks for its own message only, or the recovery of staged runs: a   *)
(* row that is pending is sent again.                                       *)
SendStaged(p, d) == /\ d \in Staged /\ row[d] # "acked"
                    /\ Sends(p, d)

All(s) == \A c \in Chat : send[s].got[c] = "success"
Some(s) == \E c \in Chat : send[s].got[c] = "success"
Done(s) == send[s] # None /\ send[s].left = {}

(* Mutant: a delivery is acknowledged when one chat has it.                 *)
RecordSome(s) == LET d == send[s].d IN
  /\ receipts' = [receipts EXCEPT ![d] = send[s].got]
  /\ row' = [row EXCEPT ![d] = IF Some(s) THEN "acked" ELSE "failed"]
  /\ send' = [send EXCEPT ![s] = None]

(* recordDeliveryReceipt, then ackDeliveries or recordDeliveryFailure: all  *)
(* the receipts this sender has are written, and acked is set or cleared.   *)
Record(s) == LET d == send[s].d IN
  /\ receipts' = [receipts EXCEPT ![d] = send[s].got]
  /\ row' = [row EXCEPT ![d] = IF All(s) THEN "acked"
                               ELSE IF Some(s) THEN "partial" ELSE "failed"]
  /\ send' = [send EXCEPT ![s] = None]

(* enqueue: kept while the outlet is paused, dropped once it is stopped or  *)
(* when it is not accepted.                                                 *)
Enqueue(d) == IF stopped \/ ~Accepts(d) THEN UNCHANGED <<queue, draining>>
              ELSE /\ queue' = Put(queue, d)
                   /\ draining' = (draining \/ life = "up")

(* Mutant: a sender that failed leaves the row to the next start.           *)
SentUnqueued(p) == /\ Done(p) /\ p # Drain
                   /\ Record(p)
                   /\ UNCHANGED <<outlet, life, past, counts>>

Sent(p) == /\ Done(p) /\ p # Drain
           /\ Record(p)
           /\ IF All(p) THEN UNCHANGED <<queue, draining>> ELSE Enqueue(send[p].d)
           /\ UNCHANGED <<timer, life, past, counts>>
-----------------------------------------------------------------------------
(* flush, drain and scheduleRetry                                           *)

Take == /\ draining /\ send[Drain] = None /\ queue # <<>>
        /\ queue' = Tail(queue)
        /\ Begins(Drain, Head(queue))
        /\ UNCHANGED <<table, draining, timer, life, sent, lost, skipped, counts>>

ScheduleRetry == timer' = (timer \/ (started /\ ~stopped))

(* Mutant: the row of a failed attempt goes to the front.                   *)
DrainedToFront == /\ Done(Drain)
                  /\ Record(Drain)
                  /\ IF All(Drain) THEN UNCHANGED outlet
                     ELSE /\ queue' = <<send[Drain].d>> \o
                                      SelectSeq(queue, LAMBDA e : e # send[Drain].d)
                          /\ draining' = FALSE
                          /\ ScheduleRetry
                  /\ UNCHANGED <<life, past, counts>>

Drained == /\ Done(Drain)
           /\ Record(Drain)
           /\ IF All(Drain) THEN UNCHANGED outlet
              ELSE /\ queue' = Put(queue, send[Drain].d)
                   /\ draining' = FALSE
                   /\ ScheduleRetry
           /\ UNCHANGED <<life, past, counts>>

DrainEnds == /\ draining /\ send[Drain] = None /\ queue = <<>>
             /\ draining' = FALSE
             /\ UNCHANGED <<table, send, queue, timer, life, past, counts>>

Retry == /\ timer /\ timer' = FALSE
         /\ draining' = TRUE
         /\ UNCHANGED <<table, send, queue, life, past, counts>>
-----------------------------------------------------------------------------
(* start, pause, resume, stop and a crash                                   *)

(* listPendingDeliveries, oldest first; what is queued keeps its place, and *)
(* a row that is not accepted took a place among the rows that were read.   *)
Replay == /\ \E q \in SetToSeqs({d \in Replayed : Accepts(d)} \ ToSet(queue)) :
               /\ \A i, j \in DOMAIN q : i < j => q[i] < q[j]
               /\ queue' = queue \o q
          /\ skipped' = OpenRows \ Replayed
          /\ draining' = TRUE

Start == /\ life = "down" /\ life' = "up"
         /\ Replay
         /\ UNCHANGED <<table, send, timer, sent, lost, raced, counts>>

(* The timer is cleared and the queue is drained once more.                 *)
Pause == /\ life = "up" /\ pauses < MaxPauses
         /\ life' = "pausing" /\ pauses' = pauses + 1
         /\ timer' = FALSE /\ draining' = TRUE
         /\ UNCHANGED <<table, send, queue, past, faults, ends>>

Paused == /\ life = "pausing" /\ ~draining /\ life' = "paused"
          /\ UNCHANGED <<table, send, outlet, past, counts>>

Resume == /\ life = "paused" /\ life' = "up"
          /\ Replay
          /\ UNCHANGED <<table, send, timer, sent, lost, raced, counts>>

(* A paused outlet is not started: it only becomes stopped.                 *)
Stop == /\ \/ /\ life = "up" /\ life' = "stopping"
              /\ timer' = FALSE /\ draining' = TRUE
           \/ /\ life = "paused" /\ life' = "stopped"
              /\ UNCHANGED <<timer, draining>>
        /\ UNCHANGED <<table, send, queue, past, counts>>

Stopped == /\ life = "stopping" /\ ~draining /\ life' = "stopped"
           /\ UNCHANGED <<table, send, outlet, past, counts>>

(* The process ends: what was sent and not yet answered never is.           *)
Ends == /\ life' = "down"
        /\ ends < MaxEnds /\ ends' = ends + 1
        /\ send' = [s \in Sender |-> None]
        /\ queue' = <<>> /\ draining' = FALSE /\ timer' = FALSE
        /\ lost' = [d \in Delivery |-> [t \in Target |-> lost[d][t] +
                     Cardinality({s \in Sender : /\ Trying(s, "answer")
                                                 /\ send[s].d = d /\ Now(s) = t})]]
        /\ UNCHANGED <<table, sent, raced, skipped, faults, pauses>>

Crash == life \notin {"down", "stopped"} /\ Ends

Exit == life = "stopped" /\ Ends

Work(s) == Accept(s) \/ Answer(s) \/ Refuse(s) \/ LoseAnswer(s)

Next == \/ \E p \in Proposer, d \in Delivery : Propose(p, d) \/ SendStaged(p, d)
        \/ \E p \in Proposer : Sent(p)
        \/ \E s \in Sender : Work(s)
        \/ Take \/ Drained \/ DrainEnds \/ Retry
        \/ Start \/ Pause \/ Paused \/ Resume \/ Stop \/ Stopped
        \/ Crash \/ Exit

Spec == Init /\ [][Next]_vars

(* Every send ends (the client has a timeout), the drain goes on, and a     *)
(* timer fires.                                                             *)
FairSpec == /\ Spec
            /\ \A s \in Sender : WF_vars(Work(s)) /\ WF_vars(Sent(s))
            /\ WF_vars(Take) /\ WF_vars(Drained) /\ WF_vars(DrainEnds)
            /\ WF_vars(Retry)
-----------------------------------------------------------------------------
(* The provider took the message for a target of the chat.                  *)
Reached(d, c) == \E t \in Target : ChatOf[t] = c /\ sent[d][t] >= 1

(* A success on the table was accepted by the provider for a target of the  *)
(* chat, and a row is acknowledged only when every chat has the message,    *)
(* whatever senders overlapped, answers were lost and processes crashed     *)
(* (gateway-delivery.ts deliverWithRetry, store.ts ackDeliveries).  Of two  *)
(* targets with one chatId only one need have been reached.                 *)
AckedIsSent == \A d \in Delivery, c \in Chat :
                 row[d] = "acked" \/ receipts[d][c] = "success" => Reached(d, c)

(* A target is sent a message a second time only if the answer to the first *)
(* was lost, or two senders had the delivery at once: receipts survive the  *)
(* attempts, the retries and the restarts (deliverWithRetry's look at       *)
(* target_receipts).                                                        *)
SentOnce == \A d \in Delivery \ raced, t \in Target :
              sent[d][t] <= 1 + lost[d][t]

(* While the outlet lives, an open row it accepts is queued or in the hands *)
(* of a sender, the rows past the replay limit aside, and a queue is being  *)
(* drained or waits for a timer: no delivery is forgotten until the next    *)
(* start (deliverProactiveProposal's enqueue, drain's set, scheduleRetry).  *)
OwedIsHeld ==
  /\ life \in {"up", "pausing", "paused"} =>
       {d \in OpenRows : Accepts(d)}
         \subseteq skipped \cup ToSet(queue)
                          \cup {send[s].d : s \in {o \in Sender : send[o] # None}}
  /\ life = "up" /\ queue # <<>> => draining \/ timer

(* A queued delivery the provider would take is delivered while the outlet  *)
(* runs, also when another before it fails for ever (drain's delete and     *)
(* set: a failed record goes to the end).                                   *)
Delivered == \A d \in Delivery \ Dead :
               d \in ToSet(queue) /\ life = "up" ~> row[d] = "acked" \/ life # "up"

(* The table is consistent at every await.                                  *)
Consistent == TypeOK /\ AckedIsSent
=============================================================================
