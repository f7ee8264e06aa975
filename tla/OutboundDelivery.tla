-------------------------- MODULE OutboundDelivery --------------------------
(***************************************************************************)
(* A complete outbound message between sdk.send and its receipt: the       *)
(* durable outbox (packages/gateway/src/outbox.ts), the outbound queue of  *)
(* the bus (bus.ts: recoverOutbound), the direct send with its retries     *)
(* (sdk.ts: send, withRetry, retryDelivery) and the dispatcher that works  *)
(* off what was recovered (channels/dispatcher.ts).                        *)
(*                                                                         *)
(* A message has two ways to its channel: the call of sdk.send that made   *)
(* its record, and the dispatcher, which gets it when a later process, or  *)
(* an operator's retryDelivery, puts it on the queue.  Both write the same *)
(* record, without looking at its status.                                  *)
(***************************************************************************)
EXTENDS Integers, Sequences, FiniteSets, SequencesExt

CONSTANTS Message,      \* message ids
          Origin,       \* origins of replies; replies to one have one content
          OriginOf,     \* metadata.originMessageId, or NoOrigin
          NoOrigin,
          Progress,     \* messages that carry a typed event: progress or streaming
          MaxAttempts,  \* retry.maxAttempts
          MaxRecords,   \* records the outbox holds
          MaxQueue,     \* bus.maxOutbound
          MaxFaults,    \* bound: crashes, stops and failed writes of the outbox
          MaxRetries,   \* bound: calls of retryDelivery
          NoMessage     \* the dispatcher has none

ASSUME OutboundAssumption ==
  /\ IsFiniteSet(Message) /\ NoMessage \notin Message
  /\ Progress \subseteq Message
  /\ NoOrigin \notin Origin /\ OriginOf \in [Message -> Origin \cup {NoOrigin}]
  /\ {MaxAttempts, MaxRecords, MaxQueue} \subseteq Nat \ {0}
  /\ {MaxFaults, MaxRetries} \subseteq Nat

VARIABLES box,       \* outbox file: the record's status, none without one
          tries,     \* outbox file: the record's attempts
          phase,     \* the process: down, up, stopping
          direct,    \* the call of sdk.send: none, sending, backoff
          attempt,   \* its attempt
          queue,     \* outboundQueue
          loop,      \* the dispatcher: its message, what it does, its attempt
          prints,    \* originReplyFingerprints
          sent,      \* history: accepted by the channel, or streamed to it
          requeued,  \* history: queued while it was in flight
          stranded,  \* history: left open with nobody to finish it (see OpenIsOwned)
          faults, retries

file    == <<box, tries>>
vars    == <<file, phase, direct, attempt, queue, loop, prints, sent, requeued,
             stranded, faults, retries>>

Terminal == {"delivered", "failed", "cancelled"}
Open     == {"pending", "delivering"}
Idle     == [msg |-> NoMessage, doing |-> "idle", try |-> 0]

TypeOK == /\ box     \in [Message -> Open \cup Terminal \cup {"none"}]
          /\ tries   \in [Message -> 0..MaxAttempts]
          /\ phase   \in {"down", "up", "stopping"}
          /\ direct  \in [Message -> {"none", "sending", "backoff"}]
          /\ attempt \in [Message -> 0..MaxAttempts]
          /\ queue   \in Seq(Message) /\ Len(queue) <= MaxQueue
          /\ loop    \in [msg   : Message \cup {NoMessage},
                          doing : {"idle", "taken", "sending", "backoff"},
                          try   : 0..MaxAttempts]
          /\ prints  \subseteq Origin
          /\ {sent, requeued, stranded} \subseteq SUBSET Message
          /\ faults  \in 0..MaxFaults
          /\ retries \in 0..MaxRetries

InFlight(m) == direct[m] # "none" \/ loop.msg = m
Records     == {m \in Message : box[m] # "none"}
Fault       == faults < MaxFaults /\ faults' = faults + 1
Larger(a, b)  == IF a > b THEN a ELSE b
Smaller(a, b) == IF a < b THEN a ELSE b
-----------------------------------------------------------------------------
(* markDelivered, markFailed, markCancelled: any record, if it exists.  A   *)
(* write that fails outside of a try (dispatcher.ts:341, the receipts of    *)
(* route and the last ones of deliver) ends the process: that is Crash.     *)
Finish(m, result) ==
  /\ box' = [box EXCEPT ![m] = IF @ = "none" THEN @ ELSE result]
  /\ UNCHANGED tries

(* markAttempt, on any record that exists. *)
MarkAttempt(m, n) ==
  /\ box'   = [box EXCEPT ![m] = IF @ = "none" THEN @ ELSE "delivering"]
  /\ tries' = [tries EXCEPT ![m] = IF box[m] = "none" THEN @ ELSE Larger(@, n)]

(* recoverOutbound: every open record is pending, and queued, in some order *)
(* of the file, unless it is there already - up to the limit, where the     *)
(* rest is left.  ready: the dispatcher waits for a message - the queue is  *)
(* empty - and takes the first itself.                                      *)
Take(m) == [msg |-> m, doing |-> "taken", try |-> 0]

Recovered(b) == [m \in Message |-> IF b[m] = "delivering" THEN "pending" ELSE b[m]]

(* Mutant: only pending records are recovered. *)
PendingIn(b) == {m \in Message : b[m] = "pending"}

OpenIn(b) == {m \in Message : b[m] \in Open}

Unqueued(b) == OpenIn(b) \ ToSet(queue)
Room(ready) == MaxQueue - Len(queue) + IF ready THEN 1 ELSE 0

(* put, in some order; what is neither put nor in flight is left behind.    *)
Put(b, put, ready) ==
  /\ \E order \in SetToSeqs(put) :
       IF ready /\ put # {}
       THEN loop' = Take(Head(order)) /\ queue' = Tail(order)
       ELSE queue' = queue \o order /\ UNCHANGED loop
  /\ requeued' = requeued \cup {m \in put : InFlight(m)}
  /\ stranded' = (stranded \cup {m \in Unqueued(b) : ~InFlight(m)}) \ put

(* As many as there is room for.                                            *)
Refill(new, room) ==
  {put \in SUBSET new : Cardinality(put) = Smaller(room, Cardinality(new))}

Recover(b, ready) ==
  /\ box' = Recovered(b)
  /\ \E put \in Refill(Unqueued(b), Room(ready)) : Put(b, put, ready)

(* It throws: recoverPending, with nothing written, or later, with a part   *)
(* of the messages on the queue.                                            *)
RecoverBreaks(b, ready) ==
  \E put \in SUBSET Unqueued(b) :
    /\ Cardinality(put) <= Room(ready)
    /\ \/ box' = Recovered(b)
       \/ box' = b /\ put = {}
    /\ Put(b, put, ready)

(* The memory of the process is gone. *)
Lost == /\ phase'   = "down"
        /\ direct'  = [m \in Message |-> "none"]
        /\ attempt' = [m \in Message |-> 0]
        /\ queue'   = <<>>
        /\ loop'    = Idle
        /\ prints'  = {}
        /\ requeued' = {}
        /\ stranded' = {}
        /\ UNCHANGED <<file, sent, retries>>
-----------------------------------------------------------------------------
Init == /\ box     = [m \in Message |-> "none"]
        /\ tries   = [m \in Message |-> 0]
        /\ phase   = "down"
        /\ direct  = [m \in Message |-> "none"]
        /\ attempt = [m \in Message |-> 0]
        /\ queue   = <<>>
        /\ loop    = Idle
        /\ prints  = {}
        /\ sent = {} /\ requeued = {} /\ stranded = {}
        /\ faults = 0 /\ retries = 0

(* sdk.send of an id without a record: a full outbox gives up a terminal    *)
(* one (or throws), the record is made and the first attempt begins.  An    *)
(* id with a record gets its receipt back, or an error: nothing changes.    *)
Enters(m, status, n) ==
  /\ phase = "up"
  /\ box[m] = "none" /\ direct[m] = "none"
  /\ \E pruned \in SUBSET {k \in Message : box[k] \in Terminal} :
       /\ Cardinality(pruned) = IF Cardinality(Records) < MaxRecords THEN 0 ELSE 1
       /\ box'   = [k \in Message |-> IF k = m THEN status
                                      ELSE IF k \in pruned THEN "none" ELSE box[k]]
       /\ tries' = [k \in Message |-> IF k = m THEN n
                                      ELSE IF k \in pruned THEN 0 ELSE tries[k]]
  /\ UNCHANGED <<phase, queue, loop, prints, sent, requeued, retries>>

Send(m) ==
  /\ Enters(m, "delivering", 1)
  /\ direct'  = [direct EXCEPT ![m] = "sending"]
  /\ attempt' = [attempt EXCEPT ![m] = 1]
  /\ UNCHANGED <<stranded, faults>>

(* The first attempt cannot be recorded: the call ends before the channel   *)
(* is asked, with a failed receipt, or, when that write fails too, none.    *)
SendUnsaved(m) ==
  /\ Fault
  /\ \/ Enters(m, "failed", 0) /\ UNCHANGED stranded
     \/ Enters(m, "pending", 0) /\ stranded' = stranded \cup {m}
  /\ UNCHANGED <<direct, attempt>>

DirectEnds(m, result) ==
  /\ direct'  = [direct EXCEPT ![m] = "none"]
  /\ attempt' = [attempt EXCEPT ![m] = 0]
  /\ Finish(m, result)
  /\ UNCHANGED <<phase, queue, loop, prints, requeued, stranded, faults, retries>>

DirectSucceeds(m) == /\ direct[m] = "sending"
                     /\ DirectEnds(m, "delivered")
                     /\ sent' = sent \cup {m}

(* Mutant: the receipt of the channel is not looked at. *)
DirectFailsUnseen(m) == direct[m] = "sending" /\ DirectEnds(m, "delivered") /\ UNCHANGED sent

(* The channel reports a failure, or the last attempt throws. *)
DirectFails(m) == direct[m] = "sending" /\ DirectEnds(m, "failed") /\ UNCHANGED sent

(* Mutant: a receipt for every attempt. *)
DirectThrowsFailed(m) ==
  /\ direct[m] = "sending" /\ attempt[m] < MaxAttempts
  /\ direct' = [direct EXCEPT ![m] = "backoff"]
  /\ Finish(m, "failed")
  /\ UNCHANGED <<phase, attempt, queue, loop, prints, sent, requeued, stranded,
                 faults, retries>>

DirectThrows(m) ==
  /\ direct[m] = "sending" /\ attempt[m] < MaxAttempts
  /\ direct' = [direct EXCEPT ![m] = "backoff"]
  /\ UNCHANGED <<file, phase, attempt, queue, loop, prints, sent, requeued, stranded,
                 faults, retries>>

(* The delay of withRetry is over; a stop does not cut it short.            *)
DirectRetries(m) ==
  /\ direct[m] = "backoff"
  /\ direct'  = [direct EXCEPT ![m] = "sending"]
  /\ attempt' = [attempt EXCEPT ![m] = @ + 1]
  /\ MarkAttempt(m, attempt[m] + 1)
  /\ UNCHANGED <<phase, queue, loop, prints, sent, requeued, stranded, faults, retries>>

(* A write of the attempt or of the receipt fails: send writes that the     *)
(* message failed, whether the channel has it or not, or, when that write   *)
(* fails too, leaves the record open and rejects.                           *)
DirectUnsaved(m) ==
  /\ direct[m] # "none"
  /\ Fault
  /\ direct'  = [direct EXCEPT ![m] = "none"]
  /\ attempt' = [attempt EXCEPT ![m] = 0]
  /\ sent' \in {sent} \cup (IF direct[m] = "sending" THEN {sent \cup {m}} ELSE {})
  /\ \/ Finish(m, "failed") /\ UNCHANGED stranded
     \/ UNCHANGED file /\ stranded' = stranded \cup ({m} \cap OpenIn(box))
  /\ UNCHANGED <<phase, queue, loop, prints, requeued, retries>>
-----------------------------------------------------------------------------
others == <<phase, direct, attempt, requeued, faults, retries>>

(* outboundLoop: the next message of the queue. *)
Consume == /\ phase = "up"
           /\ loop = Idle /\ queue # <<>>
           /\ loop'  = Take(Head(queue))
           /\ queue' = Tail(queue)
           /\ UNCHANGED <<file, prints, sent, stranded, others>>

(* deliver, from the top of its loop: the attempt is recorded first, and a  *)
(* dispatcher that was stopped cancels the message.                         *)
TryLoop(m, n) ==
  IF phase = "up"
  THEN /\ MarkAttempt(m, n)
       /\ loop' = [msg |-> m, doing |-> "sending", try |-> n]
  ELSE /\ box'   = [box EXCEPT ![m] = IF @ = "none" THEN @ ELSE "cancelled"]
       /\ tries' = [tries EXCEPT ![m] = IF box[m] = "none" THEN @ ELSE Larger(@, n)]
       /\ loop'  = Idle

(* route: the event is one the channel does not show, and nothing is done.  *)
RouteSilent(m) == /\ loop.msg = m /\ loop.doing = "taken"
                  /\ m \in Progress
                  /\ loop' = Idle
                  /\ stranded' = stranded \cup {m}
                  /\ UNCHANGED <<file, queue, prints, sent, others>>

(* route: the event ends a streamed reply, which went out as deltas.        *)
RouteStreamed(m) == /\ loop.msg = m /\ loop.doing = "taken"
                    /\ m \in Progress
                    /\ Finish(m, "delivered")
                    /\ sent' = sent \cup {m}
                    /\ loop' = Idle
                    /\ UNCHANGED <<queue, prints, stranded, others>>

(* Mutant: no receipt for a message without a channel. *)
RouteDropped(m) == /\ loop.msg = m /\ loop.doing = "taken"
                   /\ loop' = Idle
                   /\ UNCHANGED <<file, queue, prints, sent, stranded, others>>

(* route: the channel is no longer enabled. *)
RouteUnknown(m) == /\ loop.msg = m /\ loop.doing = "taken"
                   /\ Finish(m, "failed")
                   /\ loop' = Idle
                   /\ UNCHANGED <<queue, prints, sent, stranded, others>>

(* route: the content was routed before for the same origin. *)
RouteDuplicate(m) == /\ loop.msg = m /\ loop.doing = "taken"
                     /\ m \notin Progress /\ OriginOf[m] \in prints
                     /\ Finish(m, "delivered")
                     /\ loop' = Idle
                     /\ UNCHANGED <<queue, prints, sent, stranded, others>>

(* route: remember the origin - of an event, no - and deliver. *)
RouteDeliver(m) == /\ loop.msg = m /\ loop.doing = "taken"
                   /\ m \in Progress \/ OriginOf[m] \notin prints
                   /\ prints' = IF m \in Progress THEN prints
                                ELSE prints \cup ({OriginOf[m]} \ {NoOrigin})
                   /\ TryLoop(m, 1)
                   /\ UNCHANGED <<queue, sent, stranded, others>>

LoopSucceeds(m) == /\ loop.msg = m /\ loop.doing = "sending"
                   /\ Finish(m, "delivered")
                   /\ sent' = sent \cup {m}
                   /\ loop' = Idle
                   /\ UNCHANGED <<queue, prints, stranded, others>>

LoopFails(m) == /\ loop.msg = m /\ loop.doing = "sending"
                /\ Finish(m, "failed")
                /\ loop' = Idle
                /\ UNCHANGED <<queue, prints, sent, stranded, others>>

LoopThrows(m) == /\ loop.msg = m /\ loop.doing = "sending" /\ loop.try < MaxAttempts
                 /\ loop' = [loop EXCEPT !.doing = "backoff"]
                 /\ UNCHANGED <<file, queue, prints, sent, stranded, others>>

LoopRetries(m) == /\ loop.msg = m /\ loop.doing = "backoff" /\ phase = "up"
                  /\ TryLoop(m, loop.try + 1)
                  /\ UNCHANGED <<queue, prints, sent, stranded, others>>

(* The receipt cannot be written: the attempt counts as failed, whether the *)
(* channel has the message or not.                                          *)
LoopUnsaved(m) ==
  /\ loop.msg = m /\ loop.doing = "sending"
  /\ Fault
  /\ sent' \in {sent, sent \cup {m}}
  /\ IF loop.try < MaxAttempts
     THEN loop' = [loop EXCEPT !.doing = "backoff"] /\ UNCHANGED file
     ELSE loop' = Idle /\ Finish(m, "failed")
  /\ UNCHANGED <<queue, prints, stranded, phase, direct, attempt, requeued, retries>>

(* The abort of stop wakes the dispatcher from its delay. *)
LoopAborted(m) == /\ loop.msg = m /\ loop.doing = "backoff" /\ phase = "stopping"
                  /\ Finish(m, "cancelled")
                  /\ loop' = Idle
                  /\ UNCHANGED <<queue, prints, sent, stranded, others>>
-----------------------------------------------------------------------------
(* retryDelivery: the record is as new, and recoverOutbound queues it - and *)
(* every other open record - or throws.                                     *)
RetryDelivery(m) ==
  LET renewed == [box EXCEPT ![m] = "pending"]
      ready   == loop = Idle /\ queue = <<>>
  IN  /\ phase = "up"
      /\ box[m] \in {"failed", "cancelled"}
      /\ retries < MaxRetries /\ retries' = retries + 1
      /\ tries' = [tries EXCEPT ![m] = 0]
      /\ \/ Recover(renewed, ready) /\ UNCHANGED faults
         \/ RecoverBreaks(renewed, ready) /\ Fault
      /\ UNCHANGED <<phase, direct, attempt, prints, sent>>

(* cleanup: a terminal record is old enough. *)
Clean(m) == /\ phase = "up"
            /\ box[m] \in Terminal
            /\ box'   = [box EXCEPT ![m] = "none"]
            /\ tries' = [tries EXCEPT ![m] = 0]
            /\ UNCHANGED <<phase, direct, attempt, queue, loop, prints, sent, requeued,
                           stranded, faults, retries>>

(* sdk.start: the dispatcher recovers before its loop waits, and runs on    *)
(* when the recovery throws.                                                *)
Start == /\ phase = "down"
         /\ phase' = "up"
         /\ \/ Recover(box, FALSE) /\ UNCHANGED faults
            \/ RecoverBreaks(box, FALSE) /\ Fault
         /\ UNCHANGED <<tries, direct, attempt, prints, sent, retries>>

(* sdk.stop: the loop is aborted and the queue dropped; sends in flight go  *)
(* on until the process exits.                                              *)
Stop == /\ phase = "up"
        /\ Fault
        /\ phase' = "stopping"
        /\ queue' = <<>>
        /\ UNCHANGED <<file, direct, attempt, loop, prints, sent, requeued, stranded,
                       retries>>

Exit  == phase = "stopping" /\ Lost /\ UNCHANGED faults

Crash == /\ phase # "down"
         /\ Fault
         /\ Lost

DirectStep(m) == \/ DirectSucceeds(m) \/ DirectFails(m)
                 \/ DirectThrows(m) \/ DirectRetries(m) \/ DirectUnsaved(m)

LoopStep(m) == \/ RouteSilent(m) \/ RouteStreamed(m)
               \/ RouteUnknown(m) \/ RouteDuplicate(m)
               \/ RouteDeliver(m) \/ LoopSucceeds(m) \/ LoopFails(m)
               \/ LoopThrows(m) \/ LoopRetries(m) \/ LoopAborted(m)
               \/ LoopUnsaved(m)

Next == \/ \E m \in Message : \/ Send(m) \/ SendUnsaved(m) \/ DirectStep(m)
                              \/ LoopStep(m) \/ RetryDelivery(m) \/ Clean(m)
        \/ Consume \/ Start \/ Stop \/ Exit \/ Crash

Spec == Init /\ [][Next]_vars

(* A channel's send settles, timers fire, and a process that has stopped is *)
(* started again.                                                           *)
FairSpec == /\ Spec
            /\ \A m \in Message : WF_vars(DirectStep(m)) /\ WF_vars(LoopStep(m))
            /\ WF_vars(Consume)
            /\ WF_vars(Start \/ Exit)
-----------------------------------------------------------------------------
(* A message with a receipt is at rest: nobody is still sending it, and it  *)
(* is not on its way to the dispatcher.                                     *)
ReceiptIsLast ==
  \A m \in Message \ requeued : box[m] \in Terminal =>
    ~InFlight(m) /\ m \notin ToSet(queue)

(* An open record has somebody who will finish it.  The exceptions are      *)
(* stranded until the next recovery: the queue was full when it was         *)
(* recovered, the recovery threw, the event is not one the channel shows,   *)
(* or sdk.send could not write its last receipt.                            *)
OpenIsOwned ==
  phase = "up" => \A m \in Message \ stranded :
    box[m] \in Open => InFlight(m) \/ m \in ToSet(queue)

(* "delivered" is what the channel said, never what a retry, a stop or a    *)
(* late failure of another attempt made of it; only a reply that repeats    *)
(* another of the same origin is marked delivered for it.                   *)
DeliveredWasSent ==
  \A m \in Message : box[m] = "delivered" /\ OriginOf[m] = NoOrigin => m \in sent

(* Every accepted message gets its receipt, through crashes, stops and      *)
(* writes that fail, but for the exceptions of OpenIsOwned.                 *)
OpenIsSettled ==
  \A m \in Message :
    (box[m] \in Open) ~> (box[m] \notin Open \/ m \in stranded)

(* The outbox is consistent at every await: a receipt is the last word, and *)
(* it says what the channel said.                                           *)
Consistent == TypeOK /\ ReceiptIsLast /\ DeliveredWasSent
-----------------------------------------------------------------------------
(* Who sends a message sees only Receipts.                                  *)
ReceiptOf(status) == IF status \in Open THEN "open" ELSE status

Ledger == INSTANCE Receipts
            WITH receipt <- [m \in Message |-> ReceiptOf(box[m])],
                 shown   <- sent,
                 twofold <- requeued,
                 recalls <- retries,
                 Reply   <- {m \in Message : OriginOf[m] # NoOrigin}

(* Attempts, the queue, the two senders, the operator and the processes are *)
(* how the outbox keeps the promise of Receipts: what send, the dispatcher  *)
(* and recoverPending write in whatever order never takes a receipt back,   *)
(* nor says delivered of what no channel showed, but for twofold messages.  *)
ImplementsReceipts == Ledger!Spec
=============================================================================
