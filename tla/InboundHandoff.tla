--------------------------- MODULE InboundHandoff ---------------------------
(***************************************************************************)
(* The inbound half of the gateway: MessageBus.publishInbound and the      *)
(* retries behind it (packages/gateway/src/bus.ts), the durable handoff    *)
(* file (state.ts: FileInboundHandoffStore) and the dead-letter file       *)
(* (inbound-dlq.ts), through crashes, stops and restarts of the process.   *)
(*                                                                         *)
(* A message is accepted once (the handoff remembers its key), kept on     *)
(* disk until the handler has resolved, retried with a backoff, and copied *)
(* to the dead letters after MaxAttempts.  The application's handler is    *)
(* the environment here: task[m] is its promise.                           *)
(*                                                                         *)
(* Each write of a file is atomic (a rename under a lock); what one        *)
(* handler does with two files can be cut by a crash between the two, or   *)
(* by a write that fails.  A write that fails where nobody catches it, in  *)
(* ackInbound or in the callback of a timer, is an unhandled rejection or  *)
(* an uncaught exception, and ends the process: a Crash.                   *)
(***************************************************************************)
EXTENDS Integers, Sequences, FiniteSets, SequencesExt, Subsequences

CONSTANTS Message,      \* the keys of the provider's messages
          MaxAttempts,  \* inboundRetry.maxAttempts
          MaxRecords,   \* records the handoff file holds
          MaxDedup,     \* keys the handoff file remembers
          MaxDead,      \* records the dead-letter file holds
          MaxFaults,    \* bound: crashes, stops and failed writes
          MaxRequeues   \* bound: requeues of dead letters by an operator

ASSUME InboundAssumption ==
  /\ IsFiniteSet(Message)
  /\ {MaxAttempts, MaxRecords, MaxDedup, MaxDead} \subseteq Nat \ {0}
  /\ {MaxFaults, MaxRequeues} \subseteq Nat

VARIABLES
  status,       \* handoff file: none (no record), pending, delivering
  attempts,     \* handoff file: attempts begun
  wait,         \* handoff file: nextAttemptAt, unset, in the future or due
  dedup,        \* handoff file: dedupKeys, oldest first
  dead,         \* dead-letter file, by failedAt
  phase,        \* the process
  delivering,   \* inboundDelivering
  count,        \* inboundAttempts, Absent without an entry
  task,         \* the handler's promise, none when the bus waits for none
  retryTimer,   \* inboundRetryTimers
  recoveryTimer,\* inboundRecoveryTimer is set
  fate,         \* history: what became of the last acceptance of a key
  doubled,      \* history: handled by two handlers at a time
  faults,       \* history: bounded by MaxFaults
  requeues      \* history: bounded by MaxRequeues

durable  == <<status, attempts, wait, dedup, dead>>
volatile == <<delivering, count, task, retryTimer, recoveryTimer>>
history  == <<fate, doubled, faults, requeues>>
vars     == <<durable, phase, volatile, history>>

Absent == -1

(* sdk.start subscribes before it recovers; sdk.stop unsubscribes, waits    *)
(* for the channels to stop (draining) and closes the bus; the process      *)
(* exits after that.                                                        *)
Phases == {"down", "starting", "up", "draining", "closed"}

TypeOK == /\ status     \in [Message -> {"none", "pending", "delivering"}]
          /\ attempts   \in [Message -> Nat]
          /\ wait       \in [Message -> {"unset", "future", "due"}]
          /\ dedup      \in Seq(Message)
          /\ dead       \in Seq(Message) /\ Len(dead) <= MaxDead
          /\ phase      \in Phases
          /\ delivering \subseteq Message
          /\ count      \in [Message -> Nat \cup {Absent}]
          /\ task       \in [Message -> {"none", "running", "resolved", "rejected"}]
          /\ retryTimer \subseteq Message
          /\ recoveryTimer \in BOOLEAN
          /\ fate       \in [Message -> {"unseen", "owed", "handled", "acked", "pruned"}]
          /\ doubled    \subseteq Message
          /\ faults     \in 0..MaxFaults
          /\ requeues   \in 0..MaxRequeues

Recorded    == {m \in Message : status[m] # "none"}
Remembered  == ToSet(dedup)
DeadLetters == ToSet(dead)
Listening   == phase \in {"starting", "up"}
Open        == phase \in {"starting", "up", "draining"}
Fault       == faults < MaxFaults /\ faults' = faults + 1
-----------------------------------------------------------------------------
(* Mutant: the oldest keys go, in use or not. *)
TrimOldest(keys, kept) ==
  IF Len(keys) <= MaxDedup THEN keys ELSE SubSeq(keys, Len(keys) - MaxDedup + 1, Len(keys))

(* trimDedupKeys: forget the oldest keys, but none that has a record.       *)
Trim(keys, kept) ==
  LET spare == {i \in DOMAIN keys : keys[i] \notin kept}
      gone  == {i \in spare : Rank(spare, i) <= Len(keys) - MaxDedup}
  IN  Pick(keys, DOMAIN keys \ gone)

(* The dead letters without that of m, which has one place at most.         *)
Without(letters, m) ==
  IF m \notin ToSet(letters) THEN letters
  ELSE LET i == CHOOSE k \in DOMAIN letters : letters[k] = m
       IN  [k \in 1..(Len(letters) - 1) |-> IF k < i THEN letters[k] ELSE letters[k + 1]]

(* pruneRecords of the dead-letter file: the oldest failures go.            *)
Prune(letters) == IF Len(letters) <= MaxDead THEN letters
                  ELSE SubSeq(letters, Len(letters) - MaxDead + 1, Len(letters))

(* Mutant: deliverInbound does not look at what is being delivered. *)
All(asked) == asked

(* What deliverInbound does not skip. *)
Idle(asked) == asked \ delivering

(* deliverInbound for the messages of asked, on a handoff file that holds   *)
(* st, at, wt: skip what is being delivered, markDelivering the rest and    *)
(* start the handlers (notifyInbound: none while nobody listens).           *)
Deliver(asked, st, at, wt) ==
  LET D     == Idle(asked)
      fresh == {m \in D : st[m] = "pending"}
  IN  /\ status'   = [m \in Message |-> IF m \in fresh THEN "delivering" ELSE st[m]]
      /\ attempts' = [m \in Message |-> IF m \in fresh THEN at[m] + 1 ELSE at[m]]
      /\ wait'     = [m \in Message |-> IF m \in fresh THEN "unset" ELSE wt[m]]
      /\ count'    = [m \in Message |-> IF m \notin D THEN count[m]
                                        ELSE IF st[m] = "none" THEN 0
                                        ELSE attempts'[m]]
      /\ delivering' = delivering \cup D
      /\ task'     = [m \in Message |-> IF m \in D /\ Listening THEN "running" ELSE task[m]]
      /\ doubled'  = doubled \cup {m \in D : Listening /\ task[m] # "none"}

(* Mutant: a retry does not set the timer. *)
RearmNot(armed) == recoveryTimer' = armed

(* schedulePersistedInboundRecovery, on the new handoff file: the timer is  *)
(* set for the earliest nextAttemptAt, when there is one.                   *)
Rearm(armed) ==
  recoveryTimer' = (armed \/ (Open /\ \E m \in Message : /\ status'[m] = "pending"
                                                          /\ wait'[m] # "unset"))

(* The memory of the process is gone. *)
Lost == /\ phase' = "down"
        /\ delivering' = {}
        /\ count' = [m \in Message |-> Absent]
        /\ task'  = [m \in Message |-> "none"]
        /\ retryTimer' = {}
        /\ recoveryTimer' = FALSE
        /\ UNCHANGED doubled

(* The record of m is deleted from the handoff file. *)
Unrecord(m) == /\ status'   = [status EXCEPT ![m] = "none"]
               /\ attempts' = [attempts EXCEPT ![m] = 0]
               /\ wait'     = [wait EXCEPT ![m] = "unset"]

(* The write of accept: a pending record and a remembered key. *)
Accept(m) == /\ m \notin Remembered
             /\ Cardinality(Recorded) < MaxRecords
             /\ dedup' = Trim(Append(dedup, m), Recorded \cup {m})
             /\ fate'  = [fate EXCEPT ![m] = "owed"]

(* The write of requeue: the record as new, made again if it is gone.       *)
Requeue(m) == /\ m \in DeadLetters
              /\ requeues < MaxRequeues /\ requeues' = requeues + 1
              /\ m \in Recorded \/ Cardinality(Recorded) < MaxRecords
              /\ dedup' = IF m \in Recorded THEN Trim(dedup, Recorded)
                          ELSE Trim(Append(dedup, m), Recorded \cup {m})
              /\ fate'  = [fate EXCEPT ![m] = "owed"]

(* The dead-letter file with m as its latest failure; what is pruned by it  *)
(* and has no record any more is lost to the gateway.                       *)
WithLetter(m) == Prune(Append(Without(dead, m), m))

Buried(kept) == [n \in Message |->
                   IF n \in DeadLetters \ kept /\ n \notin Recorded
                   THEN "pruned" ELSE fate[n]]
-----------------------------------------------------------------------------
Init == /\ status   = [m \in Message |-> "none"]
        /\ attempts = [m \in Message |-> 0]
        /\ wait     = [m \in Message |-> "unset"]
        /\ dedup = <<>>
        /\ dead  = <<>>
        /\ phase = "down"
        /\ delivering = {}
        /\ count = [m \in Message |-> Absent]
        /\ task  = [m \in Message |-> "none"]
        /\ retryTimer = {}
        /\ recoveryTimer = FALSE
        /\ fate    = [m \in Message |-> "unseen"]
        /\ doubled = {}
        /\ faults  = 0
        /\ requeues = 0

(* publishInbound of a key that is not remembered; a remembered one returns *)
(* false, a full file throws, and neither changes anything.  While the sdk  *)
(* stops, nobody listens: the record stays pending for the next process.    *)
Publish(m) ==
  /\ Open
  /\ Accept(m)
  /\ LET st == [status EXCEPT ![m] = "pending"]
         at == [attempts EXCEPT ![m] = 0]
     IN  IF Listening THEN Deliver({m}, st, at, wait)
         ELSE /\ status' = st
              /\ attempts' = at
              /\ UNCHANGED <<wait, delivering, count, task, doubled>>
  /\ UNCHANGED <<dead, phase, retryTimer, recoveryTimer, faults, requeues>>

(* markDelivering throws once the key is in inboundDelivering: the record   *)
(* stays pending, no handler starts, and every later delivery skips it.     *)
Jam(m) == /\ m \notin delivering
          /\ Fault
          /\ delivering' = delivering \cup {m}
          /\ status'   = [status EXCEPT ![m] = "pending"]
          /\ attempts' = [attempts EXCEPT ![m] = 0]
          /\ wait'     = [wait EXCEPT ![m] = "unset"]
          /\ UNCHANGED <<phase, task, retryTimer, recoveryTimer, doubled>>

(* publishInbound throws, and the channel answers "rejected".               *)
PublishUnmarked(m) == /\ Listening
                      /\ Accept(m)
                      /\ Jam(m)
                      /\ UNCHANGED <<dead, count, requeues>>

(* The process dies between the writes of accept and of markDelivering.     *)
CrashAccepting(m) ==
  /\ Open
  /\ Accept(m)
  /\ status' = [status EXCEPT ![m] = "pending"]
  /\ UNCHANGED <<attempts, wait, dead, requeues>>
  /\ Fault /\ Lost

(* The handlers dispatched for m have all resolved, or one has rejected.    *)
HandlerResolves(m) ==
  /\ task[m] = "running"
  /\ task' = [task EXCEPT ![m] = "resolved"]
  /\ fate' = [fate EXCEPT ![m] = "handled"]
  /\ UNCHANGED <<durable, phase, delivering, count, retryTimer, recoveryTimer,
                 doubled, faults, requeues>>

HandlerRejects(m) ==
  /\ task[m] = "running"
  /\ task' = [task EXCEPT ![m] = "rejected"]
  /\ UNCHANGED <<durable, phase, delivering, count, retryTimer, recoveryTimer,
                 history>>

(* Mutant: the record stays. *)
AckInMemory(m) ==
  /\ task[m] = "resolved"
  /\ task' = [task EXCEPT ![m] = "none"]
  /\ delivering' = delivering \ {m}
  /\ count' = [count EXCEPT ![m] = Absent]
  /\ fate' = [fate EXCEPT ![m] = "acked"]
  /\ UNCHANGED <<durable, phase, retryTimer, recoveryTimer, doubled, faults, requeues>>

(* Promise.all resolved: ackInbound.                                        *)
Ack(m) ==
  /\ task[m] = "resolved"
  /\ task' = [task EXCEPT ![m] = "none"]
  /\ delivering' = delivering \ {m}
  /\ count' = [count EXCEPT ![m] = Absent]
  /\ Unrecord(m)
  /\ fate' = [fate EXCEPT ![m] = "acked"]
  /\ UNCHANGED <<dedup, dead, phase, retryTimer, recoveryTimer, doubled, faults, requeues>>

(* handleInboundFailure: the handler's promise is rejected.                 *)
AttemptOf(m) == IF count[m] = Absent THEN 1 ELSE count[m]

Failing(m) == /\ task[m] = "rejected"
              /\ task' = [task EXCEPT ![m] = "none"]
              /\ delivering' = delivering \ {m}

(* The write of markRetry.                                                  *)
MarkRetry(m) ==
  /\ status' = [status EXCEPT ![m] = IF @ = "none" THEN @ ELSE "pending"]
  /\ wait'   = [wait EXCEPT ![m] = IF status[m] = "none" THEN @ ELSE "future"]
  /\ UNCHANGED attempts

(* An attempt is left: markRetry, and the recovery timer for it.            *)
Retry(m) ==
  /\ Failing(m)
  /\ AttemptOf(m) < MaxAttempts
  /\ MarkRetry(m)
  /\ Rearm(recoveryTimer)
  /\ UNCHANGED <<dedup, dead, phase, count, retryTimer, history>>

(* ... and the write fails: a timer of this message's own.                  *)
RetryUnsaved(m) ==
  /\ Failing(m)
  /\ AttemptOf(m) < MaxAttempts
  /\ Fault
  /\ retryTimer' = retryTimer \cup {m}
  /\ UNCHANGED <<durable, phase, count, recoveryTimer, fate, doubled, requeues>>

(* No attempt is left: copy to the dead letters, then delete the record.    *)
DeadLetter(m) ==
  /\ Failing(m)
  /\ AttemptOf(m) >= MaxAttempts
  /\ dead' = WithLetter(m)
  /\ Unrecord(m)
  /\ count' = [count EXCEPT ![m] = Absent]
  /\ fate'  = Buried(ToSet(dead'))
  /\ UNCHANGED <<dedup, phase, retryTimer, recoveryTimer, doubled, faults, requeues>>

(* Mutant: the record is deleted before the dead letter is written. *)
CrashUnrecorded(m) ==
  /\ task[m] = "rejected"
  /\ AttemptOf(m) >= MaxAttempts
  /\ Unrecord(m)
  /\ UNCHANGED <<dead, fate, dedup, requeues>>
  /\ Fault /\ Lost

(* The process dies between the two.                                        *)
CrashDeadLettering(m) ==
  /\ task[m] = "rejected"
  /\ AttemptOf(m) >= MaxAttempts
  /\ dead' = WithLetter(m)
  /\ fate' = Buried(ToSet(dead'))
  /\ UNCHANGED <<status, attempts, wait, dedup, requeues>>
  /\ Fault /\ Lost

(* The dead letter cannot be written, or the record not be deleted after    *)
(* it: back to pending, unless that write fails too, and a timer.           *)
DeadLetterUnsaved(m) ==
  /\ Failing(m)
  /\ AttemptOf(m) >= MaxAttempts
  /\ Fault
  /\ \/ UNCHANGED <<dead, fate>>
     \/ dead' = WithLetter(m) /\ fate' = Buried(ToSet(dead'))
  /\ MarkRetry(m) \/ UNCHANGED <<status, attempts, wait>>
  /\ retryTimer' = retryTimer \cup {m}
  /\ UNCHANGED <<dedup, phase, count, recoveryTimer, doubled, requeues>>

(* The time of a retry comes.                                               *)
BackoffElapses(m) ==
  /\ wait[m] = "future"
  /\ wait' = [wait EXCEPT ![m] = "due"]
  /\ UNCHANGED <<status, attempts, dedup, dead, phase, volatile, history>>

(* The timer of scheduleInboundRetry: deliverInbound, or nothing once the   *)
(* bus is closed.                                                           *)
RetryTimerFires(m) ==
  /\ m \in retryTimer
  /\ retryTimer' = retryTimer \ {m}
  /\ IF Open THEN Deliver({m}, status, attempts, wait)
     ELSE UNCHANGED <<status, attempts, wait, delivering, count, task, doubled>>
  /\ UNCHANGED <<dedup, dead, phase, recoveryTimer, fate, faults, requeues>>

(* recoverInbound: what was being delivered is pending again, what is due   *)
(* is delivered - unless this process is delivering it - and the timer is   *)
(* set again.  Nothing is delivered while nobody listens.                   *)
Recover ==
  LET st == [m \in Message |-> IF status[m] = "delivering" THEN "pending" ELSE status[m]]
      wt == [m \in Message |-> IF status[m] = "delivering" THEN "unset" ELSE wait[m]]
  IN  /\ Deliver(IF Listening THEN {m \in Recorded : wt[m] # "future"} ELSE {},
                 st, attempts, wt)
      /\ Rearm(FALSE)
      /\ UNCHANGED <<dedup, dead, retryTimer, fate>>

(* The recovery timer: set for a retry that is due, or gone by now.         *)
RecoveryTimerFires == /\ recoveryTimer
                      /\ Recover
                      /\ UNCHANGED <<phase, faults, requeues>>

(* retryInbound: an operator requeues a dead letter.                        *)
RetryInbound(m) ==
  /\ phase = "up"
  /\ Requeue(m)
  /\ dead' = Without(dead, m)
  /\ LET D == Idle({m})
     IN  /\ status'   = [status EXCEPT ![m] = IF D = {} THEN "pending" ELSE "delivering"]
         /\ attempts' = [attempts EXCEPT ![m] = Cardinality(D)]
         /\ wait'     = [wait EXCEPT ![m] = "unset"]
         /\ count'    = [count EXCEPT ![m] = IF D = {} THEN Absent ELSE 1]
         /\ delivering' = delivering \cup D
         /\ task'     = [n \in Message |-> IF n \in D THEN "running" ELSE task[n]]
         /\ doubled'  = doubled \cup {n \in D : task[n] # "none"}
  /\ UNCHANGED <<phase, retryTimer, recoveryTimer, faults>>

(* retryInbound throws as publishInbound does.                              *)
RetryUnmarked(m) == /\ phase = "up"
                    /\ Requeue(m)
                    /\ Jam(m)
                    /\ dead' = Without(dead, m)
                    /\ count' = [count EXCEPT ![m] = Absent]

(* The write of requeue alone: the record is as new, the letter still there. *)
Requeued(m) == /\ phase = "up"
               /\ Requeue(m)
               /\ status'   = [status EXCEPT ![m] = "pending"]
               /\ attempts' = [attempts EXCEPT ![m] = 0]
               /\ wait'     = [wait EXCEPT ![m] = "unset"]
               /\ UNCHANGED dead
               /\ Fault

(* The removal of the dead letter fails: retryInbound throws, and nothing   *)
(* is delivered and no timer set for the record it has made.                *)
RetryUnremoved(m) == Requeued(m) /\ UNCHANGED <<phase, volatile, doubled>>

(* The process dies between requeue and the removal of the dead letter.     *)
CrashRequeueing(m) == Requeued(m) /\ Lost

(* sdk.start: the channels publish before the records are recovered.        *)
Start == /\ phase = "down"
         /\ phase' = "starting"
         /\ UNCHANGED <<durable, volatile, history>>

Started == /\ phase = "starting"
           /\ Recover
           /\ phase' = "up"
           /\ UNCHANGED <<faults, requeues>>

(* sdk.stop, the close of the bus that ends it, and the exit of the process.*)
Stop == /\ phase = "up"
        /\ Fault
        /\ phase' = "draining"
        /\ UNCHANGED <<durable, volatile, fate, doubled, requeues>>

Close == /\ phase = "draining"
         /\ phase' = "closed"
         /\ delivering' = {}
         /\ retryTimer' = {}
         /\ recoveryTimer' = FALSE
         /\ UNCHANGED <<durable, count, task, history>>

Exit == /\ phase = "closed"
        /\ Lost
        /\ UNCHANGED <<durable, fate, faults, requeues>>

Crash == /\ phase # "down"
         /\ Fault /\ Lost
         /\ UNCHANGED <<durable, fate, requeues>>

Settle(m) == \/ Ack(m) \/ Retry(m) \/ RetryUnsaved(m)
             \/ DeadLetter(m) \/ DeadLetterUnsaved(m)

HandlerSettles(m) == HandlerResolves(m) \/ HandlerRejects(m)

(* A step of the running process, other than of the application.            *)
Serve == \/ \E m \in Message : \/ Publish(m) \/ PublishUnmarked(m)
                               \/ Settle(m) \/ BackoffElapses(m) \/ RetryTimerFires(m)
                               \/ RetryInbound(m) \/ RetryUnmarked(m)
                               \/ RetryUnremoved(m)
         \/ RecoveryTimerFires
         \/ Start \/ Started

Die == \/ \E m \in Message : \/ CrashAccepting(m) \/ CrashDeadLettering(m)
                             \/ CrashRequeueing(m)
       \/ Crash

Next == \/ Serve \/ Stop \/ Close \/ Exit \/ Die
        \/ \E m \in Message : HandlerSettles(m)

Spec == Init /\ [][Next]_vars

(* Timers fire, promise callbacks run, a handler settles, and a process     *)
(* that has stopped is started again.                                       *)
FairSpec == /\ Spec
            /\ \A m \in Message : /\ WF_vars(Settle(m))
                                  /\ WF_vars(BackoffElapses(m))
                                  /\ WF_vars(RetryTimerFires(m))
                                  /\ WF_vars(HandlerSettles(m))
            /\ WF_vars(RecoveryTimerFires)
            /\ WF_vars(Start \/ Started \/ Close \/ Exit)
-----------------------------------------------------------------------------
(* "keeps inbound messages on disk until the registered application handler *)
(* resolves" (packages/gateway/README.md:98): a message that was accepted   *)
(* and not yet handled has a record or a dead letter, at every crash point. *)
OwedIsOnDisk ==
  \A m \in Message : fate[m] = "owed" => m \in Recorded \cup DeadLetters

(* One handler per message: neither a timer nor a recovery nor an operator  *)
(* starts a second one while the first has not settled.                     *)
OneHandler == doubled = {}

(* The file forgets no key that still has a record, however small its       *)
(* window: a redelivery of a message in progress is always refused.         *)
RecordsRemembered == Recorded \subseteq Remembered

(* Retries are counted across restarts: only a crash, a stop or a write     *)
(* that failed buys a message an attempt beyond MaxAttempts.                *)
AttemptsBounded == \A m \in Message : attempts[m] <= MaxAttempts + faults

(* An acknowledged message is not handled again unless its key fell out of  *)
(* the window, it has a dead letter to requeue, or it left a timer behind.  *)
AckIsFinal ==
  [][\A m \in Message :
       fate[m] = "acked" /\ task[m] = "none" /\ task'[m] = "running" =>
         \/ m \notin Remembered
         \/ m \in DeadLetters
         \/ m \in retryTimer]_vars

(* Keys in inboundDelivering that no handler will take out.                 *)
Jammed == {m \in delivering : Listening /\ task[m] = "none"}

(* Records of an operator's request whose removal of the letter failed, and *)
(* that no timer or handler will look at.                                   *)
Shelved == {m \in Message : /\ phase = "up" /\ requeues > 0 /\ faults > 0
                            /\ status[m] = "pending" /\ wait[m] = "unset"
                            /\ m \notin delivering \cup retryTimer
                            /\ ~recoveryTimer}

(* Every message leaves the handoff, handled or dead-lettered: no record is *)
(* left behind that no timer, handler or recovery will ever look at, but    *)
(* those jammed or shelved by a failed write, which wait for the next       *)
(* process.                                                                 *)
HandoffDrains ==
  \A m \in Message :
    (status[m] # "none") ~> (status[m] = "none" \/ m \in Jammed \cup Shelved)

(* The handoff file and its counters are consistent at every write.         *)
Consistent == TypeOK /\ RecordsRemembered /\ AttemptsBounded /\ OneHandler
-----------------------------------------------------------------------------
(* A channel and an application see only Custody.                           *)
Care == INSTANCE Custody
          WITH held    <- Recorded,
               known   <- Remembered,
               letters <- DeadLetters,
               stray   <- retryTimer

(* Retry timers, recoveries, attempts and the order of the two files are    *)
(* how the bus keeps the promise of Custody: a message is held until it is  *)
(* handled or has a dead letter, and no handler starts beside another,      *)
(* whatever crashes or fails in between.                                    *)
ImplementsCustody == Care!Spec
=============================================================================
