------------------------------ MODULE QuietPush ------------------------------
(***************************************************************************)
(* packages/gateway/src/quiet-push.ts: QuietPushGate.                      *)
(*                                                                         *)
(* In the quiet hours a push is not sent but queued and written to a file; *)
(* once they are over a flush - the timer's, or one that rides on a send - *)
(* takes the whole queue and delivers it entry by entry, awaiting each,    *)
(* and at the end puts back what failed and writes the file.  The hours    *)
(* may begin again, and the process may stop, while a flush is under way.  *)
(***************************************************************************)
EXTENDS Integers, Sequences, FiniteSets, SequencesExt, Subsequences

CONSTANTS Push,         \* the pushes, in the order they are suppressed
          Flush,        \* calls of flush that may overlap
          MaxCrashes,   \* bound: ends of the process
          MaxFailures,  \* bound: deliveries and writes of the file that fail
          MaxHours      \* bound: begins of the quiet hours

ASSUME QuietAssumption == /\ Push \subseteq Nat /\ IsFiniteSet(Push)
                          /\ {MaxCrashes, MaxFailures, MaxHours} \subseteq Nat

VARIABLES queue,    \* the queue in memory
          file,     \* the queue in the file
          up,       \* the process runs
          quiet,    \* isQuietNow
          flush,    \* calls of flush: entries left to deliver, entries that failed
          old,      \* pushes older than maxAgeMs
          queued,   \* history: pushes suppressed so far
          sent,     \* history: the deliveries, in order
          failed,   \* history: pushes a delivery failed for
          overlap,  \* history: a push was suppressed while a flush was under way
          unsaved,  \* history: a write of the file failed
          crashes, failures, hours

vars == <<queue, file, up, quiet, flush, old, queued, sent, failed, overlap,
          unsaved, crashes, failures, hours>>

NoFlush == [busy |-> FALSE, todo |-> <<>>, kept |-> <<>>]

TypeOK == /\ {queue, file, sent} \subseteq Seq(Push)
          /\ {up, quiet, overlap, unsaved} \subseteq BOOLEAN
          /\ flush \in [Flush -> {NoFlush} \cup
                                 [busy : {TRUE}, todo : Seq(Push), kept : Seq(Push)]]
          /\ {old, queued, failed} \subseteq SUBSET Push
          /\ crashes \in 0..MaxCrashes /\ failures \in 0..MaxFailures
          /\ hours \in 0..MaxHours

Fresh(q)  == Pick(q, {i \in DOMAIN q : q[i] \notin old})
Flushing  == \E f \in Flush : flush[f].busy
Fail      == failures < MaxFailures /\ failures' = failures + 1

(* persist: a write that fails is logged, and the file stays as it was.     *)
Persist(q) == \/ file' = q /\ UNCHANGED <<failures, unsaved>>
              \/ UNCHANGED file /\ Fail /\ unsaved' = TRUE

Init == /\ queue = <<>> /\ file = <<>>
        /\ up = TRUE /\ quiet = FALSE
        /\ flush = [f \in Flush |-> NoFlush]
        /\ old = {} /\ queued = {} /\ sent = <<>> /\ failed = {}
        /\ overlap = FALSE /\ unsaved = FALSE
        /\ crashes = 0 /\ failures = 0 /\ hours = 0

(* sdk.send of a proactive push in the quiet hours. *)
Suppress(p) ==
  /\ up /\ quiet
  /\ p \notin queued /\ \A q \in Push : q < p => q \in queued
  /\ queue'  = Append(queue, p)
  /\ Persist(queue')
  /\ queued' = queued \cup {p}
  /\ overlap' = (overlap \/ Flushing)
  /\ UNCHANGED <<up, quiet, flush, old, sent, failed, crashes, hours>>

MayFlush(f) == /\ up /\ ~quiet
               /\ ~flush[f].busy
               /\ queue # <<>>

Begun == [busy |-> Fresh(queue) # <<>>, todo |-> Fresh(queue), kept |-> <<>>]

(* Mutants: the empty queue is written before the deliveries; the queue is  *)
(* not emptied.                                                             *)
FlushWrites(f) ==
  /\ MayFlush(f)
  /\ flush' = [flush EXCEPT ![f] = Begun]
  /\ queue' = <<>>
  /\ Persist(queue')
  /\ UNCHANGED <<up, quiet, old, queued, sent, failed, overlap, crashes, hours>>

FlushShares(f) ==
  /\ MayFlush(f)
  /\ flush' = [flush EXCEPT ![f] = Begun]
  /\ UNCHANGED <<queue, file, up, quiet, old, queued, sent, failed, overlap, crashes,
                 failures, hours, unsaved>>

(* flush: leave aside what is too old by now, and start with the rest;      *)
(* without a rest, nothing is awaited and the flush ends in the same step.  *)
FlushBegins(f) ==
  /\ MayFlush(f)
  /\ queue' = <<>>
  /\ flush' = [flush EXCEPT ![f] = Begun]
  /\ IF Begun = NoFlush THEN Persist(<<>>) ELSE UNCHANGED <<file, failures, unsaved>>
  /\ UNCHANGED <<up, quiet, old, queued, sent, failed, overlap, crashes, hours>>

(* A delivery resolves; what the channel reports in its result is not read.*)
Delivers(f) ==
  /\ flush[f].todo # <<>>
  /\ sent'  = Append(sent, Head(flush[f].todo))
  /\ flush' = [flush EXCEPT ![f].todo = Tail(@)]
  /\ UNCHANGED <<queue, file, up, quiet, old, queued, failed, overlap, crashes,
                 failures, hours, unsaved>>

DeliveryFails(f) ==
  /\ flush[f].todo # <<>>
  /\ Fail
  /\ failed' = failed \cup {Head(flush[f].todo)}
  /\ flush'  = [flush EXCEPT ![f] = [busy |-> TRUE, todo |-> Tail(@.todo),
                                     kept |-> Append(@.kept, Head(@.todo))]]
  /\ UNCHANGED <<queue, file, up, quiet, old, queued, sent, overlap, crashes, hours, unsaved>>

(* Mutant: the failed pushes are dropped.                                   *)
FlushDrops(f) ==
  /\ flush[f].busy /\ flush[f].todo = <<>>
  /\ queue' = <<>>
  /\ Persist(queue')
  /\ flush' = [flush EXCEPT ![f] = NoFlush]
  /\ UNCHANGED <<up, quiet, old, queued, sent, failed, overlap, crashes, hours>>

(* The end of flush: the queue becomes what failed, whatever it is by now.  *)
FlushEnds(f) ==
  /\ flush[f].busy /\ flush[f].todo = <<>>
  /\ queue' = flush[f].kept
  /\ Persist(queue')
  /\ flush' = [flush EXCEPT ![f] = NoFlush]
  /\ UNCHANGED <<up, quiet, old, queued, sent, failed, overlap, crashes, hours>>

HoursBegin == /\ ~quiet
              /\ hours < MaxHours
              /\ quiet' = TRUE
              /\ hours' = hours + 1
              /\ UNCHANGED <<queue, file, up, flush, old, queued, sent, failed,
                             overlap, crashes, failures, unsaved>>

HoursEnd == /\ quiet
            /\ quiet' = FALSE
            /\ UNCHANGED <<queue, file, up, flush, old, queued, sent, failed, overlap,
                           crashes, failures, hours, unsaved>>

(* A push reaches maxAgeMs. *)
Expire(p) == /\ p \in queued \ old
             /\ old' = old \cup {p}
             /\ UNCHANGED <<queue, file, up, quiet, flush, queued, sent, failed, overlap,
                            crashes, failures, hours, unsaved>>

(* The process ends: stop waits for no flush, so a stop is as a crash here. *)
Crash == /\ up
         /\ crashes < MaxCrashes /\ crashes' = crashes + 1
         /\ up' = FALSE
         /\ queue' = <<>>
         /\ flush' = [f \in Flush |-> NoFlush]
         /\ UNCHANGED <<file, quiet, old, queued, sent, failed, overlap, failures, hours, unsaved>>

(* load. *)
Start == /\ ~up
         /\ up' = TRUE
         /\ queue' = Fresh(file)
         /\ UNCHANGED <<file, quiet, flush, old, queued, sent, failed, overlap, crashes,
                        failures, hours, unsaved>>

Step(f) == FlushBegins(f) \/ Delivers(f) \/ DeliveryFails(f) \/ FlushEnds(f)

Next == \/ \E p \in Push : Suppress(p) \/ Expire(p)
        \/ \E f \in Flush : Step(f)
        \/ HoursBegin \/ HoursEnd \/ Crash \/ Start

Spec == Init /\ [][Next]_vars

(* The timer flushes, a delivery settles, the night ends, and the process   *)
(* is started again.                                                        *)
FairSpec == /\ Spec
            /\ \A f \in Flush : WF_vars(Step(f))
            /\ WF_vars(HoursEnd) /\ WF_vars(Start)
-----------------------------------------------------------------------------
Delivered(p) == p \in ToSet(sent)

(* Pushes that are still due are in the file at every moment, so that a     *)
(* crash anywhere in a flush loses none - as long as no push was suppressed *)
(* under a flush, and every write of the file succeeded.                    *)
DueIsOnDisk ==
  ~overlap /\ ~unsaved =>
    \A p \in queued : Delivered(p) \/ p \in old \/ p \in ToSet(file)

(* A push is delivered once, and once more only for each end of a process   *)
(* that cut its flush or had failed to write the file.                      *)
DeliveredOnce ==
  \A p \in Push : Cardinality({i \in DOMAIN sent : sent[i] = p}) <= 1 + crashes

(* Pushes come out in the order they went in; only one whose delivery       *)
(* failed is overtaken - as long as none was suppressed under a flush, and  *)
(* every write of the file succeeded.                                       *)
InOrder ==
  \A p, q \in queued : p < q /\ Delivered(q) => \/ Delivered(p)
                                                \/ p \in old \cup failed
                                                \/ overlap \/ unsaved

(* Every suppressed push is delivered in the end, or grows too old - in the *)
(* same circumstances.                                                      *)
PushesLeave ==
  \A p \in Push : p \in queued ~> (Delivered(p) \/ p \in old \/ overlap \/ unsaved)

(* What is due is on disk, and what was delivered was due once, and in its  *)
(* turn.                                                                    *)
Consistent == TypeOK /\ DueIsOnDisk /\ DeliveredOnce /\ InOrder
=============================================================================
