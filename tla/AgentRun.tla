------------------------------ MODULE AgentRun ------------------------------
(***************************************************************************)
(* packages/agent/src/agent-loop.ts and agent.ts: one run of the agent at  *)
(* a time, from prompt or continue to agent_end.                           *)
(*                                                                         *)
(* The loop keeps a context of its own, which it sends to the model, and   *)
(* emits events; Agent.processEvents builds the transcript from the        *)
(* message_end events, and the context of the next run is a copy of the    *)
(* transcript.  Messages are steered in, queued as follow-ups and the run  *)
(* is aborted while the loop awaits the model, the tools, the lifecycle    *)
(* modules or the listeners; any of these awaits may throw.                *)
(*                                                                         *)
(* Left out: compaction within a run (queryCompaction, off by default),    *)
(* reset() and assignments of the transcript during a run, the deltas of   *)
(* a streamed message, and prompts of several messages.                    *)
(***************************************************************************)
EXTENDS Integers, Sequences, FiniteSets, SequencesExt

CONSTANTS MaxMessages,   \* bound: messages a caller submits
          MaxCalls,      \* bound: tool calls of one assistant message
          MaxBatches,    \* bound: answers that call tools
          Faults,        \* what may go wrong: "gate", "throw"
          MaxFaults,     \* bound: in how many places
          SteeringMode, FollowUpMode

Modes == {"one-at-a-time", "all"}

ASSUME RunAssumption ==
  /\ {MaxMessages, MaxCalls, MaxBatches, MaxFaults} \subseteq Nat
  /\ Faults \subseteq {"gate", "throw"}
  /\ {SteeringMode, FollowUpMode} \subseteq Modes

Msg == 1..MaxMessages    \* in the order in which they are submitted

VARIABLES pc,          \* where the loop awaits
          transcript,  \* Agent.state.messages
          context,     \* currentContext.messages of the loop
          prompts,     \* prompts not emitted yet
          pending,     \* pendingMessages: polled, not injected yet
          steering, followUps,   \* the two queues
          batch,       \* the tool calls of the last answer
          more,        \* hasMoreToolCalls
          skip,        \* skipInitialSteeringPoll
          aborted,     \* the signal of the run
          failed,      \* the run goes through handleRunFailure
          ends,        \* agent_end events of the run
          via,         \* history: how each message was submitted
          spilled,     \* history: messages held by a run that was cut off
          cut,         \* history: answers whose batch was cut off
          batches, faults

queues == <<steering, followUps>>
counts == <<batches, faults>>
vars == <<pc, transcript, context, prompts, pending, queues, batch, more, skip,
          aborted, failed, ends, via, spilled, cut, counts>>

User(m)      == [kind |-> "user", of |-> m]
Answer(s, n) == [kind |-> "assistant", stop |-> s, calls |-> n]
Result(i)    == [kind |-> "result", of |-> i]

(* The stop reasons error and aborted are one, failed: the loop treats them alike. *)
Stops == {"stop", "length", "failed"}
Items == {User(m) : m \in Msg} \cup {Answer(s, n) : s \in Stops, n \in 0..MaxCalls}
                               \cup {Result(i) : i \in 1..MaxCalls}

(* asked: calls of the answer; next: calls looked at so far; open: calls let  *)
(* through whose tool has not ended; given: results emitted; refused: some    *)
(* call was not let through.                                                  *)
Batch(n) == [asked |-> n, next |-> 0, open |-> {}, given |-> 0, refused |-> FALSE]
NoBatch  == Batch(0)

Batching == {"sequential", "preflight", "parallel", "truncated", "batched"}
Points   == {"idle", "begin", "prompting", "refusing", "turn", "inject", "stream",
             "ended turn", "follow-ups", "closing", "end", "failing"} \cup Batching

TypeOK ==
  /\ pc \in Points
  /\ {transcript, context} \subseteq Seq(Items)
  /\ {prompts, pending, steering, followUps} \subseteq Seq(Msg)
  /\ batch \in [asked : 0..MaxCalls, next : 0..MaxCalls, open : SUBSET (1..MaxCalls),
                given : 0..MaxCalls, refused : BOOLEAN]
  /\ batch.given <= batch.next /\ batch.next <= batch.asked
  /\ batch.open \subseteq 1..batch.next
  /\ {more, skip, aborted, failed} \subseteq BOOLEAN
  /\ ends \in 0..2
  /\ via \in [Msg -> {"none", "prompt", "steer", "follow-up", "cleared"}]
  /\ spilled \subseteq Msg /\ cut \subseteq Nat
  /\ batches \in 0..MaxBatches /\ faults \in 0..MaxFaults

(* Mutant: the queue is emptied whatever the mode.                          *)
LeftNone(q, mode) == <<>>

(* PendingMessageQueue.drain, by the mode of the queue.                     *)
Drained(q, mode) == IF mode = "all" \/ q = <<>> THEN q ELSE <<Head(q)>>
Left(q, mode)    == IF mode = "all" \/ q = <<>> THEN <<>> ELSE Tail(q)

Users(q) == [i \in DOMAIN q |-> User(q[i])]
LastAnswer == CHOOSE p \in DOMAIN transcript :
                /\ transcript[p].kind = "assistant"
                /\ \A q \in DOMAIN transcript :
                     q > p => transcript[q].kind # "assistant"

Init == /\ pc = "idle"
        /\ transcript = <<>> /\ context = <<>>
        /\ prompts = <<>> /\ pending = <<>> /\ steering = <<>> /\ followUps = <<>>
        /\ batch = NoBatch /\ more = FALSE /\ skip = FALSE
        /\ aborted = FALSE /\ failed = FALSE /\ ends = 0
        /\ via = [m \in Msg |-> "none"]
        /\ spilled = {} /\ cut = {}
        /\ batches = 0 /\ faults = 0
-----------------------------------------------------------------------------
(* The callers: prompt, continue, steer, followUp, clearAllQueues, abort.   *)

(* runWithLifecycle: a new signal, and the loop begins on a copy.           *)
Start(first, skipping) ==
  /\ pc' = "begin"
  /\ prompts' = first
  /\ context' = transcript \o Users(first)
  /\ skip' = skipping /\ more' = TRUE
  /\ aborted' = FALSE /\ failed' = FALSE /\ ends' = 0
  /\ UNCHANGED <<transcript, pending, batch, spilled, cut, counts>>

Submit(m, how) == /\ via[m] = "none"
                  /\ \A n \in 1..(m - 1) : via[n] # "none"
                  /\ via' = [via EXCEPT ![m] = how]

Prompt(m) == /\ pc = "idle"
             /\ Submit(m, "prompt")
             /\ Start(<<m>>, FALSE)
             /\ UNCHANGED queues

(* continue: from an answer with what is queued, else from the tail.        *)
Continue ==
  /\ pc = "idle" /\ transcript # <<>>
  /\ UNCHANGED via
  /\ \/ /\ Last(transcript).kind = "assistant" /\ steering # <<>>
        /\ Start(Drained(steering, SteeringMode), TRUE)
        /\ steering' = Left(steering, SteeringMode)
        /\ UNCHANGED followUps
     \/ /\ Last(transcript).kind = "assistant" /\ steering = <<>> /\ followUps # <<>>
        /\ Start(Drained(followUps, FollowUpMode), FALSE)
        /\ followUps' = Left(followUps, FollowUpMode)
        /\ UNCHANGED steering
     \/ /\ Last(transcript).kind # "assistant"
        /\ Start(<<>>, FALSE)
        /\ UNCHANGED queues

Running == <<pc, transcript, context, prompts, pending, batch, more, skip, failed,
             ends, spilled, cut, counts>>

Steer(m) == /\ Submit(m, "steer")
            /\ steering' = Append(steering, m)
            /\ UNCHANGED <<Running, followUps, aborted>>

FollowUp(m) == /\ Submit(m, "follow-up")
               /\ followUps' = Append(followUps, m)
               /\ UNCHANGED <<Running, steering, aborted>>

ClearAllQueues ==
  /\ steering \o followUps # <<>>
  /\ via' = [m \in Msg |-> IF m \in Range(steering \o followUps) THEN "cleared" ELSE via[m]]
  /\ steering' = <<>> /\ followUps' = <<>>
  /\ UNCHANGED <<Running, aborted>>

(* Once the last answer is given or a failure caught, an abort changes      *)
(* nothing.                                                                 *)
Abort == /\ pc \notin {"idle", "closing", "end", "failing"} /\ ~aborted
         /\ aborted' = TRUE
         /\ UNCHANGED <<Running, queues, via>>
-----------------------------------------------------------------------------
(* The loop: runAgentLoop, runAgentLoopContinue, runLoop.                   *)

Callers == <<steering, followUps, via, aborted>>
Tools   == <<batch, more, cut>>

(* message_end: processEvents appends the message to the transcript.        *)
Emit(x)       == transcript' = Append(transcript, x)
EmitAndPush(x) == Emit(x) /\ context' = Append(context, x)

Fault(f) == f \in Faults /\ faults < MaxFaults /\ faults' = faults + 1

(* A lifecycle module sets abort: endLifecycleAbortedTurn.                  *)
GatedTurn == /\ Fault("gate")
             /\ EmitAndPush(Answer("failed", 0))
             /\ pc' = "closing"

(* agent_start, the first before_turn, turn_start: an abort is acted upon   *)
(* after the prompts are emitted.                                           *)
BeforeTurn ==
  /\ pc = "begin"
  /\ \/ pc' = "prompting" /\ UNCHANGED faults
     \/ pc' = "refusing" /\ Fault("gate")
  /\ UNCHANGED <<transcript, context, prompts, pending, skip, ends, spilled,
                 Callers, Tools, failed, batches>>

EmitPrompt ==
  /\ pc \in {"prompting", "refusing"} /\ prompts # <<>>
  /\ Emit(User(Head(prompts)))
  /\ prompts' = Tail(prompts)
  /\ UNCHANGED <<pc, context, pending, skip, ends, spilled, faults, Callers, Tools, failed, batches>>

Refuse ==
  /\ pc = "refusing" /\ prompts = <<>>
  /\ EmitAndPush(Answer("failed", 0))
  /\ pc' = "closing"
  /\ UNCHANGED <<prompts, pending, skip, ends, spilled, faults, Callers, Tools, failed, batches>>

(* The first poll of the steering queue.                                    *)
PollFirst ==
  /\ pc = "prompting" /\ prompts = <<>>
  /\ pc' = "inject"
  /\ skip' = FALSE
  /\ IF skip
     THEN UNCHANGED <<pending, steering>>
     ELSE /\ pending'  = Drained(steering, SteeringMode)
          /\ steering' = Left(steering, SteeringMode)
  /\ UNCHANGED <<transcript, context, prompts, followUps, via, aborted, ends, spilled,
                 faults, Tools, failed, batches>>

(* before_turn of a later turn: with an abort, what was polled is dropped.  *)
BeginTurn ==
  /\ pc = "turn"
  /\ \/ /\ pc' = "inject"
        /\ UNCHANGED <<transcript, context, pending, spilled, faults>>
     \/ /\ GatedTurn
        /\ spilled' = spilled \cup Range(pending)
        /\ pending' = <<>>
  /\ UNCHANGED <<prompts, skip, ends, Callers, Tools, failed, batches>>

(* Mutant: a message is announced and not given to the model.               *)
InjectUnpushed ==
  /\ pc = "inject" /\ pending # <<>>
  /\ Emit(User(Head(pending)))
  /\ pending' = Tail(pending)
  /\ UNCHANGED <<pc, context, prompts, skip, ends, spilled, faults, Callers, Tools,
                 failed, batches>>

Inject ==
  /\ pc = "inject" /\ pending # <<>>
  /\ EmitAndPush(User(Head(pending)))
  /\ pending' = Tail(pending)
  /\ UNCHANGED <<pc, prompts, skip, ends, spilled, faults, Callers, Tools, failed, batches>>

(* before_reasoning, and the request to the model.                          *)
Ask ==
  /\ pc = "inject" /\ pending = <<>>
  /\ \/ pc' = "stream" /\ UNCHANGED <<transcript, context, faults>>
     \/ GatedTurn
  /\ UNCHANGED <<prompts, pending, skip, ends, spilled, Callers, Tools, failed, batches>>

(* streamAssistantResponse returns the final message.                       *)
Answered(s, n) ==
  /\ pc = "stream"
  /\ EmitAndPush(Answer(s, n))
  /\ UNCHANGED <<prompts, pending, skip, ends, spilled, failed, faults, Callers, cut>>

(* The calls of an answer that failed are not looked at.                    *)
AnswerFails ==
  /\ Answered("failed", MaxCalls)
  /\ pc' = "closing"
  /\ UNCHANGED <<batch, more, batches>>

AnswerPlain ==
  /\ Answered("stop", 0)
  /\ pc' = "ended turn"
  /\ more' = FALSE
  /\ UNCHANGED <<batch, batches>>

(* executeToolCalls, or failToolCallsFromTruncatedMessage.                  *)
AnswerTools(n) ==
  /\ batches < MaxBatches /\ batches' = batches + 1
  /\ \/ Answered("stop", n) /\ pc' \in {"sequential", "preflight"}
     \/ Answered("length", n) /\ pc' = "truncated"
  /\ batch' = Batch(n)
  /\ more' = FALSE
-----------------------------------------------------------------------------
(* The tool calls of an answer.                                             *)

InBatch == <<prompts, pending, skip, ends, spilled, faults, context, more, cut,
             Callers, failed, batches>>

(* The next call is refused - unknown, invalid, blocked, or the run aborted  *)
(* by the time it is looked at - or, when not aborted, let through.         *)
Refused == [batch EXCEPT !.next = @ + 1, !.refused = TRUE]
Opened  == [batch EXCEPT !.next = @ + 1, !.open = @ \cup {batch.next + 1}]

Given(b) == /\ Emit(Result(b.given + 1))
            /\ batch' = [b EXCEPT !.given = @ + 1]

(* executeToolCallsSequential looks at the signal after each result.        *)
AfterResult(here) ==
  pc' = IF aborted \/ batch'.given = batch.asked THEN "batched" ELSE here

SequentialCall ==
  /\ pc = "sequential" /\ batch.open = {}
  /\ \/ Given(Refused) /\ AfterResult("sequential")
     \/ /\ ~aborted
        /\ batch' = Opened
        /\ UNCHANGED <<pc, transcript>>
  /\ UNCHANGED InBatch

SequentialResult ==
  /\ pc = "sequential" /\ batch.open # {}
  /\ Given([batch EXCEPT !.open = {}])
  /\ AfterResult("sequential")
  /\ UNCHANGED InBatch

(* Mutants: a refused call ends the batch; the signal is not looked at.     *)
PreflightRefuses ==
  /\ pc = "preflight"
  /\ \/ batch' = Refused
     \/ ~aborted /\ batch' = Opened
  /\ pc' = IF aborted \/ batch'.refused \/ batch'.next = batch.asked
           THEN "parallel" ELSE "preflight"
  /\ UNCHANGED <<transcript, InBatch>>

PreflightBlind ==
  /\ pc = "preflight"
  /\ batch' \in {Refused, Opened}
  /\ pc' = IF aborted \/ batch'.next = batch.asked THEN "parallel" ELSE "preflight"
  /\ UNCHANGED <<transcript, InBatch>>

(* executeToolCallsParallel: every call is looked at before any executes.   *)
Preflight ==
  /\ pc = "preflight"
  /\ \/ batch' = Refused
     \/ ~aborted /\ batch' = Opened
  /\ pc' = IF aborted \/ batch'.next = batch.asked THEN "parallel" ELSE "preflight"
  /\ UNCHANGED <<transcript, InBatch>>

ToolEnds(i) ==
  /\ pc = "parallel" /\ i \in batch.open
  /\ batch' = [batch EXCEPT !.open = @ \ {i}]
  /\ UNCHANGED <<pc, transcript, InBatch>>

(* All have ended: the results, in the order of the calls.                  *)
ParallelResult ==
  /\ pc = "parallel" /\ batch.open = {}
  /\ Given(batch)
  /\ pc' = IF batch'.given = batch.next THEN "batched" ELSE "parallel"
  /\ UNCHANGED InBatch

TruncatedResult ==
  /\ pc = "truncated"
  /\ Given(Refused)
  /\ pc' = IF batch'.given = batch.asked THEN "batched" ELSE "truncated"
  /\ UNCHANGED InBatch

(* The results join the context; a batch ends the tool loop only if every   *)
(* call was executed and asked for it.                                      *)
BatchEnds ==
  /\ pc = "batched"
  /\ pc' = "ended turn"
  /\ context' = context \o [i \in 1..batch.given |-> Result(i)]
  /\ more' \in IF batch.refused THEN {TRUE} ELSE BOOLEAN
  /\ cut' = IF aborted /\ batch.given < batch.asked THEN cut \cup {LastAnswer} ELSE cut
  /\ batch' = NoBatch
  /\ UNCHANGED <<transcript, prompts, pending, skip, ends, spilled, faults, Callers, failed, batches>>
-----------------------------------------------------------------------------
(* The ends of a turn and of a run.                                         *)

Ending == <<transcript, context, prompts, skip, spilled, faults, via, aborted, Tools, failed, batches>>

(* turn_end, after_turn, prepareNextTurn, and the poll of the steering queue. *)
EndTurn ==
  /\ pc = "ended turn"
  /\ pending'  = Drained(steering, SteeringMode)
  /\ steering' = Left(steering, SteeringMode)
  /\ pc' = IF more \/ pending' # <<>> THEN "turn" ELSE "follow-ups"
  /\ UNCHANGED <<followUps, ends, Ending>>

AgentEnd == pc' = "end" /\ ends' = ends + 1

(* shouldStopAfterTurn.                                                     *)
StopAfterTurn ==
  /\ pc = "ended turn"
  /\ AgentEnd
  /\ UNCHANGED <<pending, steering, followUps, Ending>>

PollFollowUps ==
  /\ pc = "follow-ups"
  /\ IF followUps = <<>>
     THEN AgentEnd /\ UNCHANGED <<pending, followUps>>
     ELSE /\ pending'   = Drained(followUps, FollowUpMode)
          /\ followUps' = Left(followUps, FollowUpMode)
          /\ pc' = "turn"
          /\ UNCHANGED ends
  /\ UNCHANGED <<steering, Ending>>

(* turn_end and agent_end after an answer that failed.                      *)
CloseTurn ==
  /\ pc = "closing"
  /\ AgentEnd
  /\ UNCHANGED <<pending, steering, followUps, Ending>>

(* finishRun: also when the failure could not be reported, or a listener of *)
(* its agent_end throws.                                                    *)
FinishRun ==
  /\ pc' = "idle"
  /\ context' = <<>> /\ more' = FALSE
  /\ aborted' = FALSE /\ failed' = FALSE /\ ends' = 0
  /\ UNCHANGED <<prompts, pending, steering, followUps, batch, skip, via, spilled, cut,
                 batches>>

(* Mutant: a run that failed is not finished.                               *)
FinishSound == pc = "end" /\ ~failed /\ FinishRun /\ UNCHANGED <<transcript, faults>>

Finish == pc = "end" /\ FinishRun /\ UNCHANGED <<transcript, faults>>

(* An await of the loop throws: what the loop holds is gone.                *)
Throw ==
  /\ pc \notin {"idle", "failing"} /\ ~failed
  /\ Fault("throw")
  /\ pc' = "failing" /\ failed' = TRUE
  /\ spilled' = spilled \cup Range(prompts) \cup Range(pending)
  /\ cut' = IF pc \in Batching THEN cut \cup {LastAnswer} ELSE cut
  /\ prompts' = <<>> /\ pending' = <<>> /\ context' = <<>>
  /\ batch' = NoBatch /\ more' = FALSE /\ skip' = FALSE
  /\ UNCHANGED <<transcript, ends, batches, Callers>>

(* handleRunFailure.                                                        *)
Failure == Answer("failed", 0)

ReportFailure ==
  /\ pc = "failing"
  /\ Emit(Failure)
  /\ AgentEnd
  /\ UNCHANGED <<context, prompts, pending, skip, spilled, faults, Callers, Tools, failed, batches>>

(* A listener throws again, before or after the failure is in the transcript. *)
ReportBreaks ==
  /\ pc = "failing"
  /\ Emit(Failure) \/ UNCHANGED transcript
  /\ FinishRun
  /\ UNCHANGED faults

Loop == \/ BeforeTurn \/ EmitPrompt \/ Refuse \/ PollFirst \/ BeginTurn \/ Inject \/ Ask
        \/ AnswerFails \/ AnswerPlain
        \/ \E n \in 1..MaxCalls : AnswerTools(n)
        \/ SequentialCall \/ SequentialResult \/ Preflight
        \/ \E i \in 1..MaxCalls : ToolEnds(i)
        \/ ParallelResult \/ TruncatedResult \/ BatchEnds
        \/ EndTurn \/ StopAfterTurn \/ PollFollowUps \/ CloseTurn
        \/ Finish \/ ReportFailure \/ ReportBreaks

Next == \/ \E m \in Msg : Prompt(m) \/ Steer(m) \/ FollowUp(m)
        \/ Continue \/ ClearAllQueues \/ Abort
        \/ Loop \/ Throw

Spec == Init /\ [][Next]_vars

(* Whatever the loop awaits - the model, a tool, a listener - settles.      *)
FairSpec == Spec /\ WF_vars(Loop)
-----------------------------------------------------------------------------
(* What the model is asked with, and what the loop ends with, is what the   *)
(* listeners were given: the context of the loop and the transcript, kept   *)
(* apart in runLoop and in processEvents, agree.                            *)
ContextAgrees == pc \in {"stream", "end"} /\ ~failed => context = transcript

(* "Persisted toolResult messages still follow assistant source order":     *)
(* the result of call i stands i places after the answer that asked for it, *)
(* whatever the mode, and with no steered message between; and every call   *)
(* has its result unless the batch is under way, or was aborted or failed.  *)
Executable(x) == x.kind = "assistant" /\ x.stop \in {"stop", "length"}
ResultAt(p, i) == p + i \in DOMAIN transcript /\ transcript[p + i] = Result(i)
InPlace(q) == \E p \in DOMAIN transcript :
                /\ p + transcript[q].of = q
                /\ Executable(transcript[p])
                /\ transcript[q].of \in 1..transcript[p].calls
Answers == {p \in DOMAIN transcript : Executable(transcript[p])}
Current == IF pc \in Batching THEN {LastAnswer} ELSE {}

ResultsFollow ==
  /\ \A q \in DOMAIN transcript : transcript[q].kind = "result" => InPlace(q)
  /\ \A p \in Answers \ (cut \cup Current) :
       \A i \in 1..transcript[p].calls : ResultAt(p, i)

(* A submitted message is in one place and once: a queue, the hands of the  *)
(* loop, or the transcript; it is gone only with a cleared queue or a run   *)
(* that was cut off while it held the message.                              *)
Count(m, q) == Cardinality({i \in DOMAIN q : q[i] = m})
OncePlaced ==
  \A m \in Msg :
    Count(m, prompts \o pending \o steering \o followUps) + Count(User(m), transcript)
      = IF via[m] \in {"none", "cleared"} \/ m \in spilled THEN 0 ELSE 1

(* The messages of a queue enter the transcript in the order in which they  *)
(* were queued, over the polls of several turns and runs.                   *)
QueuesInOrder ==
  \A p, q \in DOMAIN transcript :
    /\ p < q
    /\ transcript[p].kind = "user" /\ transcript[q].kind = "user"
    /\ via[transcript[p].of] \in {"steer", "follow-up"}
    /\ via[transcript[p].of] = via[transcript[q].of]
    => transcript[p].of < transcript[q].of

(* Once a run is aborted no further tool call is let through: a tool that   *)
(* executes after the abort, as all of a parallel batch may, was prepared   *)
(* before it.                                                               *)
AbortedOpensNone == [][aborted => batch'.open \subseteq batch.open]_vars

(* A run ends: no answer, batch, abort or failure leaves it hanging.        *)
RunEnds == (pc # "idle") ~> (pc = "idle")

(* The queues and the transcript are consistent at every await.             *)
Consistent == TypeOK /\ OncePlaced /\ QueuesInOrder
=============================================================================
