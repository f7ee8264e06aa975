---------------------------- MODULE AgentSession ----------------------------
(***************************************************************************)
(* packages/host/src/core/agent-session.ts: the prompts of one session,    *)
(* their retries, compactions and continuations, and who waits for it to   *)
(* be idle.                                                                *)
(*                                                                         *)
(* A prompt awaits the input handlers, the credentials and the handlers of *)
(* before_agent_start before it raises _isAgentRunActive; then it runs the *)
(* agent, again and again while a retry, a compaction or a queued message  *)
(* asks for it, and settles.  A run of the agent is one step here and one  *)
(* for its agent_end listeners: AgentRun has its inside.  Calls overlap in *)
(* every await: prompts, triggered turns, steered messages, aborts, manual *)
(* compactions.                                                            *)
(*                                                                         *)
(* Left out: extension commands and handlers that handle the input, models *)
(* and credentials that are missing, nextTurn and bash messages, switching *)
(* the retries or the compaction off, a second manual compaction during    *)
(* one, and disposal.                                                      *)
(***************************************************************************)
EXTENDS Integers, FiniteSets

CONSTANTS Call,         \* calls of prompt and sendCustomMessage
          QueuedMsg,          \* messages queued by steer and followUp
          None,
          MaxRetries,   \* settings.retry.maxRetries
          MaxSteps,     \* bound: answers within a run that make progress
          MaxAborts,    \* bound: calls of abort
          MaxCompacts   \* bound: calls of compact

ASSUME SessionAssumption == /\ {MaxRetries, MaxSteps, MaxAborts, MaxCompacts} \subseteq Nat
                            /\ None \notin [by : Call, ended : BOOLEAN, aborted : BOOLEAN]

VARIABLES call,       \* where each call is
          active,     \* _isAgentRunActive
          run,        \* Agent.activeRun: whose, and whether agent_end is out
          last,       \* _lastAssistantMessage: how the last answer ended
          attempt,    \* _retryAttempt
          retry,      \* _retryAbortController
          overflowed, \* _overflowRecoveryAttempted
          queue,      \* steering and follow-up queues of the agent
          waiting,    \* somebody waits on the idle promise
          connected,  \* _handleAgentEvent is subscribed
          manual,     \* where compact() is
          overlapped, \* history: a call began to run beside another, or beside
                      \* a manual compaction
          brokeOff,   \* history: a listener that threw broke off the last call
                      \* to settle, in its run or behind it
          retryOpen,  \* history: an auto_retry_start without its end
          asked,      \* history: messages queued so far
          idleMsgs,   \* history: those queued while no call was at work
          steps, aborts, compacts

history  == <<overlapped, brokeOff, retryOpen, asked, idleMsgs>>
troubles == <<overlapped, brokeOff>>
spent    == <<steps, aborts, compacts>>
retries  == <<attempt, retry, retryOpen>>
sessionQueues == <<queue, asked, idleMsgs>>
sessionVars == <<call, active, run, last, attempt, retry, overflowed, queue, waiting, connected,
                 manual, history, spent>>

Outcomes == {"ok", "retryable", "overflow", "fatal", "aborted"}
Errors   == {"retryable", "overflow", "fatal"}
PreflightStages == {"input", "checks", "compacting"}
Working   == {"run", "post", "backoff", "checked", "cut", "compact",
              "compact and retry", "broken"}

SessionTypeOK ==
  /\ call \in [Call -> {"none", "settling", "failing", "done", "rejected"}
                         \cup PreflightStages \cup Working]
  /\ {active, overflowed, waiting, connected, overlapped, brokeOff, retryOpen}
       \subseteq BOOLEAN
  /\ run \in [by : Call, ended : BOOLEAN, aborted : BOOLEAN] \cup {None}
  /\ last \in Outcomes \cup {"none"}
  /\ attempt \in 0..MaxRetries /\ retry \in {"none", "armed", "aborted"}
  /\ queue \subseteq asked /\ asked \subseteq QueuedMsg /\ idleMsgs \subseteq asked
  /\ manual \in {"none", "waiting", "aborting", "compacting"}
  /\ steps \in 0..MaxSteps /\ aborts \in 0..MaxAborts /\ compacts \in 0..MaxCompacts

SessionInit == /\ call = [c \in Call |-> "none"]
               /\ active = FALSE /\ run = None /\ last = "none"
               /\ attempt = 0 /\ retry = "none" /\ overflowed = FALSE
               /\ queue = {} /\ asked = {} /\ idleMsgs = {}
               /\ waiting = FALSE /\ connected = TRUE /\ manual = "none"
               /\ overlapped = FALSE /\ brokeOff = FALSE
               /\ retryOpen = FALSE
               /\ steps = 0 /\ aborts = 0 /\ compacts = 0

Goes(c, from, to) == call[c] = from /\ call' = [call EXCEPT ![c] = to]
Others(c) == \E d \in Call \ {c} : call[d] \in Working \cup {"failing"}
-----------------------------------------------------------------------------
(* prompt, up to _runAgentPrompt                                            *)

PromptCall(c) ==
  /\ call[c] = "none"
  /\ call' = [call EXCEPT ![c] = IF manual = "compacting" THEN "rejected" ELSE "input"]
  /\ UNCHANGED <<active, run, last, retries, overflowed, sessionQueues, waiting, connected,
                 manual, troubles, spent>>

(* Mutant: a prompt does not look at isStreaming.                           *)
EnterUnseen(c) == /\ Goes(c, "input", "checks")
                  /\ UNCHANGED <<active, run, last, retries, overflowed, sessionQueues, waiting,
                                 connected, manual, troubles, spent>>

(* The look at isStreaming, once, after the input handlers.                 *)
Enter(c) == /\ Goes(c, "input", IF active THEN "rejected" ELSE "checks")
            /\ UNCHANGED <<active, run, last, retries, overflowed, sessionQueues, waiting,
                           connected, manual, troubles, spent>>

(* The pre-prompt check may compact, with no flag raised.                   *)
PreCompact(c) == /\ Goes(c, "checks", "compacting")
                 /\ UNCHANGED <<active, run, last, retries, overflowed, sessionQueues, waiting,
                                connected, manual, troubles, spent>>

(* _runAgentPrompt raises the flag; Agent.prompt refuses a second run.      *)
Run(c) ==
  /\ active' = TRUE
  /\ overlapped' = (overlapped \/ Others(c) \/ manual = "compacting")
  /\ run' = IF run = None THEN [by |-> c, ended |-> FALSE, aborted |-> FALSE] ELSE run
  /\ UNCHANGED brokeOff

Begin(c) ==
  /\ \E p \in {"checks", "compacting"} :
       Goes(c, p, IF run = None THEN "run" ELSE "failing")
  /\ Run(c)
  /\ overflowed' = (overflowed /\ (run # None \/ ~connected))
  /\ UNCHANGED <<last, retries, sessionQueues, waiting, connected, manual, spent>>

(* sendCustomMessage with triggerTurn: no preflight, and no user's message, *)
(* which would allow another recovery of an overflow.                       *)
Trigger(c) ==
  /\ ~active
  /\ Goes(c, "none", IF run = None THEN "run" ELSE "failing")
  /\ Run(c)
  /\ UNCHANGED <<last, retries, overflowed, sessionQueues, waiting, connected, manual, spent>>
-----------------------------------------------------------------------------
(* The agent's run: see AgentRun.                                           *)

Looping == run # None /\ ~run.ended

(* A queued message enters the run.                                         *)
Take(m) ==
  /\ Looping /\ m \in queue
  /\ queue' = queue \ {m}
  /\ overflowed' = (overflowed /\ ~connected)
  /\ UNCHANGED <<call, active, run, last, retries, asked, idleMsgs, waiting, connected,
                 manual, troubles, spent>>

(* message_end of an answer that is no error: the retry has succeeded.      *)
Succeeds ==
  /\ attempt' = 0
  /\ retryOpen' = (retryOpen /\ attempt = 0)

(* An answer that calls tools, within the run.                              *)
Step ==
  /\ Looping /\ steps < MaxSteps /\ steps' = steps + 1
  /\ IF connected
     THEN Succeeds /\ overflowed' = FALSE /\ last' = "ok"
     ELSE UNCHANGED <<attempt, retryOpen, overflowed, last>>
  /\ UNCHANGED <<call, active, run, retry, sessionQueues, waiting, connected, manual,
                 troubles, aborts, compacts>>

(* The last answer of the run, and agent_end.  A run that ends well has     *)
(* taken all that was queued; one that failed leaves it.                    *)
ModelAnswers(k) ==
  /\ Looping
  /\ k = "ok" => queue = {}
  /\ k = "aborted" => run.aborted
  /\ run' = [run EXCEPT !.ended = TRUE]
  /\ last' = IF connected THEN k ELSE last
  /\ IF connected /\ k \notin Errors
     THEN Succeeds /\ overflowed' = FALSE
     ELSE UNCHANGED <<attempt, retryOpen, overflowed>>
  /\ UNCHANGED <<call, active, retry, sessionQueues, waiting, connected, manual, troubles, spent>>

(* Mutant: the caller goes on before the listeners of agent_end are done.   *)
FinishEarly ==
  /\ run # None /\ ~run.ended
  /\ Goes(run.by, "run", "post")
  /\ UNCHANGED <<active, run, last, retries, overflowed, sessionQueues, waiting, connected,
                 manual, troubles, spent>>

(* The listeners of agent_end are done: Agent.prompt returns.               *)
EndRun ==
  /\ run # None /\ run.ended
  /\ Goes(run.by, "run", "post")
  /\ run' = None
  /\ UNCHANGED <<active, last, retries, overflowed, sessionQueues, waiting, connected, manual,
                 troubles, spent>>
(* A listener throws, and another as the failure is told (handleRunFailure):*)
(* Agent.prompt rejects, and nobody looks at the answer or at the queues.   *)
RunRejects ==
  /\ run # None /\ connected
  /\ Goes(run.by, "run", "broken")
  /\ run' = None
  /\ UNCHANGED <<active, last, retries, overflowed, sessionQueues, waiting, connected, manual,
                 troubles, spent>>
-----------------------------------------------------------------------------
(* _handlePostAgentRun                                                      *)

(* Agent.continue, from post, from the backoff or from a compaction.        *)
ContinueRun(c, from) ==
  /\ Goes(c, from, IF run = None THEN "run" ELSE "failing")
  /\ overlapped' = (overlapped \/ Others(c) \/ manual = "compacting")
  /\ IF run = None
     THEN /\ run' = [by |-> c, ended |-> FALSE, aborted |-> FALSE]
     ELSE UNCHANGED <<run>>
  /\ UNCHANGED brokeOff

(* The finally of _runAgentPrompt lowers the flag and emits agent_settled.  *)
Settle(c, from) == /\ Goes(c, from, "settling")
                   /\ active' = FALSE
                   /\ brokeOff' = FALSE
                   /\ UNCHANGED <<run, overlapped>>

GivesUp == /\ retryOpen' = (retryOpen /\ attempt = 0)
           /\ attempt' = 0

(* Mutant: the attempts are counted from zero again by each retry.          *)
PostForever(c) ==
  /\ call[c] = "post" /\ last' = "none"
  /\ \/ /\ last = "retryable"
        /\ Goes(c, "post", "backoff")
        /\ retry' = "armed" /\ retryOpen' = TRUE
        /\ UNCHANGED <<active, run, attempt, overflowed, troubles>>
     \/ /\ last # "retryable"
        /\ Goes(c, "post", "checked")
        /\ UNCHANGED <<active, run, retries, overflowed, troubles>>
  /\ UNCHANGED <<sessionQueues, waiting, connected, manual, spent>>

(* The retry, then the compaction, then what is queued.                     *)
Post(c) ==
  /\ call[c] = "post" /\ last' = "none"
  /\ \/ /\ last = "none"
        /\ Settle(c, "post")
        /\ UNCHANGED <<retries, overflowed>>
     \/ /\ last = "retryable" /\ attempt < MaxRetries
        /\ Goes(c, "post", "backoff")
        /\ attempt' = attempt + 1
        /\ retry' = "armed" /\ retryOpen' = TRUE
        /\ UNCHANGED <<active, run, overflowed, troubles>>
     \/ /\ last = "overflow" /\ ~overflowed
        /\ Goes(c, "post", "compact and retry")
        /\ GivesUp /\ overflowed' = TRUE
        /\ UNCHANGED <<active, run, retry, troubles>>
     \/ /\ \/ last = "retryable" /\ attempt = MaxRetries
           \/ last = "overflow" /\ overflowed
           \/ last = "fatal"
        /\ \/ Goes(c, "post", "checked")
           \/ last # "overflow" /\ Goes(c, "post", "compact")
        /\ GivesUp
        /\ UNCHANGED <<active, run, retry, overflowed, troubles>>
     \/ /\ last \in {"ok", "aborted"}
        /\ \/ Goes(c, "post", "checked")
           \/ last = "ok" /\ Goes(c, "post", "compact")
        /\ UNCHANGED <<active, run, retries, overflowed, troubles>>
  /\ UNCHANGED <<sessionQueues, waiting, connected, manual, spent>>

(* The sleep before a retry ends, or is cut short by abortRetry.  The error *)
(* is out of the transcript by then ("cut").                                *)
Backoff(c) ==
  /\ call[c] = "backoff" /\ retry' = "none"
  /\ \/ /\ retry # "aborted"
        /\ ContinueRun(c, "backoff")
        /\ UNCHANGED <<attempt, retryOpen>>
     \/ /\ retry = "aborted"
        /\ \/ Goes(c, "backoff", "cut")
           \/ Goes(c, "backoff", "compact")
        /\ attempt' = 0 /\ retryOpen' = FALSE
        /\ UNCHANGED <<run, troubles>>
  /\ UNCHANGED <<active, last, overflowed, sessionQueues, waiting, connected, manual,
                 spent>>

(* _runAutoCompaction of the post-run check: it retries the answer that     *)
(* overflowed, unless it failed.                                            *)
CompactEnds(c) ==
  /\ \/ /\ Goes(c, "compact", "checked") \/ Goes(c, "compact and retry", "cut")
        /\ UNCHANGED <<run, troubles>>
     \/ ContinueRun(c, "compact and retry")
  /\ UNCHANGED <<active, last, retries, overflowed, sessionQueues, waiting, connected, manual,
                 spent>>

(* A listener throws when it is told what comes after the run: that a retry *)
(* begins or has ended, that it was cut short, that an overflow could not be*)
(* mended or how a compaction ended.  The prompt rejects on the spot.       *)
PostThrows(c) ==
  /\ \/ /\ Goes(c, "post", "broken")
        /\ last' = "none"
        /\ \/ /\ last = "retryable" /\ attempt < MaxRetries
              /\ attempt' = attempt + 1 /\ retryOpen' = TRUE
           \/ /\ last \in Errors /\ attempt > 0
              /\ last = "retryable" => attempt = MaxRetries
              /\ retryOpen' = FALSE /\ UNCHANGED attempt
           \/ last = "overflow" /\ overflowed /\ GivesUp
        /\ UNCHANGED retry
     \/ /\ Goes(c, "backoff", "broken")
        /\ retry = "aborted" /\ retry' = "none"
        /\ attempt' = 0 /\ retryOpen' = FALSE
        /\ UNCHANGED last
     \/ /\ Goes(c, "compact", "broken") \/ Goes(c, "compact and retry", "broken")
        /\ UNCHANGED <<last, retries>>
  /\ UNCHANGED <<active, run, overflowed, sessionQueues, waiting, connected, manual, troubles,
                 spent>>

(* Mutant: what is queued is left to the next prompt.                       *)
CheckedAndLeft(c) ==
  /\ Settle(c, "checked") \/ Settle(c, "cut")
  /\ UNCHANGED <<last, retries, overflowed, sessionQueues, waiting, connected, manual,
                 spent>>

(* hasQueuedMessages: continue, or settle.  A transcript that ends with an  *)
(* answer is continued with one of the messages.                            *)
Checked(c) ==
  /\ \/ /\ queue # {} /\ run = None
        /\ ContinueRun(c, "checked")
        /\ \E m \in queue : queue' = queue \ {m}
        /\ overflowed' = (overflowed /\ ~connected)
        /\ UNCHANGED active
     \/ /\ queue # {}
        /\ \/ ContinueRun(c, "cut")
           \/ run # None /\ ContinueRun(c, "checked")
        /\ UNCHANGED <<active, queue, overflowed>>
     \/ /\ queue = {}
        /\ Settle(c, "checked") \/ Settle(c, "cut")
        /\ UNCHANGED <<queue, overflowed>>
  /\ UNCHANGED <<last, retries, asked, idleMsgs, waiting, connected, manual,
                 spent>>

(* Agent.prompt, continue or a listener threw: the finally runs all the     *)
(* same.                                                                    *)
Fail(c) ==
  /\ \/ Goes(c, "failing", "settling") /\ UNCHANGED brokeOff
     \/ Goes(c, "broken", "settling") /\ brokeOff' = TRUE
  /\ active' = FALSE
  /\ UNCHANGED <<run, last, retries, overflowed, sessionQueues, waiting, connected, manual,
                 overlapped, spent>>

(* After the handlers of agent_settled the idle promise is resolved, if the *)
(* session is still idle.                                                   *)
Settled(c) ==
  /\ Goes(c, "settling", "done")
  /\ waiting' = (waiting /\ active)
  /\ manual' = IF manual = "waiting" /\ ~active THEN "aborting" ELSE manual
  /\ UNCHANGED <<active, run, last, retries, overflowed, sessionQueues, connected, troubles,
                 spent>>
-----------------------------------------------------------------------------
(* steer and followUp, clearQueue, abort, compact                           *)

Queue(m) ==
  /\ m \notin asked
  /\ queue' = queue \cup {m} /\ asked' = asked \cup {m}
  /\ idleMsgs' = IF active THEN idleMsgs ELSE idleMsgs \cup {m}
  /\ UNCHANGED <<call, active, run, last, retries, overflowed, waiting, connected,
                 manual, troubles, spent>>

ClearQueue ==
  /\ queue # {} /\ queue' = {}
  /\ UNCHANGED <<call, active, run, last, retries, overflowed, asked, idleMsgs, waiting,
                 connected, manual, troubles, spent>>

(* abortRetry, Agent.abort; then waitForIdle.                               *)
Stopping ==
  /\ retry' = IF retry = "armed" THEN "aborted" ELSE retry
  /\ run' = IF run # None THEN [run EXCEPT !.aborted = TRUE] ELSE run
  /\ waiting' = (waiting \/ active)

AbortSession ==
  /\ aborts < MaxAborts /\ aborts' = aborts + 1
  /\ Stopping
  /\ UNCHANGED <<call, active, last, attempt, retryOpen, overflowed, sessionQueues,
                 connected, manual, troubles, steps, compacts>>

(* compact() disconnects, aborts and waits ...                              *)
Compact ==
  /\ manual = "none" /\ compacts < MaxCompacts /\ compacts' = compacts + 1
  /\ connected' = FALSE
  /\ manual' = IF active THEN "waiting" ELSE "aborting"
  /\ Stopping
  /\ UNCHANGED <<call, active, last, attempt, retryOpen, overflowed, sessionQueues,
                 troubles, steps, aborts>>

(* ... compacts once the session is idle, whatever is in its preflight ...  *)
CompactStart ==
  /\ manual = "aborting"
  /\ manual' = "compacting"
  /\ overlapped' = (overlapped \/ \E c \in Call : call[c] \in Working \cup {"failing"})
  /\ UNCHANGED <<call, brokeOff, active, run, last, retries, overflowed, sessionQueues, waiting,
                 connected, spent>>

(* ... and connects again.                                                  *)
CompactDone ==
  /\ manual = "compacting"
  /\ manual' = "none" /\ connected' = TRUE
  /\ UNCHANGED <<call, active, run, last, retries, overflowed, sessionQueues, waiting,
                 troubles, spent>>

Preflights(c) == Enter(c) \/ PreCompact(c) \/ Begin(c)
Works(c) == Post(c) \/ Backoff(c) \/ CompactEnds(c) \/ Checked(c) \/ Fail(c) \/ Settled(c)
Agent    == EndRun \/ Step \/ (\E m \in QueuedMsg : Take(m)) \/ (\E k \in Outcomes : ModelAnswers(k))
Compacts == CompactStart \/ CompactDone

SessionNext == \/ \E c \in Call : \/ PromptCall(c) \/ Trigger(c) \/ Preflights(c) \/ Works(c)
                                  \/ PostThrows(c)
               \/ Agent \/ RunRejects \/ Compacts \/ AbortSession \/ Compact \/ ClearQueue
               \/ \E m \in QueuedMsg : Queue(m)

SessionSpec == SessionInit /\ [][SessionNext]_sessionVars

(* The model answers, handlers and timers end.                              *)
FairSession == /\ SessionSpec
               /\ WF_sessionVars(Agent) /\ WF_sessionVars(Compacts)
               /\ \A c \in Call : WF_sessionVars(Preflights(c)) /\ WF_sessionVars(Works(c))
-----------------------------------------------------------------------------
(* While calls do not overlap, the flag covers all of a call's work: the    *)
(* runs, the backoff, the compaction after a run (isStreaming, isIdle).     *)
FlagCovers == \/ overlapped
              \/ active = \E c \in Call : call[c] \in Working \cup {"failing"}

(* ... there is one run at a time and it belongs to a call that awaits it.  *)
RunIsAwaited == overlapped \/ \A c \in Call : call[c] = "run" <=> run # None /\ run.by = c

(* A session that settled has closed what it opened and taken what it was   *)
(* given: every auto_retry_start has its auto_retry_end (_prepareRetry), and*)
(* what was queued during a run went into it or into a continuation         *)
(* (_handlePostAgentRun).  Not so when a manual compaction took the listener*)
(* away, when prompts overlapped, or after a prompt that a listener broke   *)
(* off, until the next prompt has settled and made good for it.             *)
SettledIsClean == \/ active \/ overlapped \/ compacts > 0 \/ brokeOff
                  \/ ~retryOpen /\ queue \subseteq idleMsgs

(* A prompt returns, for its retries and recoveries of an overflow are      *)
(* bounded (_prepareRetry, _overflowRecoveryAttempted), and who waits for   *)
(* the session to be idle is resumed.                                       *)
PromptReturns ==
  /\ \A c \in Call : call[c] # "none" ~> call[c] \in {"done", "rejected"}
  /\ waiting ~> ~waiting

(* The state of a session is consistent at every await.                     *)
SessionConsistent == SessionTypeOK /\ FlagCovers /\ RunIsAwaited
-----------------------------------------------------------------------------
(* Who prompts a session sees only SessionPrompts.                          *)
PlaceOf(stage) == CASE stage \in {"none", "input", "settling", "done", "rejected"} -> "out"
                    [] stage \in {"checks", "compacting"} -> "let in"
                    [] stage \in {"run", "failing"} -> stage
                    [] stage \in Working \ {"run"} -> "between"

Prompts == INSTANCE SessionPrompts
             WITH Prompt  <- Call,
                  place   <- [c \in Call |-> PlaceOf(call[c])],
                  busy    <- active,
                  running <- IF run = None THEN {} ELSE {run.by}

(* Through retries, compactions, continuations, aborts and overlapping      *)
(* prompts, a session behaves as SessionPrompts says: one run at a time,    *)
(* begun by the prompt that awaits it, and a flag that a prompt raises when *)
(* it begins and lowers only when it is done (_runAgentPrompt).             *)
ImplementsPrompts == Prompts!Spec
=============================================================================
