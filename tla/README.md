# Cogito: TLA+ models of its message path, its agents and its gateway

Cogito is an agent that lives in chats. Three processes share the libraries of
this repository:

* the **gateway** process (`packages/gateway`, `packages/chat`) receives
  messages from chat providers, runs agent turns and sends replies;
* the **proactive** daemon (`packages/proactive`) watches sources and decides
  by itself to send something;
* the **drift** daemon (`packages/drift`, `packages/gate`) works in the
  background and stages messages for the proactive daemon to deliver.

The promise that is hardest to keep, and hardest to test, is that of the
gateway: a message that was accepted is answered once, in the order of its
session, and a reply that was accepted is delivered, through retries, timers,
crashes and restarts. That is the core of this project. Around it stand what
every turn goes through (the session pool, the session, the run of the agent),
what else writes into a chat (the scheduled jobs, the proactive outlet), and
the locks under which a process may touch its files at all.

## Inventory

Paths are relative to `packages/`. A component in **bold** is modelled.

| component | state | operations | talks to |
|---|---|---|---|
| **Turn scheduler** `gateway/src/scheduler.ts` | promise chain per session, active slots, waiters | enqueue, acquire, release, cleanup | called by the SDK's dispatch |
| **Message bus** `gateway/src/bus.ts` | keys in delivery, attempts, retry timers, recovery timer, outbound queue | publishInbound, ackInbound, retryInbound, recoverInbound, recoverOutbound, close | writes the handoff file, the dead letters and the outbox; calls the application's handlers |
| **Handoff file** `gateway/src/state.ts` | record per message, remembered keys | accept, markDelivering, markRetry, markDelivered, requeue | bus |
| **Dead letters** `gateway/src/inbound-dlq.ts` | record per message, pruned by age | enqueue, remove | bus, operator |
| **Agent runtime** `gateway/src/runtime.ts`, `channels/interrupt.ts` | chain per session, abort controllers | start, stop, process, requestInterrupt | handler of the bus; session store; SDK send |
| **Session store** `gateway/src/session.ts` | `activeTurnId` per session, in a file | recordInbound, beginTurn, completeTurn | agent runtime |
| **Outbox** `gateway/src/outbox.ts` | record per reply: pending, delivering, delivered, failed, cancelled | enqueue, markAttempt, finish, recoverPending, retry, cleanup | SDK send, dispatcher |
| **Dispatcher** `gateway/src/channels/dispatcher.ts` | its message, reply fingerprints | loop, route, deliver | outbound queue, outbox, channels |
| **SDK** `gateway/src/sdk.ts` | initialized, timers | start, stop, send, retryDelivery, retryInbound, cleanup | all of the above |
| **Quiet hours** `gateway/src/quiet-push.ts` | queue in memory and in a file | suppress, flush, load, stop | SDK send |
| **File and instance locks** `gateway/src/file-state.ts`, `instance.ts` | lock files | acquire, release, take over a stale lock | every file store; `runChatModule` |
| Channels and registry `gateway/src/channels/*` | provider connections | start, stop, send | providers, bus |
| **Session pool and turns** `chat/src/session-pool.ts`, `turn.ts` | sessions by conversation, last use | getOrCreate, evict, reap, dispose, promptSession | gateway, host sessions |
| **Job scheduler** `chat/src/scheduler.ts` | jobs in a map and in a file | schedule, cancel, remove, tick, fire | session pool (soft jobs), SDK send |
| Rest of the chat application `chat/src/*` | - | tools, plugins, memory | gateway, host |
| **Agent loop** `agent/src/agent-loop.ts`, `agent.ts` | transcript, context of the loop, steering and follow-up queues, active run | prompt, continue, steer, followUp, clearAllQueues, abort | model providers, tools, lifecycle modules, listeners |
| **Agent session** `host/src/core/agent-session.ts` | active flag, retry attempt, compaction, queues | prompt, sendCustomMessage, steer, abort, compact, waitForIdle | agent loop, listeners |
| Rest of the agent host `host/src/*` | session files, packages, approval | fork, navigate, install | files |
| Model providers `ai/src/*` | none shared | stream | network |
| **Proactive outlet** `proactive/src/gateway-delivery.ts`, `stages/deliver.ts`, deliveries in `store.ts` | rows with receipts per chat, queue, retry timer | propose, send, drain, retry, replay, pause, resume, stop | gateway's HTTP interface, `drift.db` |
| Rest of the proactive daemon `proactive/src/*` | source acknowledgements, wake state | tick, acknowledge | sources |
| Drift daemon and gate `drift/src/*`, `gate/src/*` | runs, staged messages, gate rows (SQLite) | tick, stage, grant | `drift.db` |
| MCP `mcp/src/*` | server connections, tokens | connect, call | tool servers |
| Storage and UI `storage/*`, `ui/*` | - | - | - |

How a message travels: a channel calls `publishInbound`; the bus writes it to
the handoff file and starts the SDK's dispatch, which enqueues one call per
handler in the turn scheduler; the handler is the agent runtime, which begins a
turn in the session file, runs the agent and calls `sdk.send` with the reply.
`send` makes an outbox record, calls the channel and writes the receipt. When
the handler's promise resolves the bus deletes the handoff record; when it
rejects, the bus retries or dead-letters the message.

What is hard here: everything runs in one event loop but in many promise
callbacks and timers, so the order of callbacks matters; the files are written
one at a time and a crash may come between any two writes; the same record is
reached from several sides (a timer, a recovery, an operator, a direct send);
and every queue and file has a limit that drops or refuses something.

What makes each component right: the scheduler keeps the order of a session and
the limit of slots; the handoff loses no accepted message and gives none to two
handlers; the runtime has one turn per session and forgets no promise of the
bus; the outbox brings every reply to a receipt and does not change it
afterwards; the quiet-hours queue loses and reorders nothing; a run of the agent
sends the model the conversation that its listeners were shown, gives every tool
call its result in its place, takes every queued message once and in order, and
ends; a session is busy exactly while a prompt of it works, and leaves no retry
open and no message behind; the pool and its map agree, cut no run, and give
every turn its own answer; a job fires once per time and survives a restart; a
proactive delivery reaches every chat, each target once at most, and is
acknowledged only then; and of all this only one process at a time does anything
to the files.

## Modules

| module | models | its state and actions in the code |
|---|---|---|
| `SessionTurns` | what the scheduler promises | `phase` and the order of arrival of each call; `Submit`, `Begin`, `End` |
| `Receipts` | what the outbox promises a sender | `receipt` of each message, what was `shown`, who has two senders; `Accept`, `Show`, `ShowUnseen`, `Repeat`, `GiveUp`, `Reopen`, `Recall`, `Forget`, `Restart` |
| `Custody` | what the inbound half promises a channel and the application | `held` and `letters` are what is on disk, `known` the keys, `task` the one handler of a message; `Accept`, `Recover`, `Release`, `Postpone`, `Bury`, `Exhume`, and the ways a process dies |
| `SessionPrompts` | what a session promises of its prompts | `place` of each prompt, the flag `busy`, the prompt that is `running`; `Pass`, `Begin`, `Trigger`, `RunEnds`, `Continue`, `Leave` |
| `TurnScheduler` | `scheduler.ts` | `chains`, `active`, `waiters` are the fields of the class, `stage` is how far the callbacks of a call have come, `behind` the tail its promise hangs on. One action per callback: `Enqueue`, `AcquireFree`, `AcquireWait`, `Run`, `Throws`, `Release`, `Settle`, `Cleanup` |
| `InboundHandoff` | the inbound half of `bus.ts`, `state.ts`, `inbound-dlq.ts` | `status`, `attempts`, `wait`, `dedup` are the handoff file, `dead` the dead letters; `delivering`, `count`, `retryTimer`, `recoveryTimer` the maps of the bus; `task` the promise it waits for. The application's handler is the environment |
| `ChannelTurns` | `runtime.ts` (direct mode), `session.ts`, `interrupt.ts`, extends `InboundHandoff`, whose handler it is | `activeTurn` is the session file, `line` the chain of a session, `turn` the place in `process()`, `aborted` the controllers. What the bus starts joins the line; how a turn ends is what the bus sees |
| `OutboundDelivery` | `outbox.ts`, the outbound queue of `bus.ts`, `send`/`withRetry`/`retryDelivery` of `sdk.ts`, `dispatcher.ts` | `box` and `tries` are the outbox file, `direct` and `attempt` the calls of `send`, `queue` and `loop` the dispatcher, `prints` its fingerprints |
| `Subsequences` | what a limit leaves of a list: `Trim` of `state.ts`, the queue of `quiet-push.ts` | `Rank` and `Pick`, without recursion, so that what they pick can be proved |
| `QuietPush` | `quiet-push.ts` | `queue` and `file`, and up to two overlapping calls of `flush` |
| `AgentRun` | `agent-loop.ts`, `agent.ts` | `transcript` is `Agent.state.messages`, built by `processEvents`; `context`, `pending`, `more` are the locals of `runLoop`, `prompts` what it has still to emit; `steering` and `followUps` the queues, `aborted` the signal. `pc` names the await the loop is in, one action leads from each to the next; `Throw`, `ReportFailure`, `ReportBreaks` and `Finish` are `runWithLifecycle`. The model, the tools, the lifecycle modules and the listeners are the environment |
| `AgentSession` | `agent-session.ts`: `prompt`, `sendCustomMessage`, `_runAgentPrompt`, `_handlePostAgentRun`, `_prepareRetry`, `_checkCompaction`, `abort`, `compact` | `active` is `_isAgentRunActive`, `attempt` and `retry` the retry counter and its controller, `queue` the queues of the agent, `manual` and `connected` what a manual compaction does; `call` is the await each prompt is in. A run is `AgentRun` reduced to its answers and its end |
| `ChatSessions` | `session-pool.ts`, `turn.ts`, over sessions | `entry`, `used`, `stage` are `sessionsByKey`, `lastUsedAt` and `sessions`, `doomed` the callbacks that will dispose of a session; `at`, `sess`, `reply` are a turn or a soft job and its answer. A prompt is `AgentSession` reduced to its flag and the ends of its runs |
| `JobScheduler` | `chat/src/scheduler.ts` | `mem` and `disk` are the map and the file, `tick` the ticks that overlap and the await of each; the tools of the agent schedule, cancel and remove |
| `ProactiveDelivery` | `gateway-delivery.ts`, `stages/deliver.ts`, deliveries of `store.ts`, `driftDeliverySink` of `index.ts` | `row` and `receipts` are the table, `queue`, `draining`, `timer`, `life` the outlet, `send` the delivery each sender works on and where it is |
| `FileLock` | `file-state.ts` | `lock` is the lock file, `pc` the file operation each process is at; `stale` files, crashes, slow holders |
| `InstanceLock` | `instance.ts` | `file` and its record; `pc`, `attempt`, `seen` the locals of `acquire`, `removeStaleLock` and `release` |
| `GatewayHost` | `runChatModule` of `chat/src/index.ts` and the receipts of `sdk.send`: `FileLock` extended with `Gate == INSTANCE InstanceLock` | a process that runs, or has stopped with a send on its way, makes transactions; `late` remembers the second |
| `TurnSchedulerProofs`, `ChannelTurnsProofs`, `OutboundDeliveryProofs`, `QuietPushProofs`, `AgentProofs`, `ChatProofs`, `ProactiveDeliveryProofs`, `GatewayHostProofs` | theorems: of one component, or of the components of one package | see below |

Conventions. A read-modify-write under a file lock is one step, since the lock
is held across it (`GatewayHost` shows when it is); a handler that writes two files has an action for the whole
handler and one for a crash between the writes (`CrashAccepting`,
`CrashDeadLettering`, `CrashRequeueing`). Time is abstract: a backoff is set and
elapses, a push grows too old, a retry comes when it likes. A write of a file may
fail where the code catches it or leaves something behind; an error that nothing
catches, in the callback of a timer or of a promise, ends the process, for none of
the three installs a handler for it: that is `Crash`, which may come between any
two steps (so `ackInbound`'s write, a `markOutboundAttempt` or a receipt outside
the `try` of `dispatcher.ts:341-372`, a recovery in a timer). Variables commented
`history` are not in the code: they remember what properties are about (the
`fate` of a message, what was `sent`) or count faults for the bounds.
Definitions whose comment begins with "Mutant" are variants of the definition
below them with a plausible bug; nothing in a specification uses them. For every
checked property, putting the mutant in place of its definition makes TLC refute
that property. Each module that a run checks has one `Consistent`: its types and
the statements that say only together that its state makes sense; every conjunct
has a name and a comment of its own. Liveness and the statements that stand by
themselves are listed beside it. Modules that one module of proofs extends share
no names: hence `TurnsConsistent`, `SessionConsistent` and `PoolConsistent`, the
`TurnsSpec`, `SessionSpec` and `PoolSpec` they are about, and names such as
`PromptCall` (`AgentSession.prompt`) beside `Prompt` (`Agent.prompt`).

## Runs

| run | instance | shows |
|---|---|---|
| `turn_scheduler` | 4 calls: 3 of one session, 1 of another; 2 slots; any handler may throw | `Consistent`: the limit of slots, no idle slot, the order of a session; every call settles while a slot is left; refinement of `SessionTurns` |
| `inbound_handoff` | 2 messages, 2 attempts, 2 faults, 1 requeue, windows of 1 | accepted is on disk until handled; one handler at a time, keys in use are remembered, attempts bounded (`Consistent`); acknowledged is final; every record leaves; refinement of `Custody` |
| `channel_turns` | 2 messages of one session, 1 fault, 1 failed write of the session file, 1 requeue | one turn per session and no forgotten promise of the bus (`TurnsConsistent`); nothing is turned away unless something failed; every turn settles, which is what `InboundHandoff` assumes of its handler |
| `outbound_delivery` | 2 messages, one with a typed event and one a reply with an origin; 2 attempts, queue of 1, 2 faults (crashes, stops, failed writes and recoveries), 1 operator retry | every open record that is not stranded has an owner and gets a receipt; a receipt is the last word and delivered was sent (`Consistent`); refinement of `Receipts` |
| `quiet_push` | 3 pushes, 2 overlapping flushes, 2 nights, 1 crash, 1 failure | due pushes are on disk, once and in order (`Consistent`); they leave |
| `agent_run` | 3 messages, answers with up to 2 tool calls, 1 of them with a batch, 1 fault (a lifecycle module that aborts, or an await that throws), steering one at a time, follow-ups all at once | context and transcript agree; results follow their answer in its order; every queued message is in one place, once, and in order (`Consistent`); an aborted run lets no further tool call through; every run ends |
| `agent_session` | 2 prompts or triggered turns, 1 queued message, 1 retry, 1 abort, 1 manual compaction | the flag covers the work of a prompt and its runs are awaited (`SessionConsistent`); a settled session has closed its retries and taken its messages; every prompt returns and who waits for idleness is resumed; refinement of `SessionPrompts` |
| `chat_sessions` | 2 turns and 1 soft job, 2 conversations, a pool of 1, 2 sessions | map and set agree and no run is cut (`PoolConsistent`); a turn gets its own text; no request waits for nothing |
| `job_scheduler` | 2 jobs of any tier and trigger, 2 overlapping ticks, 1 crash, busy sessions and failed deliveries | once per time; a one-shot job is kept until delivered; file and map agree and ended stays ended (`Consistent`); a due job fires |
| `proactive_delivery` | 3 deliveries: 1 staged by drift for a channel that is no target, 1 staged, 1 that always fails; 3 targets, 2 of them with one chatId; 1 tick beside the drain, replay limit 2, 1 fault, 1 end, 1 pause | acknowledged was accepted by every chat (`Consistent`); one message per target; an open row the outlet accepts is held by somebody; a failing delivery holds up no other |
| `gateway_host` | 3 processes, 3 transactions, 2 crashes, transactions that outlast `staleLockMs` | one gateway at a time, no lock left but by a crash (`Consistent`); transactions exclude each other and lose no update |
| `retry_after_restart` | as `channel_turns`, without failed writes | **violated**: `NoTurnDropped` |

Bounds, and why they are enough. Messages interact only through a session, a
slot, a queue or a window, so two or three that share one reach every pairing;
the scheduler has three calls of a session because a chain must be forgotten and
made anew between two calls while a third is behind it, and two slots so that
one can be lost while the other still serves. Windows and queues
hold one entry where an overflow is the interesting case, the replay limit two, of
which a row nobody can send takes one; two targets share a chatId and one has its
own, so that a delivery may reach some chats only. Two attempts make a
first, a last and a retry between. Two faults allow a crash during the recovery
from a crash. An agent needs a message to start from and two that queue behind
it; two calls make a batch of which one is refused, or still executes, while the
other ends; the two modes of draining are given one to each queue, which are
drained by the same code. Two prompts overlap in every await. A pool of one has
to evict for a second conversation, while two turns and a job meet on one
session. Three processes are needed to take over a lock from one while another
looks. `MaxMessages`, `MaxCalls`, `MaxBatches`, `MaxFaults`, `MaxRequeues`,
`MaxStoreFaults`, `MaxRetries` (of operators), `MaxCrashes`, `MaxFailures`,
`MaxHours`, `MaxSteps`, `MaxAborts`, `MaxCompacts`, `MaxCreated`, `MaxMore`,
`MaxJobs`, `MaxTime`, `MaxEnds`, `MaxPauses` and `MaxRuns` bound the model only;
the other limits are options of the program.

All runs set `CHECK_DEADLOCK FALSE`: the system is idle once every message is
dealt with and the bounds on faults are used up.

`retry_after_restart` shows a disagreement of code and documentation.
`beginTurn` refuses a turn while the session file names another
(`session.ts:105`), and no start of the process clears that name. After a crash
in a turn, the recovered message is turned away, `process` returns as if it were
handled (`runtime.ts:151-160`), and the bus acknowledges it; the session is
stuck from then on. `README.md:77` of the gateway offers this very file "for
retries across process restarts". `RejectedOnlyAfterFault` shows that nothing
else turns a message away.

### Exceptions the properties name

Where the code does less than its comments say, a property holds with the case
as an exception, recorded in a history variable, so that the run shows it is the
only one. Paths are relative to `packages/`.

| module | exception | what happens |
|---|---|---|
| `TurnScheduler` | `leaked` | `run()` throws before it returns a promise, as a handler that is not async can (`gateway/src/sdk.ts:590`): `finally(release)` is never attached (`scheduler.ts:54-60`) and the slot stays in use. Once every slot is lost, calls that wait for one never settle, and the bus waits for their handlers for ever. The handlers of this repository return a promise (`runtime.ts:58`) |
| `InboundHandoff` | `Jammed` | `markDelivering` throws after the key entered `inboundDelivering` (`gateway/src/bus.ts:450-452`): every timer skips the message until the process restarts. The channel is told that the message was refused, although its record was written |
| | `Shelved` | `retryInbound` requeues the message and then fails to remove its dead letter (`bus.ts:273-274`): the record is pending, but nothing delivers it and no timer is set, until another timer, an operator or a restart comes by |
| | a key in `retryTimer` | the timer of a retry whose write failed (`bus.ts:494`) is not cancelled when another side delivers: an acknowledged message is handled again |
| `OutboundDelivery` | `requeued` | `retryDelivery` (`sdk.ts:405`) calls `recoverOutbound`, which takes messages that `send` is sending for leftovers of "a previous process" (`bus.ts:301`): they are sent twice |
| | `stranded` | a record stays open and nobody looks at it again until the next recovery: the outbound queue was full (`bus.ts:305`); the recovery threw, which `start` passes over (`channels/dispatcher.ts:67-71`) and `retryDelivery` does not undo; `send` could write neither its attempt or receipt nor that it failed (`sdk.ts:343-365`); the event is not one the channel shows |
| | `failed`, yet shown | a channel accepted the message and `markDelivered` threw: `send` writes that it failed (`sdk.ts:347`, `:365`), the dispatcher sends it again (`channels/dispatcher.ts:346-366`). `DeliveredWasSent` speaks of "delivered" only |
| | replies with an origin | the fingerprint is remembered before the delivery: a retry counts as a duplicate and is marked delivered |
| `QuietPush` | `overlap` | `flush` ends with `this.queue = remaining` (`quiet-push.ts:146`), over what was suppressed while it awaited: that push is lost |
| | `unsaved` | a write of the queue file failed |
| `AgentRun` | `spilled` | a lifecycle module that aborts a later turn (`agent/src/agent-loop.ts:256-259`) or a throw loses the messages polled for that turn, against `types.ts:294` |
| | queues left filled | an answer that failed or was aborted (`agent-loop.ts:295-303`) and `shouldStopAfterTurn` (`:387`) end the run without a poll; `host/src/core/agent-session.ts:1123` says the loop drains both queues, and continues: an aborted run goes on with what had been queued before |
| | `ends` of 2 | a listener of `agent_end` that throws adds a message and a second `agent_end` (`agent.ts:505-528`), against `agent.ts:251` |
| `AgentSession` | `overlapped` | two prompts pass the look at `isStreaming` in their awaits; the refused one clears the flag while the other runs (`agent-session.ts:1093`). A prompt in its preflight runs beside a manual compaction (`:1154`) |
| | `brokeOff` | the prompt rejects without a look at what the run left (`agent-session.ts:1084-1096`): a listener throws in the run, and again while the failure is told (`agent/src/agent.ts:505-528`), or one throws once at what the post-run handler emits - a retry that begins (`:2755`), has ended (`:1110`) or was cut short (`:2777`), an overflow that could not be mended (`:2020`), the end of a compaction that failed (`:2228`). An announced retry stays open and queued messages stay until the next prompt has settled |
| | (no property) | `abort` does not stop a continuation that is past its run (`:1571`); a retry the user aborts is reported with success (`:680`) |
| `ChatSessions` | (no property) | an eviction disposes of every idle session, since the set shrinks only in callbacks (`chat/src/session-pool.ts:157`); sessions being made do not count against `maxSessions`; a session is disposed of while a turn on it is in its preflight. When an eviction or the reaper waits for a session whose creation then fails (`:162`, `:175`, where nothing catches), the unhandled rejection ends the process; in the model that callback does nothing |
| | jobs, interrupts, `late` | `promptSession` takes the first `agent_end` it hears (`turn.ts:116`): a soft job beside a turn answers it with its own text |
| `JobScheduler` | `saved` | a job that fires is off in memory; another write of the file in that time records it, and a crash then loses the job (`chat/src/scheduler.ts:8` says jobs survive restarts) |
| | `dropped` | a soft job due while its session is busy is over without a delivery (`chat/src/index.ts:216`) |
| `ProactiveDelivery` | `raced` | a tick and the retry send one delivery at once; a failure that ends last clears `acked` (`proactive/src/store.ts:1279`) and it is sent again |
| | `skipped` | `start` and `resume` read ten open rows, oldest first (`store.ts:1254`; the comment at `:1251` says "newest first"): the others wait for a later start. A row nobody can send counts among the ten |
| | one chatId, two channels | a receipt names the chatId only (`gateway-delivery.ts:235`, `:238`): once one target of it has the message, the other is skipped, and a failure of the first is overwritten by the success of the second. The row is acknowledged although one target never got it; `AckedIsSent` speaks of chats |
| | `Foreign` | a staged row whose channel is no target is refused by `send` and dropped by `enqueue` without a word (`gateway-delivery.ts:159`, `:168`): it stays open and nobody holds it |
| | (no property) | a drain that fails during `pause` sets the retry timer again, and the outlet sends while paused (`gateway-delivery.ts:216`) |
| `FileLock` | `contended` | a lock older than `staleLockMs` is unlinked whether its process lives or not (`file-state.ts:87`) |
| `InstanceLock` | `raced` / `contended` | the token is compared and the path unlinked in two steps (`instance.ts:138-142`): two gateways that start over a crashed one may both run. A crash between creating the file and writing its record leaves a file nobody recovers (`:62`) |
| `GatewayHost` | `late` | `stop` waits for turns, not for sends: their receipts are written after the instance lock is released |

## Fairness

Weak fairness only, of what the runtime guarantees: a settled promise runs its
callbacks, a timer or interval fires, a backoff elapses. Of the environment it
assumes that a handler settles (the agent's turns and the channel's sends are
bounded in time), that the model answers, that quiet hours end, and that a
process that has gone down is started again, as its supervisor does. In
`AgentRun` it is the fairness of `Loop` as a whole: whatever the loop awaits
settles, in one of the ways the code allows; in `AgentSession` that of each
prompt and of the agent. Nothing forces a message to arrive, a fault, an abort,
an interrupt or an operator's retry. Faults are finite, so liveness says: once
faults stop, everything drains. `ChannelTurns` discharges for the runtime the
assumption that `InboundHandoff` makes of its handler (`TurnsSettle`).
`GatewayHost` and `ChatSessions` are checked for safety only: a lock may be
waited for without end behind processes that live, and `ReplyComes` says in each
state that a request which is not answered has a step of its own, of its session
or of its run ahead, so none waits for nothing.

## Proofs

`TurnSchedulerProofs`, for every finite set of calls, any assignment to
sessions and any limit (`SchedulerAssumption`):

* `SlotBoundHolds` and `NoIdleSlotHolds` follow from `SlotInv`: `active` equals
  the number of slots held or lost, it is within the limit, the waiters are
  distinct calls that wait, and while there is one every slot is used. The bound alone is not
  inductive: a release that hands its slot over leaves `active` as it is, which
  is right only if `active` counts the slots.
* `SessionOrderHolds` follows from `OrderInv`: arrival numbers are unique,
  `chains` names the latest call of a session unless all have settled, and
  `behind` names the latest call before each. This is what the conditional
  cleanup of the map maintains. `ConsistentHolds` puts the parts together.
* `Refinement`: with both, every step is a step of `SessionTurns` or stutters.

`ChannelTurnsProofs`, for any finite set of messages, any limits, sessions and
number of faults (`InboundAssumption`, `ChannelAssumption`). Of the bus with any
handler (`Spec`):

* `OwedStaysOnDisk`: a message that was accepted and not handled has a record
  or a dead letter at every step. The argument is the order of the writes: the
  letter before the deletion, the record before the removal of the letter; and
  that the newest letter is never the one that is pruned (`LetterIsKept`).
* `OneHandlerHolds`: no two handlers of a message at a time, and with it the
  handler's part of `Consistent`. The invariant adds `TasksKnown`: whatever the
  bus waits for is in `inboundDelivering`, except after `close`, which empties
  that set and after which nothing is delivered.
* `HandoffConsistentHolds`, from `Counted`: the file never forgets a key that has
  a record, which rests on what `Trim` keeps for every length of the list
  (`Subsequences`); and attempts stay within the limit. That is `Paced`: the
  attempts in the file, those in memory and those a timer or a task stands for
  differ by at most what faults allow (`Budget`).
* `AckIsFinalHolds`: an acknowledged message is not handled again. `Gone` is what
  makes it so: once acknowledged there is no record, so no recovery finds it,
  except where `AckIsFinal` says so (its key forgotten, a dead letter, a timer
  that was left).
* `CustodyRefinement`: every step of the bus is a step of `Custody` or stutters.
  Timers, attempts and the writes of the file disappear; the handler, the
  record, the letter and the key remain. A write of two files is one step of
  `Custody` with a process that may die in it. Needed are `OneHandler` (a task is
  a function of the message) and the windows of `Counted` (no key of a record is
  forgotten). `CustodyKeeps` then concludes from `Custody` alone what a channel
  (`HeldUntilHandled`) and the application (`StartsOnce`) may rely on.

Of the gateway (`TurnsSpec`):

* `TurnsConsistentHolds`, `TurnedAwayHolds` from one invariant. `Lines` says that
  a line holds each of its messages once and only those of its session, and that
  a message stands in its line exactly while the bus waits for it and while its
  turn has not ended; without it a step could take another message off the line
  than the one that concludes. `Unmarked` says that while nothing has failed a
  session is marked only by a turn in progress: the head of the line is that
  turn, so no other message at the head can be turned away. Of the bus only what
  the turns see is needed (`BusTypes`, `BusServes`): it forgets no running
  promise, and it stops or restarts only by what counts as a fault.
* `GatewayKeeps`: the statements above, `Custody` among them, hold with the
  runtime as the handler. The runtime is composed with the bus so that each of its
  steps is one of `InboundHandoff` or leaves the bus as it is (a lemma,
  `HandoffRefinement`, which says nothing of the code by itself).

`OutboundDeliveryProofs`, for any number of messages, places in the queue,
attempts, faults and operator retries:

* `OpenIsOwnedHolds`, `ConsistentHolds` (`ReceiptIsLast`, `DeliveredWasSent`). The outbox checks
  nothing: `markAttempt` and `finish` write any record. What makes a receipt the
  last word is `Single`: an open record is with its sender, with the dispatcher
  or in the queue, and in one of them only, and a closed one with none. A write that
  fails leaves the owner with a failed receipt, or the record among `stranded`;
  a recovery that throws strands what it did not queue. Those
  that a recovery queued while they were in flight (`requeued`) are the
  exception, and they are never taken out of it. `DeliveredWasSent` needs no more
  than what the calls of the channel leave behind.
* `ReceiptsRefinement`: every step of the senders, the queue, the dispatcher and
  the stores is a step of `Receipts` or stutters. A record is written only by who
  has it in hand: `Single` says that this is an open record or one of `requeued`.
  `LastWordHolds` concludes from `Receipts` alone that a receipt of a message with
  one sender is not replaced unless an operator asks.

`QuietPushProofs`, for any number of pushes, overlapping flushes, nights and ends
of the process:

* `ConsistentHolds`: `DueIsOnDisk` and the order. `Sorted` and `Apart` say that what a
  flush has kept, what it has still to send and what is queued stand in the order
  of their suppression and share nothing. As long as no push was suppressed under
  a flush, there is nothing beside a flush (`OneFlush`) and nothing that is due is
  outside of the memory of a process that is up (`DueIsHeld`); with that, what the
  end of a flush writes over the file is all of it. What the limit of the queue
  leaves is `Pick` (lemma `Picked`).

`AgentProofs`, the loop, for any number of messages, calls, batches and faults
and either mode of each queue (`RunAssumption`):

* `ContextAgreesHolds`: what the model is sent and what the listeners transcribe
  never part. They are not equal at every await; `Agreed` says by what they
  differ while prompts are told and results are given.
* `ResultsFollowHold`: every answer is followed by the results of its calls, in
  its order. `Batched` says how far a batch is in each of its modes (started,
  open, given), `Followed` where its answer stands in the transcript.
* `ConsistentHolds`: a submitted message is in one place, once, in its order.
  `Placed` counts it over the queues, the hands of the loop and the transcript,
  `Ordered` says that the order of a queue runs on through all of them. Both see
  of a step only which of the few ways of `Handles` it deals with messages in.
* `AbortedOpensNoneHolds`: no step of an aborted run adds to the open calls. A
  sequential batch and a parallel one look at the signal in different places;
  everything else - answers, results, tools that end, throws - only closes
  calls. The calls of a parallel batch that were let through before the abort do
  execute after it, with the aborted signal in their hands.

`AgentProofs`, the session, for any number of prompts, retries, aborts and
compactions (`SessionAssumption`):

* `SessionConsistentHolds`. `Flagged` is the argument: while prompts do not
  overlap at most one is at work, it has the flag, and the run if there is one.
  No conjunct survives alone: the flag is lowered by whoever settles, which is
  right only if nobody else works.
* `SettledIsCleanHolds`. A retry that was announced is closed on each of three
  ways out: success, giving up, abort. `Reported` says that a prompt past the
  decision about a retry has closed it, and `Announced` that an open one has been
  counted, which is what the code asks before it reports the end. A prompt that
  a listener breaks off, in its run or behind it, takes none of the ways out:
  `brokeOff` excepts it, until a prompt that settles has made good for it.
* `PromptsRefinement`: the session is a `SessionPrompts`, with overlapping prompts
  and without. `PlaceOf` maps the awaits of a prompt to five places; a retry,
  an overflow compaction and a queued message become the one `Continue`.
  `RunsAwaitedHolds` concludes that a run has its prompt, which awaits it.

`ChatProofs`, the job scheduler, for any number of jobs, times, overlapping
ticks and ends:

* `OncePerSlotHolds`, `OneShotKeptHolds`, `ConsistentHolds`. `Counted`: a time that
  lies ahead or is under way was delivered at most once per end of the process,
  and it is under way in one tick. `Synced`: file and map agree on every job that
  is not firing. `Kept`: a one-shot job that nothing has become of is on in the
  file and, while the process is up, on in the map or under way. A job that fires
  is the gap between map and file into which other ticks, a cancel or a crash
  come.

`ChatProofs`, the session pool, for any number of turns, soft jobs,
conversations and sessions (`PoolAssumption`):

* `PoolConsistentHolds`. `Mapped` is stronger than the map agreeing with live
  sessions: it speaks of those being made too, for a failed creation or a
  disposal removes the entry of its conversation by name, and must not remove
  another's. `Apart` says that while prompts keep apart one request of a session
  has begun at most and the session is busy with it; the pool asks only that flag
  before it disposes of a session.
* `OwnTextHolds`. `Own`: a conversation has one turn without an answer, and it has
  none before the end of its run, so the first `agent_end` heard is its own.
* `PoolPromptsRefinement`: of each session of the pool, the reduced prompt is a
  `SessionPrompts` (`ImplementPrompts`), as the whole one of `AgentSession` is. So
  the two models of a prompt, one for the session and one for its pool, keep the
  same promise, and neither knows a step of the flag or of a run that the other
  could not explain. TLC agrees on the instance of `chat_sessions`, but takes too
  long for a run of its own.
* `EveryReplyIsAwaited`: whether prompts overlap or not, a request at its end has
  its answer, and one that waits for a run waits for its own. This is what
  `ReplyComes` rests on; that the step is enabled in each case is for TLC.

`ProactiveDeliveryProofs`, for any number of deliveries, targets, proposers,
faults, pauses and ends:

* `SentOnceHolds`, `OwedIsHeldHolds`, `ConsistentHolds`. `Backed`: what the table
  or a sender takes for sent was sent to a target of the chat, a call on its way
  included. `Alone`: a delivery has one sender unless `raced`. `Agrees`: a sender
  alone on its delivery has the receipts of the table, and the chat of no target
  left to it has a success there. `Tally`: unless two senders met, each message
  sent is a lost answer, the receipt of the chat, or the one on its way. A row that
  is not accepted has a sender, but never a target or a place in the queue.

`GatewayHostProofs`, for any set of processes and any number of transactions and
crashes (`LockAssumption`, `HostAssumption`):

* `FileExclusive` and `NothingLost`, of `FileLock`: transactions exclude each
  other and the file shows every one of them, unless `contended`. That they
  exclude each other is not inductive alone; `Owned` says that the lock file
  names whoever is in a transaction and that a stale file is that of a crashed
  process, `Counted` that what a transaction read is what the file still says.
* `GateExclusive` and `NoneLeft`, of `InstanceLock`: a process between `Write` and
  `Unlink` is the one the file names, and at most one process is about to remove
  a file; the retries stay within bounds; the file names a crashed process or one
  that still has it in hand.
* `GatewayHost` implements both locks: every step of `HostSpec` is a step of
  `FileLock` (`Transaction`) and of `InstanceLock` (`Gateway`) or stutters, so
  both invariants hold in it (`BothLocks`). Neither lock alone excludes two
  transactions: `FileLock` gives up on a slow one. `Within` adds that until a
  stopped gateway writes on, a transaction is a running gateway's, and there is
  one of those; with it `AtMostOne` transaction is under way, whatever becomes
  of its lock file, and `Current` says that what it read still holds.
  `Excluded` and `HostConsistent` are the two statements of the run
  `gateway_host` for every instance; the exceptions (`Unguarded`) stay, once
  they have come true (`UnguardedStays`).

Assumptions on constants say that limits are natural numbers, that sets of
actors do not overlap and that `None` is none of them; each is stated in the
module that declares the constant and evaluated in the runs. The exceptions a
property names are part of its theorem: it is proved that they are the only ones.

Every safety invariant and action property that a run checks is proved, but for
`ReplyComes`, which uses `ENABLED`. Only model-checked are besides it the liveness
properties: `EveryCallSettles`, `HandoffDrains`, `TurnsSettle`, `OpenIsSettled`,
`PushesLeave`, `RunEnds`, `PromptReturns`, `DueFires` and `Delivered`. TLAPS
handles neither `ENABLED` nor fairness. `NoTurnDropped` is false.

Proving changed the models in a few places. `AgentRun`: a drain of an empty
queue yields nothing in either mode, as `PendingMessageQueue.drain` does; one at
a time took the head of it whatever it held. `ProactiveDelivery`: proposers are finite in number and
`None` is no delivery in progress; what a replay reads is stated as a relation.
`OutboundDelivery`, `InboundHandoff`, `QuietPush`: the queue a recovery refills and
the list a limit cuts are described by what they contain and in which order,
rather than built by folds, which nothing could be proved about.

## Not modelled

The repository has some 220000 lines, and most of them keep no state that
several actors share: provider clients and generated model tables (`ai`),
terminal and web interfaces, slash commands, package management, exports,
settings. `packages/coding-agent` is in large part a second copy of the sources
of `packages/host`; the models are of the latter, which the gateway runs. So the
modelled share of all lines stays small, while the state machines on the path of
a message are covered.

Of the modelled components: merging of messages within a window
(`mergeWindowMs`, off by default), streaming deltas, which the code declares
ephemeral, the in-memory inbound queue without a consumer, reconfiguration of
running channels, the canonical message history, the cap of 4096 fingerprints,
and the second key under which the dispatcher remembers a fingerprint. Of the
agent: compaction within a run (off by default), `reset()` and assignments of
the transcript, the deltas of a streamed message, `pendingToolCalls`, the
difference between an answer that failed and one that was aborted, which the
loop treats alike, prompts of several messages, and the tools of a parallel
batch that outlive it when a listener throws. Of the session: extension
commands, missing models and credentials, `nextTurn` and bash messages, a second
manual compaction during one, and disposal. Of the scheduler: the parsing of
times, and writes of the file that fail. Of the proactive daemon: deduplication by
content, rows with a chat of their own (which are sent to that chat alone), an empty
list of targets, what the drift daemon writes of a staged message, source
acknowledgements, the wake runtime. Providers, tools and models
are the environment.

## Plan

1. Done: models of the message path (`TurnScheduler`, `InboundHandoff`,
   `ChannelTurns`, `OutboundDelivery`, `QuietPush`), the agent (`AgentRun`,
   `AgentSession`, `ChatSessions`), jobs and the proactive outlet
   (`JobScheduler`, `ProactiveDelivery`), and the locks (`FileLock`,
   `InstanceLock`, `GatewayHost`).
2. Done: proofs of the safety properties of all of them.
3. Done: abstract specifications that the detailed ones implement, by proof:
   `SessionTurns` of the scheduler, `Custody` of the bus, `Receipts` of the outbox,
   `SessionPrompts` of a session and of the sessions of a pool; `GatewayHost` of
   both locks.
4. Next proofs: that a run of `AgentRun` is a run of `AgentSession`'s agent, which
   today is an abstraction by hand. It needs the reduced agent to say what a
   message does that is queued between the last poll of a run and its end.
5. Models: the drift daemon's staged messages (`gate/src/staged.ts`) handed to the proactive daemon through
   `drift.db` with restarts of either; source acknowledgements (`source-ack.ts`);
   the merging window of `runtime.ts`.
