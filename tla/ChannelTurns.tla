---------------------------- MODULE ChannelTurns ----------------------------
(***************************************************************************)
(* The application's side of an inbound message: ChannelAgentRuntime       *)
(* (packages/gateway/src/runtime.ts, direct mode), the turn admission of   *)
(* FileChannelSessionStore (session.ts) and the interrupt controller       *)
(* (channels/interrupt.ts), on top of the bus of InboundHandoff: a         *)
(* task the bus starts enters its session's line, and the outcome of its   *)
(* turn is what the bus acknowledges or retries.                           *)
(*                                                                         *)
(* The line stands for the scheduler's chain and the runtime's own: both   *)
(* are first come, first served per session (TurnScheduler).               *)
(***************************************************************************)
EXTENDS InboundHandoff

CONSTANTS Session, SessionOf,
          MaxStoreFaults,  \* bound: session-store writes that fail
          NoTurn,          \* no activeTurnId
          Orphan           \* an activeTurnId that no running turn has

VARIABLES
  activeTurn,   \* session file: activeTurnId, as the message of the turn
  line,         \* per session, the tasks in the order they were dispatched
  turn,         \* process(): none, queued, running (the agent), replying
  aborted,      \* turns whose AbortController was aborted
  awaited,      \* the promises runtime.stop waits for
  verdict,      \* history: how the last turn of a message ended
  storeFaults   \* history: bounded by MaxStoreFaults

busVars  == <<status, attempts, wait, dedup, dead, phase, delivering, count,
              task, retryTimer, recoveryTimer, fate, doubled, faults, requeues>>
turnVars == <<activeTurn, line, turn, aborted, awaited, verdict, storeFaults>>
allVars  == <<busVars, turnVars>>

InTurn(m) == turn[m] \in {"running", "replying"}

ASSUME ChannelAssumption ==
  /\ SessionOf \in [Message -> Session]
  /\ NoTurn # Orphan /\ {NoTurn, Orphan} \cap Message = {}
  /\ MaxStoreFaults \in Nat

TurnsTypeOK ==
  /\ activeTurn \in [Session -> Message \cup {NoTurn, Orphan}]
  /\ line    \in [Session -> Seq(Message)]
  /\ turn    \in [Message -> {"none", "queued", "running", "replying"}]
  /\ aborted \subseteq {m \in Message : InTurn(m)}
  /\ awaited \subseteq Message
  /\ verdict \in [Message -> {"none", "completed", "failed", "interrupted", "rejected"}]
  /\ storeFaults \in 0..MaxStoreFaults

StoreFault == storeFaults < MaxStoreFaults /\ storeFaults' = storeFaults + 1
-----------------------------------------------------------------------------
TurnsInit == /\ Init
             /\ activeTurn = [s \in Session |-> NoTurn]
             /\ line    = [s \in Session |-> <<>>]
             /\ turn    = [m \in Message |-> "none"]
             /\ aborted = {}
             /\ awaited = {}
             /\ verdict = [m \in Message |-> "none"]
             /\ storeFaults = 0

(* A step of the bus; what it dispatches joins its session's line.          *)
Dispatched == {m \in Message : task[m] # "running" /\ task'[m] = "running"}

(* The orders in which they may join the line of s.                         *)
Joins(s) == SetToSeqs({m \in Dispatched : SessionOf[m] = s})

ServeTurns ==
  /\ Serve
  /\ \E joined \in [Session -> UNION {Joins(s) : s \in Session}] :
       /\ \A s \in Session : joined[s] \in Joins(s)
       /\ line' = [s \in Session |-> line[s] \o joined[s]]
  /\ turn' = [m \in Message |-> IF m \in Dispatched THEN "queued" ELSE turn[m]]
  /\ UNCHANGED <<activeTurn, aborted, awaited, verdict, storeFaults>>

(* Mutant: the line does not move on.                                       *)
ConcludeInLine(m, outcome) ==
  /\ turn'    = [turn EXCEPT ![m] = "none"]
  /\ aborted' = aborted \ {m}
  /\ verdict' = [verdict EXCEPT ![m] = outcome]
  /\ IF outcome = "failed" THEN HandlerRejects(m) ELSE HandlerResolves(m)
  /\ UNCHANGED <<awaited, line>>

(* The head of a line leaves it; its promise settles as the turn ended.     *)
Conclude(m, outcome) ==
  /\ line'    = [line EXCEPT ![SessionOf[m]] = Tail(@)]
  /\ turn'    = [turn EXCEPT ![m] = "none"]
  /\ aborted' = aborted \ {m}
  /\ verdict' = [verdict EXCEPT ![m] = outcome]
  /\ IF outcome = "failed" THEN HandlerRejects(m) ELSE HandlerResolves(m)
  /\ UNCHANGED awaited

(* Mutant: any message of the line may begin its turn. *)
InLine(m) == turn[m] = "queued"

AtHead(m) == turn[m] = "queued" /\ Head(line[SessionOf[m]]) = m

(* process: the turn is admitted and the agent starts.                      *)
Admit(m) ==
  /\ AtHead(m)
  /\ activeTurn[SessionOf[m]] = NoTurn
  /\ activeTurn' = [activeTurn EXCEPT ![SessionOf[m]] = m]
  /\ turn' = [turn EXCEPT ![m] = "running"]
  /\ UNCHANGED <<busVars, line, aborted, awaited, verdict, storeFaults>>

(* beginTurn finds another turn active: process returns, as if it were done.*)
Reject(m) ==
  /\ AtHead(m)
  /\ activeTurn[SessionOf[m]] # NoTurn
  /\ Conclude(m, "rejected")
  /\ UNCHANGED <<activeTurn, storeFaults>>

(* recordInbound or beginTurn throws.                                       *)
AdmissionFails(m) ==
  /\ AtHead(m)
  /\ StoreFault
  /\ Conclude(m, "failed")
  /\ UNCHANGED activeTurn

(* Mutant: a turn that failed is not completed. *)
EndTurnCompleted(m, outcome) ==
  /\ Conclude(m, outcome)
  /\ activeTurn' = [activeTurn EXCEPT ![SessionOf[m]] =
                      IF outcome = "completed" THEN NoTurn ELSE Orphan]
  /\ UNCHANGED storeFaults

(* An admitted turn ends: completeTurn clears activeTurnId.  When its write *)
(* fails the error is only logged, and the id stays.                        *)
EndTurn(m, outcome) ==
  /\ Conclude(m, outcome)
  /\ \/ /\ activeTurn' = [activeTurn EXCEPT ![SessionOf[m]] = IF @ = m THEN NoTurn ELSE @]
        /\ UNCHANGED storeFaults
     \/ /\ activeTurn' = [activeTurn EXCEPT ![SessionOf[m]] = Orphan]
        /\ StoreFault

Broken(m) == IF m \in aborted THEN "interrupted" ELSE "failed"

HandlerThrows(m) == turn[m] = "running" /\ EndTurn(m, Broken(m))

(* handleMessage returns: nothing to say; or a reply, which sdk.send        *)
(* refuses unless the sdk is started.                                       *)
ReturnsNothing(m) ==
  /\ turn[m] = "running"
  /\ EndTurn(m, IF m \in aborted THEN "interrupted" ELSE "completed")

ReturnsReply(m) ==
  /\ turn[m] = "running"
  /\ m \notin aborted
  /\ phase = "up"
  /\ turn' = [turn EXCEPT ![m] = "replying"]
  /\ UNCHANGED <<busVars, activeTurn, line, aborted, awaited, verdict, storeFaults>>

ReplyRefused(m) ==
  /\ turn[m] = "running"
  /\ m \notin aborted
  /\ phase # "up"
  /\ EndTurn(m, "failed")

(* sdk.send settles; an interrupt that came meanwhile hides its failure.    *)
ReplySent(m)  == turn[m] = "replying" /\ EndTurn(m, "completed")
ReplyFails(m) == turn[m] = "replying" /\ EndTurn(m, Broken(m))

(* requestInterrupt: the user stops the turn of a session.                  *)
Interrupt(m) ==
  /\ InTurn(m)
  /\ m \notin aborted
  /\ aborted' = aborted \cup {m}
  /\ UNCHANGED <<busVars, activeTurn, line, turn, awaited, verdict, storeFaults>>

(* runtime.stop aborts the turns in progress, stops the sdk, and waits for  *)
(* the turn each session is in - not for those still in its line.           *)
StopTurns == /\ Stop
             /\ aborted' = {m \in Message : InTurn(m)}
             /\ UNCHANGED <<activeTurn, line, turn, awaited, verdict, storeFaults>>

CloseTurns == /\ Close
              /\ awaited' = {Head(line[s]) : s \in {s \in Session : line[s] # <<>>}}
              /\ UNCHANGED <<activeTurn, line, turn, aborted, verdict, storeFaults>>

(* The memory of the process is gone; activeTurnId is not.                  *)
Halt == /\ line' = [s \in Session |-> <<>>]
        /\ turn' = [m \in Message |-> "none"]
        /\ aborted' = {}
        /\ awaited' = {}
        /\ activeTurn' = [s \in Session |->
                            IF activeTurn[s] = NoTurn THEN NoTurn ELSE Orphan]
        /\ UNCHANGED <<verdict, storeFaults>>

ExitTurns == Exit /\ (\A m \in awaited : turn[m] = "none") /\ Halt

DieInTurns == Die /\ Halt

TurnStep(m) == \/ Admit(m) \/ Reject(m) \/ AdmissionFails(m)
               \/ HandlerThrows(m) \/ ReturnsNothing(m)
               \/ ReturnsReply(m) \/ ReplyRefused(m)
               \/ ReplySent(m) \/ ReplyFails(m)

TurnsNext == \/ ServeTurns \/ StopTurns \/ CloseTurns \/ ExitTurns \/ DieInTurns
             \/ \E m \in Message : TurnStep(m) \/ Interrupt(m)

TurnsSpec == TurnsInit /\ [][TurnsNext]_allVars

(* Promises of the turn settle: the agent ends its turn and a send its      *)
(* attempts, both bounded in time.                                          *)
FairTurns == TurnsSpec /\ \A m \in Message : WF_allVars(TurnStep(m))
-----------------------------------------------------------------------------
(* One turn per session, and it is the admitted one: the session file, the  *)
(* line and the turn in memory agree at every step.                         *)
AdmittedTurn ==
  \A m \in Message : InTurn(m) => /\ activeTurn[SessionOf[m]] = m
                                  /\ Head(line[SessionOf[m]]) = m

(* beginTurn is not what orders a session: while nothing has gone wrong no  *)
(* message is turned away, and a message that is turned away is lost.       *)
RejectedOnlyAfterFault ==
  \A m \in Message : verdict[m] = "rejected" => faults + storeFaults > 0

(* The bus waits for exactly the messages in the lines: no promise is       *)
(* forgotten, none settles twice.                                           *)
LineIsTasks ==
  \A m \in Message : task[m] = "running" <=> \E s \in Session : m \in ToSet(line[s])

(* Every dispatched message is answered, fails, or is turned away: a line   *)
(* never stops, which is what InboundHandoff assumes of its handler.        *)
TurnsSettle ==
  \A m \in Message : (task[m] = "running") ~> (task[m] # "running")

(* "For retries across process restarts, pass a sessionStatePath"           *)
(* (packages/gateway/README.md:77): a message that is delivered again after *)
(* a crash of its turn is not acknowledged unanswered because the session   *)
(* is still marked busy by that turn.                                       *)
NoTurnDropped ==
  \A m \in Message : fate[m] = "acked" => verdict[m] # "rejected"

(* The lines and the turns are consistent at every callback.                *)
TurnsConsistent == TurnsTypeOK /\ AdmittedTurn /\ LineIsTasks
=============================================================================
