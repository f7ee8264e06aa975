---------------------------- MODULE ChatSessions ----------------------------
(***************************************************************************)
(* packages/chat/src/session-pool.ts and turn.ts: the pool of agent        *)
(* sessions, one per conversation, and the requests that prompt them.      *)
(*                                                                         *)
(* A request is a chat turn or a soft job of the scheduler.  It resolves   *)
(* the session of its conversation, subscribes to it, prompts it, and is   *)
(* answered by the first agent_end of that session, or by the end of its   *)
(* own prompt.  The turns of a conversation come one after the other, as   *)
(* they are answered; jobs come at any time.  The pool evicts and reaps    *)
(* idle sessions in callbacks of the promises it keeps.                    *)
(*                                                                         *)
(* A prompt is the one of AgentSession, reduced to the look at isStreaming,*)
(* the begin, the ends of its runs and the settling.  Left out: streaming, *)
(* images, and prompts that fail for want of a model.                      *)
(***************************************************************************)
EXTENDS Integers, FiniteSets

CONSTANTS Turn, SoftJob,  \* requests: chat turns and soft jobs
          Key,            \* conversations
          MaxSessions,    \* the cap of the pool
          MaxCreated,     \* bound: sessions created
          MaxMore         \* bound: runs a prompt adds after its first

ASSUME PoolAssumption == /\ MaxSessions \in Nat \ {0} /\ {MaxCreated, MaxMore} \subseteq Nat
                         /\ Turn \cap SoftJob = {} /\ 0 \notin Turn \cup SoftJob

Request == Turn \cup SoftJob
Session == 1..MaxCreated        \* in the order of their creation
None    == 0
Reason  == {"evict", "reap"}

VARIABLES at,         \* where each request's prompt is
          key, sess,  \* its conversation and the session it resolved
          reply,      \* what it was answered
          signalled,  \* turns whose signal is aborted before they subscribe
          entry,      \* sessionsByKey
          used,       \* lastUsedAt: not set, recent, or maxIdleMinutes ago
          stage,      \* of each session: "live" ones are in the set sessions
          home,       \* the conversation a session was created for
          active,     \* isStreaming of a session
          run,        \* the request whose prompt the agent is running
          doomed,     \* callbacks that will dispose a session if it is idle
          closed,     \* disposeAll
          more,
          made,       \* sessions created so far
          overlapped, \* history: a prompt began beside another of its session
          late,       \* history: a prompt ran on after a final agent_end
          cut         \* history: a session was disposed in a run

requests == <<at, key, sess, reply, signalled>>
pool     == <<entry, used, stage, home, made, doomed, closed>>
agents   == <<active, run, more, overlapped, late>>
poolVars     == <<requests, pool, agents, cut>>

RequestStages  == {"none", "resolving", "preflight", "entered", "run", "backoff", "post", "failing",
            "broken", "done"}
Replies == {"none", "own", "other", "fallback", "refused", "interrupted", "error", "skipped"}

PoolTypeOK ==
  /\ at \in [Request -> RequestStages] /\ reply \in [Request -> Replies]
  /\ sess \in [Request -> Session \cup {None}] /\ signalled \subseteq Turn
  /\ \A c \in Request : at[c] = "none" \/ key[c] \in Key
  /\ entry \in [Key -> Session \cup {None}] /\ used \in [Key -> {"none", "recent", "old"}]
  /\ stage \in [Session -> {"none", "creating", "live", "failed", "disposed"}]
  /\ \A s \in Session : stage[s] = "none" \/ home[s] \in Key
  /\ active \in [Session -> BOOLEAN] /\ run \in [Session -> Request \cup {None}]
  /\ doomed \subseteq Session \X Reason
  /\ {closed, overlapped, late, cut} \subseteq BOOLEAN
  /\ more \in 0..MaxMore /\ made \in 0..MaxCreated

PoolInit == /\ at = [c \in Request |-> "none"] /\ reply = [c \in Request |-> "none"]
            /\ key = [c \in Request |-> None] /\ sess = [c \in Request |-> None]
            /\ signalled = {}
            /\ entry = [k \in Key |-> None] /\ used = [k \in Key |-> "none"]
            /\ stage = [s \in Session |-> "none"] /\ home = [s \in Session |-> None]
            /\ active = [s \in Session |-> FALSE] /\ run = [s \in Session |-> None]
            /\ doomed = {} /\ closed = FALSE /\ more = 0 /\ made = 0
            /\ overlapped = FALSE /\ late = FALSE /\ cut = FALSE

Live        == {s \in Session : stage[s] = "live"}
Prompting   == {"entered", "run", "backoff", "post", "failing", "broken"}
Subscribed  == {c \in Request : at[c] \notin {"none", "resolving"} /\ reply[c] = "none"}
Goes(c, from, to) == at[c] = from /\ at' = [at EXCEPT ![c] = to]
Answers(c, r)     == reply' = IF reply[c] = "none" THEN [reply EXCEPT ![c] = r] ELSE reply
-----------------------------------------------------------------------------
(* getOrCreate and create                                                   *)

(* evictIfNeeded: the sessions leave the set in callbacks, so the loop goes *)
(* through all keys that were ever used.                                    *)
Evicted == IF Cardinality(Live) < MaxSessions THEN {}
           ELSE {entry[k] : k \in {l \in Key : entry[l] # None /\ used[l] # "none"}}

Create(k) ==
  /\ made < MaxCreated /\ made' = made + 1
  /\ entry' = [entry EXCEPT ![k] = made + 1]
  /\ stage' = [stage EXCEPT ![made + 1] = "creating"]
  /\ home'  = [home EXCEPT ![made + 1] = k]
  /\ doomed' = doomed \cup (Evicted \X {"evict"})
  /\ UNCHANGED used

Existing(k) == /\ used' = [used EXCEPT ![k] = "recent"]
               /\ UNCHANGED <<entry, stage, home, made, doomed>>

Ask(c, k) ==
  /\ c \in Turn => /\ ~closed
                   /\ \A d \in Turn : at[d] # "none" /\ key[d] = k => reply[d] # "none"
  /\ Goes(c, "none", "resolving")
  /\ key' = [key EXCEPT ![c] = k]
  /\ IF entry[k] # None THEN Existing(k) ELSE Create(k)
  /\ sess' = [sess EXCEPT ![c] = entry'[k]]
  /\ UNCHANGED <<reply, signalled, closed, agents, cut>>

Created(s) ==
  /\ stage[s] = "creating"
  /\ stage' = [stage EXCEPT ![s] = "live"]
  /\ used'  = [used EXCEPT ![home[s]] = "recent"]
  /\ UNCHANGED <<requests, entry, home, made, doomed, closed, agents, cut>>

(* Mutant: the promise that failed stays in the map.                        *)
CreateFailsKept(s) ==
  /\ stage[s] = "creating"
  /\ stage' = [stage EXCEPT ![s] = "failed"]
  /\ UNCHANGED <<requests, entry, used, home, made, doomed, closed, agents, cut>>

CreateFails(s) ==
  /\ stage[s] = "creating"
  /\ stage' = [stage EXCEPT ![s] = "failed"]
  /\ entry' = [entry EXCEPT ![home[s]] = IF @ = s THEN None ELSE @]
  /\ UNCHANGED <<requests, used, home, made, doomed, closed, agents, cut>>
-----------------------------------------------------------------------------
(* The callbacks of evictIfNeeded and reapIdle, and disposeAll              *)

(* maxIdleMinutes pass; no preflight and no creation takes so long.         *)
Age(k) ==
  /\ used[k] = "recent" /\ used' = [used EXCEPT ![k] = "old"]
  /\ \A c \in Request : key[c] = k => at[c] \notin {"resolving", "preflight", "entered"}
  /\ UNCHANGED <<requests, entry, stage, home, made, doomed, closed, agents, cut>>

(* A key that has no time yet counts as used at time 0.                     *)
Reap ==
  /\ ~closed
  /\ LET idle == {entry[k] : k \in {l \in Key : entry[l] # None /\ used[l] # "recent"}}
     IN  idle # {} /\ doomed' = doomed \cup (idle \X {"reap"})
  /\ UNCHANGED <<requests, entry, used, stage, home, made, closed, agents, cut>>

(* A session that is busy, or gone from the set, stays as it is.            *)
Dispose(s, why) ==
  /\ <<s, why>> \in doomed /\ doomed' = doomed \ {<<s, why>>}
  /\ stage[s] # "creating"
  /\ IF stage[s] = "live" /\ ~active[s]
     THEN /\ stage' = [stage EXCEPT ![s] = "disposed"]
          /\ entry' = [entry EXCEPT ![home[s]] = None]
          /\ used'  = [used EXCEPT ![home[s]] = "none"]
          /\ cut' = (cut \/ run[s] # None)
     ELSE UNCHANGED <<stage, entry, used, cut>>
  /\ UNCHANGED <<requests, home, made, closed, agents>>

DisposeAll ==
  /\ ~closed /\ closed' = TRUE
  /\ stage' = [s \in Session |-> IF s \in Live THEN "disposed" ELSE stage[s]]
  /\ entry' = [k \in Key |-> None] /\ used' = [k \in Key |-> "none"]
  /\ UNCHANGED <<requests, home, made, doomed, agents, cut>>
-----------------------------------------------------------------------------
(* promptSession, and the prompt it begins                                  *)

(* A soft job leaves a session that is busy; a turn whose signal is aborted *)
(* aborts the session.                                                      *)
Resume(c) ==
  /\ at[c] = "resolving" /\ stage[sess[c]] # "creating"
  /\ \/ /\ stage[sess[c]] = "failed"
        /\ Goes(c, "resolving", "done") /\ Answers(c, "error")
     \/ /\ stage[sess[c]] # "failed" /\ c \in SoftJob /\ active[sess[c]]
        /\ Goes(c, "resolving", "done") /\ Answers(c, "skipped")
     \/ /\ stage[sess[c]] # "failed" /\ c \in signalled
        /\ Goes(c, "resolving", "done") /\ Answers(c, "interrupted")
     \/ /\ stage[sess[c]] # "failed" /\ c \notin signalled
        /\ c \in SoftJob => ~active[sess[c]]
        /\ Goes(c, "resolving", "preflight") /\ UNCHANGED reply
  /\ UNCHANGED <<key, sess, signalled, pool, agents, cut>>

Enter(c) ==
  /\ at[c] = "preflight"
  /\ \/ ~active[sess[c]] /\ Goes(c, "preflight", "entered") /\ UNCHANGED reply
     \/ active[sess[c]]  /\ Goes(c, "preflight", "done")    /\ Answers(c, "refused")
  /\ UNCHANGED <<key, sess, signalled, pool, agents, cut>>

(* Agent.prompt and Agent.continue refuse a second run.                     *)
Runs(c, from) == /\ Goes(c, from, IF run[sess[c]] = None THEN "run" ELSE "failing")
                 /\ run' = [run EXCEPT ![sess[c]] = IF @ = None THEN c ELSE @]

Begin(c) ==
  /\ Runs(c, "entered")
  /\ active' = [active EXCEPT ![sess[c]] = TRUE]
  /\ overlapped' = (overlapped \/ \E d \in Request \ {c} :
                                     sess[d] = sess[c] /\ at[d] \in Prompting \ {"entered"})
  /\ UNCHANGED <<key, sess, reply, signalled, more, late, pool, cut>>

(* A prompt that was refused, or whose run broke, rejects.                  *)
Fail(c) ==
  /\ Goes(c, "failing", "done") \/ Goes(c, "broken", "done")
  /\ Answers(c, "refused")
  /\ active' = [active EXCEPT ![sess[c]] = FALSE]
  /\ UNCHANGED <<key, sess, signalled, run, more, overlapped, late, pool, cut>>

(* The listeners of a session in the pool hear its agent_end.               *)
Heard(s, c) == [d \in Request |-> IF d \in Subscribed /\ sess[d] = s /\ stage[s] = "live"
                                  THEN IF d = c THEN "own" ELSE "other"
                                  ELSE reply[d]]

(* Mutant: an agent_end that will be retried is taken for the last.         *)
RetriedIsLast(s) ==
  /\ run[s] # None /\ run' = [run EXCEPT ![s] = None]
  /\ \/ /\ Goes(run[s], "run", "post") /\ reply' = Heard(s, run[s])
        /\ UNCHANGED more
     \/ /\ more < MaxMore /\ more' = more + 1
        /\ Goes(run[s], "run", "backoff") /\ reply' = Heard(s, run[s])
  /\ UNCHANGED <<key, sess, signalled, active, overlapped, late, pool, cut>>

(* agent_end, with willRetry or without.                                    *)
AgentEnd(s) ==
  /\ run[s] # None /\ run' = [run EXCEPT ![s] = None]
  /\ \/ /\ Goes(run[s], "run", "post") /\ reply' = Heard(s, run[s])
        /\ UNCHANGED more
     \/ /\ more < MaxMore /\ more' = more + 1
        /\ Goes(run[s], "run", "backoff")
        /\ UNCHANGED reply
  /\ UNCHANGED <<key, sess, signalled, active, overlapped, late, pool, cut>>

(* A run that cannot even tell its failure; its agent_end may be out.       *)
RunRejects(s) ==
  /\ run[s] # None /\ run' = [run EXCEPT ![s] = None]
  /\ Goes(run[s], "run", "broken") /\ reply' \in {reply, Heard(s, run[s])}
  /\ UNCHANGED <<key, sess, signalled, active, more, overlapped, late, pool, cut>>

(* A listener throws at what comes after the run.                           *)
PostThrows(c) ==
  /\ Goes(c, "backoff", "broken") \/ Goes(c, "post", "broken")
  /\ UNCHANGED <<key, sess, reply, signalled, agents, pool, cut>>

(* The retry; or, after the last agent_end, a compaction that retries or a  *)
(* queued message.                                                          *)
Continue(c) ==
  /\ \/ Runs(c, "backoff") /\ UNCHANGED <<more, late>>
     \/ /\ Runs(c, "post")
        /\ more < MaxMore /\ more' = more + 1 /\ late' = TRUE
  /\ UNCHANGED <<key, sess, reply, signalled, active, overlapped, pool, cut>>

(* Mutant: the reply waits for an agent_end, whatever the prompt does.      *)
SettleUnheard(c) ==
  /\ \/ Goes(c, "post", "done")
     \/ /\ \E d \in Turn : sess[d] = sess[c] /\ reply[d] = "interrupted"
        /\ Goes(c, "backoff", "done")
  /\ active' = [active EXCEPT ![sess[c]] = FALSE]
  /\ UNCHANGED <<key, sess, reply, signalled, run, more, overlapped, late, pool, cut>>

(* The prompt settles, after its last run or when its retry was aborted,    *)
(* and its request is answered at the latest now.                           *)
PromptSettles(c) ==
  /\ \/ Goes(c, "post", "done")
     \/ /\ \E d \in Turn : sess[d] = sess[c] /\ reply[d] = "interrupted"
        /\ Goes(c, "backoff", "done")
  /\ Answers(c, "fallback")
  /\ active' = [active EXCEPT ![sess[c]] = FALSE]
  /\ UNCHANGED <<key, sess, signalled, run, more, overlapped, late, pool, cut>>

(* The signal of a turn: the reply is rejected and the session aborted,     *)
(* which ends its run or its retry, and nothing else of the prompt.         *)
Interrupt(c) ==
  /\ at[c] # "none" /\ reply[c] = "none"
  /\ IF at[c] = "resolving" THEN /\ signalled' = signalled \cup {c} /\ UNCHANGED reply
                            ELSE Answers(c, "interrupted") /\ UNCHANGED signalled
  /\ UNCHANGED <<at, key, sess, pool, agents, cut>>

Proceeds(c)  == Resume(c) \/ Enter(c) \/ Begin(c) \/ Fail(c) \/ Continue(c) \/ PromptSettles(c)
Makes(s)  == Created(s) \/ CreateFails(s)

PoolNext == \/ \E c \in Request : Proceeds(c) \/ PostThrows(c) \/ \E k \in Key : Ask(c, k)
            \/ \E c \in Turn : Interrupt(c)
            \/ \E s \in Session : Makes(s) \/ AgentEnd(s) \/ RunRejects(s)
                               \/ \E why \in Reason : Dispose(s, why)
            \/ \E k \in Key : Age(k)
            \/ Reap \/ DisposeAll

PoolSpec == PoolInit /\ [][PoolNext]_poolVars
-----------------------------------------------------------------------------
(* The map and the set agree until the pool is closed: a live session is    *)
(* the one its conversation resolves, so no transcript has two writers, and *)
(* no conversation resolves a session that failed or was disposed.          *)
MapAgrees == ~closed => /\ \A s \in Live : entry[home[s]] = s
                        /\ \A k \in Key : entry[k] # None =>
                                            stage[entry[k]] \in {"creating", "live"}

(* A run is not cut by an eviction or the reaper, unless prompts of its     *)
(* session overlap (ChatSessionPool.dispose asks isIdle).                   *)
RunsEnd == overlapped \/ ~cut

(* A turn is answered with its own text as long as no job shares its        *)
(* session, no turn was interrupted and no prompt ran on after its answer:  *)
(* retries do not move an answer to the next turn (promptSession).          *)
OwnText == (\E c \in Request : reply[c] = "other")
             => \/ late \/ \E c \in SoftJob : at[c] # "none"
                \/ \E c \in Turn : reply[c] = "interrupted"

(* A request that is not answered is on its way to an answer, on whatever   *)
(* session it ended up: its session is being made or is running, or its     *)
(* prompt goes on.  One that waits for nothing would block its conversation *)
(* for good (promptSession, the lane of the turns).                         *)
ReplyComes == \A c \in Request :
  at[c] # "none" /\ reply[c] = "none" => \/ ENABLED Proceeds(c)
                                        \/ ENABLED Makes(sess[c])
                                        \/ ENABLED AgentEnd(sess[c])

(* The pool is consistent at every callback, and cuts no run.               *)
PoolConsistent == PoolTypeOK /\ MapAgrees /\ RunsEnd
-----------------------------------------------------------------------------
(* The prompts of each session are those of SessionPrompts, as the prompts  *)
(* of AgentSession are: the reduced prompt of this module promises the same.*)
PlaceOf(where) == CASE where \in {"none", "resolving", "preflight", "done"} -> "out"
                    [] where = "entered" -> "let in"
                    [] where \in {"run", "failing"} -> where
                    [] where \in {"backoff", "post", "broken"} -> "between"

Prompts(s) == INSTANCE SessionPrompts
                WITH Prompt  <- Request,
                     place   <- [c \in Request |-> IF sess[c] = s THEN PlaceOf(at[c])
                                                                 ELSE "out"],
                     busy    <- active[s],
                     running <- {run[s]} \ {None}

(* Every session of the pool behaves as SessionPrompts says, whatever other *)
(* sessions do and whatever becomes of the session itself (turn.ts).        *)
PromptsKeep(s)   == Prompts(s)!Next \/ UNCHANGED Prompts(s)!promptVars
ImplementPrompts == /\ \A s \in Session : Prompts(s)!Init
                    /\ [][\A s \in Session : PromptsKeep(s)]_poolVars
=============================================================================
