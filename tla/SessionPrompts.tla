--------------------------- MODULE SessionPrompts ----------------------------
(***************************************************************************)
(* What an agent session promises of its prompts, with nothing of retries, *)
(* compactions, queues or aborts (packages/host/src/core/agent-session.ts: *)
(* prompt, _runAgentPrompt; packages/agent/src/agent.ts: Agent.prompt).    *)
(*                                                                         *)
(* A prompt looks at the flag once, raises it when it begins and lowers it *)
(* when it settles.  It may begin beside another, for the look comes long  *)
(* before the flag; but the agent refuses a second run, so that prompts    *)
(* overlap and runs do not, and each run has the prompt that awaits it.    *)
(***************************************************************************)
CONSTANT Prompt

VARIABLES place,     \* of a prompt: out, let in, run, between (two runs), failing
          busy,      \* _isAgentRunActive
          running    \* the prompt whose run the agent is in, if any

promptVars == <<place, busy, running>>

Init == /\ place = [p \in Prompt |-> "out"]
        /\ busy = FALSE
        /\ running = {}

Goes(p, from, to) == place[p] = from /\ place' = [place EXCEPT ![p] = to]

(* The agent runs one prompt; another that asks for a run fails. *)
Runs(p, from) == \/ /\ running = {}
                    /\ Goes(p, from, "run")
                    /\ running' = {p}
                 \/ /\ running # {}
                    /\ Goes(p, from, "failing")
                    /\ UNCHANGED running

Pass(p) == ~busy /\ Goes(p, "out", "let in") /\ UNCHANGED <<busy, running>>

Begin(p) == Runs(p, "let in") /\ busy' = TRUE

(* A message that triggers a turn: it begins where it looks. *)
Trigger(p) == ~busy /\ Runs(p, "out") /\ busy' = TRUE

RunEnds(p) == /\ running = {p}
              /\ Goes(p, "run", "between")
              /\ running' = {}
              /\ UNCHANGED busy

(* A retry, a compaction that retries, or a message that was queued. *)
Continue(p) == Runs(p, "between") /\ UNCHANGED busy

Leave(p) == /\ \E from \in {"between", "failing"} : Goes(p, from, "out")
            /\ busy' = FALSE
            /\ UNCHANGED running

Next == \E p \in Prompt : \/ Pass(p) \/ Begin(p) \/ Trigger(p)
                          \/ RunEnds(p) \/ Continue(p) \/ Leave(p)

Spec == Init /\ [][Next]_promptVars
-----------------------------------------------------------------------------
(* What a caller concludes from it: a run is always awaited by its prompt,  *)
(* and a prompt that awaits a run has one, however prompts overlap.         *)
RunsAwaited == running = {p \in Prompt : place[p] = "run"}
=============================================================================
