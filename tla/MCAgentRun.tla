----------------------------- MODULE MCAgentRun -----------------------------
(***************************************************************************)
(* Two messages beside or after the first prompt, answers with up to two   *)
(* tool calls, one abort by a lifecycle module and one await that throws.  *)
(***************************************************************************)
EXTENDS AgentRun
=============================================================================
