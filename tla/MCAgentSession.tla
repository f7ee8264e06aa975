--------------------------- MODULE MCAgentSession ---------------------------
(***************************************************************************)
(* AgentSession for TLC.  The run checks liveness too, so it uses no       *)
(* symmetry of the calls.                                                  *)
(***************************************************************************)
EXTENDS AgentSession
=============================================================================
