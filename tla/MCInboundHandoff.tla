--------------------------- MODULE MCInboundHandoff --------------------------
(***************************************************************************)
(* Two messages.  MaxDedup and MaxDead are 1, so that each acceptance and  *)
(* each dead letter pushes another one out.                                *)
(***************************************************************************)
EXTENDS InboundHandoff
=============================================================================
