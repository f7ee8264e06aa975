--------------------------- MODULE MCGatewayHost ----------------------------
(***************************************************************************)
(* GatewayHost for TLC: the processes are interchangeable.                 *)
(***************************************************************************)
EXTENDS GatewayHost, TLC

Processes == Permutations(Process)
=============================================================================
