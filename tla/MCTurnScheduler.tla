--------------------------- MODULE MCTurnScheduler ---------------------------
(***************************************************************************)
(* Four calls and two slots: three calls of one session and one of         *)
(* another.  The chain grows behind a call that is itself behind another,  *)
(* it is forgotten and made again between two calls; a handler that throws *)
(* takes one slot with it, and both sessions then contend for the other.   *)
(***************************************************************************)
EXTENDS TurnScheduler

MCMessage == {1, 2, 3, 4}
MCSession == {"a", "b"}
MCSessionOf == <<"a", "a", "a", "b">>
=============================================================================
