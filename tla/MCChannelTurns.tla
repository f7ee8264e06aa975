---------------------------- MODULE MCChannelTurns ---------------------------
(***************************************************************************)
(* Two messages of one session: the second waits in line, is retried or    *)
(* recovered behind the first, and may find its turn still marked active.  *)
(***************************************************************************)
EXTENDS ChannelTurns, TLC

CONSTANTS m1, m2, a
MCSessionOf == [m \in Message |-> a]
=============================================================================
