------------------------- MODULE MCOutboundDelivery --------------------------
(***************************************************************************)
(* Two messages, one of them a reply with an origin; MaxQueue is 1, so     *)
(* that a recovery of both overflows the queue.                            *)
(***************************************************************************)
EXTENDS OutboundDelivery

CONSTANTS m1, m2, o
MCOriginOf == [m \in Message |-> IF m = m2 THEN o ELSE NoOrigin]
=============================================================================
