--------------------------- MODULE MCJobScheduler ---------------------------
(***************************************************************************)
(* JobScheduler for TLC: two ticks overlap, over two jobs.  The run checks *)
(* liveness too, so it uses no symmetry of the ticks.                      *)
(***************************************************************************)
EXTENDS JobScheduler
=============================================================================
