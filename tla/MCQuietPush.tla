----------------------------- MODULE MCQuietPush -----------------------------
(***************************************************************************)
(* Three pushes over two nights: one may fail, and the process may end     *)
(* once, anywhere in a flush.                                              *)
(***************************************************************************)
EXTENDS QuietPush
=============================================================================
