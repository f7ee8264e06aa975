--------------------------- MODULE MCChatSessions ---------------------------
(***************************************************************************)
(* ChatSessions for TLC: the turns, the jobs and the conversations are     *)
(* each interchangeable.                                                   *)
(***************************************************************************)
EXTENDS ChatSessions, TLC

Alike == Permutations(Turn) \cup Permutations(SoftJob) \cup Permutations(Key)
=============================================================================
