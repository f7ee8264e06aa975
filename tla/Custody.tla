------------------------------ MODULE Custody -------------------------------
(***************************************************************************)
(* What the inbound half of the gateway promises the channel that hands it *)
(* a message and the application that handles it, with nothing of timers,  *)
(* attempts or files (packages/gateway/README.md:98, bus.ts): a message is *)
(* taken once while its key is known, held until its handler resolved or   *)
(* there is a dead letter for it, and given to one handler at a time.      *)
(*                                                                         *)
(* The process may die at any step, and between the two halves of a step   *)
(* that writes two files.  What is held outlives it; its handlers do not.  *)
(***************************************************************************)
CONSTANT Message

VARIABLES held,      \* messages with a record on disk
          known,     \* keys that are remembered: a redelivery is refused
          letters,   \* messages with a dead letter
          task,      \* the handler of a message: none, running, resolved, rejected
          stray      \* messages with a timer that does not look at the record

care == <<held, known, letters, task, stray>>

Init == /\ held = {} /\ known = {} /\ letters = {} /\ stray = {}
        /\ task = [m \in Message |-> "none"]

Dies == task' = [m \in Message |-> "none"] /\ stray' = {}

Begin(S) == /\ \A m \in S : task[m] = "none"
            /\ task' = [m \in Message |-> IF m \in S THEN "running" ELSE task[m]]

(* m begins, or waits for a recovery. *)
MayBegin(m) == UNCHANGED task \/ Begin({m})

(* No key is forgotten that belongs to a record. *)
Remember(m) == /\ held' = held \cup {m}
               /\ held' \subseteq known'
               /\ known' \subseteq known \cup {m}

Accept(m) == /\ m \notin known
             /\ Remember(m)
             /\ UNCHANGED letters
             /\ Dies \/ (MayBegin(m) /\ UNCHANGED stray)

Recover(S) == /\ S \subseteq held
              /\ Begin(S)
              /\ UNCHANGED <<held, known, letters, stray>>

(* The timer a failed write left behind: it may come late, for a message    *)
(* that is no longer held.                                                  *)
StrayFires(m) == /\ m \in stray
                 /\ stray' = stray \ {m}
                 /\ MayBegin(m)
                 /\ UNCHANGED <<held, known, letters>>

Handled(m) == /\ task[m] = "running"
              /\ \E outcome \in {"resolved", "rejected"} : task' = [task EXCEPT ![m] = outcome]
              /\ UNCHANGED <<held, known, letters, stray>>

Release(m) == /\ task[m] = "resolved"
              /\ held' = held \ {m}
              /\ task' = [task EXCEPT ![m] = "none"]
              /\ UNCHANGED <<known, letters, stray>>

Postpone(m) == /\ task[m] = "rejected"
               /\ task' = [task EXCEPT ![m] = "none"]
               /\ stray' \in {stray, stray \cup {m}}
               /\ UNCHANGED <<held, known, letters>>

(* The letter is written before the record goes; older letters may go for   *)
(* it.  A record that cannot be deleted is left to a timer.                 *)
Bury(m) == /\ task[m] = "rejected"
           /\ m \in letters' /\ letters' \subseteq letters \cup {m}
           /\ \/ /\ task' = [task EXCEPT ![m] = "none"]
                 /\ \/ held' = held \ {m} /\ UNCHANGED stray
                    \/ stray' = stray \cup {m} /\ UNCHANGED held
              \/ Dies /\ UNCHANGED held
           /\ UNCHANGED known

(* An operator takes a letter back; the record is written before it goes,   *)
(* and the letter may stay.                                                 *)
Exhume(m) == /\ m \in letters
             /\ Remember(m)
             /\ letters' \in {letters, letters \ {m}}
             /\ (MayBegin(m) /\ UNCHANGED stray) \/ Dies

Close == stray' = {} /\ UNCHANGED <<held, known, letters, task>>

Crash == Dies /\ UNCHANGED <<held, known, letters>>

Next == \/ \E m \in Message : \/ Accept(m) \/ StrayFires(m) \/ Handled(m) \/ Release(m)
                              \/ Postpone(m) \/ Bury(m) \/ Exhume(m)
        \/ \E S \in SUBSET Message : Recover(S)
        \/ Close \/ Crash

Spec == Init /\ [][Next]_care
-----------------------------------------------------------------------------
(* What a channel concludes from it: a message leaves the disk when its     *)
(* handler has resolved, or for a dead letter, and in no other way.         *)
HeldUntilHandled ==
  [][\A m \in held \ held' : task[m] = "resolved" \/ m \in letters']_care

(* What the application concludes: no handler starts for a message that has *)
(* one, nor for a message that is neither held nor left to a stray timer.   *)
StartsOnce ==
  [][\A m \in Message : task[m] # "running" /\ task'[m] = "running" =>
       task[m] = "none" /\ m \in held' \cup stray]_care
=============================================================================
