---------------------------- MODULE SessionTurns ----------------------------
(***************************************************************************)
(* What the turn scheduler of the gateway promises, with nothing of how it *)
(* keeps the promise (packages/gateway/src/scheduler.ts:1-6 and the        *)
(* comment on enqueue): one session's messages are processed strictly in   *)
(* the order they arrived, distinct sessions run concurrently, and at most *)
(* MaxConcurrent turns run at a time (0: no limit).                        *)
(*                                                                         *)
(* A Message is one call of enqueue: a message the bus delivers again is   *)
(* another call.                                                           *)
(***************************************************************************)
EXTENDS Naturals, FiniteSets

CONSTANTS Message, Session, SessionOf, MaxConcurrent

VARIABLES phase,      \* where each call is: not submitted, queued, running, done
          arrival     \* its place in the order of arrival, 0 before it arrives

absVars == <<phase, arrival>>

Arrived == {m \in Message : arrival[m] > 0}

(* n arrived before m, in the same session. *)
Precedes(n, m) == /\ SessionOf[n] = SessionOf[m]
                  /\ 0 < arrival[n]
                  /\ arrival[n] < arrival[m]

Running == {m \in Message : phase[m] = "running"}

Init == /\ phase   = [m \in Message |-> "new"]
        /\ arrival = [m \in Message |-> 0]

Submit(m) == /\ phase[m] = "new"
             /\ phase'   = [phase EXCEPT ![m] = "queued"]
             /\ arrival' = [arrival EXCEPT ![m] = Cardinality(Arrived) + 1]

Begin(m) == /\ phase[m] = "queued"
            /\ \A n \in Message : Precedes(n, m) => phase[n] = "done"
            /\ MaxConcurrent > 0 => Cardinality(Running) < MaxConcurrent
            /\ phase' = [phase EXCEPT ![m] = "running"]
            /\ UNCHANGED arrival

End(m) == /\ phase[m] = "running"
          /\ phase' = [phase EXCEPT ![m] = "done"]
          /\ UNCHANGED arrival

Next == \E m \in Message : Submit(m) \/ Begin(m) \/ End(m)

Spec == Init /\ [][Next]_absVars
=============================================================================
