---------------------------- MODULE TurnScheduler ----------------------------
(***************************************************************************)
(* packages/gateway/src/scheduler.ts: TurnScheduler.                       *)
(*                                                                         *)
(* enqueue(message, run) hangs the call behind the tail of its session's   *)
(* promise chain, makes it the new tail, and, once the tail has settled,   *)
(* asks for one of maxConcurrentTurns slots.  A slot that is given back is *)
(* handed to the longest waiting call without ever becoming free.          *)
(*                                                                         *)
(* The steps are the callbacks of the promises involved, in any order the  *)
(* event loop may run them: the release in `finally`, the settling of the  *)
(* task (which lets the next of the chain ask for a slot) and the cleanup  *)
(* of the map are separate steps, and messages arrive in between.  A       *)
(* handler that throws before it returns its promise rejects the call but  *)
(* never reaches the `finally`: its slot stays in use for good.            *)
(* serializeBySession is left at its default, true: no caller of the       *)
(* repository turns it off.                                                *)
(***************************************************************************)
EXTENDS Integers, Sequences, FiniteSets

CONSTANTS Message,        \* the calls of enqueue
          Session,        \* the session keys
          SessionOf,      \* message.sessionKey of each call
          MaxConcurrent,  \* maxConcurrentTurns: 0 is unlimited
          NoMessage       \* no entry in a map

ASSUME SchedulerAssumption ==
  /\ IsFiniteSet(Message)
  /\ SessionOf \in [Message -> Session]
  /\ MaxConcurrent \in Nat
  /\ NoMessage \notin Message

VARIABLES stage,     \* how far each call has come
          behind,    \* the tail each call found when it arrived
          chains,    \* Map sessionKey -> last call of the chain
          active,    \* slots in use
          waiters,   \* calls waiting for a slot, first come first
          leaked,    \* history: the calls whose slot is never given back
          arrival    \* history: the order of the calls, 0 before the call

vars == <<stage, behind, chains, active, waiters, leaked, arrival>>

Stages == {"new", "chained", "waiting", "granted", "running", "released",
           "thrown", "settled", "cleaned"}

Types == /\ stage   \in [Message -> Stages]
         /\ behind  \in [Message -> Message \cup {NoMessage}]
         /\ chains  \in [Session -> Message \cup {NoMessage}]
         /\ active  \in Int
         /\ waiters \in Seq(Message)
         /\ leaked  \in SUBSET Message
         /\ arrival \in [Message -> Nat]

(* The number of slots in use is what acquire and release leave of it: it   *)
(* is never negative.                                                       *)
TypeOK == Types /\ active \in Nat

Arrived == {m \in Message : arrival[m] > 0}
Settled(m) == stage[m] \in {"settled", "cleaned"}
Holders == {m \in Message : stage[m] \in {"granted", "running"}}
Slots == Holders \cup leaked
Exhausted == MaxConcurrent > 0 /\ Cardinality(leaked) >= MaxConcurrent
Precedes(n, m) == /\ SessionOf[n] = SessionOf[m]
                  /\ 0 < arrival[n]
                  /\ arrival[n] < arrival[m]
-----------------------------------------------------------------------------
Init == /\ stage   = [m \in Message |-> "new"]
        /\ behind  = [m \in Message |-> NoMessage]
        /\ chains  = [s \in Session |-> NoMessage]
        /\ active  = 0
        /\ waiters = <<>>
        /\ leaked  = {}
        /\ arrival = [m \in Message |-> 0]

(* enqueue: chain behind the present tail and become the tail. *)
Enqueue(m) ==
  /\ stage[m] = "new"
  /\ stage'   = [stage EXCEPT ![m] = "chained"]
  /\ behind'  = [behind EXCEPT ![m] = chains[SessionOf[m]]]
  /\ chains'  = [chains EXCEPT ![SessionOf[m]] = m]
  /\ arrival' = [arrival EXCEPT ![m] = Cardinality(Arrived) + 1]
  /\ UNCHANGED <<active, waiters, leaked>>

(* tail.then(() => this.runLimited(run)): the tail has settled, either way. *)
TailSettled(m) == behind[m] # NoMessage => Settled(behind[m])

(* acquire, with a slot free. *)
AcquireFree(m) ==
  /\ stage[m] = "chained"
  /\ TailSettled(m)
  /\ MaxConcurrent = 0 \/ active < MaxConcurrent
  /\ active' = active + 1
  /\ stage'  = [stage EXCEPT ![m] = "granted"]
  /\ UNCHANGED <<behind, chains, waiters, leaked, arrival>>

(* acquire, with every slot in use: wait. *)
AcquireWait(m) ==
  /\ stage[m] = "chained"
  /\ TailSettled(m)
  /\ MaxConcurrent > 0 /\ active >= MaxConcurrent
  /\ waiters' = Append(waiters, m)
  /\ stage'   = [stage EXCEPT ![m] = "waiting"]
  /\ UNCHANGED <<behind, chains, active, leaked, arrival>>

(* acquire().then(() => run()): the handler starts. *)
Run(m) ==
  /\ stage[m] = "granted"
  /\ stage' = [stage EXCEPT ![m] = "running"]
  /\ UNCHANGED <<behind, chains, active, waiters, leaked, arrival>>

(* run() throws instead of returning a promise, which a handler that is not *)
(* async can do: `finally(release)` is never attached.                      *)
Throws(m) ==
  /\ stage[m] = "granted"
  /\ stage'  = [stage EXCEPT ![m] = "thrown"]
  /\ leaked' = leaked \cup {m}
  /\ UNCHANGED <<behind, chains, active, waiters, arrival>>

(* Mutants: the slot becomes free although it is handed over; no waiter is   *)
(* woken.                                                                   *)
ReleaseTwice(m) ==
  /\ stage[m] = "running"
  /\ active' = active - 1
  /\ IF waiters = <<>>
     THEN /\ stage' = [stage EXCEPT ![m] = "released"]
          /\ UNCHANGED waiters
     ELSE /\ stage' = [stage EXCEPT ![m] = "released", ![Head(waiters)] = "granted"]
          /\ waiters' = Tail(waiters)
  /\ UNCHANGED <<behind, chains, leaked, arrival>>

ReleaseWakesNone(m) ==
  /\ stage[m] = "running"
  /\ active' = active - 1
  /\ stage'  = [stage EXCEPT ![m] = "released"]
  /\ UNCHANGED <<behind, chains, waiters, leaked, arrival>>

(* run().finally(release): the handler has resolved or rejected; give the   *)
(* slot back, or hand it to the first waiter.                               *)
Release(m) ==
  /\ stage[m] = "running"
  /\ IF waiters = <<>>
     THEN /\ active' = active - 1
          /\ stage'  = [stage EXCEPT ![m] = "released"]
          /\ UNCHANGED waiters
     ELSE /\ active'  = (active - 1) + 1
          /\ stage'   = [stage EXCEPT ![m] = "released",
                                      ![Head(waiters)] = "granted"]
          /\ waiters' = Tail(waiters)
  /\ UNCHANGED <<behind, chains, leaked, arrival>>

(* The task settles, and with it the chained promise the next call hangs on. *)
Settle(m) ==
  /\ stage[m] \in {"released", "thrown"}
  /\ stage' = [stage EXCEPT ![m] = "settled"]
  /\ UNCHANGED <<behind, chains, active, waiters, leaked, arrival>>

(* Mutant: the chain is forgotten although another call is its tail. *)
CleanupAlways(m) ==
  /\ stage[m] = "settled"
  /\ stage'  = [stage EXCEPT ![m] = "cleaned"]
  /\ chains' = [chains EXCEPT ![SessionOf[m]] = NoMessage]
  /\ UNCHANGED <<behind, active, waiters, leaked, arrival>>

(* cleanup: forget the chain only while this call is still its tail. *)
Cleanup(m) ==
  /\ stage[m] = "settled"
  /\ stage'  = [stage EXCEPT ![m] = "cleaned"]
  /\ chains' = IF chains[SessionOf[m]] = m
               THEN [chains EXCEPT ![SessionOf[m]] = NoMessage]
               ELSE chains
  /\ UNCHANGED <<behind, active, waiters, leaked, arrival>>

Step(m) == \/ AcquireFree(m) \/ AcquireWait(m) \/ Run(m)
           \/ Throws(m) \/ Release(m) \/ Settle(m) \/ Cleanup(m)

Next == \E m \in Message : Enqueue(m) \/ Step(m)

Spec == Init /\ [][Next]_vars

(* Promise callbacks always run, and a handler always resolves, rejects or *)
(* throws.                                                                  *)
FairSpec == Spec /\ \A m \in Message : WF_vars(Step(m))
-----------------------------------------------------------------------------
(* The slots of runLimited: no more are held or lost than the limit, in     *)
(* spite of releases handing a slot over while others ask for one.          *)
SlotBound == MaxConcurrent > 0 => Cardinality(Slots) <= MaxConcurrent

(* "One session's messages are processed in order": a call that has left    *)
(* the chain has every earlier call of its session settled, also when the   *)
(* map entry was deleted and made again between the two.                    *)
SessionOrder ==
  \A m \in Message : stage[m] \notin {"new", "chained"} =>
    \A n \in Message : Precedes(n, m) => Settled(n)

(* Nobody waits while a slot is free: a newcomer cannot overtake a waiter   *)
(* in acquire, and release loses no slot.                                   *)
NoIdleSlot == waiters # <<>> => /\ MaxConcurrent > 0
                                /\ active = MaxConcurrent

(* The slots as a whole.                                                    *)
Consistent == TypeOK /\ SlotBound /\ NoIdleSlot /\ SessionOrder

(* "A failed handler never breaks its session chain: later messages still   *)
(* run": every call of enqueue settles, unless handlers that threw have     *)
(* taken every slot with them.                                              *)
EveryCallSettles ==
  \A m \in Message :
    (stage[m] = "chained") ~> (stage[m] = "cleaned" \/ Exhausted)

(* The scheduler implements SessionTurns: a call that waits for its tail,   *)
(* for a slot, or for the callback that starts it, is queued; one that      *)
(* threw has its turn until its promise is rejected.                        *)
PhaseOf(g) == CASE g = "new" -> "new"
                [] g \in {"chained", "waiting", "granted"} -> "queued"
                [] g \in {"running", "thrown"} -> "running"
                [] OTHER -> "done"

Turns == INSTANCE SessionTurns
           WITH phase <- [m \in Message |-> PhaseOf(stage[m])]

ImplementsSessionTurns == Turns!Spec
=============================================================================
