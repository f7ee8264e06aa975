------------------------- MODULE TurnSchedulerProofs -------------------------
(***************************************************************************)
(* Proofs about TurnScheduler for every finite set of calls, every         *)
(* assignment of calls to sessions and every limit.                        *)
(*                                                                         *)
(* Type correctness comes first.  Slots and order are then proved apart,   *)
(* each with its own inductive invariant: SlotInv (active counts the       *)
(* holders and the leaked slots, a waiter implies that every slot is used, *)
(* and waiters are waiting) and OrderInv (the map and `behind` name the latest call that   *)
(* arrived before).  Both together give the refinement of SessionTurns.    *)
(***************************************************************************)
EXTENDS TurnScheduler, FiniteSetTheorems, SequenceTheorems, TLAPS

USE SchedulerAssumption

(* The waiters are distinct calls that are waiting. *)
WaitInv ==
  /\ \A i \in 1..Len(waiters) : stage[waiters[i]] = "waiting"
  /\ \A i, j \in 1..Len(waiters) : waiters[i] = waiters[j] => i = j

(* A slot is lost exactly by a call that threw.                             *)
LeakInv == /\ \A m \in leaked : stage[m] \in {"thrown", "settled", "cleaned"}
           /\ \A m \in Message : stage[m] = "thrown" => m \in leaked

SlotInv == /\ active = Cardinality(Slots)
           /\ LeakInv
           /\ MaxConcurrent > 0 => active <= MaxConcurrent
           /\ NoIdleSlot
           /\ WaitInv

(* Arrival numbers are those of the calls made, each given once. *)
ArrivalInv ==
  /\ \A m \in Message : stage[m] = "new" <=> arrival[m] = 0
  /\ \A m \in Message : arrival[m] <= Cardinality(Arrived)
  /\ \A m, n \in Message : arrival[m] = arrival[n] /\ arrival[m] > 0 => m = n

(* The tail of a chain is the session's latest call; without a chain every  *)
(* call of the session has settled.                                         *)
ChainInv ==
  \A m \in Message :
    LET k == chains[SessionOf[m]]
    IN  /\ k = NoMessage => stage[m] = "new" \/ Settled(m)
        /\ k # NoMessage => /\ SessionOf[k] = SessionOf[m]
                            /\ stage[k] # "new"
                            /\ arrival[m] <= arrival[k]

(* A call hangs on the latest one before it, or on nothing when all earlier *)
(* ones had settled.                                                        *)
BehindInv ==
  \A m \in Message : stage[m] # "new" =>
    /\ behind[m] = NoMessage =>
         \A n \in Message : Precedes(n, m) => Settled(n)
    /\ behind[m] # NoMessage =>
         /\ Precedes(behind[m], m)
         /\ \A n \in Message : Precedes(n, m) => arrival[n] <= arrival[behind[m]]

OrderInv == ArrivalInv /\ ChainInv /\ BehindInv /\ SessionOrder
-----------------------------------------------------------------------------
(* Every variable keeps its type through every callback. *)
LEMMA TypesHold == Spec => []Types
<1>1. Init => Types
  BY DEF Init, Types, Stages
<1>2. Types /\ [Next]_vars => Types'
  <2> SUFFICES ASSUME Types, [Next]_vars PROVE Types'
    OBVIOUS
  <2> USE DEF Types, Stages
  <2>1. ASSUME NEW m \in Message, Enqueue(m) PROVE Types'
    <3>1. Arrived \subseteq Message
      BY DEF Arrived
    <3>2. Cardinality(Arrived) \in Nat
      BY <3>1, FS_Subset, FS_CardinalityType
    <3>3. QED BY <2>1, <3>2 DEF Enqueue
  <2>2. ASSUME NEW m \in Message, AcquireFree(m) PROVE Types'
    BY <2>2 DEF AcquireFree
  <2>3. ASSUME NEW m \in Message, AcquireWait(m) PROVE Types'
    BY <2>3 DEF AcquireWait
  <2>4. ASSUME NEW m \in Message, Run(m) PROVE Types'
    BY <2>4 DEF Run
  <2>5. ASSUME NEW m \in Message, Release(m) PROVE Types'
    <3>1. CASE waiters = <<>>
      BY <2>5, <3>1 DEF Release
    <3>2. CASE waiters # <<>>
      <4>1. Head(waiters) \in Message /\ Tail(waiters) \in Seq(Message)
        BY <3>2, HeadTailProperties
      <4>2. stage' = [stage EXCEPT ![m] = "released", ![Head(waiters)] = "granted"]
        BY <2>5, <3>2 DEF Release
      <4>3. stage' \in [Message -> Stages]
        BY <4>1, <4>2
      <4>4. UNCHANGED <<behind, chains, leaked, arrival>> /\ active' = (active - 1) + 1 /\ waiters' = Tail(waiters)
        BY <2>5, <3>2 DEF Release
      <4>5. QED BY <4>1, <4>3, <4>4
    <3>3. QED BY <3>1, <3>2
  <2>6. ASSUME NEW m \in Message, Settle(m) PROVE Types'
    BY <2>6 DEF Settle
  <2>7. ASSUME NEW m \in Message, Cleanup(m) PROVE Types'
    BY <2>7 DEF Cleanup
  <2>8. ASSUME NEW m \in Message, Throws(m) PROVE Types'
    BY <2>8 DEF Throws
  <2>9. CASE UNCHANGED vars
    BY <2>9 DEF vars
  <2>10. QED
    BY <2>1, <2>2, <2>3, <2>4, <2>5, <2>6, <2>7, <2>8, <2>9 DEF Next, Step
<1>3. QED BY <1>1, <1>2, PTL DEF Spec
-----------------------------------------------------------------------------
(* Slots change by one call at a time; the cardinality follows. *)
LEMMA SlotsFinite ==
  ASSUME Types
  PROVE  IsFiniteSet(Slots) /\ Cardinality(Slots) \in Nat
<1>1. Slots \subseteq Message
  BY DEF Slots, Holders, Types
<1>2. QED BY <1>1, FS_Subset, FS_CardinalityType

(* A step that leaves the slots, active and the waiters alone.  *)
LEMMA SlotsUntouched ==
  ASSUME Types, SlotInv, Slots' = Slots, LeakInv', UNCHANGED <<active, waiters>>,
         \A n \in Message : stage[n] = "waiting" => stage'[n] = "waiting"
  PROVE  SlotInv'
<1>1. \A i \in 1..Len(waiters) : waiters[i] \in Message
  BY DEF Types
<1>2. WaitInv'
  BY <1>1 DEF SlotInv, WaitInv
<1>3. QED BY <1>2 DEF SlotInv, NoIdleSlot

(* The slots are counted right through every callback, the hand-over of a   *)
(* released slot included.                                                  *)
LEMMA SlotStep == Types /\ SlotInv /\ [Next]_vars => SlotInv'
<1> SUFFICES ASSUME Types, SlotInv, [Next]_vars PROVE SlotInv'
  OBVIOUS
<1>0. IsFiniteSet(Slots) /\ Cardinality(Slots) \in Nat
  BY SlotsFinite
<1>a. \A n \in leaked : stage[n] \in {"thrown", "settled", "cleaned"}
  BY DEF SlotInv, LeakInv
<1>1. ASSUME NEW m \in Message, Enqueue(m) PROVE SlotInv'
  <2>1. Slots' = Slots
    BY <1>1 DEF Enqueue, Slots, Holders, SlotInv, LeakInv, Types
  <2>2. \A n \in Message : stage[n] = "waiting" => stage'[n] = "waiting"
    BY <1>1 DEF Enqueue, Types
  <2>3. LeakInv'
    BY <1>1 DEF Enqueue, SlotInv, LeakInv, Types
  <2>4. QED BY <1>1, <2>1, <2>2, <2>3, SlotsUntouched DEF Enqueue
<1>2. ASSUME NEW m \in Message, AcquireFree(m) PROVE SlotInv'
  <2>1. m \notin Slots /\ Slots' = Slots \cup {m}
    <3>1. m \notin leaked /\ leaked' = leaked
      BY <1>2, <1>a DEF AcquireFree
    <3>2. m \notin Holders /\ Holders' = Holders \cup {m}
      BY <1>2 DEF AcquireFree, Holders, Types
    <3>3. QED BY <3>1, <3>2 DEF Slots
  <2>2. Cardinality(Slots') = Cardinality(Slots) + 1
    BY <2>1, <1>0, FS_AddElement
  <2>3. active' = Cardinality(Slots')
    BY <1>2, <2>2 DEF AcquireFree, SlotInv
  <2>4. waiters = <<>>
    BY <1>2, <1>0 DEF AcquireFree, SlotInv, NoIdleSlot, Types
  <2>5. MaxConcurrent > 0 => active' <= MaxConcurrent
    BY <1>2 DEF AcquireFree, SlotInv, Types
  <2>6. NoIdleSlot' /\ WaitInv' /\ LeakInv'
    BY <1>2, <2>4 DEF AcquireFree, NoIdleSlot, WaitInv, SlotInv, LeakInv, Types
  <2>7. QED BY <2>3, <2>5, <2>6 DEF SlotInv
<1>3. ASSUME NEW m \in Message, AcquireWait(m) PROVE SlotInv'
  <2>1. Slots' = Slots
    BY <1>3 DEF AcquireWait, Slots, Holders, Types
  <2>2. active' = active /\ active = MaxConcurrent /\ MaxConcurrent > 0
    BY <1>3 DEF AcquireWait, SlotInv, Types
  <2>3. /\ Len(waiters') = Len(waiters) + 1
        /\ \A i \in 1..Len(waiters) : waiters'[i] = waiters[i]
        /\ waiters'[Len(waiters) + 1] = m
    BY <1>3 DEF AcquireWait, Types
  <2>4. \A i \in 1..Len(waiters) : /\ waiters[i] \in Message
                                   /\ waiters[i] # m
                                   /\ stage'[waiters[i]] = "waiting"
    BY <1>3 DEF AcquireWait, SlotInv, WaitInv, Types
  <2>5. stage'[m] = "waiting"
    BY <1>3 DEF AcquireWait, Types
  <2>6. Len(waiters) \in Nat
    BY DEF Types
  <2>7. WaitInv'
    <3>1. \A i \in 1..(Len(waiters) + 1) : i \in 1..Len(waiters) \/ i = Len(waiters) + 1
      BY <2>6
    <3>2. QED BY <2>3, <2>4, <2>5, <2>6, <3>1 DEF SlotInv, WaitInv
  <2>8. LeakInv'
    BY <1>3 DEF AcquireWait, SlotInv, LeakInv, Types
  <2>9. QED BY <2>1, <2>2, <2>7, <2>8 DEF SlotInv, NoIdleSlot
<1>4. ASSUME NEW m \in Message, Run(m) PROVE SlotInv'
  <2>1. Slots' = Slots
    BY <1>4 DEF Run, Slots, Holders, SlotInv, LeakInv, Types
  <2>2. \A n \in Message : stage[n] = "waiting" => stage'[n] = "waiting"
    BY <1>4 DEF Run, Types
  <2>3. LeakInv'
    BY <1>4 DEF Run, SlotInv, LeakInv, Types
  <2>4. QED BY <1>4, <2>1, <2>2, <2>3, SlotsUntouched DEF Run
<1>5. ASSUME NEW m \in Message, Release(m) PROVE SlotInv'
  <2>0. m \in Slots
    BY <1>5 DEF Release, Slots, Holders
  <2>1. CASE waiters = <<>>
    <3>1. Slots' = Slots \ {m} /\ LeakInv'
      BY <1>5, <1>a, <2>1 DEF SlotInv, LeakInv, Release, Slots, Holders, Types
    <3>2. Cardinality(Slots') = Cardinality(Slots) - 1
      BY <3>1, <2>0, <1>0, FS_RemoveElement
    <3>3. active' = active - 1 /\ waiters' = <<>>
      BY <1>5, <2>1 DEF Release
    <3>4. QED BY <3>1, <3>2, <3>3, <1>0 DEF SlotInv, NoIdleSlot, WaitInv, Types
  <2>2. CASE waiters # <<>>
    <3> DEFINE h == Head(waiters)
    <3>1. /\ h \in Message /\ h = waiters[1] /\ Len(waiters) \in Nat \ {0}
          /\ waiters' = Tail(waiters) /\ Len(waiters') = Len(waiters) - 1
          /\ \A i \in 1..Len(waiters') : waiters'[i] = waiters[i + 1]
      <4>1. waiters \in Seq(Message) /\ waiters' = Tail(waiters)
        BY <1>5, <2>2 DEF Release, Types
      <4>2. Len(waiters) \in Nat \ {0} /\ h = waiters[1]
        BY <4>1, <2>2, EmptySeq
      <4>3. QED BY <4>1, <4>2, <2>2, HeadTailProperties
    <3>2. stage[h] = "waiting" /\ h # m /\ h \notin Slots
      BY <1>5, <3>1 DEF Release, SlotInv, LeakInv, WaitInv, Slots, Holders
    <3>3. stage' = [stage EXCEPT ![m] = "released", ![h] = "granted"]
      BY <1>5, <2>2 DEF Release
    <3>4. Slots' = (Slots \ {m}) \cup {h}
      <4>1. m \notin leaked /\ leaked' = leaked
        BY <1>5, <1>a DEF Release
      <4>2. Holders' = (Holders \ {m}) \cup {h}
        BY <3>1, <3>2, <3>3 DEF Slots, Holders, Types
      <4>3. QED BY <4>1, <4>2 DEF Slots
    <3>5. Cardinality(Slots \ {m}) = Cardinality(Slots) - 1 /\ IsFiniteSet(Slots \ {m})
      BY <2>0, <1>0, FS_RemoveElement
    <3>6. Cardinality(Slots') = Cardinality(Slots)
      <4>1. h \notin Slots \ {m}
        BY <3>2
      <4>2. Cardinality((Slots \ {m}) \cup {h}) = Cardinality(Slots \ {m}) + 1
        BY <4>1, <3>5, FS_AddElement
      <4>3. QED BY <4>2, <3>4, <3>5, <1>0
    <3>7. active' = active
      BY <1>5, <2>2 DEF Release, Types
    <3>8. WaitInv'
      <4>1. \A i \in 1..Len(waiters') :
              /\ i + 1 \in 1..Len(waiters) /\ i + 1 # 1 /\ waiters'[i] = waiters[i + 1]
        BY <3>1
      <4>2. \A i \in 1..Len(waiters') : /\ waiters'[i] \in Message
                                        /\ stage[waiters'[i]] = "waiting"
                                        /\ waiters'[i] # h
        <5> SUFFICES ASSUME NEW i \in 1..Len(waiters')
                     PROVE  /\ waiters'[i] \in Message
                            /\ stage[waiters'[i]] = "waiting"
                            /\ waiters'[i] # h
          OBVIOUS
        <5>1. 1 \in 1..Len(waiters)
          BY <3>1
        <5>2. waiters[i + 1] # waiters[1]
          BY <4>1, <5>1 DEF SlotInv, WaitInv
        <5>3. QED BY <4>1, <5>2, <3>1 DEF SlotInv, WaitInv, Types
      <4>3. \A i \in 1..Len(waiters') : stage'[waiters'[i]] = "waiting"
        BY <4>2, <3>3, <1>5 DEF Release, Types
      <4>4. \A i, j \in 1..Len(waiters') : waiters'[i] = waiters'[j] => i = j
        BY <4>1 DEF SlotInv, WaitInv
      <4>5. QED BY <4>3, <4>4 DEF WaitInv
    <3>9. LeakInv'
      BY <1>5, <3>1, <3>2, <3>3 DEF Release, SlotInv, LeakInv, Types
    <3>10. QED BY <2>2, <3>6, <3>7, <3>8, <3>9 DEF SlotInv, NoIdleSlot
  <2>3. QED BY <2>1, <2>2
<1>6. ASSUME NEW m \in Message, Settle(m) PROVE SlotInv'
  <2>1. Slots' = Slots
    BY <1>6 DEF Settle, Slots, Holders, SlotInv, LeakInv, Types
  <2>2. \A n \in Message : stage[n] = "waiting" => stage'[n] = "waiting"
    BY <1>6 DEF Settle, Types
  <2>3. LeakInv'
    BY <1>6 DEF Settle, SlotInv, LeakInv, Types
  <2>4. QED BY <1>6, <2>1, <2>2, <2>3, SlotsUntouched DEF Settle
<1>7. ASSUME NEW m \in Message, Cleanup(m) PROVE SlotInv'
  <2>1. Slots' = Slots
    BY <1>7 DEF Cleanup, Slots, Holders, SlotInv, LeakInv, Types
  <2>2. \A n \in Message : stage[n] = "waiting" => stage'[n] = "waiting"
    BY <1>7 DEF Cleanup, Types
  <2>3. LeakInv'
    BY <1>7 DEF Cleanup, SlotInv, LeakInv, Types
  <2>4. QED BY <1>7, <2>1, <2>2, <2>3, SlotsUntouched DEF Cleanup
<1>8. ASSUME NEW m \in Message, Throws(m) PROVE SlotInv'
  <2>1. Slots' = Slots
    BY <1>8 DEF Throws, Slots, Holders, Types
  <2>2. \A n \in Message : stage[n] = "waiting" => stage'[n] = "waiting"
    BY <1>8 DEF Throws, Types
  <2>3. LeakInv'
    BY <1>8 DEF Throws, SlotInv, LeakInv, Types
  <2>4. QED BY <1>8, <2>1, <2>2, <2>3, SlotsUntouched DEF Throws
<1>9. CASE UNCHANGED vars
  BY <1>9 DEF vars, SlotInv, LeakInv, Slots, Holders, NoIdleSlot, WaitInv
<1>10. QED
  BY <1>1, <1>2, <1>3, <1>4, <1>5, <1>6, <1>7, <1>8, <1>9 DEF Next, Step

(* The slot accounting is an invariant. *)
THEOREM SlotsCounted == Spec => []SlotInv
<1>1. Init => SlotInv
  <2> SUFFICES ASSUME Init PROVE SlotInv
    OBVIOUS
  <2>1. Slots = {}
    BY DEF Init, Slots, Holders
  <2>2. Cardinality(Slots) = 0
    BY <2>1, FS_EmptySet
  <2>3. QED BY <2>2 DEF Init, SlotInv, LeakInv, NoIdleSlot, WaitInv
<1>2. QED BY <1>1, SlotStep, TypesHold, PTL DEF Spec

(* The types, and no slot given back more often than taken: active, which   *)
(* acquire and release only add to and subtract from, counts the slots.     *)
THEOREM TypeCorrect == Spec => []TypeOK
<1>1. Types /\ SlotInv => TypeOK
  <2> SUFFICES ASSUME Types, SlotInv PROVE TypeOK
    OBVIOUS
  <2>1. Cardinality(Slots) \in Nat
    BY SlotsFinite
  <2>2. QED BY <2>1 DEF SlotInv, TypeOK
<1>2. QED BY <1>1, TypesHold, SlotsCounted, PTL

(* Never more handlers than maxConcurrentTurns, less the slots that are lost. *)
THEOREM SlotBoundHolds == Spec => []SlotBound
<1>1. SlotInv => SlotBound
  BY DEF SlotInv, SlotBound
<1>2. QED BY <1>1, SlotsCounted, PTL

(* Nobody waits while a slot is free. *)
THEOREM NoIdleSlotHolds == Spec => []NoIdleSlot
<1>1. SlotInv => NoIdleSlot
  BY DEF SlotInv
<1>2. QED BY <1>1, SlotsCounted, PTL
-----------------------------------------------------------------------------
(* What the event loop may do without touching the order: no arrival, and    *)
(* no stage that goes back.                                                  *)
LEMMA OrderUntouched ==
  ASSUME Types, OrderInv, UNCHANGED <<behind, chains, arrival>>,
         \A n \in Message : /\ (stage'[n] = "new") <=> (stage[n] = "new")
                            /\ Settled(n) => Settled(n)'
                            /\ (stage'[n] \notin {"new", "chained"})
                                 => (stage[n] \notin {"new", "chained"})
  PROVE  OrderInv'
<1>1. Arrived' = Arrived
  BY DEF Arrived
<1>2. ArrivalInv'
  BY <1>1 DEF OrderInv, ArrivalInv
<1>3. \A n, m \in Message : Precedes(n, m)' <=> Precedes(n, m)
  BY DEF Precedes
<1>4. ChainInv'
  BY DEF OrderInv, ChainInv, Types
<1>5. BehindInv'
  BY <1>3 DEF OrderInv, BehindInv, Types
<1>6. SessionOrder'
  BY <1>3 DEF OrderInv, SessionOrder
<1>7. QED BY <1>2, <1>4, <1>5, <1>6 DEF OrderInv

(* A call whose tail has settled has every earlier call settled: the tail   *)
(* arrived last of them, and itself left the chain in order.                *)
LEMMA TailSettledMeansAll ==
  ASSUME Types, OrderInv, NEW m \in Message, stage[m] # "new", TailSettled(m),
         NEW n \in Message, Precedes(n, m)
  PROVE  Settled(n)
<1>1. CASE behind[m] = NoMessage
  BY <1>1 DEF OrderInv, BehindInv
<1>2. CASE behind[m] # NoMessage
  <2> DEFINE b == behind[m]
  <2>1. b \in Message /\ Settled(b) /\ Precedes(b, m) /\ arrival[n] <= arrival[b]
    BY <1>2 DEF OrderInv, BehindInv, TailSettled, Types
  <2>2. CASE arrival[n] = arrival[b]
    BY <2>1, <2>2 DEF OrderInv, ArrivalInv, Precedes
  <2>3. CASE arrival[n] # arrival[b]
    <3>1. Precedes(n, b)
      BY <2>1, <2>3 DEF Precedes, Types
    <3>2. stage[b] \notin {"new", "chained"}
      BY <2>1 DEF Settled
    <3>3. QED BY <2>1, <3>1, <3>2 DEF OrderInv, SessionOrder
  <2>4. QED BY <2>2, <2>3
<1>3. QED BY <1>1, <1>2

(* A call that leaves the chain, every other stage being as it was. *)
LEMMA OrderLeaveChain ==
  ASSUME Types, OrderInv, NEW m \in Message, stage[m] = "chained", TailSettled(m),
         NEW g \in {"granted", "waiting"}, stage' = [stage EXCEPT ![m] = g],
         UNCHANGED <<behind, chains, arrival>>
  PROVE  OrderInv'
<1>0. \A n \in Message : /\ (stage'[n] = "new") <=> (stage[n] = "new")
                         /\ Settled(n)' <=> Settled(n)
                         /\ n # m => stage'[n] = stage[n]
  BY DEF Types, Settled
<1>1. Arrived' = Arrived
  BY DEF Arrived
<1>2. ArrivalInv'
  BY <1>0, <1>1 DEF OrderInv, ArrivalInv
<1>3. \A n, k \in Message : Precedes(n, k)' <=> Precedes(n, k)
  BY DEF Precedes
<1>4. ChainInv'
  BY <1>0 DEF OrderInv, ChainInv, Types
<1>5. BehindInv'
  BY <1>0, <1>3 DEF OrderInv, BehindInv, Types
<1>6. SessionOrder'
  <2>1. \A n \in Message : Precedes(n, m) => Settled(n)
    BY TailSettledMeansAll
  <2>2. QED BY <1>0, <1>3, <2>1 DEF OrderInv, SessionOrder
<1>7. QED BY <1>2, <1>4, <1>5, <1>6 DEF OrderInv

(* A new call becomes the tail: it arrived after all others, and everything *)
(* known of it is what the old tail says.                                   *)
LEMMA OrderEnqueue ==
  ASSUME Types, OrderInv, NEW m \in Message, Enqueue(m)
  PROVE  OrderInv'
<1> DEFINE a == Cardinality(Arrived) + 1
<1>0. /\ stage' = [stage EXCEPT ![m] = "chained"] /\ stage[m] = "new"
      /\ behind' = [behind EXCEPT ![m] = chains[SessionOf[m]]]
      /\ chains' = [chains EXCEPT ![SessionOf[m]] = m]
      /\ arrival' = [arrival EXCEPT ![m] = a]
      /\ arrival[m] = 0
  BY DEF Enqueue, OrderInv, ArrivalInv
<1>1. IsFiniteSet(Arrived) /\ Cardinality(Arrived) \in Nat
  <2>1. Arrived \subseteq Message
    BY DEF Arrived
  <2>2. QED BY <2>1, FS_Subset, FS_CardinalityType
<1>a. a \in Nat /\ a > 0
  BY <1>1
<1>b. \A n \in Message : arrival[n] < a
  BY <1>1 DEF Types, OrderInv, ArrivalInv
<1>c. Cardinality(Arrived) + 1 = a
  OBVIOUS
<1> HIDE DEF a
<1>2. Arrived' = Arrived \cup {m} /\ m \notin Arrived
  <2>1. arrival'[m] = a /\ \A n \in Message : n # m => arrival'[n] = arrival[n]
    BY <1>0 DEF Types
  <2>2. QED BY <2>1, <1>0, <1>a DEF Arrived
<1>3. Cardinality(Arrived') = a
  BY <1>1, <1>2, <1>c, FS_AddElement
<1>4. \A n \in Message : n # m => /\ stage'[n] = stage[n] /\ arrival'[n] = arrival[n]
                                  /\ behind'[n] = behind[n]
                                  /\ arrival[n] < a
  BY <1>0, <1>b DEF Types
<1>5. /\ stage'[m] = "chained" /\ arrival'[m] = a /\ a > 0 /\ a \in Nat
      /\ behind'[m] = chains[SessionOf[m]]
  BY <1>0, <1>a DEF Types
<1>6. \A n \in Message : Settled(n)' <=> Settled(n)
  BY <1>0, <1>4, <1>5 DEF Settled
<1>7. \A n, k \in Message : k # m => (Precedes(n, k)' <=> Precedes(n, k))
  BY <1>0, <1>4, <1>5 DEF Precedes, Types
<1>8. \A n \in Message : Precedes(n, m)'
        <=> /\ n # m /\ stage[n] # "new" /\ SessionOf[n] = SessionOf[m]
  BY <1>0, <1>4, <1>5 DEF Precedes, Types, OrderInv, ArrivalInv
<1>9. ArrivalInv'
  <2>1. \A n \in Message : (stage'[n] = "new") <=> (arrival'[n] = 0)
    BY <1>4, <1>5 DEF OrderInv, ArrivalInv
  <2>2. \A n \in Message : arrival'[n] <= Cardinality(Arrived')
    <3>1. \A n \in Message : arrival'[n] <= a
      <4>1. \A n \in Message : arrival[n] \in Nat
        BY DEF Types
      <4>2. \A n \in Message : n # m => arrival'[n] <= a
        BY <4>1, <1>4, <1>a
      <4> QED BY <4>2, <1>5
    <3>2. QED BY <3>1, <1>3
  <2>3. \A n, k \in Message : arrival'[n] = arrival'[k] /\ arrival'[n] > 0 => n = k
    BY <1>4, <1>5 DEF OrderInv, ArrivalInv, Types
  <2>4. QED BY <2>1, <2>2, <2>3 DEF ArrivalInv
<1>10. ChainInv'
  <2> SUFFICES ASSUME NEW n \in Message
               PROVE  LET k == chains'[SessionOf[n]]
                      IN  /\ k = NoMessage => stage'[n] = "new" \/ Settled(n)'
                          /\ k # NoMessage => /\ SessionOf[k] = SessionOf[n]
                                              /\ stage'[k] # "new"
                                              /\ arrival'[n] <= arrival'[k]
    BY DEF ChainInv
  <2>1. CASE SessionOf[n] = SessionOf[m]
    <3>1. chains'[SessionOf[n]] = m
      BY <1>0, <2>1 DEF Types
    <3>2. arrival'[n] <= arrival'[m]
      <4>1. arrival[n] \in Nat
        BY DEF Types
      <4>2. n # m => arrival'[n] <= a
        BY <4>1, <1>4, <1>a
      <4> QED BY <4>2, <1>5
    <3>3. QED BY <3>1, <3>2, <1>5, <2>1
  <2>2. CASE SessionOf[n] # SessionOf[m]
    <3>1. chains'[SessionOf[n]] = chains[SessionOf[n]] /\ n # m
      BY <1>0, <2>2 DEF Types
    <3>2. CASE chains[SessionOf[n]] = NoMessage
      BY <3>1, <3>2, <1>4, <1>6 DEF OrderInv, ChainInv
    <3>3. CASE chains[SessionOf[n]] # NoMessage
      <4>1. chains[SessionOf[n]] \in Message /\ chains[SessionOf[n]] # m
        BY <3>3, <1>0 DEF Types, OrderInv, ChainInv
      <4>2. QED BY <4>1, <3>1, <3>3, <1>4 DEF OrderInv, ChainInv
    <3>4. QED BY <3>2, <3>3
  <2>3. QED BY <2>1, <2>2
<1>11. BehindInv'
  <2> SUFFICES ASSUME NEW k \in Message, stage'[k] # "new"
               PROVE  /\ behind'[k] = NoMessage =>
                           \A n \in Message : Precedes(n, k)' => Settled(n)'
                      /\ behind'[k] # NoMessage =>
                           /\ Precedes(behind[k], k)'
                           /\ \A n \in Message : Precedes(n, k)' => arrival'[n] <= arrival'[behind'[k]]
    BY DEF BehindInv
  <2>1. CASE k # m
    <3>1. /\ stage[k] # "new" /\ behind'[k] = behind[k]
      BY <1>4, <2>1
    <3>2. CASE behind[k] = NoMessage
      BY <2>1, <3>1, <3>2, <1>6, <1>7 DEF OrderInv, BehindInv
    <3>3. CASE behind[k] # NoMessage
      <4>1. /\ behind[k] \in Message /\ Precedes(behind[k], k)
            /\ \A n \in Message : Precedes(n, k) => arrival[n] <= arrival[behind[k]]
        BY <3>1, <3>3 DEF OrderInv, BehindInv, Types
      <4>2. \A n \in Message : Precedes(n, k) => n # m
        BY <1>0 DEF Precedes
      <4>3. Precedes(behind[k], k)' /\ behind[k] # m
        BY <4>1, <4>2, <1>7, <2>1, <3>1 DEF Precedes
      <4>4. \A n \in Message : Precedes(n, k)' => arrival'[n] <= arrival'[behind[k]]
        BY <4>1, <4>2, <4>3, <1>4, <1>7, <2>1
      <4>5. QED BY <3>1, <3>3, <4>3, <4>4
    <3>4. QED BY <3>2, <3>3
  <2>2. CASE k = m
    <3>1. CASE chains[SessionOf[m]] = NoMessage
      BY <2>2, <3>1, <1>5, <1>6, <1>8 DEF OrderInv, ChainInv
    <3>2. CASE chains[SessionOf[m]] # NoMessage
      <4> DEFINE b == chains[SessionOf[m]]
      <4>1. b \in Message /\ SessionOf[b] = SessionOf[m] /\ stage[b] # "new" /\ b # m
        BY <3>2, <1>0 DEF OrderInv, ChainInv, Types
      <4> HIDE DEF b
      <4>2. 0 < arrival'[b] /\ arrival'[b] < arrival'[m]
        BY <4>1, <1>4, <1>5, <1>a DEF OrderInv, ArrivalInv, Types
      <4>3. \A n \in Message : Precedes(n, m)' => arrival'[n] <= arrival'[b]
        <5>1. \A n \in Message : SessionOf[n] = SessionOf[m] => arrival[n] <= arrival[b]
          BY <3>2 DEF OrderInv, ChainInv, b
        <5>2. QED BY <5>1, <4>1, <1>4, <1>8
      <4>4. behind'[m] = b
        BY <1>5 DEF b
      <4>5. QED BY <2>2, <4>1, <4>2, <4>3, <4>4 DEF Precedes
    <3>3. QED BY <3>1, <3>2
  <2>3. QED BY <2>1, <2>2
<1>12. SessionOrder'
  <2>1. \A k \in Message : stage'[k] \notin {"new", "chained"} => k # m /\ stage[k] = stage'[k]
    BY <1>4, <1>5
  <2>2. QED BY <2>1, <1>6, <1>7 DEF OrderInv, SessionOrder
<1>13. QED BY <1>9, <1>10, <1>11, <1>12 DEF OrderInv

(* Forgetting a chain: its tail has settled, so every call before it has. *)
LEMMA OrderCleanup ==
  ASSUME Types, OrderInv, NEW m \in Message, Cleanup(m)
  PROVE  OrderInv'
<1>0. /\ stage[m] = "settled" /\ stage' = [stage EXCEPT ![m] = "cleaned"]
      /\ UNCHANGED <<behind, arrival>>
      /\ chains' = IF chains[SessionOf[m]] = m
                   THEN [chains EXCEPT ![SessionOf[m]] = NoMessage]
                   ELSE chains
  BY DEF Cleanup
<1>1. \A n \in Message : /\ (stage'[n] = "new") <=> (stage[n] = "new")
                         /\ Settled(n)' <=> Settled(n)
                         /\ (stage'[n] \in {"new", "chained"}) <=> (stage[n] \in {"new", "chained"})
  BY <1>0 DEF Types, Settled
<1>2. \A n, k \in Message : Precedes(n, k)' <=> Precedes(n, k)
  BY <1>0 DEF Precedes
<1>3. ArrivalInv'
  <2>1. Arrived' = Arrived
    BY <1>0 DEF Arrived
  <2>2. QED BY <1>0, <1>1, <2>1 DEF OrderInv, ArrivalInv
<1>4. BehindInv'
  BY <1>0, <1>1, <1>2 DEF OrderInv, BehindInv, Types
<1>5. SessionOrder'
  BY <1>1, <1>2 DEF OrderInv, SessionOrder
<1>6. ChainInv'
  <2>1. CASE chains[SessionOf[m]] # m
    <3>1. chains' = chains
      BY <1>0, <2>1
    <3>2. QED BY <1>0, <1>1, <3>1 DEF OrderInv, ChainInv, Types
  <2>2. CASE chains[SessionOf[m]] = m
    <3>1. chains' = [chains EXCEPT ![SessionOf[m]] = NoMessage]
      BY <1>0, <2>2
    <3>2. ASSUME NEW n \in Message, SessionOf[n] = SessionOf[m]
          PROVE  stage[n] = "new" \/ Settled(n)
      <4>1. arrival[n] <= arrival[m]
        BY <2>2, <3>2 DEF OrderInv, ChainInv
      <4>2. CASE n = m
        BY <1>0, <4>2 DEF Settled
      <4>3. CASE n # m /\ stage[n] # "new"
        <5>1. Precedes(n, m)
          BY <3>2, <4>1, <4>3 DEF Precedes, OrderInv, ArrivalInv, Types
        <5>2. QED BY <5>1, <1>0 DEF OrderInv, SessionOrder
      <4>4. QED BY <4>2, <4>3
    <3>3. \A n \in Message : SessionOf[n] = SessionOf[m] => chains'[SessionOf[n]] = NoMessage
      BY <3>1 DEF Types
    <3>4. \A n \in Message : SessionOf[n] # SessionOf[m] => chains'[SessionOf[n]] = chains[SessionOf[n]]
      BY <3>1 DEF Types
    <3>5. QED BY <1>0, <1>1, <3>2, <3>3, <3>4 DEF OrderInv, ChainInv, Types
  <2>3. QED BY <2>1, <2>2
<1>7. QED BY <1>3, <1>4, <1>5, <1>6 DEF OrderInv

LEMMA OrderStep == Types /\ SlotInv /\ OrderInv /\ [Next]_vars => OrderInv'
<1> SUFFICES ASSUME Types, SlotInv, OrderInv, [Next]_vars PROVE OrderInv'
  OBVIOUS
<1>1. ASSUME NEW m \in Message, Enqueue(m) PROVE OrderInv'
  BY <1>1, OrderEnqueue
<1>2. ASSUME NEW m \in Message, AcquireFree(m) PROVE OrderInv'
  BY <1>2, OrderLeaveChain DEF AcquireFree
<1>3. ASSUME NEW m \in Message, AcquireWait(m) PROVE OrderInv'
  BY <1>3, OrderLeaveChain DEF AcquireWait
<1>4. ASSUME NEW m \in Message, Run(m) PROVE OrderInv'
  <2>1. UNCHANGED <<behind, chains, arrival>> /\ stage[m] = "granted"
        /\ stage' = [stage EXCEPT ![m] = "running"]
    BY <1>4 DEF Run
  <2>2. \A n \in Message : /\ (stage'[n] = "new") <=> (stage[n] = "new")
                           /\ Settled(n) => Settled(n)'
                           /\ (stage'[n] \notin {"new", "chained"})
                                => (stage[n] \notin {"new", "chained"})
    BY <2>1 DEF Types, Settled
  <2>3. QED BY <2>1, <2>2, OrderUntouched
<1>5. ASSUME NEW m \in Message, Release(m) PROVE OrderInv'
  <2>1. UNCHANGED <<behind, chains, arrival>> /\ stage[m] = "running"
    BY <1>5 DEF Release
  <2>2. \A n \in Message : /\ (stage'[n] = "new") <=> (stage[n] = "new")
                           /\ Settled(n) => Settled(n)'
                           /\ (stage'[n] \notin {"new", "chained"})
                                => (stage[n] \notin {"new", "chained"})
    <3>1. CASE waiters = <<>>
      BY <1>5, <2>1, <3>1 DEF Release, Types, Settled
    <3>2. CASE waiters # <<>>
      <4> DEFINE h == Head(waiters)
      <4>1. h \in Message /\ h = waiters[1] /\ 1 \in 1..Len(waiters)
        BY <3>2, HeadTailProperties, EmptySeq DEF Types
      <4>2. stage[h] = "waiting"
        BY <4>1 DEF SlotInv, WaitInv
      <4>3. stage' = [stage EXCEPT ![m] = "released", ![h] = "granted"]
        BY <1>5, <3>2 DEF Release
      <4>4. QED BY <2>1, <4>1, <4>2, <4>3 DEF Types, Settled
    <3>3. QED BY <3>1, <3>2
  <2>3. QED BY <2>1, <2>2, OrderUntouched
<1>6. ASSUME NEW m \in Message, Settle(m) PROVE OrderInv'
  <2>1. /\ UNCHANGED <<behind, chains, arrival>>
        /\ stage[m] \in {"released", "thrown"}
        /\ stage' = [stage EXCEPT ![m] = "settled"]
    BY <1>6 DEF Settle
  <2>2. \A n \in Message : /\ (stage'[n] = "new") <=> (stage[n] = "new")
                           /\ Settled(n) => Settled(n)'
                           /\ (stage'[n] \notin {"new", "chained"})
                                => (stage[n] \notin {"new", "chained"})
    BY <2>1 DEF Types, Settled
  <2>3. QED BY <2>1, <2>2, OrderUntouched
<1>7. ASSUME NEW m \in Message, Cleanup(m) PROVE OrderInv'
  BY <1>7, OrderCleanup
<1>8. ASSUME NEW m \in Message, Throws(m) PROVE OrderInv'
  <2>1. UNCHANGED <<behind, chains, arrival>> /\ stage[m] = "granted"
        /\ stage' = [stage EXCEPT ![m] = "thrown"]
    BY <1>8 DEF Throws
  <2>2. \A n \in Message : /\ (stage'[n] = "new") <=> (stage[n] = "new")
                           /\ Settled(n) => Settled(n)'
                           /\ (stage'[n] \notin {"new", "chained"})
                                => (stage[n] \notin {"new", "chained"})
    BY <2>1 DEF Types, Settled
  <2>3. QED BY <2>1, <2>2, OrderUntouched
<1>9. CASE UNCHANGED vars
  <2>1. UNCHANGED <<stage, behind, chains, arrival>>
    BY <1>9 DEF vars
  <2>2. QED BY <2>1, OrderUntouched DEF Settled
<1>10. QED
  BY <1>1, <1>2, <1>3, <1>4, <1>5, <1>6, <1>7, <1>8, <1>9 DEF Next, Step

LEMMA OrderKept == Spec => []OrderInv
<1>1. Init => OrderInv
  <2> SUFFICES ASSUME Init PROVE OrderInv
    OBVIOUS
  <2>1. Arrived = {}
    BY DEF Init, Arrived
  <2>2. Cardinality(Arrived) = 0
    BY <2>1, FS_EmptySet
  <2>3. QED
    BY <2>2 DEF Init, OrderInv, ArrivalInv, ChainInv, BehindInv, SessionOrder, Precedes
<1>2. QED BY <1>1, OrderStep, TypesHold, SlotsCounted, PTL DEF Spec

(* A session's calls leave its chain in the order they arrived. *)
THEOREM SessionOrderHolds == Spec => []SessionOrder
<1>1. OrderInv => SessionOrder
  BY DEF OrderInv
<1>2. QED BY <1>1, OrderKept, PTL

(* Types, limit, order and waiters at once: what the run of the scheduler   *)
(* checks of a small instance, for every number of calls and slots.         *)
THEOREM ConsistentHolds == Spec => []Consistent
BY TypeCorrect, SlotBoundHolds, NoIdleSlotHolds, SessionOrderHolds, PTL DEF Consistent
-----------------------------------------------------------------------------
(* The instance brings its own copy of Cardinality: it is the same operator. *)
LEMMA SameCardinality == \A S : Turns!Cardinality(S) = Cardinality(S)
BY DEF Turns!Cardinality, Cardinality

(* A call that begins its turn: its session's earlier calls are done, and   *)
(* its own slot is one that no running call holds.                          *)
LEMMA BeginRefines ==
  ASSUME Types, SlotInv, OrderInv, NEW m \in Message, stage[m] = "granted",
         NEW g \in {"running", "thrown"}, stage' = [stage EXCEPT ![m] = g],
         UNCHANGED arrival
  PROVE  Turns!Begin(m)
<1> DEFINE ph == [n \in Message |-> PhaseOf(stage[n])]
<1> USE DEF PhaseOf
<1>1. ph[m] = "queued" /\ ph' = [ph EXCEPT ![m] = "running"]
  BY DEF Types
<1>2. \A n \in Message : Precedes(n, m) => ph[n] = "done"
  BY DEF OrderInv, SessionOrder, Settled
<1>3. Cardinality(Turns!Running) < MaxConcurrent \/ ~(MaxConcurrent > 0)
  <2> DEFINE R == {n \in Message : ph[n] = "running"}
  <2>1. R \subseteq Slots \ {m} /\ m \in Slots
    BY DEF Slots, Holders, SlotInv, LeakInv, Types
  <2>2. IsFiniteSet(Slots) /\ Cardinality(Slots) \in Nat
    BY SlotsFinite
  <2>3. /\ IsFiniteSet(Slots \ {m})
        /\ Cardinality(Slots \ {m}) = Cardinality(Slots) - 1
    BY <2>1, <2>2, FS_RemoveElement
  <2>4. IsFiniteSet(R) /\ Cardinality(R) <= Cardinality(Slots \ {m})
    BY <2>1, <2>3, FS_Subset
  <2>5. Cardinality(R) \in Nat
    BY <2>4, FS_CardinalityType
  <2>6. MaxConcurrent > 0 => Cardinality(R) < MaxConcurrent
    BY <2>2, <2>3, <2>4, <2>5 DEF SlotInv
  <2>7. QED BY <2>6 DEF Turns!Running
<1>4. \A n \in Message : Turns!Precedes(n, m) => ph[n] = "done"
  BY <1>2 DEF Turns!Precedes, Precedes
<1> HIDE DEF ph, PhaseOf
<1>5. QED BY ONLY <1>1, <1>3, <1>4, UNCHANGED arrival, SameCardinality
             DEF Turns!Begin, ph

(* One callback is one step of SessionTurns, or none: enqueue submits, the  *)
(* start of the handler begins the turn, and its release, or for one that   *)
(* threw the rejection of its promise, ends it.                             *)
LEMMA StepRefines ==
  Types /\ SlotInv /\ OrderInv /\ [Next]_vars => [Turns!Next]_(Turns!absVars)
<1> SUFFICES ASSUME Types, SlotInv, OrderInv, [Next]_vars
             PROVE  Turns!Next \/ UNCHANGED Turns!absVars
  OBVIOUS
<1> DEFINE ph == [n \in Message |-> PhaseOf(stage[n])]
<1> USE DEF PhaseOf
<1>1. ASSUME NEW m \in Message, Enqueue(m) PROVE Turns!Submit(m)
  <2>1. ph[m] = "new" /\ ph' = [ph EXCEPT ![m] = "queued"]
    BY <1>1 DEF Enqueue, Types
  <2>2. arrival' = [arrival EXCEPT ![m] = Cardinality(Turns!Arrived) + 1]
    <3>1. Turns!Arrived = Arrived
      BY DEF Turns!Arrived, Arrived
    <3>2. QED BY ONLY <1>1, <3>1 DEF Enqueue
  <2> HIDE DEF ph, PhaseOf
  <2>3. QED BY ONLY <2>1, <2>2, SameCardinality DEF Turns!Submit, ph
<1>2. ASSUME NEW m \in Message, AcquireFree(m) PROVE UNCHANGED Turns!absVars
  <2>1. ph' = ph
    BY <1>2 DEF AcquireFree, Types
  <2>2. QED BY <1>2, <2>1 DEF AcquireFree, Turns!absVars
<1>3. ASSUME NEW m \in Message, AcquireWait(m) PROVE UNCHANGED Turns!absVars
  <2>1. ph' = ph
    BY <1>3 DEF AcquireWait, Types
  <2>2. QED BY <1>3, <2>1 DEF AcquireWait, Turns!absVars
<1>4. ASSUME NEW m \in Message, Run(m) PROVE Turns!Begin(m)
  BY <1>4, BeginRefines DEF Run
<1>5. ASSUME NEW m \in Message, Release(m) PROVE Turns!End(m)
  <2>1. ph[m] = "running" /\ ph' = [ph EXCEPT ![m] = "done"]
    <3>1. CASE waiters = <<>>
      BY <1>5, <3>1 DEF Release, Types
    <3>2. CASE waiters # <<>>
      <4> DEFINE h == Head(waiters)
      <4>1. h \in Message /\ h = waiters[1] /\ 1 \in 1..Len(waiters)
        BY <3>2, HeadTailProperties, EmptySeq DEF Types
      <4>2. stage[h] = "waiting" /\ stage[m] = "running"
        BY <4>1, <1>5 DEF SlotInv, WaitInv, Release
      <4>3. stage' = [stage EXCEPT ![m] = "released", ![h] = "granted"]
        BY <1>5, <3>2 DEF Release
      <4>4. QED BY <4>1, <4>2, <4>3 DEF Types
    <3>3. QED BY <3>1, <3>2
  <2>2. QED BY <1>5, <2>1 DEF Release, Turns!End
<1>6. ASSUME NEW m \in Message, Settle(m)
      PROVE  Turns!End(m) \/ UNCHANGED Turns!absVars
  <2>1. CASE stage[m] = "released"
    <3>1. ph' = ph
      BY <1>6, <2>1 DEF Settle, Types
    <3>2. QED BY <1>6, <3>1 DEF Settle, Turns!absVars
  <2>2. CASE stage[m] = "thrown"
    <3>1. ph[m] = "running" /\ ph' = [ph EXCEPT ![m] = "done"]
      BY <1>6, <2>2 DEF Settle, Types
    <3>2. QED BY <1>6, <3>1 DEF Settle, Turns!End
  <2>3. QED BY <1>6, <2>1, <2>2 DEF Settle
<1>7. ASSUME NEW m \in Message, Cleanup(m) PROVE UNCHANGED Turns!absVars
  <2>1. ph' = ph
    BY <1>7 DEF Cleanup, Types
  <2>2. QED BY <1>7, <2>1 DEF Cleanup, Turns!absVars
<1>8. ASSUME NEW m \in Message, Throws(m) PROVE Turns!Begin(m)
  BY <1>8, BeginRefines DEF Throws
<1>9. CASE UNCHANGED vars
  BY <1>9 DEF vars, Turns!absVars
<1>10. QED
  BY <1>1, <1>2, <1>3, <1>4, <1>5, <1>6, <1>7, <1>8, <1>9
     DEF Next, Step, Turns!Next

(* The scheduler implements SessionTurns. *)
THEOREM Refinement == Spec => ImplementsSessionTurns
<1>1. Init => Turns!Init
  BY DEF Init, Turns!Init, PhaseOf
<1>2. QED
  BY <1>1, StepRefines, TypesHold, SlotsCounted, OrderKept, PTL
     DEF Spec, ImplementsSessionTurns, Turns!Spec
=============================================================================
