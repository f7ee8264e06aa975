------------------------- MODULE ChannelTurnsProofs -------------------------
(***************************************************************************)
(* The inbound half of the gateway for any number of messages, sessions,   *)
(* limits and faults: first the bus alone, with any handler, then the      *)
(* turns, which are one.                                                   *)
(*                                                                         *)
(* Of the bus: an accepted message is on disk until it is handled, it has  *)
(* one handler, an acknowledgement is the end of it, its key is remembered *)
(* as long as it has a record, and only faults buy it attempts.  What      *)
(* these proofs are about is the order of writes, and what deliverInbound  *)
(* skips.                                                                  *)
(*                                                                         *)
(* Of the turns: a session has one turn, the one that its file names, what *)
(* the bus waits for is what stands in the lines, and nothing is turned    *)
(* away while nothing has failed.  The runtime is a handler of             *)
(* InboundHandoff, so what holds of the bus holds of the whole.            *)
(***************************************************************************)
EXTENDS ChannelTurns, FiniteSetTheorems, SequenceTheorems, TLAPS
-----------------------------------------------------------------------------
(* What is owed is on disk: beside the types of the three variables that it *)
(* reads this is inductive.  The dead letter is there before the record     *)
(* goes, the record is back before the letter goes, and nothing else        *)
(* deletes a record than the acknowledgement.                               *)
Types == /\ status \in [Message -> {"none", "pending", "delivering"}]
         /\ fate   \in [Message -> {"unseen", "owed", "handled", "acked", "pruned"}]
         /\ dead   \in Seq(Message)

Owing == Types /\ OwedIsOnDisk
-----------------------------------------------------------------------------
(* Taking a letter out leaves the others where they can be found. *)
LEMMA WithoutKeeps ==
  ASSUME NEW s \in Seq(Message), NEW m \in Message
  PROVE  /\ Without(s, m) \in Seq(Message)
         /\ Len(Without(s, m)) <= Len(s)
         /\ ToSet(s) \ {m} \subseteq ToSet(Without(s, m))
         /\ ToSet(Without(s, m)) \subseteq ToSet(s)
         /\ IsInjective(s) => IsInjective(Without(s, m)) /\ m \notin ToSet(Without(s, m))
<1>1. CASE m \notin ToSet(s)
  BY <1>1 DEF Without
<1>2. CASE m \in ToSet(s)
  <2> DEFINE i == CHOOSE k \in DOMAIN s : s[k] = m
             t == [k \in 1..(Len(s) - 1) |-> IF k < i THEN s[k] ELSE s[k + 1]]
  <2>1. i \in 1..Len(s) /\ s[i] = m
    BY <1>2 DEF ToSet
  <2>2. Without(s, m) = t
    BY <1>2 DEF Without
  <2> HIDE DEF i
  <2>3. Len(s) \in Nat /\ \A k \in 1..Len(s) : s[k] \in Message
    OBVIOUS
  <2>4. \A k \in 1..(Len(s) - 1) : t[k] \in Message
    BY <2>1, <2>3
  <2>5. t \in Seq(Message) /\ DOMAIN t = 1..(Len(s) - 1)
    BY <2>1, <2>3, <2>4, IsASeq
  <2>8. Len(t) <= Len(s)
    BY <2>1, <2>3, <2>5
  <2>6. ASSUME NEW n \in ToSet(s) \ {m} PROVE n \in ToSet(t)
    <3>1. PICK k \in 1..Len(s) : s[k] = n
      BY DEF ToSet
    <3>2. k # i
      BY <2>1, <3>1
    <3>3. CASE k < i
      <4>1. k \in 1..(Len(s) - 1) /\ t[k] = n
        BY <2>1, <3>1, <3>3
      <4>2. QED BY <4>1, <2>5 DEF ToSet
    <3>4. CASE k > i
      <4>1. k - 1 \in 1..(Len(s) - 1) /\ t[k - 1] = n
        BY <2>1, <3>1, <3>4
      <4>2. QED BY <4>1, <2>5 DEF ToSet
    <3>5. QED BY <2>1, <3>2, <3>3, <3>4
  <2>9. \A k \in DOMAIN t : \E j \in 1..Len(s) : t[k] = s[j] /\ j # i
    <3>1. ASSUME NEW k \in 1..(Len(s) - 1)
          PROVE  \E j \in 1..Len(s) : t[k] = s[j] /\ j # i
      <4>1. CASE k < i
        BY <2>1, <2>3, <4>1
      <4>2. CASE ~(k < i)
        <5>1. k + 1 \in 1..Len(s) /\ k + 1 # i /\ t[k] = s[k + 1]
          BY <2>1, <2>3, <4>2
        <5> QED BY <5>1
      <4> QED BY <4>1, <4>2
    <3> QED BY <2>5, <3>1
  <2>10. ToSet(t) \subseteq ToSet(s)
    BY <2>3, <2>9 DEF ToSet
  <2>11. ASSUME IsInjective(s) PROVE IsInjective(t) /\ m \notin ToSet(t)
    <3>1. \A j, k \in 1..Len(s) : s[j] = s[k] => j = k
      BY <2>11 DEF IsInjective
    <3>2. m \notin ToSet(t)
      BY <2>1, <2>9, <3>1 DEF ToSet
    <3>3. ASSUME NEW j \in 1..(Len(s) - 1), NEW k \in 1..(Len(s) - 1), t[j] = t[k]
          PROVE  j = k
      BY <2>1, <2>3, <3>1, <3>3
    <3>4. IsInjective(t)
      BY <2>5, <3>3 DEF IsInjective
    <3> QED BY <3>2, <3>4
  <2>7. QED BY <2>2, <2>5, <2>6, <2>8, <2>10, <2>11
<1>3. QED BY <1>1, <1>2

(* A new dead letter is among the dead letters: it is the last to be pruned.*)
LEMMA LetterIsKept ==
  ASSUME NEW m \in Message, dead \in Seq(Message)
  PROVE  /\ WithLetter(m) \in Seq(Message) /\ Len(WithLetter(m)) <= MaxDead
         /\ m \in ToSet(WithLetter(m))
         /\ ToSet(WithLetter(m)) \subseteq ToSet(dead) \cup {m}
         /\ IsInjective(dead) => IsInjective(WithLetter(m))
<1> DEFINE w == Append(Without(dead, m), m)
<1>1. w \in Seq(Message) /\ Len(w) \in Nat \ {0} /\ w[Len(w)] = m
  BY WithoutKeeps, AppendProperties
<1>1a. ToSet(w) \subseteq ToSet(dead) \cup {m} /\ (IsInjective(dead) => IsInjective(w))
  <2> DEFINE v == Without(dead, m)
  <2>1. /\ v \in Seq(Message) /\ ToSet(v) \subseteq ToSet(dead)
        /\ IsInjective(dead) => IsInjective(v) /\ m \notin ToSet(v)
    BY WithoutKeeps
  <2>2. /\ Len(w) = Len(v) + 1 /\ w[Len(v) + 1] = m
        /\ \A i \in 1..Len(v) : w[i] = v[i]
    BY <2>1, AppendProperties
  <2>3. /\ Len(v) \in Nat /\ DOMAIN v = 1..Len(v) /\ DOMAIN w = 1..(Len(v) + 1)
        /\ ToSet(v) = {v[i] : i \in 1..Len(v)} /\ ToSet(w) = {w[i] : i \in 1..(Len(v) + 1)}
    BY <1>1, <2>1, <2>2 DEF ToSet
  <2> HIDE DEF w, v
  <2>4. \A i \in 1..(Len(v) + 1) : i \in 1..Len(v) \/ i = Len(v) + 1
    BY <2>3
  <2>5. ToSet(w) \subseteq ToSet(dead) \cup {m}
    BY <2>1, <2>2, <2>3, <2>4
  <2>6. ASSUME IsInjective(dead) PROVE IsInjective(w)
    <3>1. \A i, j \in 1..Len(v) : v[i] = v[j] => i = j
      BY <2>1, <2>3, <2>6 DEF IsInjective
    <3>2. \A i \in 1..Len(v) : v[i] # m
      BY <2>1, <2>3, <2>6
    <3>3. \A i, j \in 1..(Len(v) + 1) : w[i] = w[j] => i = j
      BY <2>2, <2>4, <3>1, <3>2
    <3> QED BY <2>3, <3>3 DEF IsInjective
  <2> QED BY <2>5, <2>6
<1> HIDE DEF w
<1>2. MaxDead \in Nat \ {0}
  BY InboundAssumption
<1>3. CASE Len(w) <= MaxDead
  <2>1. Prune(w) = w
    BY <1>3 DEF Prune
  <2>2. m \in ToSet(w)
    BY <1>1 DEF ToSet
  <2>3. QED BY <1>1, <1>1a, <1>3, <2>1, <2>2 DEF WithLetter, w
<1>4. CASE ~(Len(w) <= MaxDead)
  <2> DEFINE a == Len(w) - MaxDead + 1
             p == SubSeq(w, a, Len(w))
  <2>1. Prune(w) = p
    BY <1>4 DEF Prune
  <2>2. a \in 1..Len(w)
    BY <1>1, <1>2, <1>4
  <2>3. p \in Seq(Message) /\ Len(p) = MaxDead /\ p[MaxDead] = w[Len(w)]
    BY <1>1, <1>2, <2>2, SubSeqProperties
  <2> HIDE DEF p
  <2>4. m \in ToSet(p)
    <3>1. MaxDead \in DOMAIN p
      BY <1>2, <2>3
    <3>2. QED BY <1>1, <2>3, <3>1 DEF ToSet
  <2>5. /\ DOMAIN p = 1..MaxDead /\ DOMAIN w = 1..Len(w)
        /\ \A i \in 1..MaxDead : a + i - 1 \in 1..Len(w) /\ p[i] = w[a + i - 1]
    BY <1>1, <1>2, <1>4, <2>2, <2>3, SubSeqProperties DEF p
  <2>6. ToSet(p) \subseteq ToSet(w)
    BY <2>5 DEF ToSet
  <2>7. ASSUME IsInjective(w) PROVE IsInjective(p)
    <3>1. ASSUME NEW i \in 1..MaxDead, NEW j \in 1..MaxDead, p[i] = p[j]
          PROVE  i = j
      <4>1. a + i - 1 = a + j - 1
        BY <2>5, <2>7, <3>1 DEF IsInjective
      <4>2. i \in Int /\ j \in Int /\ a \in Int
        BY <1>1, <1>2
      <4> HIDE DEF a
      <4> QED BY <4>1, <4>2
    <3> QED BY <2>5, <3>1 DEF IsInjective
  <2>8. QED BY <1>1a, <1>2, <2>1, <2>3, <2>4, <2>6, <2>7 DEF WithLetter, w
<1>5. QED BY <1>3, <1>4
-----------------------------------------------------------------------------
(* A step that takes no record away, changes no dead letter and owes no     *)
(* message that it gives no record preserves the invariant.                 *)
LEMMA RecordsKept ==
  ASSUME Owing, Types', dead' = dead, Recorded \subseteq Recorded',
         \A m \in Message : fate'[m] = "owed" => fate[m] = "owed" \/ m \in Recorded'
  PROVE  Owing'
BY DEF Owing, Types, OwedIsOnDisk, Recorded, DeadLetters

(* deliverInbound writes statuses, and deletes no record. *)
LEMMA DeliverKeeps ==
  ASSUME NEW asked, NEW st \in [Message -> {"none", "pending", "delivering"}],
         NEW at, NEW wt, Deliver(asked, st, at, wt)
  PROVE  /\ status' \in [Message -> {"none", "pending", "delivering"}]
         /\ \A m \in Message : status'[m] = "none" <=> st[m] = "none"
BY DEF Deliver

(* A message that joins the dead letters may lose its record; what the file *)
(* prunes for it is no longer owed, unless it still has a record.           *)
LEMMA LetterWritten ==
  ASSUME Owing, NEW m \in Message, dead' = WithLetter(m), fate' = Buried(ToSet(dead')),
         status' \in [Message -> {"none", "pending", "delivering"}],
         Recorded \ {m} \subseteq Recorded'
  PROVE  Owing'
<1>1. dead' \in Seq(Message) /\ m \in DeadLetters'
  BY LetterIsKept DEF Owing, Types, DeadLetters
<1>2. fate' \in [Message -> {"unseen", "owed", "handled", "acked", "pruned"}]
  BY DEF Owing, Types, Buried
<1>3. ASSUME NEW n \in Message, fate'[n] = "owed"
      PROVE  n \in Recorded' \cup DeadLetters'
  <2>1. /\ fate[n] = "owed"
        /\ n \in DeadLetters' \/ n \notin DeadLetters \/ n \in Recorded
    BY <1>3 DEF Buried, DeadLetters, Owing, Types
  <2>2. n \in Recorded \cup DeadLetters
    BY <2>1 DEF Owing, OwedIsOnDisk
  <2>3. QED BY <1>1, <2>1, <2>2
<1>4. QED BY <1>1, <1>2, <1>3 DEF Owing, Types, OwedIsOnDisk

(* recoverInbound deletes no record. *)
LEMMA RecoverKeeps ==
  ASSUME Owing, Recover
  PROVE  Owing'
<1> DEFINE st == [m \in Message |-> IF status[m] = "delivering" THEN "pending" ELSE status[m]]
<1>1. st \in [Message -> {"none", "pending", "delivering"}]
  BY DEF Owing, Types
<1>2. /\ dead' = dead /\ fate' = fate
      /\ \E asked, wt : Deliver(asked, st, attempts, wt)
  BY DEF Recover
<1>3. \A m \in Message : st[m] = "none" <=> status[m] = "none"
  BY DEF Owing, Types
<1> HIDE DEF st
<1>4. /\ status' \in [Message -> {"none", "pending", "delivering"}]
      /\ \A m \in Message : status'[m] = "none" <=> st[m] = "none"
  BY <1>1, <1>2, DeliverKeeps
<1>5. Recorded \subseteq Recorded'
  BY <1>3, <1>4 DEF Recorded
<1>6. Types'
  BY <1>2, <1>4 DEF Owing, Types
<1>7. QED BY <1>2, <1>5, <1>6, RecordsKept

(* The write of accept, whether or not the delivery follows. *)
LEMMA AcceptKeeps ==
  ASSUME Owing, NEW m \in Message, Accept(m), dead' = dead,
         status' \in [Message -> {"none", "pending", "delivering"}],
         \A n \in Message : status'[n] = "none" => n # m /\ status[n] = "none"
  PROVE  Owing'
<1>1. Types'
  BY DEF Owing, Types, Accept
<1>2. Recorded \subseteq Recorded' /\ m \in Recorded'
  BY DEF Recorded
<1>3. \A n \in Message : fate'[n] = "owed" => fate[n] = "owed" \/ n \in Recorded'
  BY <1>2 DEF Owing, Types, Accept
<1>4. QED BY <1>1, <1>2, <1>3, RecordsKept
-----------------------------------------------------------------------------
(* Publishing, in full, unmarked, or cut by a crash. *)
LEMMA PublishKeeps ==
  ASSUME Owing, NEW m \in Message,
         Publish(m) \/ PublishUnmarked(m) \/ CrashAccepting(m)
  PROVE  Owing'
<1> DEFINE st == [status EXCEPT ![m] = "pending"]
<1>1. st \in [Message -> {"none", "pending", "delivering"}]
  BY DEF Owing, Types
<1>2. \A n \in Message : st[n] = "none" => n # m /\ status[n] = "none"
  BY DEF Owing, Types
<1>3. Accept(m) /\ dead' = dead
  BY DEF Publish, PublishUnmarked, CrashAccepting
<1>4. status' = st \/ \E at : Deliver({m}, st, at, wait)
  BY DEF Publish, PublishUnmarked, Jam, CrashAccepting
<1> HIDE DEF st
<1>5. /\ status' \in [Message -> {"none", "pending", "delivering"}]
      /\ \A n \in Message : status'[n] = "none" => st[n] = "none"
  BY <1>1, <1>4, DeliverKeeps
<1>6. QED BY <1>2, <1>3, <1>5, AcceptKeeps

(* Requeueing makes the record before it takes the dead letter. *)
LEMMA RequeueKeeps ==
  ASSUME Owing, NEW m \in Message,
         RetryInbound(m) \/ RetryUnmarked(m) \/ RetryUnremoved(m) \/ CrashRequeueing(m)
  PROVE  Owing'
<1>1. \/ dead' = dead
      \/ dead' = Without(dead, m)
  BY DEF RetryInbound, RetryUnmarked, RetryUnremoved, Requeued, CrashRequeueing
<1>2. /\ dead' \in Seq(Message)
      /\ DeadLetters \ {m} \subseteq DeadLetters'
  BY <1>1, WithoutKeeps DEF Owing, Types, DeadLetters
<1>3. \E s \in {"pending", "delivering"} : status' = [status EXCEPT ![m] = s]
  BY DEF RetryInbound, RetryUnmarked, Jam, RetryUnremoved, Requeued, CrashRequeueing
<1>4. /\ status' \in [Message -> {"none", "pending", "delivering"}]
      /\ m \in Recorded' /\ Recorded \subseteq Recorded'
  BY <1>3 DEF Owing, Types, Recorded
<1>5. fate' = [fate EXCEPT ![m] = "owed"]
  BY DEF RetryInbound, RetryUnmarked, RetryUnremoved, Requeued, CrashRequeueing, Requeue
<1>6. QED BY <1>2, <1>4, <1>5 DEF Owing, Types, OwedIsOnDisk

(* A handler's promise settles: the record goes only when the message was   *)
(* handled, or lies with the dead letters.                                  *)
LEMMA SettleKeeps ==
  ASSUME Owing, NEW m \in Message, Settle(m) \/ CrashDeadLettering(m)
  PROVE  Owing'
<1> USE DEF Owing, Types
<1>1. CASE Ack(m)
  <2>1. fate' = [fate EXCEPT ![m] = "acked"] /\ status' = [status EXCEPT ![m] = "none"]
        /\ dead' = dead
    BY <1>1 DEF Ack, Unrecord
  <2>2. QED BY <2>1 DEF OwedIsOnDisk, Recorded, DeadLetters
<1>2. CASE Retry(m) \/ RetryUnsaved(m) \/ DeadLetterUnsaved(m)
  <2>1. \/ dead' = dead /\ fate' = fate
        \/ dead' = WithLetter(m) /\ fate' = Buried(ToSet(dead'))
    BY <1>2 DEF Retry, RetryUnsaved, DeadLetterUnsaved, history, durable
  <2>2. \/ status' = status
        \/ status' = [status EXCEPT ![m] = IF @ = "none" THEN @ ELSE "pending"]
    BY <1>2 DEF Retry, RetryUnsaved, DeadLetterUnsaved, MarkRetry, durable
  <2>3. /\ status' \in [Message -> {"none", "pending", "delivering"}]
        /\ Recorded \subseteq Recorded'
    BY <2>2 DEF Recorded
  <2>4. CASE dead' = dead /\ fate' = fate
    BY <2>3, <2>4, RecordsKept
  <2>5. CASE dead' = WithLetter(m) /\ fate' = Buried(ToSet(dead'))
    BY <2>3, <2>5, LetterWritten DEF Recorded
  <2>6. QED BY <2>1, <2>4, <2>5
<1>3. CASE DeadLetter(m)
  <2>1. /\ dead' = WithLetter(m) /\ fate' = Buried(ToSet(dead'))
        /\ status' = [status EXCEPT ![m] = "none"]
    BY <1>3 DEF DeadLetter, Unrecord
  <2>2. QED BY <2>1, LetterWritten DEF Recorded
<1>4. CASE CrashDeadLettering(m)
  <2>1. dead' = WithLetter(m) /\ fate' = Buried(ToSet(dead')) /\ status' = status
    BY <1>4 DEF CrashDeadLettering
  <2>2. QED BY <2>1, LetterWritten DEF Recorded
<1>5. QED BY <1>1, <1>2, <1>3, <1>4 DEF Settle

(* Every step of the gateway preserves the invariant. *)
LEMMA StepKeeps ==
  ASSUME Owing, [Next]_vars
  PROVE  Owing'
<1>1. ASSUME UNCHANGED <<status, fate, dead>> PROVE Owing'
  BY <1>1 DEF Owing, Types, OwedIsOnDisk, Recorded, DeadLetters
<1>2. ASSUME NEW m \in Message, HandlerSettles(m) PROVE Owing'
  <2>1. /\ status' = status /\ dead' = dead
        /\ fate' = fate \/ fate' = [fate EXCEPT ![m] = "handled"]
    BY <1>2 DEF HandlerSettles, HandlerResolves, HandlerRejects, durable, history
  <2>2. Types' /\ Recorded' = Recorded
    BY <2>1 DEF Owing, Types, Recorded
  <2>3. QED BY <2>1, <2>2, RecordsKept DEF Owing, Types
<1>3. ASSUME NEW m \in Message, RetryTimerFires(m) PROVE Owing'
  <2>1. dead' = dead /\ fate' = fate
    BY <1>3 DEF RetryTimerFires
  <2>2. status' = status \/ Deliver({m}, status, attempts, wait)
    BY <1>3 DEF RetryTimerFires
  <2>3. /\ status' \in [Message -> {"none", "pending", "delivering"}]
        /\ Recorded \subseteq Recorded'
    BY <2>2, DeliverKeeps DEF Owing, Types, Recorded
  <2>4. Types'
    BY <2>1, <2>3 DEF Owing, Types
  <2>5. QED BY <2>1, <2>3, <2>4, RecordsKept
<1>4. ASSUME NEW m \in Message, BackoffElapses(m) PROVE Owing'
  BY <1>1, <1>4 DEF BackoffElapses, history
<1>5. CASE RecoveryTimerFires \/ Started
  BY <1>5, RecoverKeeps DEF RecoveryTimerFires, Started
<1>6. CASE Start \/ Stop \/ Close \/ Exit \/ Crash
  BY <1>1, <1>6 DEF Start, Stop, Close, Exit, Crash, durable, history
<1>7. CASE UNCHANGED vars
  BY <1>1, <1>7 DEF vars, durable, history
<1>8. QED
  BY <1>2, <1>3, <1>4, <1>5, <1>6, <1>7, PublishKeeps, RequeueKeeps, SettleKeeps
     DEF Next, Serve, Die

(* An accepted message that was not handled yet has a record or a dead      *)
(* letter, whatever steps and crashes came between (state.ts and            *)
(* inbound-dlq.ts, as bus.ts orders their writes).                          *)
THEOREM OwedStaysOnDisk == Spec => []OwedIsOnDisk
<1>1. Init => Owing
  BY EmptySeq DEF Init, Owing, Types, OwedIsOnDisk
<1>2. Owing /\ [Next]_vars => Owing'
  BY StepKeeps
<1>3. Owing => OwedIsOnDisk
  BY DEF Owing
<1>4. QED BY <1>1, <1>2, <1>3, PTL DEF Spec
-----------------------------------------------------------------------------
(* Whatever the bus waits for is in inboundDelivering, until close forgets  *)
(* that set; after it nothing is delivered, and the process ends.           *)
TasksKnown == /\ task \in [Message -> {"none", "running", "resolved", "rejected"}]
              /\ phase # "closed" => \A m \in Message : task[m] # "none" => m \in delivering

Single == TasksKnown /\ OneHandler

(* deliverInbound starts handlers for what is not in delivering only.       *)
LEMMA DeliverOnce ==
  ASSUME Single, NEW asked \in SUBSET Message, NEW st, NEW at, NEW wt,
         Deliver(asked, st, at, wt), Listening \/ asked = {} \/ phase = "draining"
  PROVE  /\ task' \in [Message -> {"none", "running", "resolved", "rejected"}]
         /\ phase # "closed" => \A m \in Message : task'[m] # "none" => m \in delivering'
         /\ OneHandler'
<1>1. task' = [m \in Message |-> IF m \in Idle(asked) /\ Listening
                                 THEN "running" ELSE task[m]]
  BY DEF Deliver
<1>2. /\ delivering' = delivering \cup Idle(asked)
      /\ doubled' = doubled \cup {m \in Idle(asked) : Listening /\ task[m] # "none"}
  BY DEF Deliver
<1>3. Idle(asked) \subseteq Message /\ Idle(asked) \cap delivering = {}
  BY DEF Idle
<1>4. QED BY <1>1, <1>2, <1>3 DEF Single, TasksKnown, OneHandler, Listening

(* recoverInbound, by the timer or at the start.                            *)
LEMMA RecoverOnce ==
  ASSUME Single, Recover, phase' = phase \/ phase = "starting" PROVE Single'
<1> DEFINE wt == [m \in Message |-> IF status[m] = "delivering" THEN "unset" ELSE wait[m]]
           asked == IF Listening THEN {m \in Recorded : wt[m] # "future"} ELSE {}
<1>1. asked \in SUBSET Message /\ (Listening \/ asked = {})
  BY DEF Recorded
<1>2. \E st : Deliver(asked, st, attempts, wt)
  BY DEF Recover
<1> HIDE DEF wt, asked
<1>3. QED BY <1>1, <1>2, DeliverOnce DEF Single, TasksKnown

(* The memory of the process is gone, and with it every promise.            *)
LEMMA LostOnce == ASSUME Single, Lost PROVE Single'
BY DEF Single, TasksKnown, OneHandler, Lost

(* A message enters the handoff, or enters it again.                        *)
LEMMA EnterOnce ==
  ASSUME Single, NEW m \in Message,
         \/ Publish(m) \/ PublishUnmarked(m)
         \/ RetryInbound(m) \/ RetryUnmarked(m) \/ RetryUnremoved(m)
  PROVE  Single'
<1>1. CASE Publish(m)
  <2>1. phase' = phase
    BY <1>1 DEF Publish
  <2>2. CASE Listening
    <3>1. \E st, at : Deliver({m}, st, at, wait)
      BY <1>1, <2>2 DEF Publish
    <3>2. QED BY <2>1, <2>2, <3>1, DeliverOnce DEF Single, TasksKnown
  <2>3. CASE ~Listening
    <3>1. UNCHANGED <<task, delivering, doubled>>
      BY <1>1, <2>3 DEF Publish
    <3>2. QED BY <2>1, <3>1 DEF Single, TasksKnown, OneHandler
  <2>4. QED BY <2>2, <2>3
<1>2. CASE PublishUnmarked(m) \/ RetryUnmarked(m) \/ RetryUnremoved(m)
  BY <1>2 DEF PublishUnmarked, RetryUnmarked, Jam, RetryUnremoved, volatile,
              Single, TasksKnown, OneHandler
<1>3. CASE RetryInbound(m)
  <2>1. /\ phase' = phase
        /\ task' = [n \in Message |-> IF n \in Idle({m}) THEN "running" ELSE task[n]]
        /\ delivering' = delivering \cup Idle({m})
        /\ doubled' = doubled \cup {n \in Idle({m}) : task[n] # "none"}
        /\ phase = "up"
    BY <1>3 DEF RetryInbound
  <2>2. Idle({m}) \subseteq Message /\ Idle({m}) \cap delivering = {}
    BY DEF Idle
  <2>3. QED BY <2>1, <2>2 DEF Single, TasksKnown, OneHandler
<1>4. QED BY <1>1, <1>2, <1>3

(* A promise settles, or what follows from that is done: it leaves both.    *)
LEMMA SettleOnce ==
  ASSUME Single, NEW m \in Message, Settle(m) \/ HandlerSettles(m)
  PROVE  Single'
<1>1. CASE Settle(m)
  <2>1. /\ task' = [task EXCEPT ![m] = "none"] /\ delivering' = delivering \ {m}
        /\ phase' = phase /\ doubled' = doubled
    BY <1>1 DEF Settle, Ack, Retry, RetryUnsaved, DeadLetter, DeadLetterUnsaved,
                Failing, history
  <2>2. QED BY <2>1 DEF Single, TasksKnown, OneHandler
<1>2. CASE HandlerSettles(m)
  <2>1. /\ \E s \in {"resolved", "rejected"} : task' = [task EXCEPT ![m] = s]
        /\ task[m] = "running" /\ UNCHANGED <<delivering, phase, doubled>>
    BY <1>2 DEF HandlerSettles, HandlerResolves, HandlerRejects, history
  <2>2. QED BY <2>1 DEF Single, TasksKnown, OneHandler
<1>3. QED BY <1>1, <1>2

(* Every step of the gateway leaves a message with one handler.             *)
LEMMA StepOnce == ASSUME Single, [Next]_vars PROVE Single'
<1>1. ASSUME UNCHANGED <<task, delivering, phase, doubled>> PROVE Single'
  BY <1>1 DEF Single, TasksKnown, OneHandler
<1>2. ASSUME NEW m \in Message, RetryTimerFires(m) PROVE Single'
  <2>1. CASE Open
    <3>1. Deliver({m}, status, attempts, wait) /\ phase' = phase
      BY <1>2, <2>1 DEF RetryTimerFires
    <3>2. Listening \/ phase = "draining"
      BY <2>1 DEF Open, Listening
    <3>3. QED BY <3>1, <3>2, DeliverOnce DEF Single, TasksKnown
  <2>2. CASE ~Open
    BY <1>1, <1>2, <2>2 DEF RetryTimerFires
  <2>3. QED BY <2>1, <2>2
<1>3. ASSUME NEW m \in Message, BackoffElapses(m) PROVE Single'
  BY <1>1, <1>3 DEF BackoffElapses, volatile, history
<1>4. CASE RecoveryTimerFires \/ Started
  BY <1>4, RecoverOnce DEF RecoveryTimerFires, Started
<1>5. CASE Start \/ Stop \/ Close
  BY <1>5 DEF Start, Stop, Close, Single, TasksKnown, OneHandler, volatile, history
<1>6. CASE Exit \/ Die
  BY <1>6, LostOnce DEF Exit, Die, CrashAccepting, CrashDeadLettering, CrashRequeueing, Crash
<1>7. CASE UNCHANGED vars
  BY <1>1, <1>7 DEF vars, volatile, history
<1>8. QED
  BY <1>2, <1>3, <1>4, <1>5, <1>6, <1>7, EnterOnce, SettleOnce DEF Next, Serve

(* One handler per message, for every number of messages, timers, requeues, *)
(* failed writes and crashes (bus.ts, inboundDelivering).                   *)
THEOREM OneHandlerHolds == Spec => []OneHandler
<1>1. Init => Single
  BY DEF Init, Single, TasksKnown, OneHandler
<1>2. Single /\ [Next]_vars => Single'
  BY StepOnce
<1>3. Single => OneHandler
  BY DEF Single
<1>4. QED BY <1>1, <1>2, <1>3, PTL DEF Spec
-----------------------------------------------------------------------------
(* An acknowledged message has no record, so that neither a recovery nor a  *)
(* timer of the file finds it: whatever writes a record, but for markRetry, *)
(* which makes none, also accepts the message anew.                         *)
Gone == Owing /\ \A m \in Message : fate[m] = "acked" => m \notin Recorded

(* A step that acknowledges nothing and gives a record to none but what it  *)
(* accepts preserves that.                                                  *)
LEMMA StaysGone ==
  ASSUME Gone, Owing',
         \A m \in Message : fate'[m] = "acked" =>
           fate[m] = "acked" /\ (status[m] = "none" => status'[m] = "none")
  PROVE  Gone'
BY DEF Gone, Recorded

(* A message enters the handoff, or enters it again.                        *)
LEMMA EnterGone ==
  ASSUME Gone, Owing', NEW m \in Message,
         \/ Publish(m) \/ PublishUnmarked(m) \/ CrashAccepting(m)
         \/ RetryInbound(m) \/ RetryUnmarked(m) \/ RetryUnremoved(m) \/ CrashRequeueing(m)
  PROVE  Gone'
<1>1. fate' = [fate EXCEPT ![m] = "owed"]
  BY DEF Publish, PublishUnmarked, CrashAccepting, Accept,
         RetryInbound, RetryUnmarked, RetryUnremoved, Requeued, CrashRequeueing, Requeue
<1>2. \A n \in Message : n # m /\ status[n] = "none" => status'[n] = "none"
  <2>1. CASE Publish(m)
    <3> DEFINE st == [status EXCEPT ![m] = "pending"]
    <3>1. \A n \in Message : n # m => st[n] = status[n]
      BY DEF Gone, Owing, Types
    <3>2. st \in [Message -> {"none", "pending", "delivering"}]
      BY DEF Gone, Owing, Types
    <3>3. status' = st \/ \E at : Deliver({m}, st, at, wait)
      BY <2>1 DEF Publish
    <3> HIDE DEF st
    <3> QED BY <3>1, <3>2, <3>3, DeliverKeeps
  <2>2. CASE \/ PublishUnmarked(m) \/ CrashAccepting(m)
             \/ RetryInbound(m) \/ RetryUnmarked(m) \/ RetryUnremoved(m) \/ CrashRequeueing(m)
    <3>1. \E s : status' = [status EXCEPT ![m] = s]
      BY <2>2 DEF PublishUnmarked, Jam, CrashAccepting, RetryInbound, RetryUnmarked,
                  RetryUnremoved, Requeued, CrashRequeueing
    <3> QED BY <3>1 DEF Gone, Owing, Types
  <2> QED BY <2>1, <2>2
<1> QED BY <1>1, <1>2, StaysGone DEF Gone, Owing, Types

(* Acknowledging deletes the record; what follows a failure makes none.     *)
LEMMA SettleGone ==
  ASSUME Gone, Owing', NEW m \in Message, Settle(m) \/ CrashDeadLettering(m)
  PROVE  Gone'
<1> USE DEF Gone, Owing, Types
<1>1. CASE Ack(m)
  <2>1. fate' = [fate EXCEPT ![m] = "acked"] /\ status' = [status EXCEPT ![m] = "none"]
    BY <1>1 DEF Ack, Unrecord
  <2> QED BY <2>1 DEF Recorded
<1>2. CASE Retry(m) \/ RetryUnsaved(m) \/ DeadLetterUnsaved(m)
  <2>1. \A n \in Message : fate'[n] = "acked" => fate[n] = "acked"
    BY <1>2 DEF Retry, RetryUnsaved, DeadLetterUnsaved, Buried, history
  <2>2. \/ status' = status
        \/ status' = [status EXCEPT ![m] = IF @ = "none" THEN @ ELSE "pending"]
    BY <1>2 DEF Retry, RetryUnsaved, DeadLetterUnsaved, MarkRetry, durable
  <2> QED BY <2>1, <2>2, StaysGone
<1>3. CASE DeadLetter(m) \/ CrashDeadLettering(m)
  <2>1. \A n \in Message : fate'[n] = "acked" => fate[n] = "acked"
    BY <1>3 DEF DeadLetter, CrashDeadLettering, Buried
  <2>2. status' = status \/ status' = [status EXCEPT ![m] = "none"]
    BY <1>3 DEF DeadLetter, CrashDeadLettering, Unrecord
  <2> QED BY <2>1, <2>2, StaysGone
<1> QED BY <1>1, <1>2, <1>3 DEF Settle

(* deliverInbound gives no message a record.                                *)
LEMMA DeliverGone ==
  ASSUME Gone, Owing', fate' = fate, NEW asked, NEW at, NEW wt,
         NEW st \in [Message -> {"none", "pending", "delivering"}],
         Deliver(asked, st, at, wt), \A m \in Message : status[m] = "none" => st[m] = "none"
  PROVE  Gone'
BY DeliverKeeps, StaysGone

(* Every step leaves an acknowledged message without a record.              *)
LEMMA StepGone == ASSUME Gone, [Next]_vars PROVE Gone'
<1>1. Owing'
  BY StepKeeps DEF Gone
<1>2. ASSUME UNCHANGED <<status, fate>> PROVE Gone'
  BY <1>1, <1>2, StaysGone
<1>3. ASSUME NEW m \in Message, HandlerSettles(m) PROVE Gone'
  <2>1. status' = status /\ (fate' = fate \/ fate' = [fate EXCEPT ![m] = "handled"])
    BY <1>3 DEF HandlerSettles, HandlerResolves, HandlerRejects, durable, history
  <2> QED BY <1>1, <2>1, StaysGone DEF Gone, Owing, Types
<1>4. ASSUME NEW m \in Message, RetryTimerFires(m) PROVE Gone'
  <2>1. fate' = fate /\ (status' = status \/ Deliver({m}, status, attempts, wait))
    BY <1>4 DEF RetryTimerFires
  <2> QED BY <1>1, <1>2, <2>1, DeliverGone DEF Gone, Owing, Types
<1>5. ASSUME NEW m \in Message, BackoffElapses(m) PROVE Gone'
  BY <1>2, <1>5 DEF BackoffElapses, history
<1>6. CASE RecoveryTimerFires \/ Started
  <2> DEFINE st == [m \in Message |-> IF status[m] = "delivering" THEN "pending"
                                      ELSE status[m]]
  <2>1. fate' = fate /\ \E asked, wt : Deliver(asked, st, attempts, wt)
    BY <1>6 DEF RecoveryTimerFires, Started, Recover
  <2>2. /\ st \in [Message -> {"none", "pending", "delivering"}]
        /\ \A m \in Message : status[m] = "none" => st[m] = "none"
    BY DEF Gone, Owing, Types
  <2> HIDE DEF st
  <2> QED BY <1>1, <2>1, <2>2, DeliverGone
<1>7. CASE Start \/ Stop \/ Close \/ Exit \/ Crash
  BY <1>2, <1>7 DEF Start, Stop, Close, Exit, Crash, durable, history
<1>8. CASE UNCHANGED vars
  BY <1>2, <1>8 DEF vars, durable, history
<1> QED BY <1>1, <1>3, <1>4, <1>5, <1>6, <1>7, <1>8, EnterGone, SettleGone
        DEF Next, Serve, Die

(* What starts a handler: an acceptance, a dead letter, a timer of the      *)
(* message's own, or a recovery, which takes what has a record.             *)
LEMMA Starts ==
  ASSUME [Next]_vars, NEW m \in Message, task[m] = "none", task'[m] = "running"
  PROVE  m \notin Remembered \/ m \in DeadLetters \/ m \in retryTimer \/ m \in Recorded
<1>1. ASSUME task' = task PROVE FALSE
  BY <1>1
<1>2. ASSUME NEW n \in Message, NEW st, NEW at, NEW wt, Deliver({n}, st, at, wt)
      PROVE  m = n
  BY <1>2 DEF Deliver, Idle
<1>3. ASSUME NEW n \in Message, Publish(n) PROVE m \notin Remembered
  <2>1. \/ task' = task
        \/ \E st, at : Deliver({n}, st, at, wait)
    BY <1>3 DEF Publish
  <2>2. m = n
    BY <1>1, <1>2, <2>1
  <2> QED BY <1>3, <2>2 DEF Publish, Accept
<1>4. ASSUME NEW n \in Message, RetryInbound(n) PROVE m \in DeadLetters
  <2>1. task' = [k \in Message |-> IF k \in Idle({n}) THEN "running" ELSE task[k]]
    BY <1>4 DEF RetryInbound
  <2>2. m = n
    BY <2>1 DEF Idle
  <2> QED BY <1>4, <2>2 DEF RetryInbound, Requeue
<1>5. ASSUME NEW n \in Message, RetryTimerFires(n) PROVE m \in retryTimer
  <2>1. task' = task \/ Deliver({n}, status, attempts, wait)
    BY <1>5 DEF RetryTimerFires
  <2>2. m = n
    BY <1>1, <1>2, <2>1
  <2> QED BY <1>5, <2>2 DEF RetryTimerFires
<1>6. CASE RecoveryTimerFires \/ Started
  <2>1. Recover
    BY <1>6 DEF RecoveryTimerFires, Started
  <2>2. \E asked \in SUBSET Recorded : \E st, wt : Deliver(asked, st, attempts, wt)
    <3> DEFINE wt == [k \in Message |-> IF status[k] = "delivering" THEN "unset"
                                        ELSE wait[k]]
               asked == IF Listening THEN {k \in Recorded : wt[k] # "future"} ELSE {}
    <3>1. asked \in SUBSET Recorded
      OBVIOUS
    <3>2. \E st : Deliver(asked, st, attempts, wt)
      BY <2>1 DEF Recover
    <3> HIDE DEF wt, asked
    <3> QED BY <3>1, <3>2
  <2>3. PICK asked \in SUBSET Recorded :
          task' = [k \in Message |-> IF k \in Idle(asked) /\ Listening
                                     THEN "running" ELSE task[k]]
    BY <2>2 DEF Deliver
  <2>4. m \in Idle(asked)
    BY <2>3
  <2> QED BY <2>3, <2>4 DEF Idle
<1>7. ASSUME NEW n \in Message, HandlerSettles(n) PROVE FALSE
  <2>1. \E s \in {"resolved", "rejected"} : task' = [task EXCEPT ![n] = s]
    BY <1>7 DEF HandlerSettles, HandlerResolves, HandlerRejects
  <2> QED BY <2>1
<1>8. ASSUME NEW n \in Message, Settle(n) PROVE FALSE
  <2>1. task' = [task EXCEPT ![n] = "none"]
    BY <1>8 DEF Settle, Ack, Retry, RetryUnsaved, DeadLetter, DeadLetterUnsaved, Failing
  <2> QED BY <2>1
<1>9. ASSUME NEW n \in Message,
             \/ PublishUnmarked(n) \/ RetryUnmarked(n)
             \/ RetryUnremoved(n) \/ BackoffElapses(n)
      PROVE  FALSE
  BY <1>1, <1>9 DEF PublishUnmarked, RetryUnmarked, Jam, RetryUnremoved, BackoffElapses,
                    volatile
<1>10. CASE Start \/ Stop \/ Close
  BY <1>1, <1>10 DEF Start, Stop, Close, volatile
<1>11. CASE Exit \/ Die
  <2>1. task' = [k \in Message |-> "none"]
    BY <1>11 DEF Exit, Die, CrashAccepting, CrashDeadLettering, CrashRequeueing, Crash, Lost
  <2> QED BY <2>1
<1>12. CASE UNCHANGED vars
  BY <1>1, <1>12 DEF vars, volatile
<1> QED BY <1>3, <1>4, <1>5, <1>6, <1>7, <1>8, <1>9, <1>10, <1>11, <1>12 DEF Next, Serve

(* An acknowledged message is not handled again, through any number of      *)
(* crashes and recoveries, unless its key was forgotten, it has a dead      *)
(* letter, or a timer of its own was left (bus.ts:494).                     *)
THEOREM AckIsFinalHolds == Spec => AckIsFinal
<1>1. Init => Gone
  BY EmptySeq DEF Init, Gone, Owing, Types, OwedIsOnDisk
<1>2. Gone /\ [Next]_vars => Gone'
  BY StepGone
<1> DEFINE Final == \A m \in Message :
                      fate[m] = "acked" /\ task[m] = "none" /\ task'[m] = "running" =>
                        \/ m \notin Remembered
                        \/ m \in DeadLetters
                        \/ m \in retryTimer
<1>3. Gone /\ [Next]_vars => [Final]_vars
  BY Starts DEF Gone
<1> QED BY <1>1, <1>2, <1>3, PTL DEF Spec, AckIsFinal
-----------------------------------------------------------------------------
(* The handoff file remembers every record, and its attempts are counted.   *)

(* What failures may have bought by now.  A stop is counted when it begins, *)
(* and what it buys is there when it ends.                                  *)
Budget == MaxAttempts + faults - (IF phase = "draining" THEN 1 ELSE 0)

(* What is not being delivered has an attempt left, and the attempt that is *)
(* under way is the last that was counted.                                  *)
Within(m, at, st) == /\ at[m] <= Budget
                     /\ m \notin delivering => at[m] < Budget
                     /\ st[m] = "none" => at[m] = 0
                     /\ task[m] # "none" => at[m] <= AttemptOf(m)

Quitting == /\ phase = "draining" => faults > 0
            /\ phase = "closed" => delivering = {}

Paced == Quitting /\ \A m \in Message : Within(m, attempts, status)

Counted == TypeOK /\ RecordsRemembered /\ Paced

Statuses == [Message -> {"none", "pending", "delivering"}]
Waits    == [Message -> {"unset", "future", "due"}]

(* The limits are numbers, and so is the budget. *)
LEMMA Numbers ==
  ASSUME TypeOK
  PROVE  /\ MaxAttempts \in Nat \ {0} /\ faults \in Nat /\ Budget \in Int
         /\ \A m \in Message : attempts[m] \in Nat /\ AttemptOf(m) \in Nat
         /\ \A m \in Message : count[m] \in Nat \cup {Absent}
<1>1. MaxAttempts \in Nat \ {0} /\ MaxFaults \in Nat
  BY InboundAssumption
<1>2. faults \in 0..MaxFaults /\ count \in [Message -> Nat \cup {Absent}]
  BY DEF TypeOK
<1>3. faults \in Nat
  BY <1>1, <1>2
<1>4. \A m \in Message : count[m] \in Nat \cup {Absent} /\ AttemptOf(m) \in Nat
  BY <1>2 DEF AttemptOf
<1>5. \A m \in Message : attempts[m] \in Nat
  BY DEF TypeOK
<1>6. Budget \in Int
  BY <1>1, <1>3 DEF Budget
<1> QED BY <1>1, <1>3, <1>4, <1>5, <1>6

(* The positions that are kept keep their order, and none is left out.      *)
LEMMA Picked ==
  ASSUME NEW S, NEW s \in Seq(S), NEW I \in SUBSET DOMAIN s
  PROVE  /\ Pick(s, I) \in Seq(S) /\ ToSet(Pick(s, I)) = {s[i] : i \in I}
         /\ \E at \in [DOMAIN Pick(s, I) -> I] :
              /\ \A k \in DOMAIN Pick(s, I) : Pick(s, I)[k] = s[at[k]]
              /\ \A k, l \in DOMAIN Pick(s, I) : k < l => at[k] < at[l]
<1> DEFINE n == Cardinality(I)
<1> DEFINE Upto(i) == {j \in I : j <= i}
<1>1. DOMAIN s = 1..Len(s) /\ Len(s) \in Nat
  OBVIOUS
<1>2. IsFiniteSet(I) /\ n \in Nat /\ \A i \in I : i \in Nat
  <2>1. IsFiniteSet(1..Len(s)) /\ I \subseteq 1..Len(s)
    BY <1>1, FS_Interval
  <2>2. IsFiniteSet(I)
    BY <2>1, FS_Subset
  <2> QED BY <2>1, <2>2, FS_CardinalityType
<1>3. \A i \in I : Upto(i) \in SUBSET I /\ i \in Upto(i)
  BY <1>2
<1>4. \A T \in SUBSET I : /\ IsFiniteSet(T) /\ Cardinality(T) \in Nat /\ Cardinality(T) <= n
  BY <1>2, FS_Subset, FS_CardinalityType
<1>5. \A i \in I : Rank(I, i) \in 1..n
  <2> TAKE i \in I
  <2>1. Rank(I, i) = Cardinality(Upto(i))
    BY DEF Rank
  <2>2. Cardinality(Upto(i)) # 0
    BY <1>3, <1>4, FS_EmptySet
  <2> HIDE DEF Upto
  <2> QED BY <1>2, <1>3, <1>4, <2>1, <2>2
<1>6. \A i, j \in I : i < j => Rank(I, i) < Rank(I, j)
  <2> SUFFICES ASSUME NEW i \in I, NEW j \in I, i < j PROVE Rank(I, i) < Rank(I, j)
    OBVIOUS
  <2>1. Upto(i) \in SUBSET Upto(j) /\ j \notin Upto(i) /\ j \in Upto(j)
    BY <1>2
  <2>2. IsFiniteSet(Upto(j)) /\ Upto(i) # Upto(j)
    BY <1>3, <1>4, <2>1
  <2>3. Rank(I, i) = Cardinality(Upto(i)) /\ Rank(I, j) = Cardinality(Upto(j))
    BY DEF Rank
  <2>4. Cardinality(Upto(i)) \in Nat /\ Cardinality(Upto(j)) \in Nat
    BY <1>3, <1>4
  <2> HIDE DEF Upto
  <2>5. /\ Cardinality(Upto(i)) <= Cardinality(Upto(j))
        /\ Cardinality(Upto(i)) # Cardinality(Upto(j))
    BY <2>1, <2>2, FS_Subset
  <2> QED BY <2>3, <2>4, <2>5
<1> DEFINE r == [i \in I |-> Rank(I, i)]
<1>7. r \in Injection(I, 1..n)
  BY <1>2, <1>5, <1>6 DEF Injection, IsInjective
<1>8. r \in Surjection(I, 1..n)
  <2>1. IsFiniteSet(1..n) /\ Cardinality(1..n) = n
    BY <1>2, FS_Interval
  <2> HIDE DEF r
  <2> QED BY <1>7, <2>1, FS_Injection
<1>9. \A k \in 1..n : \E i \in I : Rank(I, i) = k
  BY <1>8 DEF Surjection
<1> DEFINE at == [k \in 1..n |-> CHOOSE i \in I : Rank(I, i) = k]
<1>10. \A k \in 1..n : at[k] \in I /\ Rank(I, at[k]) = k
  BY <1>9
<1>11. Pick(s, I) = [k \in 1..n |-> s[at[k]]]
  BY DEF Pick
<1>12. at \in [1..n -> I]
  BY <1>10
<1> HIDE DEF at, r, n
<1>13. Pick(s, I) \in Seq(S) /\ DOMAIN Pick(s, I) = 1..n
  <2>1. \A k \in 1..n : s[at[k]] \in S
    BY <1>1, <1>12
  <2> QED BY <1>2, <1>11, <2>1
<1>14. \A k \in 1..n : Pick(s, I)[k] = s[at[k]]
  BY <1>11
<1>15. \A k, l \in 1..n : k < l => at[k] < at[l]
  <2> SUFFICES ASSUME NEW k \in 1..n, NEW l \in 1..n, k < l, ~(at[k] < at[l]) PROVE FALSE
    OBVIOUS
  <2>1. at[k] \in I /\ at[l] \in I /\ Rank(I, at[k]) = k /\ Rank(I, at[l]) = l
    BY <1>10
  <2>2. at[k] = at[l] \/ at[l] < at[k]
    BY <1>2, <2>1
  <2>3. l <= k
    BY <1>2, <1>6, <2>1, <2>2
  <2> QED BY <1>2, <2>3
<1>16. \A i \in I : at[Rank(I, i)] = i
  <2> TAKE i \in I
  <2>1. Rank(I, i) \in 1..n /\ Rank(I, at[Rank(I, i)]) = Rank(I, i) /\ at[Rank(I, i)] \in I
    BY <1>5, <1>10
  <2> QED BY <1>2, <1>5, <1>6, <2>1
<1>17. ToSet(Pick(s, I)) = {s[i] : i \in I}
  <2>1. \A i \in I : \E k \in 1..n : Pick(s, I)[k] = s[i]
    BY <1>5, <1>14, <1>16
  <2> QED BY <1>12, <1>13, <1>14, <2>1 DEF ToSet
<1> QED BY <1>12, <1>13, <1>14, <1>15, <1>17

(* trimDedupKeys keeps every key in use. *)
LEMMA Trimmed ==
  ASSUME NEW keys \in Seq(Message), NEW kept
  PROVE  /\ Trim(keys, kept) \in Seq(Message)
         /\ ToSet(Trim(keys, kept)) \subseteq ToSet(keys)
         /\ ToSet(keys) \cap kept \subseteq ToSet(Trim(keys, kept))
<1> DEFINE spare == {i \in DOMAIN keys : keys[i] \notin kept}
           gone  == {i \in spare : Rank(spare, i) <= Len(keys) - MaxDedup}
           I     == DOMAIN keys \ gone
<1>1. Trim(keys, kept) = Pick(keys, I)
  BY DEF Trim
<1>2. I \in SUBSET DOMAIN keys /\ \A i \in DOMAIN keys : keys[i] \in kept => i \in I
  OBVIOUS
<1> HIDE DEF I
<1>3. /\ Pick(keys, I) \in Seq(Message)
      /\ ToSet(Pick(keys, I)) = {keys[i] : i \in I}
  BY <1>2, Picked
<1> QED BY <1>1, <1>2, <1>3 DEF ToSet

(* The key of a new record is remembered, and no other record forgotten.    *)
LEMMA Remembering ==
  ASSUME NEW keys \in Seq(Message), NEW m \in Message, NEW R
  PROVE  /\ Trim(Append(keys, m), R \cup {m}) \in Seq(Message)
         /\ (ToSet(keys) \cap R) \cup {m}
              \subseteq ToSet(Trim(Append(keys, m), R \cup {m}))
         /\ ToSet(Trim(Append(keys, m), R \cup {m})) \subseteq ToSet(keys) \cup {m}
<1> DEFINE a == Append(keys, m)
<1>1. a \in Seq(Message)
  BY AppendProperties
<1>2. ToSet(keys) \cup {m} = ToSet(a)
  <2>1. /\ Len(a) = Len(keys) + 1 /\ a[Len(keys) + 1] = m
        /\ \A i \in 1..Len(keys) : a[i] = keys[i]
    BY AppendProperties
  <2>2. Len(keys) \in Nat /\ DOMAIN a = 1..Len(a) /\ DOMAIN keys = 1..Len(keys)
    BY <1>1
  <2> HIDE DEF a
  <2>3. \A i \in 1..Len(keys) : i \in 1..Len(a)
    BY <2>1, <2>2
  <2>4. Len(keys) + 1 \in 1..Len(a)
    BY <2>1, <2>2
  <2>5. \A i \in 1..Len(a) : i \in 1..Len(keys) \/ i = Len(keys) + 1
    BY <2>1, <2>2
  <2> QED BY <2>1, <2>2, <2>3, <2>4, <2>5 DEF ToSet
<1> HIDE DEF a
<1>3. /\ Trim(a, R \cup {m}) \in Seq(Message)
      /\ ToSet(Trim(a, R \cup {m})) \subseteq ToSet(a)
      /\ ToSet(a) \cap (R \cup {m}) \subseteq ToSet(Trim(a, R \cup {m}))
  BY <1>1, Trimmed
<1> QED BY <1>2, <1>3 DEF a

(* deliverInbound counts the attempts that it begins: what it does to a     *)
(* handoff file and a memory that are as they should be.                    *)
LEMMA DeliverPaced ==
  ASSUME TypeOK, NEW asked \in SUBSET Message, NEW st \in Statuses,
         NEW at \in [Message -> Nat], NEW wt \in Waits, Deliver(asked, st, at, wt),
         \A m \in Message : Within(m, at, st)
  PROVE  /\ status' \in Statuses /\ attempts' \in [Message -> Nat] /\ wait' \in Waits
         /\ count' \in [Message -> Nat \cup {Absent}]
         /\ task' \in [Message -> {"none", "running", "resolved", "rejected"}]
         /\ delivering' \subseteq Message /\ doubled' \subseteq Message
         /\ \A m \in Message : status'[m] = "none" <=> st[m] = "none"
         /\ delivering \subseteq delivering'
         /\ \A m \in Message : /\ attempts'[m] <= Budget
                               /\ m \notin delivering' => attempts'[m] < Budget
                               /\ status'[m] = "none" => attempts'[m] = 0
                               /\ task'[m] # "none" => attempts'[m] <= AttemptOf(m)'
<1> DEFINE D     == Idle(asked)
           fresh == {m \in D : st[m] = "pending"}
<1>1. /\ D \subseteq Message /\ fresh \subseteq D /\ D \cap delivering = {}
      /\ \A m \in fresh : st[m] = "pending"
      /\ \A m \in D : m \in asked
  BY DEF Idle
<1>2. /\ status' = [m \in Message |-> IF m \in fresh THEN "delivering" ELSE st[m]]
      /\ attempts' = [m \in Message |-> IF m \in fresh THEN at[m] + 1 ELSE at[m]]
      /\ wait' = [m \in Message |-> IF m \in fresh THEN "unset" ELSE wt[m]]
      /\ count' = [m \in Message |-> IF m \notin D THEN count[m]
                                     ELSE IF st[m] = "none" THEN 0 ELSE attempts'[m]]
      /\ delivering' = delivering \cup D
      /\ task' = [m \in Message |-> IF m \in D /\ Listening THEN "running" ELSE task[m]]
      /\ doubled' = doubled \cup {m \in D : Listening /\ task[m] # "none"}
  BY DEF Deliver
<1> HIDE DEF D, fresh
<1>3. /\ count \in [Message -> Nat \cup {Absent}] /\ delivering \subseteq Message
      /\ task \in [Message -> {"none", "running", "resolved", "rejected"}]
      /\ doubled \subseteq Message
  BY DEF TypeOK
<1>4. attempts' \in [Message -> Nat] /\ \A m \in Message : at[m] \in Nat /\ at[m] + 1 \in Nat
  BY <1>2
<1>5. count' \in [Message -> Nat \cup {Absent}]
  BY <1>2, <1>3, <1>4
<1>6. /\ status' \in Statuses /\ wait' \in Waits
      /\ task' \in [Message -> {"none", "running", "resolved", "rejected"}]
      /\ delivering' \subseteq Message /\ doubled' \subseteq Message
  BY <1>1, <1>2, <1>3 DEF Statuses, Waits
<1>7. \A m \in Message : status'[m] = "none" <=> st[m] = "none"
  BY <1>1, <1>2
<1>8. Budget \in Int
  BY Numbers
<1>9. ASSUME NEW m \in Message
      PROVE  /\ attempts'[m] <= Budget
             /\ m \notin delivering' => attempts'[m] < Budget
             /\ status'[m] = "none" => attempts'[m] = 0
             /\ task'[m] # "none" => attempts'[m] <= AttemptOf(m)'
  <2>1. Within(m, at, st) /\ at[m] \in Nat
    BY <1>4
  <2>2. CASE m \in D
    <3>1. m \notin delivering /\ m \in delivering' /\ at[m] < Budget
      BY <1>1, <1>2, <2>1, <2>2 DEF Within
    <3>2. attempts'[m] \in {at[m], at[m] + 1}
      BY <1>2
    <3>3. attempts'[m] <= Budget
      BY <1>8, <2>1, <3>1, <3>2
    <3>4. status'[m] = "none" => attempts'[m] = 0
      BY <1>1, <1>2, <2>1, <2>2 DEF Within
    <3>5. /\ count'[m] = IF st[m] = "none" THEN 0 ELSE attempts'[m]
          /\ attempts'[m] \in Nat
      BY <1>2, <1>4, <2>2
    <3>6. count'[m] # Absent /\ AttemptOf(m)' = count'[m]
      BY <3>5 DEF AttemptOf, Absent
    <3>7. attempts'[m] <= AttemptOf(m)'
      BY <1>7, <3>4, <3>5, <3>6
    <3> QED BY <3>1, <3>3, <3>4, <3>7
  <2>3. CASE m \notin D
    <3>1. /\ attempts'[m] = at[m] /\ count'[m] = count[m] /\ task'[m] = task[m]
          /\ status'[m] = st[m]
          /\ m \notin delivering' => m \notin delivering
      BY <1>1, <1>2, <2>3
    <3>2. AttemptOf(m)' = AttemptOf(m)
      BY <3>1 DEF AttemptOf
    <3> QED BY <2>1, <3>1, <3>2 DEF Within
  <2> QED BY <2>2, <2>3
<1> QED BY <1>2, <1>4, <1>5, <1>6, <1>7, <1>9

(* The rest of the types: what is neither the file's records nor the        *)
(* delivery.                                                                *)
Others == /\ dedup \in Seq(Message)
          /\ dead \in Seq(Message) /\ Len(dead) <= MaxDead
          /\ phase \in Phases
          /\ retryTimer \subseteq Message
          /\ recoveryTimer \in BOOLEAN
          /\ fate \in [Message -> {"unseen", "owed", "handled", "acked", "pruned"}]
          /\ faults \in 0..MaxFaults
          /\ requeues \in 0..MaxRequeues

(* Delivering leaves everything counted. *)
LEMMA DeliverCounted ==
  ASSUME Counted, NEW asked \in SUBSET Message, NEW st \in Statuses,
         NEW at \in [Message -> Nat], NEW wt \in Waits, Deliver(asked, st, at, wt),
         \A m \in Message : Within(m, at, st),
         Others', Quitting', Budget' = Budget,
         \A m \in Message : st[m] # "none" => m \in Remembered'
  PROVE  Counted'
<1> USE DEF Counted
<1>1. /\ status' \in Statuses /\ attempts' \in [Message -> Nat] /\ wait' \in Waits
      /\ count' \in [Message -> Nat \cup {Absent}]
      /\ task' \in [Message -> {"none", "running", "resolved", "rejected"}]
      /\ delivering' \subseteq Message /\ doubled' \subseteq Message
      /\ \A m \in Message : status'[m] = "none" <=> st[m] = "none"
      /\ \A m \in Message : /\ attempts'[m] <= Budget
                            /\ m \notin delivering' => attempts'[m] < Budget
                            /\ status'[m] = "none" => attempts'[m] = 0
                            /\ task'[m] # "none" => attempts'[m] <= AttemptOf(m)'
  BY DeliverPaced
<1>2. TypeOK'
  BY <1>1 DEF TypeOK, Others, Statuses, Waits
<1>3. RecordsRemembered'
  BY <1>1 DEF RecordsRemembered, Recorded
<1>4. Paced'
  BY <1>1 DEF Paced, Within
<1> QED BY <1>2, <1>3, <1>4

(* recoverInbound: what was being delivered is pending, and has what it had.*)
LEMMA RecoverCounted ==
  ASSUME Counted, Recover, UNCHANGED <<faults, requeues>>,
         phase' = phase \/ (phase = "starting" /\ phase' = "up")
  PROVE  Counted'
<1> DEFINE st == [m \in Message |-> IF status[m] = "delivering" THEN "pending" ELSE status[m]]
           wt == [m \in Message |-> IF status[m] = "delivering" THEN "unset" ELSE wait[m]]
           asked == IF Listening THEN {m \in Recorded : wt[m] # "future"} ELSE {}
<1>1. /\ Deliver(asked, st, attempts, wt)
      /\ Rearm(FALSE) /\ UNCHANGED <<dedup, dead, retryTimer, fate>>
  BY DEF Recover
<1>2. /\ asked \in SUBSET Message /\ (phase = "closed" => asked = {})
      /\ st \in Statuses /\ wt \in Waits
      /\ \A m \in Message : st[m] = "none" <=> status[m] = "none"
  BY DEF Counted, TypeOK, Recorded, Listening, Statuses, Waits
<1> HIDE DEF st, wt, asked
<1>3. attempts \in [Message -> Nat] /\ \A m \in Message : Within(m, attempts, st)
  BY <1>2 DEF Counted, TypeOK, Paced, Within
<1>4. Others'
  BY <1>1 DEF Counted, TypeOK, Others, Rearm, Phases
<1>5. phase = "closed" => delivering' = delivering
  BY <1>1, <1>2 DEF Deliver, Idle
<1>6. Quitting'
  BY <1>5 DEF Counted, Paced, Quitting
<1>7. Budget' = Budget
  BY DEF Budget
<1>8. \A m \in Message : st[m] # "none" => m \in Remembered'
  BY <1>1, <1>2 DEF Counted, RecordsRemembered, Recorded, Remembered
<1> QED BY <1>1, <1>2, <1>3, <1>4, <1>6, <1>7, <1>8, DeliverCounted

(* The process is gone, and what made it go is counted. *)
LEMMA LostCounted ==
  ASSUME Counted, Lost, Others', status' \in Statuses, attempts' \in [Message -> Nat],
         wait' \in Waits,
         \A m \in Message : status'[m] # "none" => m \in Remembered',
         \A m \in Message : status'[m] = "none" => attempts'[m] = 0,
         \A m \in Message : attempts'[m] < MaxAttempts + faults'
  PROVE  Counted'
<1>1. /\ phase' = "down" /\ delivering' = {} /\ doubled' = doubled
      /\ count' = [m \in Message |-> Absent] /\ task' = [m \in Message |-> "none"]
      /\ retryTimer' = {} /\ recoveryTimer' = FALSE
  BY DEF Lost
<1>2. TypeOK'
  BY <1>1 DEF Counted, TypeOK, Others, Statuses, Waits
<1>3. RecordsRemembered'
  BY DEF RecordsRemembered, Recorded
<1>4. Budget' = MaxAttempts + faults'
  BY <1>1, <1>2, Numbers, InboundAssumption DEF Budget, TypeOK
<1>5. \A m \in Message : attempts'[m] < Budget' /\ attempts'[m] <= Budget'
  <2>1. Budget' \in Int /\ \A m \in Message : attempts'[m] \in Nat
    <3>1. MaxAttempts \in Nat /\ faults' \in Nat
      BY <1>2, InboundAssumption DEF TypeOK
    <3> QED BY <1>4, <3>1
  <2>2. \A m \in Message : attempts'[m] < Budget'
    BY <1>4
  <2> QED BY <2>1, <2>2
<1>6. Quitting'
  BY <1>1 DEF Quitting
<1>7. ASSUME NEW m \in Message PROVE Within(m, attempts, status)'
  BY <1>1, <1>5 DEF Within
<1>8. Paced'
  BY <1>6, <1>7 DEF Paced
<1> QED BY <1>2, <1>3, <1>8 DEF Counted

(* Keys in inboundDelivering whose record could not be marked. *)
LEMMA JamCounted ==
  ASSUME Counted, NEW m \in Message, Jam(m), Listening, Others',
         count' = count \/ count' = [count EXCEPT ![m] = Absent],
         Recorded \cup {m} \subseteq Remembered'
  PROVE  Counted'
<1>1. /\ faults' = faults + 1 /\ delivering' = delivering \cup {m}
      /\ status' = [status EXCEPT ![m] = "pending"]
      /\ attempts' = [attempts EXCEPT ![m] = 0]
      /\ wait' = [wait EXCEPT ![m] = "unset"]
      /\ UNCHANGED <<phase, task, retryTimer, recoveryTimer, doubled>>
  BY DEF Jam, Fault
<1>2. TypeOK'
  BY <1>1 DEF Counted, TypeOK, Others
<1>3. RecordsRemembered'
  BY <1>1 DEF Counted, TypeOK, RecordsRemembered, Recorded
<1>4. Quitting'
  BY <1>1 DEF Quitting, Listening
<1>5. ASSUME NEW n \in Message PROVE Within(n, attempts, status)'
  <2>1. /\ Within(n, attempts, status) /\ attempts[n] \in Nat /\ Budget \in Int
        /\ attempts'[n] \in Nat /\ AttemptOf(n)' \in Nat /\ AttemptOf(n) \in Nat
    BY <1>2, Numbers DEF Counted, TypeOK, Paced, AttemptOf
  <2>2. Budget' = Budget + 1
    BY <1>1, Numbers, InboundAssumption DEF Budget, Counted
  <2>3. Budget >= 0
    BY <2>1 DEF Within
  <2>4. CASE n = m
    <3>1. attempts'[n] = 0 /\ n \in delivering' /\ status'[n] = "pending"
      BY <1>1, <2>4 DEF Counted, TypeOK
    <3> QED BY <2>1, <2>2, <2>3, <3>1 DEF Within
  <2>5. CASE n # m
    <3>1. /\ attempts'[n] = attempts[n] /\ status'[n] = status[n] /\ task'[n] = task[n]
          /\ count'[n] = count[n]
      BY <1>1, <2>5 DEF Counted, TypeOK
    <3>2. AttemptOf(n)' = AttemptOf(n)
      BY <3>1 DEF AttemptOf
    <3>3. n \in delivering' <=> n \in delivering
      BY <1>1, <2>5
    <3>4. attempts[n] <= Budget => attempts[n] <= Budget + 1 /\ attempts[n] < Budget + 1
      BY <2>1
    <3> QED BY <2>1, <2>2, <3>1, <3>2, <3>3, <3>4 DEF Within
  <2> QED BY <2>4, <2>5
<1> QED BY <1>2, <1>3, <1>4, <1>5 DEF Counted, Paced

(* A fault buys every message an attempt. *)
LEMMA Affordable ==
  ASSUME Counted PROVE \A n \in Message : attempts[n] < MaxAttempts + (faults + 1)
<1> TAKE n \in Message
<1>1. attempts[n] <= Budget
  BY DEF Counted, Paced, Within
<1>2. /\ attempts[n] \in Nat /\ MaxAttempts \in Nat /\ faults \in Nat
      /\ Budget \in Int /\ Budget <= MaxAttempts + faults
  BY Numbers DEF Counted, Budget
<1> QED BY <1>1, <1>2

(* A key that is accepted is remembered. *)
LEMMA Accepted ==
  ASSUME Counted, NEW m \in Message, Accept(m)
  PROVE  /\ dedup' \in Seq(Message)
         /\ Recorded \cup {m} \subseteq Remembered'
         /\ fate' \in [Message -> {"unseen", "owed", "handled", "acked", "pruned"}]
         /\ attempts[m] = 0
<1>1. /\ dedup' = Trim(Append(dedup, m), Recorded \cup {m})
      /\ fate' = [fate EXCEPT ![m] = "owed"]
      /\ m \notin Remembered
  BY DEF Accept
<1>2. dedup \in Seq(Message)
  BY DEF Counted, TypeOK
<1>3. /\ dedup' \in Seq(Message)
      /\ (ToSet(dedup) \cap Recorded) \cup {m} \subseteq ToSet(dedup')
  BY <1>1, <1>2, Remembering
<1>4. m \notin Recorded
  BY <1>1 DEF Counted, RecordsRemembered
<1>5. attempts[m] = 0
  BY <1>4 DEF Counted, Paced, Within, Recorded
<1> QED BY <1>1, <1>3, <1>5 DEF Counted, TypeOK, RecordsRemembered, Remembered

LEMMA PublishCounted ==
  ASSUME Counted, NEW m \in Message,
         Publish(m) \/ PublishUnmarked(m) \/ CrashAccepting(m)
  PROVE  Counted'
<1>1. /\ dedup' \in Seq(Message)
      /\ Recorded \cup {m} \subseteq Remembered'
      /\ fate' \in [Message -> {"unseen", "owed", "handled", "acked", "pruned"}]
      /\ attempts[m] = 0
  BY Accepted DEF Publish, PublishUnmarked, CrashAccepting
<1> DEFINE st == [status EXCEPT ![m] = "pending"]
           at == [attempts EXCEPT ![m] = 0]
<1>2. /\ st \in Statuses /\ at \in [Message -> Nat] /\ wait \in Waits
      /\ \A n \in Message : st[n] = (IF n = m THEN "pending" ELSE status[n])
      /\ \A n \in Message : at[n] = (IF n = m THEN 0 ELSE attempts[n])
      /\ at = attempts
  BY <1>1 DEF Counted, TypeOK, Statuses, Waits
<1>3. \A n \in Message : st[n] # "none" => n \in Remembered'
  BY <1>1, <1>2 DEF Recorded
<1>4. \A n \in Message : Within(n, at, st)
  <2>1. \A n \in Message : Within(n, attempts, status)
    BY DEF Counted, Paced
  <2> QED BY <1>2, <2>1 DEF Within
<1>5. CASE Publish(m)
  <2>1. UNCHANGED <<dead, phase, retryTimer, recoveryTimer, faults, requeues>>
    BY <1>5 DEF Publish
  <2>2. Others'
    BY <1>1, <2>1 DEF Counted, TypeOK, Others
  <2>3. Budget' = Budget
    BY <2>1 DEF Budget
  <2>4. Quitting'
    BY <1>5, <2>1 DEF Quitting, Counted, Paced, Publish, Open
  <2>5. CASE Listening
    <3>1. Deliver({m}, st, at, wait)
      BY <1>5, <2>5 DEF Publish
    <3> HIDE DEF st, at
    <3> QED BY <1>2, <1>3, <1>4, <2>2, <2>3, <2>4, <3>1, DeliverCounted
  <2>6. CASE ~Listening
    <3>1. /\ status' = st /\ attempts' = at
          /\ UNCHANGED <<wait, delivering, count, task, doubled>>
      BY <1>5, <2>6 DEF Publish
    <3> HIDE DEF st, at
    <3>2. TypeOK'
      BY <1>2, <2>2, <3>1 DEF Counted, TypeOK, Others, Statuses
    <3>3. RecordsRemembered'
      BY <1>3, <3>1 DEF RecordsRemembered, Recorded
    <3>4. ASSUME NEW n \in Message PROVE Within(n, attempts, status)'
      BY <1>4, <2>3, <3>1 DEF Within, AttemptOf
    <3> QED BY <2>4, <3>2, <3>3, <3>4 DEF Counted, Paced
  <2> QED BY <2>5, <2>6
<1>6. CASE PublishUnmarked(m)
  <2>1. /\ Jam(m) /\ Listening /\ UNCHANGED <<dead, count, requeues>>
    BY <1>6 DEF PublishUnmarked
  <2>2. faults' \in 0..MaxFaults
    BY <2>1, InboundAssumption DEF Jam, Fault, Counted, TypeOK
  <2>3. Others'
    BY <1>1, <2>1, <2>2 DEF Counted, TypeOK, Others, Jam
  <2> QED BY <1>1, <2>1, <2>3, JamCounted
<1>7. CASE CrashAccepting(m)
  <2>1. /\ status' = st /\ UNCHANGED <<attempts, wait, dead, requeues>>
        /\ Fault /\ Lost
    BY <1>7 DEF CrashAccepting
  <2> HIDE DEF st, at
  <2>2. faults' = faults + 1 /\ faults' \in 0..MaxFaults
    BY <2>1, InboundAssumption DEF Fault, Counted, TypeOK
  <2>3. Others'
    BY <1>1, <2>1, <2>2 DEF Counted, TypeOK, Others, Lost, Phases
  <2>4. \A n \in Message : attempts'[n] < MaxAttempts + faults'
    BY <2>1, <2>2, Affordable
  <2>5. \A n \in Message : status'[n] = "none" => attempts'[n] = 0
    BY <1>2, <1>4, <2>1 DEF Within
  <2> QED BY <1>2, <1>3, <2>1, <2>3, <2>4, <2>5, LostCounted DEF Counted, TypeOK, Waits
<1> QED BY <1>5, <1>6, <1>7

(* A dead letter gets its record back, and an attempt with it. *)
LEMMA RequeueCounted ==
  ASSUME Counted, NEW m \in Message,
         RetryInbound(m) \/ RetryUnmarked(m) \/ RetryUnremoved(m) \/ CrashRequeueing(m)
  PROVE  Counted'
<1>1. Requeue(m)
  BY DEF RetryInbound, RetryUnmarked, RetryUnremoved, Requeued, CrashRequeueing
<1>2. /\ dedup' \in Seq(Message)
      /\ Recorded \cup {m} \subseteq Remembered'
  <2>1. dedup \in Seq(Message) /\ Recorded \subseteq ToSet(dedup)
    BY DEF Counted, TypeOK, RecordsRemembered, Remembered
  <2>2. CASE m \in Recorded
    <3>1. dedup' = Trim(dedup, Recorded)
      BY <1>1, <2>2 DEF Requeue
    <3> QED BY <2>1, <2>2, <3>1, Trimmed DEF Remembered
  <2>3. CASE m \notin Recorded
    <3>1. dedup' = Trim(Append(dedup, m), Recorded \cup {m})
      BY <1>1, <2>3 DEF Requeue
    <3>2. /\ dedup' \in Seq(Message)
          /\ (ToSet(dedup) \cap Recorded) \cup {m} \subseteq ToSet(dedup')
      BY <2>1, <3>1, Remembering
    <3> QED BY <2>1, <3>2 DEF Remembered
  <2> QED BY <2>2, <2>3
<1>3. /\ fate' \in [Message -> {"unseen", "owed", "handled", "acked", "pruned"}]
      /\ requeues' \in 0..MaxRequeues
  BY <1>1, InboundAssumption DEF Requeue, Counted, TypeOK
<1>4. /\ dead' \in Seq(Message) /\ Len(dead') <= MaxDead
  <2>1. dead \in Seq(Message) /\ Len(dead) <= MaxDead /\ MaxDead \in Nat /\ Len(dead) \in Nat
    BY InboundAssumption DEF Counted, TypeOK
  <2>2. Without(dead, m) \in Seq(Message) /\ Len(Without(dead, m)) <= Len(dead)
    BY <2>1, WithoutKeeps
  <2>3. Len(Without(dead, m)) \in Nat
    BY <2>2
  <2>4. dead' = dead \/ dead' = Without(dead, m)
    BY DEF RetryInbound, RetryUnmarked, RetryUnremoved, Requeued, CrashRequeueing
  <2> QED BY <2>1, <2>2, <2>3, <2>4
<1>5. CASE RetryInbound(m)
  <2> DEFINE D == Idle({m})
  <2>1. /\ status'   = [status EXCEPT ![m] = IF D = {} THEN "pending" ELSE "delivering"]
        /\ attempts' = [attempts EXCEPT ![m] = Cardinality(D)]
        /\ wait'     = [wait EXCEPT ![m] = "unset"]
        /\ count'    = [count EXCEPT ![m] = IF D = {} THEN Absent ELSE 1]
        /\ delivering' = delivering \cup D
        /\ task'     = [n \in Message |-> IF n \in D THEN "running" ELSE task[n]]
        /\ doubled'  = doubled \cup {n \in D : task[n] # "none"}
        /\ phase = "up"
        /\ UNCHANGED <<phase, retryTimer, recoveryTimer, faults>>
    BY <1>5 DEF RetryInbound
  <2>2. \/ D = {} /\ m \in delivering /\ Cardinality(D) = 0
        \/ D = {m} /\ m \notin delivering /\ Cardinality(D) = 1
    <3>1. D = {m} \/ D = {}
      BY DEF Idle
    <3>2. D = {m} <=> m \notin delivering
      BY DEF Idle
    <3> QED BY <3>1, <3>2, FS_EmptySet, FS_Singleton
  <2> HIDE DEF D
  <2>3. TypeOK'
    <3>1. /\ status' \in Statuses /\ attempts' \in [Message -> Nat] /\ wait' \in Waits
          /\ count' \in [Message -> Nat \cup {Absent}]
      BY <2>1, <2>2 DEF Counted, TypeOK, Statuses, Waits
    <3>2. /\ task' \in [Message -> {"none", "running", "resolved", "rejected"}]
          /\ delivering' \subseteq Message /\ doubled' \subseteq Message
      BY <2>1, <2>2 DEF Counted, TypeOK
    <3> QED BY <1>2, <1>3, <1>4, <2>1, <3>1, <3>2 DEF Counted, TypeOK, Statuses, Waits
  <2>4. RecordsRemembered'
    BY <1>2, <2>1 DEF Counted, TypeOK, RecordsRemembered, Recorded
  <2>5. Quitting'
    BY <2>1 DEF Quitting
  <2>6. ASSUME NEW n \in Message PROVE Within(n, attempts, status)'
    <3>1. Within(n, attempts, status) /\ Budget' = Budget
      BY <2>1 DEF Counted, Paced, Budget
    <3>2. CASE n = m
      <4>1. Budget \in Int /\ Budget >= 1
        BY <2>1, Numbers DEF Counted, Budget
      <4>2. attempts'[n] = Cardinality(D) /\ n \in delivering' /\ status'[n] # "none"
        BY <2>1, <2>2, <3>2 DEF Counted, TypeOK
      <4>3. AttemptOf(n)' = 1
        BY <2>1, <3>2 DEF Counted, TypeOK, AttemptOf, Absent
      <4>4. attempts'[n] <= 1
        BY <2>2, <4>2
      <4>5. attempts'[n] \in {0, 1}
        BY <2>2, <4>2
      <4> QED BY <3>1, <4>1, <4>2, <4>3, <4>5 DEF Within
    <3>3. CASE n # m
      <4>1. /\ attempts'[n] = attempts[n] /\ status'[n] = status[n] /\ task'[n] = task[n]
            /\ count'[n] = count[n]
        BY <2>1, <2>2, <3>3 DEF Counted, TypeOK
      <4>2. AttemptOf(n)' = AttemptOf(n)
        BY <4>1 DEF AttemptOf
      <4>3. n \in delivering' <=> n \in delivering
        BY <2>1, <2>2, <3>3
      <4> QED BY <3>1, <4>1, <4>2, <4>3 DEF Within
    <3> QED BY <3>2, <3>3
  <2> QED BY <2>3, <2>4, <2>5, <2>6 DEF Counted, Paced
<1>6. CASE RetryUnmarked(m)
  <2>1. Jam(m) /\ Listening /\ count' = [count EXCEPT ![m] = Absent]
    BY <1>6 DEF RetryUnmarked, Listening
  <2>2. faults' \in 0..MaxFaults
    BY <2>1, InboundAssumption DEF Jam, Fault, Counted, TypeOK
  <2>3. Others'
    BY <1>2, <1>3, <1>4, <2>1, <2>2 DEF Counted, TypeOK, Others, Jam
  <2> QED BY <1>2, <2>1, <2>3, JamCounted
<1>7. CASE CrashRequeueing(m)
  <2>1. /\ status' = [status EXCEPT ![m] = "pending"]
        /\ attempts' = [attempts EXCEPT ![m] = 0]
        /\ wait' = [wait EXCEPT ![m] = "unset"]
        /\ Fault /\ Lost
    BY <1>7 DEF CrashRequeueing, Requeued
  <2>2. faults' = faults + 1 /\ faults' \in 0..MaxFaults
    BY <2>1, InboundAssumption DEF Fault, Counted, TypeOK
  <2>3. Others'
    BY <1>2, <1>3, <1>4, <2>1, <2>2 DEF Counted, TypeOK, Others, Lost, Phases
  <2>4. /\ status' \in Statuses /\ attempts' \in [Message -> Nat] /\ wait' \in Waits
        /\ \A n \in Message : status'[n] # "none" => n \in Recorded \cup {m}
        /\ \A n \in Message : status'[n] = "none" => status[n] = "none" /\ n # m
        /\ \A n \in Message : attempts'[n] = IF n = m THEN 0 ELSE attempts[n]
    BY <2>1 DEF Counted, TypeOK, Statuses, Waits, Recorded
  <2>5. \A n \in Message : attempts'[n] < MaxAttempts + faults'
    <3>1. 0 < MaxAttempts + (faults + 1)
      BY Numbers DEF Counted
    <3> QED BY <2>2, <2>4, <3>1, Affordable
  <2>6. \A n \in Message : status'[n] = "none" => attempts'[n] = 0
    BY <2>4 DEF Counted, Paced, Within
  <2> QED BY <1>2, <2>1, <2>3, <2>4, <2>5, <2>6, LostCounted
<1>8. CASE RetryUnremoved(m)
  <2>1. /\ status'   = [status EXCEPT ![m] = "pending"]
        /\ attempts' = [attempts EXCEPT ![m] = 0]
        /\ wait'     = [wait EXCEPT ![m] = "unset"]
        /\ phase = "up"
        /\ Fault
        /\ UNCHANGED <<phase, delivering, count, task, doubled, retryTimer, recoveryTimer>>
    BY <1>8 DEF RetryUnremoved, Requeued, volatile
  <2>2. faults' = faults + 1 /\ faults' \in 0..MaxFaults
    BY <2>1, InboundAssumption DEF Fault, Counted, TypeOK
  <2>3. /\ status' \in Statuses /\ attempts' \in [Message -> Nat] /\ wait' \in Waits
        /\ attempts'[m] = 0 /\ status'[m] = "pending"
        /\ \A n \in Message : n # m => attempts'[n] = attempts[n] /\ status'[n] = status[n]
    BY <2>1 DEF Counted, TypeOK, Statuses, Waits
  <2>4. TypeOK'
    BY <1>2, <1>3, <1>4, <2>1, <2>2, <2>3 DEF Counted, TypeOK, Statuses, Waits
  <2>5. RecordsRemembered'
    BY <1>2, <2>1 DEF Counted, TypeOK, RecordsRemembered, Recorded
  <2>6. Quitting'
    BY <2>1, <2>2 DEF Counted, Paced, Quitting
  <2>7. /\ Budget \in Int /\ Budget' = Budget + 1 /\ Budget >= 1
    BY <2>1, <2>2, Numbers DEF Counted, Budget
  <2>8. ASSUME NEW n \in Message PROVE Within(n, attempts, status)'
    <3>1. /\ Within(n, attempts, status) /\ attempts[n] \in Nat /\ AttemptOf(n) \in Nat
          /\ AttemptOf(n)' = AttemptOf(n) /\ task'[n] = task[n]
          /\ n \in delivering' <=> n \in delivering
      BY <2>1 DEF Counted, Paced, TypeOK, AttemptOf
    <3>2. CASE n = m
      BY <2>3, <2>7, <3>1, <3>2 DEF Within
    <3>3. CASE n # m
      <4>1. attempts'[n] = attempts[n] /\ status'[n] = status[n]
        BY <2>3, <3>3
      <4> QED BY <2>7, <3>1, <4>1 DEF Within
    <3> QED BY <3>2, <3>3
  <2> QED BY <2>4, <2>5, <2>6, <2>8 DEF Counted, Paced
<1> QED BY <1>5, <1>6, <1>7, <1>8

(* The bus waits for m no longer: m has an attempt left, or none to make.   *)
LEMMA LeavingCounted ==
  ASSUME Counted, NEW m \in Message, Others',
         task' = [task EXCEPT ![m] = "none"], delivering' = delivering \ {m},
         UNCHANGED <<phase, dedup, doubled>>,
         faults' = faults \/ faults' = faults + 1,
         status' \in Statuses, attempts' \in [Message -> Nat], wait' \in Waits,
         count' \in [Message -> Nat \cup {Absent}],
         \A n \in Message \ {m} : /\ status'[n] = status[n] /\ attempts'[n] = attempts[n]
                                  /\ count'[n] = count[n],
         status'[m] # "none" => status[m] # "none",
         status'[m] = "none" => attempts'[m] = 0,
         attempts'[m] < Budget'
  PROVE  Counted'
<1>1. TypeOK'
  BY DEF Counted, TypeOK, Others, Statuses, Waits
<1>2. RecordsRemembered'
  <2>1. \A n \in Message : status'[n] # "none" => status[n] # "none"
    OBVIOUS
  <2> QED BY <2>1 DEF Counted, RecordsRemembered, Recorded, Remembered
<1>3. /\ faults \in Nat /\ faults' \in Nat /\ Budget \in Int /\ Budget' \in Int
      /\ Budget' = Budget \/ Budget' = Budget + 1
      /\ faults' >= faults
  <2>1. faults \in Nat /\ MaxAttempts \in Nat /\ Budget \in Int
    BY Numbers DEF Counted
  <2>2. Budget' = Budget \/ Budget' = Budget + 1
    BY <2>1 DEF Budget
  <2>3. faults' \in Nat /\ faults' >= faults
    BY <2>1
  <2> QED BY <2>1, <2>2, <2>3
<1>4. Quitting'
  BY <1>3 DEF Counted, Paced, Quitting
<1>5. ASSUME NEW n \in Message PROVE Within(n, attempts, status)'
  <2>1. Within(n, attempts, status) /\ attempts[n] \in Nat /\ attempts'[n] \in Nat
    BY DEF Counted, Paced, TypeOK
  <2>2. CASE n = m
    <3>1. task'[n] = "none"
      BY <2>2 DEF Counted, TypeOK
    <3>2. attempts'[n] < Budget' /\ attempts'[n] <= Budget'
      BY <1>3, <2>1, <2>2
    <3> QED BY <2>2, <3>1, <3>2 DEF Within
  <2>3. CASE n # m
    <3>1. /\ status'[n] = status[n] /\ attempts'[n] = attempts[n] /\ task'[n] = task[n]
          /\ AttemptOf(n)' = AttemptOf(n)
      BY <2>3 DEF Counted, TypeOK, AttemptOf
    <3>2. n \in delivering' <=> n \in delivering
      BY <2>3
    <3>3. attempts[n] <= Budget => attempts[n] <= Budget'
      BY <1>3, <2>1
    <3>4. attempts[n] < Budget => attempts[n] < Budget'
      BY <1>3, <2>1
    <3> QED BY <2>1, <3>1, <3>2, <3>3, <3>4 DEF Within
  <2> QED BY <2>2, <2>3
<1> QED BY <1>1, <1>2, <1>4, <1>5 DEF Counted, Paced

LEMMA SettleCounted ==
  ASSUME Counted, NEW m \in Message, Settle(m)
  PROVE  Counted'
<1>1. /\ TypeOK /\ Within(m, attempts, status)
      /\ faults \in Nat /\ MaxAttempts \in Nat \ {0} /\ Budget \in Int /\ Budget >= MaxAttempts
      /\ attempts[m] \in Nat /\ AttemptOf(m) \in Nat
  <2>1. TypeOK /\ Quitting /\ Within(m, attempts, status)
    BY DEF Counted, Paced
  <2>2. faults \in Nat /\ MaxAttempts \in Nat \ {0} /\ Budget \in Int
    BY <2>1, Numbers
  <2>3. Budget >= MaxAttempts
    BY <2>1, <2>2 DEF Budget, Quitting
  <2> QED BY <2>1, <2>2, <2>3, Numbers
<1>2. task' = [task EXCEPT ![m] = "none"] /\ delivering' = delivering \ {m}
  BY DEF Settle, Ack, Retry, RetryUnsaved, DeadLetter, DeadLetterUnsaved, Failing
<1>3. ASSUME Fault
      PROVE  faults' = faults + 1 /\ faults' \in 0..MaxFaults
  BY <1>1, <1>3, InboundAssumption DEF Fault, TypeOK
<1>4. ASSUME faults' = faults + 1, phase' = phase PROVE Budget' = Budget + 1
  BY <1>1, <1>4 DEF Budget
<1>5. ASSUME Unrecord(m), count' = [count EXCEPT ![m] = Absent]
      PROVE  /\ status' \in Statuses /\ attempts' \in [Message -> Nat] /\ wait' \in Waits
             /\ count' \in [Message -> Nat \cup {Absent}]
             /\ status'[m] = "none" /\ attempts'[m] = 0
             /\ \A n \in Message \ {m} : /\ status'[n] = status[n] /\ attempts'[n] = attempts[n]
                                         /\ count'[n] = count[n]
  BY <1>1, <1>5 DEF Unrecord, TypeOK, Statuses, Waits
<1>6. ASSUME MarkRetry(m)
      PROVE  /\ status' \in Statuses /\ attempts' = attempts /\ wait' \in Waits
             /\ \A n \in Message \ {m} : status'[n] = status[n]
             /\ status'[m] = "none" <=> status[m] = "none"
  BY <1>1, <1>6 DEF MarkRetry, TypeOK, Statuses, Waits
<1>7. /\ status \in Statuses /\ attempts \in [Message -> Nat] /\ wait \in Waits
      /\ count \in [Message -> Nat \cup {Absent}]
  BY <1>1 DEF TypeOK, Statuses, Waits
<1>8. CASE Ack(m)
  <2>1. /\ Unrecord(m) /\ count' = [count EXCEPT ![m] = Absent]
        /\ fate' = [fate EXCEPT ![m] = "acked"]
        /\ UNCHANGED <<dedup, dead, phase, retryTimer, recoveryTimer, doubled, faults, requeues>>
    BY <1>8 DEF Ack
  <2>2. Others' /\ Budget' = Budget
    BY <1>1, <2>1 DEF TypeOK, Others, Budget
  <2>3. 0 < Budget'
    BY <1>1, <2>2
  <2> QED BY <1>2, <1>5, <2>1, <2>2, <2>3, LeavingCounted
<1>9. CASE Retry(m)
  <2>1. /\ AttemptOf(m) < MaxAttempts /\ MarkRetry(m) /\ Rearm(recoveryTimer)
        /\ task[m] = "rejected"
        /\ UNCHANGED <<dedup, dead, phase, count, retryTimer, fate, doubled, faults, requeues>>
    BY <1>9 DEF Retry, Failing, history
  <2>2. Others' /\ Budget' = Budget
    BY <1>1, <2>1 DEF TypeOK, Others, Budget, Rearm
  <2>3. attempts[m] < Budget
    BY <1>1, <2>1 DEF Within
  <2>4. /\ status' \in Statuses /\ attempts' = attempts /\ wait' \in Waits
        /\ \A n \in Message \ {m} : status'[n] = status[n]
        /\ status'[m] = "none" <=> status[m] = "none"
    BY <1>6, <2>1
  <2>5. status'[m] = "none" => attempts'[m] = 0
    BY <1>1, <2>4 DEF Within
  <2> QED BY <1>2, <1>7, <2>1, <2>2, <2>3, <2>4, <2>5, LeavingCounted
<1>10. CASE RetryUnsaved(m)
  <2>1. /\ Fault /\ retryTimer' = retryTimer \cup {m}
        /\ UNCHANGED <<status, attempts, wait, dedup, dead, phase, count,
                       recoveryTimer, fate, doubled, requeues>>
    BY <1>10 DEF RetryUnsaved, durable
  <2>2. faults' = faults + 1 /\ faults' \in 0..MaxFaults /\ Budget' = Budget + 1
    BY <1>3, <1>4, <2>1
  <2>3. Others'
    BY <1>1, <2>1, <2>2 DEF TypeOK, Others
  <2>4. attempts[m] < Budget'
    BY <1>1, <2>2 DEF Within
  <2>5. status[m] = "none" => attempts[m] = 0
    BY <1>1 DEF Within
  <2> QED BY <1>2, <1>7, <2>1, <2>2, <2>3, <2>4, <2>5, LeavingCounted
<1>11. CASE DeadLetter(m)
  <2>1. /\ dead' = WithLetter(m) /\ Unrecord(m) /\ count' = [count EXCEPT ![m] = Absent]
        /\ fate' = Buried(ToSet(dead'))
        /\ UNCHANGED <<dedup, phase, retryTimer, recoveryTimer, doubled, faults, requeues>>
    BY <1>11 DEF DeadLetter
  <2>2. dead' \in Seq(Message) /\ Len(dead') <= MaxDead
    BY <1>1, <2>1, LetterIsKept DEF TypeOK
  <2>3. fate' \in [Message -> {"unseen", "owed", "handled", "acked", "pruned"}]
    BY <1>1, <2>1 DEF TypeOK, Buried
  <2>4. Others' /\ Budget' = Budget
    BY <1>1, <2>1, <2>2, <2>3 DEF TypeOK, Others, Budget
  <2>5. 0 < Budget'
    BY <1>1, <2>4
  <2> QED BY <1>2, <1>5, <2>1, <2>4, <2>5, LeavingCounted
<1>12. CASE DeadLetterUnsaved(m)
  <2>1. /\ Fault /\ retryTimer' = retryTimer \cup {m}
        /\ MarkRetry(m) \/ UNCHANGED <<status, attempts, wait>>
        /\ \/ UNCHANGED <<dead, fate>>
           \/ dead' = WithLetter(m) /\ fate' = Buried(ToSet(dead'))
        /\ UNCHANGED <<dedup, phase, count, recoveryTimer, doubled, requeues>>
    BY <1>12 DEF DeadLetterUnsaved
  <2>2. faults' = faults + 1 /\ faults' \in 0..MaxFaults /\ Budget' = Budget + 1
    BY <1>3, <1>4, <2>1
  <2>3. /\ dead' \in Seq(Message) /\ Len(dead') <= MaxDead
        /\ fate' \in [Message -> {"unseen", "owed", "handled", "acked", "pruned"}]
    <3>1. CASE UNCHANGED <<dead, fate>>
      BY <1>1, <3>1 DEF TypeOK
    <3>2. CASE dead' = WithLetter(m) /\ fate' = Buried(ToSet(dead'))
      <4>1. dead' \in Seq(Message) /\ Len(dead') <= MaxDead
        BY <1>1, <3>2, LetterIsKept DEF TypeOK
      <4>2. fate' \in [Message -> {"unseen", "owed", "handled", "acked", "pruned"}]
        BY <1>1, <3>2 DEF TypeOK, Buried
      <4> QED BY <4>1, <4>2
    <3> QED BY <2>1, <3>1, <3>2
  <2>4. Others'
    BY <1>1, <2>1, <2>2, <2>3 DEF TypeOK, Others
  <2>5. attempts[m] < Budget'
    BY <1>1, <2>2 DEF Within
  <2>6. /\ status' \in Statuses /\ attempts' = attempts /\ wait' \in Waits
        /\ \A n \in Message \ {m} : status'[n] = status[n]
        /\ status'[m] = "none" <=> status[m] = "none"
    BY <1>6, <1>7, <2>1
  <2>7. status'[m] = "none" => attempts'[m] = 0
    BY <1>1, <2>6 DEF Within
  <2> QED BY <1>2, <1>7, <2>1, <2>2, <2>4, <2>5, <2>6, <2>7, LeavingCounted
<1> QED BY <1>8, <1>9, <1>10, <1>11, <1>12 DEF Settle

(* What changes nothing that is counted, but a promise's outcome. *)
LEMMA StillCounted ==
  ASSUME Counted, Others',
         UNCHANGED <<status, attempts, dedup, delivering, count, doubled, phase, faults>>,
         wait' \in Waits,
         task' \in [Message -> {"none", "running", "resolved", "rejected"}],
         \A m \in Message : task[m] = "none" <=> task'[m] = "none"
  PROVE  Counted'
<1>1. TypeOK'
  BY DEF Counted, TypeOK, Others, Waits
<1>2. RecordsRemembered'
  BY DEF Counted, RecordsRemembered, Recorded, Remembered
<1>3. Quitting' /\ Budget' = Budget
  BY DEF Counted, Paced, Quitting, Budget
<1>4. ASSUME NEW m \in Message PROVE Within(m, attempts, status)'
  BY <1>3 DEF Counted, Paced, Within, AttemptOf
<1> QED BY <1>1, <1>2, <1>3, <1>4 DEF Counted, Paced

(* Every step of the gateway leaves the attempts counted. *)
LEMMA StepCounted == ASSUME Counted, [Next]_vars PROVE Counted'
<1> USE DEF durable, volatile, history
<1>1. TypeOK /\ MaxFaults \in Nat
  BY InboundAssumption DEF Counted
<1>2. ASSUME Fault PROVE faults' = faults + 1 /\ faults' \in 0..MaxFaults
  BY <1>1, <1>2 DEF Fault, TypeOK
<1>3. /\ status \in Statuses /\ attempts \in [Message -> Nat] /\ wait \in Waits
      /\ \A m \in Message : status[m] # "none" => m \in Remembered
      /\ \A m \in Message : status[m] = "none" => attempts[m] = 0
  BY DEF Counted, TypeOK, Statuses, Waits, RecordsRemembered, Recorded, Paced, Within
<1>4. ASSUME NEW m \in Message, HandlerSettles(m) PROVE Counted'
  <2>1. /\ task[m] = "running"
        /\ \E s \in {"resolved", "rejected"} : task' = [task EXCEPT ![m] = s]
        /\ fate' = fate \/ fate' = [fate EXCEPT ![m] = "handled"]
        /\ UNCHANGED <<durable, phase, delivering, count, retryTimer, recoveryTimer,
                       doubled, faults, requeues>>
    BY <1>4 DEF HandlerSettles, HandlerResolves, HandlerRejects
  <2>2. Others'
    BY <1>1, <2>1 DEF TypeOK, Others
  <2>3. /\ task' \in [Message -> {"none", "running", "resolved", "rejected"}]
        /\ \A n \in Message : task[n] = "none" <=> task'[n] = "none"
    BY <1>1, <2>1 DEF TypeOK
  <2> QED BY <1>3, <2>1, <2>2, <2>3, StillCounted
<1>5. ASSUME NEW m \in Message, BackoffElapses(m) PROVE Counted'
  <2>1. /\ wait' = [wait EXCEPT ![m] = "due"]
        /\ UNCHANGED <<status, attempts, dedup, dead, phase, delivering, count, task,
                       retryTimer, recoveryTimer, fate, doubled, faults, requeues>>
    BY <1>5 DEF BackoffElapses
  <2>2. Others' /\ wait' \in Waits
    BY <1>1, <2>1 DEF TypeOK, Others, Waits
  <2> QED BY <1>1, <2>1, <2>2, StillCounted DEF TypeOK
<1>6. ASSUME NEW m \in Message, RetryTimerFires(m) PROVE Counted'
  <2>1. /\ retryTimer' = retryTimer \ {m}
        /\ UNCHANGED <<dedup, dead, phase, recoveryTimer, fate, faults, requeues>>
    BY <1>6 DEF RetryTimerFires
  <2>2. Others' /\ Budget' = Budget
    BY <1>1, <2>1 DEF TypeOK, Others, Budget
  <2>3. CASE Open
    <3>1. Deliver({m}, status, attempts, wait)
      BY <1>6, <2>3 DEF RetryTimerFires
    <3>2. Quitting'
      BY <2>1, <2>3 DEF Counted, Paced, Quitting, Open
    <3>3. \A n \in Message : Within(n, attempts, status)
      BY DEF Counted, Paced
    <3>4. \A n \in Message : status[n] # "none" => n \in Remembered'
      BY <1>3, <2>1 DEF Remembered
    <3> QED BY <1>3, <2>2, <3>1, <3>2, <3>3, <3>4, DeliverCounted
  <2>4. CASE ~Open
    <3>1. UNCHANGED <<status, attempts, wait, delivering, count, task, doubled>>
      BY <1>6, <2>4 DEF RetryTimerFires
    <3> QED BY <1>1, <1>3, <2>1, <2>2, <3>1, StillCounted DEF TypeOK
  <2> QED BY <2>3, <2>4
<1>7. CASE RecoveryTimerFires \/ Started
  <2>1. /\ Recover /\ UNCHANGED <<faults, requeues>>
        /\ phase' = phase \/ (phase = "starting" /\ phase' = "up")
    BY <1>7 DEF RecoveryTimerFires, Started
  <2> QED BY <2>1, RecoverCounted
<1>8. CASE Start
  <2>1. /\ phase = "down" /\ phase' = "starting"
        /\ UNCHANGED <<durable, volatile, history>>
    BY <1>8 DEF Start
  <2>2. TypeOK' /\ Budget' = Budget /\ Quitting'
    BY <1>1, <2>1 DEF TypeOK, Phases, Budget, Quitting
  <2>3. RecordsRemembered'
    BY <2>1 DEF Counted, RecordsRemembered, Recorded, Remembered
  <2>4. ASSUME NEW m \in Message PROVE Within(m, attempts, status)'
    BY <2>1, <2>2 DEF Counted, Paced, Within, AttemptOf
  <2> QED BY <2>2, <2>3, <2>4 DEF Counted, Paced
<1>9. CASE Stop
  <2>1. /\ phase = "up" /\ phase' = "draining" /\ Fault
        /\ UNCHANGED <<durable, volatile, fate, doubled, requeues>>
    BY <1>9 DEF Stop
  <2>2. faults' = faults + 1 /\ faults' \in 0..MaxFaults
    BY <1>2, <2>1
  <2>3. TypeOK'
    BY <1>1, <2>1, <2>2 DEF TypeOK, Phases
  <2>4. Budget' = Budget
    BY <1>1, <2>1, <2>2, Numbers DEF Budget
  <2>5. Quitting'
    <3>1. faults' > 0
      BY <2>2, Numbers, <1>1
    <3> QED BY <2>1, <3>1 DEF Quitting
  <2>6. RecordsRemembered'
    BY <2>1 DEF Counted, RecordsRemembered, Recorded, Remembered
  <2>7. ASSUME NEW m \in Message PROVE Within(m, attempts, status)'
    BY <2>1, <2>4 DEF Counted, Paced, Within, AttemptOf
  <2> QED BY <2>3, <2>5, <2>6, <2>7 DEF Counted, Paced
<1>10. CASE Close
  <2>1. /\ phase = "draining" /\ phase' = "closed" /\ delivering' = {}
        /\ retryTimer' = {} /\ recoveryTimer' = FALSE
        /\ UNCHANGED <<status, attempts, wait, dedup, dead, count, task,
                       fate, doubled, faults, requeues>>
    BY <1>10 DEF Close
  <2>2. TypeOK' /\ Quitting'
    BY <1>1, <2>1 DEF TypeOK, Phases, Quitting
  <2>3. Budget' = Budget + 1
    BY <1>1, <2>1, Numbers DEF Budget
  <2>4. RecordsRemembered'
    BY <2>1 DEF Counted, RecordsRemembered, Recorded, Remembered
  <2>5. ASSUME NEW m \in Message PROVE Within(m, attempts, status)'
    <3>1. Within(m, attempts, status) /\ Budget \in Int /\ attempts[m] \in Nat
      BY <1>1, Numbers DEF Counted, Paced
    <3>2. attempts[m] <= Budget' /\ attempts[m] < Budget'
      BY <2>3, <3>1 DEF Within
    <3>3. /\ attempts'[m] = attempts[m] /\ status'[m] = status[m] /\ task'[m] = task[m]
          /\ AttemptOf(m)' = AttemptOf(m)
      BY <2>1 DEF AttemptOf
    <3> QED BY <3>1, <3>2, <3>3 DEF Within
  <2> QED BY <2>2, <2>4, <2>5 DEF Counted, Paced
<1>11. CASE Exit
  <2>1. /\ phase = "closed" /\ Lost
        /\ UNCHANGED <<durable, fate, faults, requeues>>
    BY <1>11 DEF Exit
  <2>2. Others'
    BY <1>1, <2>1 DEF TypeOK, Others, Lost, Phases
  <2>3. \A m \in Message : attempts'[m] < MaxAttempts + faults'
    <3>1. Budget = MaxAttempts + faults /\ delivering = {}
      BY <1>1, <2>1, Numbers DEF Budget, Counted, Paced, Quitting
    <3> QED BY <2>1, <3>1 DEF Counted, Paced, Within
  <2>4. \A m \in Message : status'[m] # "none" => m \in Remembered'
    BY <1>3, <2>1 DEF Remembered
  <2> QED BY <1>3, <2>1, <2>2, <2>3, <2>4, LostCounted
<1>12. ASSUME NEW m \in Message, CrashDeadLettering(m) PROVE Counted'
  <2>1. /\ dead' = WithLetter(m) /\ fate' = Buried(ToSet(dead'))
        /\ UNCHANGED <<status, attempts, wait, dedup, requeues>> /\ Fault /\ Lost
    BY <1>12 DEF CrashDeadLettering
  <2>2. faults' = faults + 1 /\ faults' \in 0..MaxFaults
    BY <1>2, <2>1
  <2>3. dead' \in Seq(Message) /\ Len(dead') <= MaxDead
    BY <1>1, <2>1, LetterIsKept DEF TypeOK
  <2>4. Others'
    BY <1>1, <2>1, <2>2, <2>3 DEF TypeOK, Others, Lost, Phases, Buried
  <2>5. \A n \in Message : attempts'[n] < MaxAttempts + faults'
    BY <2>1, <2>2, Affordable
  <2>6. \A n \in Message : status'[n] # "none" => n \in Remembered'
    BY <1>3, <2>1 DEF Remembered
  <2> QED BY <1>3, <2>1, <2>4, <2>5, <2>6, LostCounted
<1>13. CASE Crash
  <2>1. Fault /\ Lost /\ UNCHANGED <<durable, fate, requeues>>
    BY <1>13 DEF Crash
  <2>2. faults' = faults + 1 /\ faults' \in 0..MaxFaults
    BY <1>2, <2>1
  <2>3. Others'
    BY <1>1, <2>1, <2>2 DEF TypeOK, Others, Lost, Phases
  <2>4. \A n \in Message : attempts'[n] < MaxAttempts + faults'
    BY <2>1, <2>2, Affordable
  <2>5. \A n \in Message : status'[n] # "none" => n \in Remembered'
    BY <1>3, <2>1 DEF Remembered
  <2> QED BY <1>3, <2>1, <2>3, <2>4, <2>5, LostCounted
<1>14. CASE UNCHANGED vars
  <2>1. Others'
    BY <1>1, <1>14 DEF vars, TypeOK, Others
  <2> QED BY <1>1, <1>3, <1>14, <2>1, StillCounted DEF vars, TypeOK
<1>15. ASSUME NEW m \in Message, Serve,
              \/ Publish(m) \/ PublishUnmarked(m)
              \/ Settle(m) \/ RetryInbound(m) \/ RetryUnmarked(m) \/ RetryUnremoved(m)
       PROVE  Counted'
  BY <1>15, PublishCounted, SettleCounted, RequeueCounted
<1>16. CASE Serve
  BY <1>5, <1>6, <1>7, <1>8, <1>15, <1>16 DEF Serve
<1>17. CASE Die
  BY <1>12, <1>13, <1>17, PublishCounted, RequeueCounted DEF Die
<1> QED BY <1>4, <1>9, <1>10, <1>11, <1>14, <1>16, <1>17 DEF Next

(* The files and the counters of the handoff are consistent at every write, *)
(* for every limit: a key with a record is never forgotten, and only a      *)
(* crash, a stop or a failed write buys an attempt beyond maxAttempts.      *)
THEOREM HandoffConsistentHolds == Spec => []Consistent
<1>1. Init => Counted
  <2> SUFFICES ASSUME Init PROVE Counted
    OBVIOUS
  <2>1. /\ {MaxAttempts, MaxRecords, MaxDedup, MaxDead} \subseteq Nat \ {0}
        /\ {MaxFaults, MaxRequeues} \subseteq Nat
    BY InboundAssumption
  <2>2. <<>> \in Seq(Message) /\ Len(<<>>) = 0
    BY EmptySeq
  <2>3. TypeOK
    <3>1. /\ dead \in Seq(Message) /\ Len(dead) <= MaxDead /\ dedup \in Seq(Message)
      BY <2>1, <2>2 DEF Init
    <3>2. /\ status \in Statuses /\ attempts \in [Message -> Nat] /\ wait \in Waits
          /\ count \in [Message -> Nat \cup {Absent}]
          /\ task \in [Message -> {"none", "running", "resolved", "rejected"}]
          /\ fate \in [Message -> {"unseen", "owed", "handled", "acked", "pruned"}]
      BY DEF Init, Statuses, Waits
    <3>3. /\ phase \in Phases /\ delivering \subseteq Message /\ retryTimer \subseteq Message
          /\ recoveryTimer \in BOOLEAN /\ doubled \subseteq Message
      BY DEF Init, Phases
    <3>4. faults \in 0..MaxFaults /\ requeues \in 0..MaxRequeues
      BY <2>1 DEF Init
    <3> QED BY <3>1, <3>2, <3>3, <3>4 DEF TypeOK, Statuses, Waits
  <2>4. RecordsRemembered
    BY DEF Init, RecordsRemembered, Recorded
  <2>5. Budget = MaxAttempts /\ MaxAttempts > 0 /\ Quitting
    BY <2>1 DEF Init, Budget, Quitting
  <2>6. ASSUME NEW m \in Message PROVE Within(m, attempts, status)
    <3>1. attempts[m] = 0 /\ task[m] = "none"
      BY DEF Init
    <3>2. 0 <= Budget /\ 0 < Budget
      BY <2>1, <2>5
    <3> QED BY <3>1, <3>2 DEF Within
  <2> QED BY <2>3, <2>4, <2>5, <2>6 DEF Counted, Paced
<1>2. Counted /\ [Next]_vars => Counted'
  BY StepCounted
<1>3. Counted /\ OneHandler => Consistent
  <2> SUFFICES ASSUME Counted, OneHandler, NEW m \in Message
               PROVE  attempts[m] <= MaxAttempts + faults
    BY DEF Counted, Consistent, AttemptsBounded
  <2>1. attempts[m] <= Budget
    BY DEF Counted, Paced, Within
  <2>2. /\ attempts[m] \in Nat /\ MaxAttempts \in Nat /\ faults \in Nat
        /\ Budget \in Int /\ Budget <= MaxAttempts + faults
    BY Numbers DEF Counted, Budget
  <2> QED BY <2>1, <2>2
<1>4. QED BY <1>1, <1>2, <1>3, OneHandlerHolds, PTL DEF Spec
-----------------------------------------------------------------------------
(* InboundHandoff implements Custody                                        *)

(* A message has one place among the dead letters: an operator who takes it *)
(* out leaves no other behind.                                              *)
OneLetter == dead \in Seq(Message) /\ IsInjective(dead)

LEMMA LettersStep == ASSUME OneLetter, [Next]_vars PROVE OneLetter'
<1>1. ASSUME UNCHANGED dead PROVE OneLetter'
  BY <1>1 DEF OneLetter
<1>2. ASSUME NEW m \in Message, dead' = WithLetter(m) PROVE OneLetter'
  BY <1>2, LetterIsKept DEF OneLetter
<1>3. ASSUME NEW m \in Message, dead' = Without(dead, m) PROVE OneLetter'
  BY <1>3, WithoutKeeps DEF OneLetter
<1>4. ASSUME NEW m \in Message,
             \/ Publish(m) \/ PublishUnmarked(m) \/ Settle(m) \/ BackoffElapses(m)
             \/ RetryTimerFires(m) \/ RetryInbound(m) \/ RetryUnmarked(m) \/ RetryUnremoved(m)
      PROVE  OneLetter'
  BY <1>1, <1>2, <1>3, <1>4
     DEF Publish, PublishUnmarked, Settle, Ack, Retry, RetryUnsaved, DeadLetter,
         DeadLetterUnsaved, BackoffElapses, RetryTimerFires, RetryInbound, RetryUnmarked,
         RetryUnremoved, Requeued, durable
<1>5. CASE RecoveryTimerFires \/ Start \/ Started
  BY <1>1, <1>5 DEF RecoveryTimerFires, Start, Started, Recover, durable
<1>6. CASE Stop \/ Close \/ Exit
  BY <1>1, <1>6 DEF Stop, Close, Exit, durable
<1>7. CASE Die
  BY <1>1, <1>2, <1>7 DEF Die, CrashAccepting, CrashDeadLettering, CrashRequeueing,
                          Requeued, Crash, durable
<1>8. ASSUME NEW m \in Message, HandlerSettles(m) PROVE OneLetter'
  BY <1>1, <1>8 DEF HandlerSettles, HandlerResolves, HandlerRejects, durable
<1>9. CASE UNCHANGED vars
  BY <1>1, <1>9 DEF vars, durable
<1> QED BY <1>4, <1>5, <1>6, <1>7, <1>8, <1>9 DEF Next, Serve

Careful == TypeOK /\ RecordsRemembered /\ TasksKnown /\ OneLetter

Keeping == [Care!Next]_(Care!care)

(* deliverInbound begins the handlers of what nobody handles yet.           *)
LEMMA DeliverBegins ==
  ASSUME Careful, NEW asked \in SUBSET Message, NEW st, NEW at, NEW wt,
         Deliver(asked, st, at, wt)
  PROVE  /\ Care!Begin(IF Listening THEN Idle(asked) ELSE {})
         /\ Recorded' = {m \in Message : st[m] # "none"}
<1>1. task' = [m \in Message |-> IF m \in Idle(asked) /\ Listening
                                 THEN "running" ELSE task[m]]
  BY DEF Deliver
<1>2. ASSUME Listening, NEW m \in Idle(asked) PROVE task[m] = "none"
  <2>1. phase # "closed" /\ m \in Message /\ m \notin delivering
    BY <1>2 DEF Listening, Idle
  <2> QED BY <2>1 DEF Careful, TasksKnown
<1>3. Recorded' = {m \in Message : st[m] # "none"}
  BY DEF Deliver, Recorded
<1>4. CASE Listening
  BY <1>1, <1>2, <1>3, <1>4 DEF Care!Begin
<1>5. CASE ~Listening
  BY <1>1, <1>3, <1>5 DEF Care!Begin
<1> QED BY <1>4, <1>5

LEMMA NoneBegins ==
  ASSUME Careful, Care!Begin({})
  PROVE  task' = task
BY DEF Care!Begin, Careful, TypeOK

LEMMA OneBegins ==
  ASSUME Careful, NEW m \in Message, NEW st, NEW at, NEW wt, Deliver({m}, st, at, wt)
  PROVE  Care!MayBegin(m)
<1>1. Idle({m}) = {m} \/ Idle({m}) = {}
  BY DEF Idle
<1>2. Care!Begin({m}) \/ Care!Begin({})
  BY <1>1, DeliverBegins
<1> QED BY <1>2, NoneBegins DEF Care!MayBegin

LEMMA LostDies == ASSUME Lost PROVE Care!Dies
BY DEF Lost, Care!Dies

(* The write of accept.                                                     *)
LEMMA AcceptRemembers ==
  ASSUME Careful, NEW m \in Message, Accept(m), Recorded' = Recorded \cup {m}
  PROVE  m \notin Remembered /\ Care!Remember(m)
<1>1. dedup \in Seq(Message) /\ Recorded \subseteq ToSet(dedup)
  BY DEF Careful, TypeOK, RecordsRemembered, Remembered
<1>2. dedup' = Trim(Append(dedup, m), Recorded \cup {m}) /\ m \notin Remembered
  BY DEF Accept
<1>3. /\ (ToSet(dedup) \cap Recorded) \cup {m} \subseteq ToSet(dedup')
      /\ ToSet(dedup') \subseteq ToSet(dedup) \cup {m}
  BY <1>1, <1>2, Remembering
<1> QED BY <1>1, <1>2, <1>3 DEF Care!Remember, Remembered

LEMMA PublishCared ==
  ASSUME Careful, NEW m \in Message,
         Publish(m) \/ PublishUnmarked(m) \/ CrashAccepting(m)
  PROVE  Care!Accept(m)
<1> DEFINE st == [status EXCEPT ![m] = "pending"]
<1>0. Accept(m) /\ dead' = dead
  BY DEF Publish, PublishUnmarked, CrashAccepting
<1>1. \A n \in Message : st[n] # "none" <=> n = m \/ status[n] # "none"
  BY DEF Careful, TypeOK
<1>2. Recorded' = Recorded \cup {m}
  <2>1. ASSUME status' = st PROVE Recorded' = Recorded \cup {m}
    BY <1>1, <2>1 DEF Recorded
  <2>2. CASE PublishUnmarked(m) \/ CrashAccepting(m)
    BY <2>1, <2>2 DEF PublishUnmarked, Jam, CrashAccepting
  <2>3. CASE Publish(m) /\ ~Listening
    BY <2>1, <2>3 DEF Publish
  <2>4. CASE Publish(m) /\ Listening
    <3>1. \E at : Deliver({m}, st, at, wait)
      BY <2>4 DEF Publish
    <3>2. Recorded' = {n \in Message : st[n] # "none"}
      BY <3>1, DeliverBegins
    <3> HIDE DEF st
    <3> QED BY <1>1, <3>2 DEF Recorded
  <2> QED BY <2>2, <2>3, <2>4
<1>3. m \notin Remembered /\ Care!Remember(m) /\ DeadLetters' = DeadLetters
  BY <1>0, <1>2, AcceptRemembers DEF DeadLetters
<1>4. CASE Publish(m)
  <2>1. retryTimer' = retryTimer
    BY <1>4 DEF Publish
  <2>2. CASE Listening
    <3>1. \E at : Deliver({m}, st, at, wait)
      BY <1>4, <2>2 DEF Publish
    <3>2. Care!MayBegin(m)
      BY <3>1, OneBegins
    <3> QED BY <1>3, <2>1, <3>2 DEF Care!Accept
  <2>3. CASE ~Listening
    BY <1>3, <1>4, <2>1, <2>3 DEF Publish, Care!Accept, Care!MayBegin
  <2> QED BY <2>2, <2>3
<1>5. CASE PublishUnmarked(m)
  BY <1>3, <1>5 DEF PublishUnmarked, Jam, Care!Accept, Care!MayBegin
<1>6. CASE CrashAccepting(m)
  BY <1>3, <1>6, LostDies DEF CrashAccepting, Care!Accept
<1> QED BY <1>4, <1>5, <1>6

(* The write of requeue, then the removal of the letter.                    *)
LEMMA RequeueCared ==
  ASSUME Careful, NEW m \in Message,
         RetryInbound(m) \/ RetryUnmarked(m) \/ RetryUnremoved(m) \/ CrashRequeueing(m)
  PROVE  Care!Exhume(m)
<1>0. Requeue(m) /\ m \in DeadLetters
  BY DEF RetryInbound, RetryUnmarked, RetryUnremoved, Requeued, CrashRequeueing, Requeue
<1>1. Recorded' = Recorded \cup {m}
  <2>1. \E word \in {"pending", "delivering"} : status' = [status EXCEPT ![m] = word]
    BY DEF RetryInbound, RetryUnmarked, Jam, RetryUnremoved, Requeued, CrashRequeueing
  <2> QED BY <2>1 DEF Recorded, Careful, TypeOK
<1>2. Care!Remember(m)
  <2>1. dedup \in Seq(Message) /\ Recorded \subseteq ToSet(dedup)
    BY DEF Careful, TypeOK, RecordsRemembered, Remembered
  <2>2. CASE m \in Recorded
    <3>1. dedup' = Trim(dedup, Recorded)
      BY <1>0, <2>2 DEF Requeue
    <3>2. /\ ToSet(dedup') \subseteq ToSet(dedup)
          /\ ToSet(dedup) \cap Recorded \subseteq ToSet(dedup')
      BY <2>1, <3>1, Trimmed
    <3> QED BY <1>1, <2>1, <2>2, <3>2 DEF Care!Remember, Remembered
  <2>3. CASE m \notin Recorded
    <3>1. dedup' = Trim(Append(dedup, m), Recorded \cup {m})
      BY <1>0, <2>3 DEF Requeue
    <3>2. /\ (ToSet(dedup) \cap Recorded) \cup {m} \subseteq ToSet(dedup')
          /\ ToSet(dedup') \subseteq ToSet(dedup) \cup {m}
      BY <2>1, <3>1, Remembering
    <3> QED BY <1>1, <2>1, <3>2 DEF Care!Remember, Remembered
  <2> QED BY <2>2, <2>3
<1>3. ASSUME dead' = Without(dead, m) PROVE DeadLetters' = DeadLetters \ {m}
  <2>1. /\ ToSet(dead) \ {m} \subseteq ToSet(Without(dead, m))
        /\ ToSet(Without(dead, m)) \subseteq ToSet(dead)
        /\ m \notin ToSet(Without(dead, m))
    BY WithoutKeeps DEF Careful, OneLetter
  <2> QED BY <1>3, <2>1 DEF DeadLetters
<1>4. CASE RetryInbound(m)
  <2>1. /\ task' = [n \in Message |-> IF n \in Idle({m}) THEN "running" ELSE task[n]]
        /\ phase = "up" /\ dead' = Without(dead, m) /\ retryTimer' = retryTimer
    BY <1>4 DEF RetryInbound
  <2>2. Care!MayBegin(m)
    <3>1. CASE m \in delivering
      <4>1. task' = task
        BY <2>1, <3>1 DEF Idle, Careful, TypeOK
      <4> QED BY <4>1 DEF Care!MayBegin
    <3>2. CASE m \notin delivering
      <4>1. task[m] = "none" /\ Idle({m}) = {m}
        BY <2>1, <3>2 DEF Careful, TasksKnown, Idle
      <4> QED BY <2>1, <4>1 DEF Care!MayBegin, Care!Begin
    <3> QED BY <3>1, <3>2
  <2> QED BY <1>0, <1>2, <1>3, <2>1, <2>2 DEF Care!Exhume
<1>5. CASE RetryUnmarked(m)
  BY <1>0, <1>2, <1>3, <1>5 DEF RetryUnmarked, Jam, Care!Exhume, Care!MayBegin
<1>6. CASE RetryUnremoved(m) \/ CrashRequeueing(m)
  <2>1. DeadLetters' = DeadLetters
    BY <1>6 DEF RetryUnremoved, CrashRequeueing, Requeued, DeadLetters
  <2>2. CASE RetryUnremoved(m)
    BY <1>0, <1>2, <2>1, <2>2 DEF RetryUnremoved, volatile, Care!Exhume, Care!MayBegin
  <2>3. CASE CrashRequeueing(m)
    BY <1>0, <1>2, <2>1, <2>3, LostDies DEF CrashRequeueing, Care!Exhume
  <2> QED BY <1>6, <2>2, <2>3
<1> QED BY <1>4, <1>5, <1>6

(* A handler settles, and what the bus does with that.                      *)
LEMMA SettleCared ==
  ASSUME Careful, NEW m \in Message,
         Settle(m) \/ HandlerSettles(m) \/ CrashDeadLettering(m)
  PROVE  Care!Next
<1>0. status \in [Message -> {"none", "pending", "delivering"}]
  BY DEF Careful, TypeOK
<1>1. CASE HandlerSettles(m)
  <2>1. /\ task[m] = "running"
        /\ \E outcome \in {"resolved", "rejected"} : task' = [task EXCEPT ![m] = outcome]
        /\ UNCHANGED <<status, dedup, dead, retryTimer>>
    BY <1>1 DEF HandlerSettles, HandlerResolves, HandlerRejects, durable
  <2>2. Care!Handled(m)
    BY <2>1 DEF Care!Handled, Recorded, Remembered, DeadLetters
  <2> QED BY <2>2 DEF Care!Next
<1>2. ASSUME Unrecord(m) PROVE Recorded' = Recorded \ {m}
  BY <1>0, <1>2 DEF Unrecord, Recorded
<1>3. ASSUME MarkRetry(m) \/ status' = status PROVE Recorded' = Recorded
  BY <1>0, <1>3 DEF MarkRetry, Recorded
<1>4. ASSUME dead' = WithLetter(m)
      PROVE  m \in DeadLetters' /\ DeadLetters' \subseteq DeadLetters \cup {m}
  BY <1>4, LetterIsKept DEF Careful, OneLetter, DeadLetters
<1>5. CASE Ack(m)
  <2>1. Care!Release(m)
    BY <1>2, <1>5 DEF Ack, Care!Release, Remembered, DeadLetters
  <2> QED BY <2>1 DEF Care!Next
<1>6. CASE Retry(m) \/ RetryUnsaved(m) \/ DeadLetterUnsaved(m)
  <2>1. /\ task[m] = "rejected" /\ task' = [task EXCEPT ![m] = "none"]
        /\ UNCHANGED dedup /\ (MarkRetry(m) \/ status' = status)
        /\ \/ dead' = dead /\ retryTimer' \in {retryTimer, retryTimer \cup {m}}
           \/ dead' = WithLetter(m) /\ retryTimer' = retryTimer \cup {m}
    BY <1>6 DEF Retry, RetryUnsaved, DeadLetterUnsaved, Failing, durable
  <2>2. CASE dead' = dead /\ retryTimer' \in {retryTimer, retryTimer \cup {m}}
    <3>1. Care!Postpone(m)
      BY <1>3, <2>1, <2>2 DEF Care!Postpone, Remembered, DeadLetters
    <3> QED BY <3>1 DEF Care!Next
  <2>3. CASE dead' = WithLetter(m) /\ retryTimer' = retryTimer \cup {m}
    <3>1. Care!Bury(m)
      BY <1>3, <1>4, <2>1, <2>3 DEF Care!Bury, Remembered
    <3> QED BY <3>1 DEF Care!Next
  <2> QED BY <2>1, <2>2, <2>3
<1>7. CASE DeadLetter(m)
  <2>1. Care!Bury(m)
    BY <1>2, <1>4, <1>7 DEF DeadLetter, Failing, Care!Bury, Remembered
  <2> QED BY <2>1 DEF Care!Next
<1>8. CASE CrashDeadLettering(m)
  <2>1. Care!Bury(m)
    BY <1>3, <1>4, <1>8, LostDies DEF CrashDeadLettering, Care!Bury, Remembered
  <2> QED BY <2>1 DEF Care!Next
<1> QED BY <1>1, <1>5, <1>6, <1>7, <1>8 DEF Settle

(* recoverInbound begins only what has a record.                            *)
LEMMA RecoverCared ==
  ASSUME Careful, Recover
  PROVE  Care!Next
<1> DEFINE st == [m \in Message |-> IF status[m] = "delivering" THEN "pending" ELSE status[m]]
           wt == [m \in Message |-> IF status[m] = "delivering" THEN "unset" ELSE wait[m]]
           asked == IF Listening THEN {m \in Recorded : wt[m] # "future"} ELSE {}
           S == IF Listening THEN Idle(asked) ELSE {}
<1>1. /\ Deliver(asked, st, attempts, wt)
      /\ UNCHANGED <<dedup, dead, retryTimer>>
  BY DEF Recover
<1>2. asked \subseteq Recorded /\ Recorded \subseteq Message
  BY DEF Recorded
<1>3. S \subseteq Recorded
  BY <1>2 DEF Idle
<1>4. \A m \in Message : st[m] # "none" <=> status[m] # "none"
  OBVIOUS
<1> HIDE DEF st, wt, asked
<1>5. Care!Begin(S) /\ Recorded' = {m \in Message : st[m] # "none"}
  BY <1>1, <1>2, DeliverBegins
<1>6. Recorded' = Recorded
  BY <1>4, <1>5 DEF Recorded
<1> HIDE DEF S
<1>7. Care!Recover(S)
  BY <1>1, <1>3, <1>5, <1>6 DEF Care!Recover, Remembered, DeadLetters
<1> QED BY <1>2, <1>3, <1>7 DEF Care!Next

LEMMA CareStep == ASSUME Careful, [Next]_vars PROVE Keeping
<1>0. ASSUME UNCHANGED <<status, dedup, dead, task, retryTimer>> PROVE Keeping
  BY <1>0 DEF Keeping, Care!care, Recorded, Remembered, DeadLetters
<1>1. ASSUME NEW m \in Message, Publish(m) \/ PublishUnmarked(m) PROVE Keeping
  BY <1>1, PublishCared DEF Keeping, Care!Next
<1>2. ASSUME NEW m \in Message, Settle(m) \/ HandlerSettles(m) PROVE Keeping
  BY <1>2, SettleCared DEF Keeping
<1>3. ASSUME NEW m \in Message, BackoffElapses(m) PROVE Keeping
  BY <1>0, <1>3 DEF BackoffElapses, volatile
<1>4. ASSUME NEW m \in Message, RetryTimerFires(m) PROVE Keeping
  <2>1. /\ m \in retryTimer /\ retryTimer' = retryTimer \ {m} /\ UNCHANGED <<dedup, dead>>
    BY <1>4 DEF RetryTimerFires
  <2>2. Care!MayBegin(m) /\ Recorded' = Recorded
    <3>1. CASE Open
      <4>1. Deliver({m}, status, attempts, wait)
        BY <1>4, <3>1 DEF RetryTimerFires
      <4>2. Recorded' = {n \in Message : status[n] # "none"}
        BY <4>1, DeliverBegins
      <4> QED BY <4>1, <4>2, OneBegins DEF Recorded
    <3>2. CASE ~Open
      BY <1>4, <3>2 DEF RetryTimerFires, Care!MayBegin, Recorded
    <3> QED BY <3>1, <3>2
  <2>3. Care!StrayFires(m)
    BY <2>1, <2>2 DEF Care!StrayFires, Remembered, DeadLetters
  <2> QED BY <2>3 DEF Keeping, Care!Next
<1>5. ASSUME NEW m \in Message, RetryInbound(m) \/ RetryUnmarked(m) \/ RetryUnremoved(m)
      PROVE  Keeping
  BY <1>5, RequeueCared DEF Keeping, Care!Next
<1>6. CASE RecoveryTimerFires \/ Started
  BY <1>6, RecoverCared DEF Keeping, RecoveryTimerFires, Started
<1>7. CASE Start \/ Stop
  BY <1>0, <1>7 DEF Start, Stop, durable, volatile
<1>8. CASE Close
  <2>1. Care!Close
    BY <1>8 DEF Close, durable, Care!Close, Recorded, Remembered, DeadLetters
  <2> QED BY <2>1 DEF Keeping, Care!Next
<1>9. CASE Exit \/ Crash
  <2>1. Care!Crash
    BY <1>9, LostDies DEF Exit, Crash, durable, Care!Crash, Recorded, Remembered, DeadLetters
  <2> QED BY <2>1 DEF Keeping, Care!Next
<1>10. CASE Die
  <2>1. ASSUME NEW m \in Message,
               CrashAccepting(m) \/ CrashDeadLettering(m) \/ CrashRequeueing(m)
        PROVE  Keeping
    BY <2>1, PublishCared, SettleCared, RequeueCared DEF Keeping, Care!Next
  <2> QED BY <1>9, <1>10, <2>1 DEF Die
<1>11. CASE UNCHANGED vars
  BY <1>0, <1>11 DEF vars, durable, volatile
<1> QED BY <1>1, <1>2, <1>3, <1>4, <1>5, <1>6, <1>7, <1>8, <1>9, <1>10, <1>11
        DEF Next, Serve

LEMMA AlwaysCareful == Spec => []Careful
<1>1. Init => OneLetter /\ TasksKnown
  BY EmptySeq DEF Init, OneLetter, IsInjective, TasksKnown
<1>2. OneLetter /\ [Next]_vars => OneLetter'
  BY LettersStep
<1>3. Init => Single
  BY DEF Init, Single, TasksKnown, OneHandler
<1>4. Single /\ [Next]_vars => Single'
  BY StepOnce
<1>5. Consistent /\ Single /\ OneLetter => Careful
  BY DEF Consistent, Single, Careful
<1> QED BY <1>1, <1>2, <1>3, <1>4, <1>5, HandoffConsistentHolds, PTL DEF Spec

(* A channel may think of the inbound half in terms of Custody: a message   *)
(* is taken once, held on disk through crashes until its handler resolves   *)
(* or a dead letter replaces it, and never has two handlers (bus.ts,        *)
(* state.ts, inbound-dlq.ts).                                               *)
THEOREM CustodyRefinement == Spec => ImplementsCustody
<1>1. Init => Care!Init
  BY DEF Init, Care!Init, Recorded, Remembered, DeadLetters, ToSet
<1>2. Careful /\ [Next]_vars => [Care!Next]_(Care!care)
  BY CareStep DEF Keeping
<1> QED BY <1>1, <1>2, AlwaysCareful, PTL DEF Spec, ImplementsCustody, Care!Spec

(* Held until handled: what a channel concludes from the promise.           *)
LEMMA ReleasedStep ==
  ASSUME Keeping
  PROVE  [\A m \in Recorded \ Recorded' : task[m] = "resolved" \/ m \in DeadLetters']_(Care!care)
<1>1. ASSUME NEW m \in Message,
             \/ Care!Accept(m) \/ Care!StrayFires(m) \/ Care!Handled(m)
             \/ Care!Postpone(m) \/ Care!Exhume(m)
      PROVE  Recorded \subseteq Recorded'
  BY <1>1 DEF Care!Accept, Care!StrayFires, Care!Handled, Care!Postpone, Care!Exhume,
              Care!Remember
<1>2. ASSUME NEW m \in Message, Care!Release(m) \/ Care!Bury(m), NEW n \in Recorded \ Recorded'
      PROVE  task[n] = "resolved" \/ n \in DeadLetters'
  BY <1>2 DEF Care!Release, Care!Bury
<1>3. ASSUME NEW S, Care!Recover(S) \/ Care!Close \/ Care!Crash PROVE Recorded' = Recorded
  BY <1>3 DEF Care!Recover, Care!Close, Care!Crash
<1> QED BY <1>1, <1>2, <1>3 DEF Keeping, Care!Next

(* A handler starts for a message that has none and is held, or that a      *)
(* timer of its own was left for.                                           *)
LEMMA StartedStep ==
  ASSUME Careful, Keeping, NEW m \in Message, task[m] # "running", task'[m] = "running"
  PROVE  task[m] = "none" /\ m \in Recorded' \cup retryTimer
<1>1. ASSUME NEW S, Care!Begin(S) PROVE task[m] = "none" /\ m \in S
  BY <1>1 DEF Care!Begin
<1>2. ASSUME NEW n \in Message, Care!MayBegin(n) PROVE task[m] = "none" /\ m = n
  BY <1>1, <1>2 DEF Care!MayBegin
<1>3. ~Care!Dies
  BY DEF Care!Dies
<1>4. ASSUME NEW n \in Message, Care!Accept(n) \/ Care!Exhume(n)
      PROVE  task[m] = "none" /\ m \in Recorded'
  BY <1>2, <1>3, <1>4 DEF Care!Accept, Care!Exhume, Care!Remember
<1>5. ASSUME NEW n \in Message, Care!StrayFires(n) PROVE task[m] = "none" /\ m \in retryTimer
  BY <1>2, <1>5 DEF Care!StrayFires
<1>6. ASSUME NEW n \in Message,
             Care!Handled(n) \/ Care!Release(n) \/ Care!Postpone(n) \/ Care!Bury(n)
      PROVE  FALSE
  <2>1. \E word \in {"none", "resolved", "rejected"} : task' = [task EXCEPT ![n] = word]
    BY <1>3, <1>6 DEF Care!Handled, Care!Release, Care!Postpone, Care!Bury
  <2> QED BY <2>1 DEF Careful, TypeOK
<1>7. ASSUME NEW S, Care!Recover(S) PROVE task[m] = "none" /\ m \in Recorded'
  BY <1>1, <1>7 DEF Care!Recover
<1>8. CASE Care!Close \/ Care!Crash \/ UNCHANGED Care!care
  BY <1>3, <1>8 DEF Care!Close, Care!Crash, Care!care
<1> QED BY <1>4, <1>5, <1>6, <1>7, <1>8 DEF Keeping, Care!Next

(* What a channel and an application conclude from the promise: a message   *)
(* leaves the disk handled or for a dead letter, and a handler starts for   *)
(* one that has none, with its record on disk - or for what a failed write  *)
(* left a timer behind for.                                                 *)
THEOREM CustodyKeeps == Spec => Care!HeldUntilHandled /\ Care!StartsOnce
<1> DEFINE Held   == \A m \in Recorded \ Recorded' : task[m] = "resolved" \/ m \in DeadLetters'
           Begins == \A m \in Message : task[m] # "running" /\ task'[m] = "running" =>
                       task[m] = "none" /\ m \in Recorded' \cup retryTimer
<1>1. Careful /\ [Next]_vars => [Held]_(Care!care) /\ [Begins]_(Care!care)
  BY CareStep, ReleasedStep, StartedStep
<1> QED BY <1>1, AlwaysCareful, PTL DEF Spec, Care!HeldUntilHandled, Care!StartsOnce
-----------------------------------------------------------------------------
(* The turns                                                                *)

(* What the turns see of the bus: its promises, and that a process is       *)
(* stopped or restarted only by what counts as a fault.                     *)
BusTypes == /\ task \in [Message -> {"none", "running", "resolved", "rejected"}]
            /\ faults \in Nat
            /\ phase \in {"draining", "closed"} => faults > 0

(* A line has each of its messages once, and only those of its session.     *)
Orderly(s, l) == /\ l \in Seq(Message)
                 /\ \A i \in 1..Len(l) : SessionOf[l[i]] = s
                 /\ \A i, j \in 1..Len(l) : l[i] = l[j] => i = j

(* What the bus waits for stands in its line, and has not begun its turn or *)
(* is at the head.                                                          *)
Lines == /\ \A s \in Session : Orderly(s, line[s])
         /\ \A m \in Message : /\ task[m] = "running" <=> m \in ToSet(line[SessionOf[m]])
                               /\ task[m] = "running" <=> turn[m] # "none"

(* While nothing has failed a session is marked by a turn in progress only. *)
Unmarked == faults + storeFaults = 0 =>
              \A s \in Session : activeTurn[s] # NoTurn =>
                 \E m \in Message : InTurn(m) /\ SessionOf[m] = s

Inv == /\ TurnsTypeOK /\ BusTypes /\ Lines /\ AdmittedTurn
       /\ Unmarked /\ RejectedOnlyAfterFault
-----------------------------------------------------------------------------
(* An order of a finite set has each of its elements, once.                 *)
LEMMA Orders ==
  ASSUME NEW S, IsFiniteSet(S), NEW f \in SetToSeqs(S)
  PROVE  /\ f \in Seq(S) /\ ToSet(f) = S
         /\ \A i, j \in 1..Len(f) : f[i] = f[j] => i = j
<1> DEFINE n == Cardinality(S)
<1>1. n \in Nat
  BY FS_CardinalityType
<1>2. f \in [1..n -> S] /\ \A i, j \in 1..n : i # j => f[i] # f[j]
  BY DEF SetToSeqs
<1>3. f \in Seq(S) /\ Len(f) = n /\ DOMAIN f = 1..n
  BY <1>1, <1>2
<1>4. f \in Injection(1..n, S)
  BY <1>2 DEF Injection, IsInjective
<1>5. IsFiniteSet(1..n) /\ Cardinality(1..n) = n
  BY <1>1, FS_Interval
<1>6. f \in Surjection(1..n, S)
  BY <1>4, <1>5, FS_Injection
<1>7. \A x \in S : \E i \in 1..n : f[i] = x
  BY <1>6 DEF Surjection
<1>8. ToSet(f) = S
  BY <1>2, <1>3, <1>7 DEF ToSet
<1> QED BY <1>2, <1>3, <1>8

(* Newcomers leave a line as it is and stand behind it.                     *)
LEMMA LineGrows ==
  ASSUME NEW s, NEW l, Orderly(s, l), NEW j \in Seq(Message),
         \A i \in 1..Len(j) : SessionOf[j[i]] = s /\ j[i] \notin ToSet(l),
         \A i, k \in 1..Len(j) : j[i] = j[k] => i = k
  PROVE  /\ Orderly(s, l \o j)
         /\ ToSet(l \o j) = ToSet(l) \cup ToSet(j)
         /\ l # <<>> => Head(l \o j) = Head(l)
<1> DEFINE t == l \o j
<1>1. /\ l \in Seq(Message) /\ Len(l) \in Nat /\ DOMAIN l = 1..Len(l)
      /\ Len(j) \in Nat /\ DOMAIN j = 1..Len(j)
  BY DEF Orderly
<1>2. /\ t \in Seq(Message) /\ Len(t) = Len(l) + Len(j)
      /\ \A i \in 1..Len(t) : t[i] = IF i <= Len(l) THEN l[i] ELSE j[i - Len(l)]
  BY <1>1, ConcatProperties
<1> HIDE DEF t
<1>3. DOMAIN t = 1..Len(t)
  BY <1>2
<1>4. \A i \in 1..Len(l) : t[i] = l[i] /\ i \in 1..Len(t)
  BY <1>1, <1>2
<1>5. \A i \in 1..Len(j) : t[Len(l) + i] = j[i] /\ Len(l) + i \in 1..Len(t)
  BY <1>1, <1>2
<1>6. \A i \in 1..Len(t) : i \in 1..Len(l) \/ i - Len(l) \in 1..Len(j)
  BY <1>1, <1>2
<1>7. ToSet(t) = ToSet(l) \cup ToSet(j)
  <2>1. ToSet(l) \cup ToSet(j) \subseteq ToSet(t)
    BY <1>1, <1>3, <1>4, <1>5 DEF ToSet
  <2>2. ASSUME NEW i \in 1..Len(t) PROVE t[i] \in ToSet(l) \cup ToSet(j)
    <3>1. CASE i \in 1..Len(l)
      BY <1>1, <1>4, <3>1 DEF ToSet
    <3>2. CASE i \notin 1..Len(l)
      <4>1. i - Len(l) \in 1..Len(j) /\ t[i] = j[i - Len(l)]
        BY <1>1, <1>2, <1>6, <3>2
      <4>2. QED BY <1>1, <4>1 DEF ToSet
    <3>3. QED BY <3>1, <3>2
  <2>3. ToSet(t) \subseteq ToSet(l) \cup ToSet(j)
    <3>1. ToSet(t) = {t[i] : i \in 1..Len(t)}
      BY <1>3 DEF ToSet
    <3>2. QED BY <2>2, <3>1
  <2>4. QED BY <2>1, <2>3
<1>8. \A i \in 1..Len(t) : SessionOf[t[i]] = s
  BY <1>1, <1>2, <1>6 DEF Orderly
<1>9. ASSUME NEW i \in 1..Len(t), NEW k \in 1..Len(t), t[i] = t[k] PROVE i = k
  <2>1. \A x \in 1..Len(l), y \in 1..Len(j) : l[x] # j[y]
    BY <1>1 DEF ToSet
  <2>2. CASE i <= Len(l)
    <3>1. k <= Len(l)
      BY <1>1, <1>2, <1>9, <2>1, <2>2
    <3>2. QED BY <1>1, <1>2, <1>9, <2>2, <3>1 DEF Orderly
  <2>3. CASE i > Len(l)
    <3>1. k > Len(l)
      BY <1>1, <1>2, <1>9, <2>1, <2>3
    <3>2. j[i - Len(l)] = j[k - Len(l)] /\ i - Len(l) \in 1..Len(j) /\ k - Len(l) \in 1..Len(j)
      BY <1>1, <1>2, <1>9, <2>3, <3>1
    <3>3. i - Len(l) = k - Len(l)
      BY <3>2
    <3>4. QED BY <1>1, <1>2, <3>3
  <2>4. QED BY <1>1, <1>2, <2>2, <2>3
<1>10. l # <<>> => Head(t) = Head(l)
  BY <1>1, <1>2, <1>4
<1> QED BY <1>2, <1>7, <1>8, <1>9, <1>10 DEF Orderly, t

(* The head leaves a line, and nobody else does.                            *)
LEMMA LineMoves ==
  ASSUME NEW s, NEW l, Orderly(s, l), l # <<>>
  PROVE  Orderly(s, Tail(l)) /\ ToSet(Tail(l)) = ToSet(l) \ {Head(l)}
<1> DEFINE t == Tail(l)
<1>1. /\ l \in Seq(Message) /\ Len(l) \in Nat \ {0} /\ DOMAIN l = 1..Len(l) /\ Head(l) = l[1]
  BY EmptySeq DEF Orderly
<1>2. /\ t \in Seq(Message) /\ Len(t) = Len(l) - 1
      /\ \A i \in 1..Len(t) : t[i] = l[i + 1]
  BY <1>1, HeadTailProperties
<1> HIDE DEF t
<1>3. DOMAIN t = 1..Len(t)
  BY <1>2
<1>4. \A i \in 1..Len(t) : i + 1 \in 1..Len(l)
  BY <1>1, <1>2
<1>5. Orderly(s, t)
  <2>1. \A i \in 1..Len(t) : SessionOf[t[i]] = s
    BY <1>2, <1>4 DEF Orderly
  <2>2. ASSUME NEW i \in 1..Len(t), NEW k \in 1..Len(t), t[i] = t[k] PROVE i = k
    <3>1. i + 1 = k + 1
      BY <1>2, <1>4, <2>2 DEF Orderly
    <3>2. QED BY <3>1
  <2>3. QED BY <1>2, <2>1, <2>2 DEF Orderly
<1>6. ToSet(t) = ToSet(l) \ {l[1]}
  <2>1. ASSUME NEW i \in 1..Len(t) PROVE t[i] \in ToSet(l) \ {l[1]}
    <3>1. t[i] = l[i + 1] /\ i + 1 \in 1..Len(l) /\ i + 1 # 1 /\ 1 \in 1..Len(l)
      BY <1>1, <1>2, <1>4
    <3>2. l[i + 1] # l[1]
      BY <3>1 DEF Orderly
    <3>3. QED BY <1>1, <3>1, <3>2 DEF ToSet
  <2>2. ASSUME NEW i \in 1..Len(l), l[i] # l[1] PROVE l[i] \in ToSet(t)
    <3>1. i - 1 \in 1..Len(t) /\ t[i - 1] = l[i]
      BY <1>1, <1>2, <2>2
    <3>2. QED BY <1>3, <3>1 DEF ToSet
  <2>3. QED BY <1>1, <1>3, <2>1, <2>2 DEF ToSet
<1> QED BY <1>1, <1>5, <1>6 DEF t
-----------------------------------------------------------------------------
(* In what it serves the bus forgets no running promise, nor that something *)
(* has failed.                                                              *)
LEMMA BusServes ==
  ASSUME BusTypes, Serve
  PROVE  /\ BusTypes' /\ faults' >= faults
         /\ \A m \in Message : task[m] = "running" => task'[m] = "running"
<1> DEFINE Kept == /\ task' \in [Message -> {"none", "running", "resolved", "rejected"}]
                   /\ \A m \in Message : task[m] = "running" => task'[m] = "running"
           Faulty == /\ faults' = faults \/ faults' = faults + 1
                     /\ phase' = phase \/ phase' \notin {"draining", "closed"}
<1>1. ASSUME NEW asked, NEW st, NEW at, NEW wt, Deliver(asked, st, at, wt) PROVE Kept
  <2>1. task' = [m \in Message |-> IF m \in Idle(asked) /\ Listening
                                   THEN "running" ELSE task[m]]
    BY <1>1 DEF Deliver
  <2>2. QED BY <2>1 DEF BusTypes
<1>2. ASSUME task' = task PROVE Kept
  BY <1>2 DEF BusTypes
<1>3. ASSUME NEW m \in Message,
             \/ Publish(m) \/ PublishUnmarked(m) \/ BackoffElapses(m)
             \/ RetryTimerFires(m) \/ RetryInbound(m) \/ RetryUnmarked(m) \/ RetryUnremoved(m)
      PROVE  Kept /\ Faulty
  <2>1. CASE Publish(m)
    BY <1>1, <1>2, <2>1 DEF Publish
  <2>2. CASE PublishUnmarked(m) \/ RetryUnmarked(m) \/ RetryUnremoved(m)
    BY <1>2, <2>2 DEF PublishUnmarked, RetryUnmarked, Jam, RetryUnremoved, Requeued,
                      volatile, Fault
  <2>3. CASE BackoffElapses(m)
    BY <1>2, <2>3 DEF BackoffElapses, volatile, history
  <2>4. CASE RetryTimerFires(m)
    BY <1>1, <1>2, <2>4 DEF RetryTimerFires
  <2>5. CASE RetryInbound(m)
    <3>1. /\ task' = [n \in Message |-> IF n \in Idle({m}) THEN "running" ELSE task[n]]
          /\ faults' = faults /\ phase' = phase
      BY <2>5 DEF RetryInbound
    <3>2. QED BY <3>1 DEF BusTypes
  <2>6. QED BY <1>3, <2>1, <2>2, <2>3, <2>4, <2>5
<1>4. ASSUME NEW m \in Message, Settle(m) PROVE Kept /\ Faulty
  <2>1. /\ task[m] # "running" /\ task' = [task EXCEPT ![m] = "none"]
        /\ faults' = faults \/ faults' = faults + 1
        /\ phase' = phase
    BY <1>4 DEF Settle, Ack, Retry, RetryUnsaved, DeadLetter,
                DeadLetterUnsaved, Failing, Fault, history
  <2>2. QED BY <2>1 DEF BusTypes
<1>5. ASSUME RecoveryTimerFires \/ Started PROVE Kept /\ Faulty
  <2>1. \E asked, st, wt : Deliver(asked, st, attempts, wt)
    BY <1>5 DEF RecoveryTimerFires, Started, Recover
  <2>2. faults' = faults /\ (phase' = phase \/ phase' = "up")
    BY <1>5 DEF RecoveryTimerFires, Started
  <2>3. QED BY <1>1, <2>1, <2>2 DEF BusTypes
<1>6. ASSUME Start PROVE Kept /\ Faulty
  <2>1. task' = task /\ faults' = faults /\ phase' = "starting"
    BY <1>6 DEF Start, volatile, history
  <2>2. QED BY <2>1 DEF BusTypes
<1>7. Kept /\ Faulty
  BY <1>3, <1>4, <1>5, <1>6 DEF Serve
<1> QED BY <1>7 DEF BusTypes

Outcomes == {"completed", "failed", "interrupted", "rejected"}

(* The head of a line that concludes leaves it for good; of those in turn   *)
(* only those of other sessions remain.                                     *)
LEMMA Concluding ==
  ASSUME Inv, NEW m \in Message, NEW outcome \in Outcomes, Conclude(m, outcome),
         turn[m] # "none", Head(line[SessionOf[m]]) = m
  PROVE  /\ BusTypes' /\ Lines' /\ faults' = faults
         /\ line' \in [Session -> Seq(Message)]
         /\ turn' \in [Message -> {"none", "queued", "running", "replying"}]
         /\ aborted' \subseteq {n \in Message : InTurn(n)'}
         /\ awaited' \subseteq Message
         /\ verdict' \in [Message -> Outcomes \cup {"none"}]
         /\ \A n \in Message : n # m => turn'[n] = turn[n]
         /\ \A n \in Message : n # m => verdict'[n] = verdict[n]
         /\ verdict'[m] = outcome
         /\ \A n \in Message : InTurn(n)' => /\ InTurn(n) /\ SessionOf[n] # SessionOf[m]
                                             /\ line'[SessionOf[n]] = line[SessionOf[n]]
<1> DEFINE s == SessionOf[m]
<1>1. s \in Session /\ \A n \in Message : SessionOf[n] \in Session
  BY ChannelAssumption
<1>2. /\ task[m] = "running"
      /\ task' \in [Message -> {"none", "running", "resolved", "rejected"}]
      /\ task'[m] # "running" /\ \A n \in Message : n # m => task'[n] = task[n]
      /\ faults' = faults /\ phase' = phase
  <2>1. CASE HandlerResolves(m)
    BY <2>1 DEF HandlerResolves, Inv, BusTypes
  <2>2. CASE HandlerRejects(m)
    BY <2>2 DEF HandlerRejects, history, Inv, BusTypes
  <2>3. QED BY <2>1, <2>2 DEF Conclude
<1>3. /\ line' = [line EXCEPT ![s] = Tail(@)]
      /\ turn' = [turn EXCEPT ![m] = "none"]
      /\ aborted' = aborted \ {m}
      /\ verdict' = [verdict EXCEPT ![m] = outcome]
      /\ awaited' = awaited
  BY DEF Conclude
<1>4. /\ line'[s] = Tail(line[s])
      /\ \A r \in Session : r # s => line'[r] = line[r]
      /\ DOMAIN line' = Session
      /\ turn' \in [Message -> {"none", "queued", "running", "replying"}]
      /\ turn'[m] = "none" /\ \A n \in Message : n # m => turn'[n] = turn[n]
  BY <1>1, <1>3 DEF Inv, TurnsTypeOK
<1>5. Orderly(s, line[s]) /\ line[s] # <<>>
  BY <1>1, <1>2 DEF Inv, Lines, ToSet
<1>6. /\ Orderly(s, line'[s])
      /\ ToSet(line'[s]) = ToSet(line[s]) \ {m}
  BY <1>4, <1>5, LineMoves
<1>7. Lines'
  <2>1. ASSUME NEW r \in Session PROVE Orderly(r, line'[r])
    BY <1>4, <1>6 DEF Inv, Lines
  <2>2. ASSUME NEW n \in Message
        PROVE  /\ task'[n] = "running" <=> n \in ToSet(line'[SessionOf[n]])
               /\ task'[n] = "running" <=> turn'[n] # "none"
    <3>1. CASE n = m
      BY <1>2, <1>4, <1>6, <3>1
    <3>2. CASE n # m
      <4>1. n \in ToSet(line'[SessionOf[n]]) <=> n \in ToSet(line[SessionOf[n]])
        BY <1>1, <1>4, <1>6, <3>2
      <4>2. QED BY <1>2, <1>4, <3>2, <4>1 DEF Inv, Lines
    <3>3. QED BY <3>1, <3>2
  <2>3. QED BY <2>1, <2>2 DEF Lines, Orderly
<1>8. line' \in [Session -> Seq(Message)]
  BY <1>3, <1>4, <1>6 DEF Orderly, Inv, TurnsTypeOK
<1>9. ASSUME NEW n \in Message, InTurn(n)'
      PROVE  InTurn(n) /\ SessionOf[n] # s /\ line'[SessionOf[n]] = line[SessionOf[n]]
  <2>1. n # m /\ InTurn(n)
    BY <1>4, <1>9 DEF InTurn
  <2>2. Head(line[SessionOf[n]]) = n
    BY <2>1 DEF Inv, AdmittedTurn
  <2>3. SessionOf[n] # s
    BY <2>1, <2>2
  <2>4. QED BY <1>1, <1>4, <2>1, <2>3
<1>10. aborted' \subseteq {n \in Message : InTurn(n)'}
  BY <1>3, <1>4 DEF Inv, TurnsTypeOK, InTurn
<1>11. /\ verdict' \in [Message -> Outcomes \cup {"none"}]
       /\ verdict'[m] = outcome /\ \A n \in Message : n # m => verdict'[n] = verdict[n]
  BY <1>3 DEF Inv, TurnsTypeOK, Outcomes
<1>12. BusTypes'
  BY <1>2 DEF Inv, BusTypes
<1>13. awaited' \subseteq Message
  BY <1>3 DEF Inv, TurnsTypeOK
<1> QED BY <1>2, <1>4, <1>7, <1>8, <1>9, <1>10, <1>11, <1>12, <1>13

(* A turn that was admitted ends, and its session is free or something has  *)
(* failed.                                                                  *)
LEMMA Ending ==
  ASSUME Inv, NEW m \in Message, NEW outcome \in Outcomes \ {"rejected"},
         InTurn(m), EndTurn(m, outcome)
  PROVE  Inv'
<1> DEFINE s == SessionOf[m]
<1>1. s \in Session /\ \A n \in Message : SessionOf[n] \in Session
  BY ChannelAssumption
<1>2. turn[m] # "none" /\ Head(line[s]) = m /\ activeTurn[s] = m
  BY DEF Inv, AdmittedTurn, InTurn
<1>3. Conclude(m, outcome)
  BY DEF EndTurn
<1>4. /\ BusTypes' /\ Lines' /\ faults' = faults
      /\ line' \in [Session -> Seq(Message)]
      /\ turn' \in [Message -> {"none", "queued", "running", "replying"}]
      /\ aborted' \subseteq {n \in Message : InTurn(n)'}
      /\ awaited' \subseteq Message
      /\ verdict' \in [Message -> Outcomes \cup {"none"}]
      /\ \A n \in Message : n # m => turn'[n] = turn[n]
      /\ \A n \in Message : n # m => verdict'[n] = verdict[n]
      /\ verdict'[m] = outcome
      /\ \A n \in Message : InTurn(n)' => /\ InTurn(n) /\ SessionOf[n] # s
                                          /\ line'[SessionOf[n]] = line[SessionOf[n]]
  BY <1>2, <1>3, Concluding
<1>5. \/ activeTurn' = [activeTurn EXCEPT ![s] = NoTurn] /\ storeFaults' = storeFaults
      \/ activeTurn' = [activeTurn EXCEPT ![s] = Orphan] /\ storeFaults' = storeFaults + 1
                         /\ storeFaults < MaxStoreFaults
  BY <1>2 DEF EndTurn, StoreFault
<1>6. /\ storeFaults \in Nat /\ storeFaults' \in Nat /\ storeFaults' <= MaxStoreFaults
      /\ faults \in Nat
      /\ activeTurn' \in [Session -> Message \cup {NoTurn, Orphan}]
      /\ \A r \in Session : r # s => activeTurn'[r] = activeTurn[r]
      /\ storeFaults' = storeFaults => activeTurn'[s] = NoTurn
      /\ storeFaults' = storeFaults \/ storeFaults' = storeFaults + 1
  <2>1. /\ storeFaults \in Nat /\ storeFaults <= MaxStoreFaults /\ faults \in Nat
        /\ MaxStoreFaults \in Nat
    BY ChannelAssumption DEF Inv, TurnsTypeOK, BusTypes
  <2>2. activeTurn \in [Session -> Message \cup {NoTurn, Orphan}]
    BY DEF Inv, TurnsTypeOK
  <2>3. CASE activeTurn' = [activeTurn EXCEPT ![s] = NoTurn] /\ storeFaults' = storeFaults
    BY <1>1, <2>1, <2>2, <2>3
  <2>4. CASE /\ activeTurn' = [activeTurn EXCEPT ![s] = Orphan]
             /\ storeFaults' = storeFaults + 1 /\ storeFaults < MaxStoreFaults
    BY <1>1, <2>1, <2>2, <2>4
  <2>5. QED BY <1>5, <2>3, <2>4
<1>7. TurnsTypeOK'
  BY <1>4, <1>6, ChannelAssumption DEF TurnsTypeOK, Outcomes
<1>8. AdmittedTurn'
  BY <1>1, <1>4, <1>6 DEF Inv, AdmittedTurn
<1>9. Unmarked'
  <2>1. SUFFICES ASSUME faults' + storeFaults' = 0,
                        NEW r \in Session, activeTurn'[r] # NoTurn
                 PROVE  \E n \in Message : InTurn(n)' /\ SessionOf[n] = r
    BY DEF Unmarked, InTurn
  <2>2. faults + storeFaults = 0 /\ storeFaults' = storeFaults
    <3>1. /\ faults \in Nat /\ faults' = faults
          /\ storeFaults \in Nat /\ storeFaults' \in Nat
          /\ storeFaults' = storeFaults \/ storeFaults' = storeFaults + 1
      BY <1>4, <1>6
    <3>2. \A a, b, c \in Nat : (c = b \/ c = b + 1) /\ a + c = 0 => a + b = 0 /\ c = b
      OBVIOUS
    <3>3. faults + storeFaults' = 0
      BY <2>1, <3>1
    <3>4. QED BY <3>1, <3>2, <3>3
  <2>3. r # s /\ activeTurn[r] # NoTurn
    BY <1>6, <2>1, <2>2
  <2>4. PICK n \in Message : InTurn(n) /\ SessionOf[n] = r
    BY <2>2, <2>3 DEF Inv, Unmarked
  <2>5. InTurn(n)'
    BY <1>4, <2>3, <2>4 DEF InTurn
  <2>6. QED BY <2>4, <2>5
<1>10. RejectedOnlyAfterFault'
  <2>1. ASSUME NEW n \in Message, verdict'[n] = "rejected" PROVE faults' + storeFaults' > 0
    <3>1. verdict[n] = "rejected"
      BY <1>4, <2>1
    <3>2. QED BY <1>4, <1>6, <3>1 DEF Inv, RejectedOnlyAfterFault
  <2>2. QED BY <2>1 DEF RejectedOnlyAfterFault
<1> QED BY <1>4, <1>7, <1>8, <1>9, <1>10 DEF Inv

(* A message that is not admitted leaves its line with no turn to end.      *)
LEMMA Dismissing ==
  ASSUME Inv, NEW m \in Message, Reject(m) \/ AdmissionFails(m)
  PROVE  Inv'
<1> DEFINE outcome == IF Reject(m) THEN "rejected" ELSE "failed"
           s == SessionOf[m]
<1>1. /\ turn[m] = "queued" /\ Head(line[s]) = m /\ activeTurn' = activeTurn
      /\ Conclude(m, outcome)
      /\ \/ /\ storeFaults' = storeFaults
            /\ activeTurn[s] # NoTurn
            /\ outcome = "rejected"
         \/ /\ storeFaults' = storeFaults + 1
            /\ storeFaults < MaxStoreFaults
            /\ outcome = "failed"
  <2>1. CASE Reject(m)
    BY <2>1 DEF Reject, AtHead
  <2>2. CASE ~Reject(m)
    BY <2>2 DEF AdmissionFails, AtHead, StoreFault
  <2>3. QED BY <2>1, <2>2
<1>2. outcome \in Outcomes
  BY DEF Outcomes
<1> HIDE DEF outcome
<1>3. /\ BusTypes' /\ Lines' /\ faults' = faults
      /\ line' \in [Session -> Seq(Message)]
      /\ turn' \in [Message -> {"none", "queued", "running", "replying"}]
      /\ aborted' \subseteq {n \in Message : InTurn(n)'}
      /\ awaited' \subseteq Message
      /\ verdict' \in [Message -> Outcomes \cup {"none"}]
      /\ \A n \in Message : n # m => turn'[n] = turn[n]
      /\ \A n \in Message : n # m => verdict'[n] = verdict[n]
      /\ verdict'[m] = outcome
      /\ \A n \in Message : InTurn(n)' => /\ InTurn(n) /\ SessionOf[n] # s
                                          /\ line'[SessionOf[n]] = line[SessionOf[n]]
  BY <1>1, <1>2, Concluding
<1>4. /\ s \in Session
      /\ storeFaults \in Nat /\ faults \in Nat
      /\ storeFaults' \in Nat /\ storeFaults' \in 0..MaxStoreFaults
      /\ faults + storeFaults = 0 \/ faults + storeFaults > 0
      /\ faults + storeFaults > 0 => faults' + storeFaults' > 0
      /\ faults' + storeFaults' = 0 => faults + storeFaults = 0
  <2>1. /\ s \in Session /\ storeFaults \in Nat /\ storeFaults <= MaxStoreFaults
        /\ faults \in Nat /\ faults' = faults /\ MaxStoreFaults \in Nat
    BY <1>3, ChannelAssumption DEF Inv, TurnsTypeOK, BusTypes
  <2>2. \/ storeFaults' = storeFaults
        \/ storeFaults' = storeFaults + 1 /\ storeFaults < MaxStoreFaults
    BY <1>1
  <2>3. QED BY <2>1, <2>2
<1>5. TurnsTypeOK'
  BY <1>1, <1>3, <1>4 DEF Inv, TurnsTypeOK, Outcomes
<1>6. AdmittedTurn'
  BY <1>1, <1>3 DEF Inv, AdmittedTurn
<1>7. \A n \in Message : InTurn(n) => InTurn(n)'
  BY <1>1, <1>3 DEF InTurn
<1>8. Unmarked'
  BY <1>1, <1>3, <1>4, <1>7 DEF Inv, Unmarked
<1>9. RejectedOnlyAfterFault'
  <2>1. ASSUME NEW n \in Message, verdict'[n] = "rejected" PROVE faults' + storeFaults' > 0
    <3>1. CASE n # m
      BY <1>3, <1>4, <2>1, <3>1 DEF Inv, RejectedOnlyAfterFault
    <3>2. CASE n = m
      <4>1. activeTurn[s] # NoTurn
        BY <1>1, <1>3, <2>1, <3>2
      <4>2. ASSUME faults + storeFaults = 0 PROVE FALSE
        <5>1. PICK k \in Message : InTurn(k) /\ SessionOf[k] = s
          BY <1>4, <4>1, <4>2 DEF Inv, Unmarked
        <5>2. k = m
          BY <1>1, <5>1 DEF Inv, AdmittedTurn
        <5>3. QED BY <1>1, <5>1, <5>2 DEF InTurn
      <4>3. QED BY <1>4, <4>2
    <3>3. QED BY <3>1, <3>2
  <2>2. QED BY <2>1 DEF RejectedOnlyAfterFault
<1> QED BY <1>3, <1>5, <1>6, <1>8, <1>9 DEF Inv

(* The bus dispatches what it did not wait for: newcomers to their lines.   *)
LEMMA Serving ==
  ASSUME Inv, ServeTurns
  PROVE  Inv'
<1> DEFINE New(s) == {m \in Dispatched : SessionOf[m] = s}
<1>1. PICK joined \in [Session -> UNION {Joins(s) : s \in Session}] :
        /\ \A s \in Session : joined[s] \in Joins(s)
        /\ line' = [s \in Session |-> line[s] \o joined[s]]
  BY DEF ServeTurns
<1>2. /\ BusTypes' /\ faults' >= faults
      /\ \A m \in Message : task[m] = "running" => task'[m] = "running"
  BY BusServes DEF ServeTurns, Inv
<1>3. /\ turn' = [m \in Message |-> IF m \in Dispatched THEN "queued" ELSE turn[m]]
      /\ UNCHANGED <<activeTurn, aborted, awaited, verdict, storeFaults>>
  BY DEF ServeTurns
<1>4. /\ Dispatched \subseteq Message
      /\ \A m \in Message : /\ m \in Dispatched => task[m] # "running" /\ turn[m] = "none"
                                                   /\ task'[m] = "running"
                            /\ task'[m] = "running" => task[m] = "running" \/ m \in Dispatched
  BY DEF Dispatched, Inv, Lines
<1> HIDE DEF Dispatched
<1>5. ASSUME NEW s \in Session
      PROVE  /\ Orderly(s, line'[s])
             /\ ToSet(line'[s]) = ToSet(line[s]) \cup New(s)
             /\ line[s] # <<>> => Head(line'[s]) = Head(line[s])
  <2>1. IsFiniteSet(New(s))
    BY <1>4, InboundAssumption, FS_Subset
  <2>2. joined[s] \in SetToSeqs(New(s))
    BY <1>1 DEF Joins
  <2>3. /\ joined[s] \in Seq(New(s)) /\ ToSet(joined[s]) = New(s)
        /\ \A i, j \in 1..Len(joined[s]) : joined[s][i] = joined[s][j] => i = j
    BY <2>1, <2>2, Orders
  <2>4. /\ joined[s] \in Seq(Message)
        /\ \A i \in 1..Len(joined[s]) : joined[s][i] \in New(s)
    <3> DEFINE j == joined[s]
    <3>1. \A i \in 1..Len(j) : j[i] \in New(s)
      BY <2>3
    <3>2. New(s) \subseteq Message
      BY <1>4
    <3> HIDE DEF j, New
    <3>3. j \in Seq(Message)
      BY <2>3, <3>2 DEF j
    <3>4. QED BY <3>1, <3>3 DEF j
  <2>5. Orderly(s, line[s])
    BY DEF Inv, Lines
  <2>6. \A i \in 1..Len(joined[s]) : /\ SessionOf[joined[s][i]] = s
                                    /\ joined[s][i] \notin ToSet(line[s])
    <3>1. \A m \in New(s) : SessionOf[m] = s /\ m \notin ToSet(line[s])
      BY <1>4 DEF Inv, Lines
    <3>2. QED BY <2>4, <3>1
  <2>7. line'[s] = line[s] \o joined[s]
    BY <1>1
  <2>8. /\ Orderly(s, line[s] \o joined[s])
        /\ ToSet(line[s] \o joined[s]) = ToSet(line[s]) \cup ToSet(joined[s])
        /\ line[s] # <<>> => Head(line[s] \o joined[s]) = Head(line[s])
    <3>1. /\ joined[s] \in Seq(Message)
          /\ \A i, j \in 1..Len(joined[s]) : joined[s][i] = joined[s][j] => i = j
      BY <2>3, <2>4
    <3>2. QED BY <2>5, <2>6, <3>1, LineGrows
  <2>9. ToSet(joined[s]) = New(s)
    BY <2>3
  <2> HIDE DEF New
  <2>10. QED BY <2>7, <2>8, <2>9
<1>6. line' \in [Session -> Seq(Message)]
  BY <1>1, <1>5 DEF Orderly
<1>7. Lines'
  <2>1. ASSUME NEW m \in Message
        PROVE  /\ task'[m] = "running" <=> m \in ToSet(line'[SessionOf[m]])
               /\ task'[m] = "running" <=> turn'[m] # "none"
    <3>1. /\ SessionOf[m] \in Session
          /\ task[m] = "running" <=> m \in ToSet(line[SessionOf[m]])
          /\ task[m] = "running" <=> turn[m] # "none"
      BY ChannelAssumption DEF Inv, Lines
    <3>2. task'[m] = "running" <=> task[m] = "running" \/ m \in Dispatched
      BY <1>2, <1>4
    <3>3. m \in ToSet(line'[SessionOf[m]]) <=>
            m \in ToSet(line[SessionOf[m]]) \/ m \in Dispatched
      BY <1>5, <3>1
    <3>4. turn'[m] # "none" <=> turn[m] # "none" \/ m \in Dispatched
      BY <1>3, <1>4
    <3>5. QED BY <3>1, <3>2, <3>3, <3>4
  <2>2. QED BY <1>5, <2>1 DEF Lines, Orderly
<1>8. \A m \in Message : InTurn(m)' <=> InTurn(m)
  BY <1>3, <1>4 DEF InTurn
<1>9. TurnsTypeOK'
  <2>1. turn' \in [Message -> {"none", "queued", "running", "replying"}]
    BY <1>3 DEF Inv, TurnsTypeOK
  <2>2. QED BY <1>3, <1>6, <1>8, <2>1 DEF Inv, TurnsTypeOK
<1>10. AdmittedTurn'
  <2>1. ASSUME NEW m \in Message, InTurn(m)'
        PROVE  /\ activeTurn'[SessionOf[m]] = m
               /\ Head(line'[SessionOf[m]]) = m
    <3>1. InTurn(m) /\ SessionOf[m] \in Session
      BY <1>8, <2>1, ChannelAssumption
    <3>2. activeTurn[SessionOf[m]] = m /\ Head(line[SessionOf[m]]) = m
      BY <3>1 DEF Inv, AdmittedTurn
    <3>3. m \in ToSet(line[SessionOf[m]])
      BY <3>1 DEF Inv, Lines, InTurn
    <3>4. line[SessionOf[m]] # <<>>
      BY <3>3 DEF ToSet
    <3>5. QED BY <1>3, <1>5, <3>1, <3>2, <3>4
  <2>2. QED BY <2>1 DEF AdmittedTurn
<1>11. /\ faults' + storeFaults' = 0 => faults + storeFaults = 0
       /\ faults + storeFaults > 0 => faults' + storeFaults' > 0
  <2>1. /\ faults \in Nat /\ faults' \in Nat /\ faults' >= faults
        /\ storeFaults \in Nat /\ storeFaults' = storeFaults
    BY <1>2, <1>3, ChannelAssumption DEF Inv, BusTypes, TurnsTypeOK
  <2>2. \A a, b, c \in Nat : b >= a => /\ b + c = 0 => a + c = 0
                                       /\ a + c > 0 => b + c > 0
    OBVIOUS
  <2>3. QED BY <2>1, <2>2
<1>12. Unmarked'
  BY <1>3, <1>8, <1>11 DEF Inv, Unmarked
<1>13. RejectedOnlyAfterFault'
  BY <1>3, <1>11 DEF Inv, RejectedOnlyAfterFault
<1> QED BY <1>2, <1>7, <1>9, <1>10, <1>12, <1>13 DEF Inv

(* A turn begins, replies, or is interrupted.                               *)
LEMMA Turning ==
  ASSUME Inv, NEW m \in Message, Admit(m) \/ ReturnsReply(m) \/ Interrupt(m)
  PROVE  Inv'
<1> DEFINE s == SessionOf[m]
<1>1. /\ s \in Session
      /\ UNCHANGED <<task, faults, phase, line, awaited, verdict, storeFaults>>
  BY ChannelAssumption DEF Admit, ReturnsReply, Interrupt, busVars
<1>2. BusTypes' /\ RejectedOnlyAfterFault'
  BY <1>1 DEF Inv, BusTypes, RejectedOnlyAfterFault
<1>3. CASE Admit(m)
  <2>1. /\ turn[m] = "queued" /\ Head(line[s]) = m /\ activeTurn[s] = NoTurn
        /\ activeTurn' = [activeTurn EXCEPT ![s] = m]
        /\ turn' = [turn EXCEPT ![m] = "running"]
        /\ aborted' = aborted
    BY <1>3 DEF Admit, AtHead
  <2>2. /\ turn' \in [Message -> {"none", "queued", "running", "replying"}]
        /\ turn'[m] = "running" /\ \A n \in Message : n # m => turn'[n] = turn[n]
        /\ activeTurn' \in [Session -> Message \cup {NoTurn, Orphan}]
        /\ activeTurn'[s] = m /\ \A r \in Session : r # s => activeTurn'[r] = activeTurn[r]
    BY <1>1, <2>1 DEF Inv, TurnsTypeOK
  <2>3. /\ \A n \in Message : InTurn(n) => InTurn(n)' /\ SessionOf[n] # s
        /\ \A n \in Message : InTurn(n)' => n = m \/ InTurn(n)
        /\ InTurn(m)'
    <3>1. \A n \in Message : InTurn(n) => SessionOf[n] # s
      BY <2>1, ChannelAssumption DEF Inv, AdmittedTurn
    <3>2. QED BY <2>1, <2>2, <3>1 DEF InTurn
  <2>4. TurnsTypeOK'
    BY <1>1, <2>1, <2>2, <2>3 DEF Inv, TurnsTypeOK
  <2>5. Lines'
    BY <1>1, <2>1, <2>2 DEF Inv, Lines, Orderly
  <2>6. AdmittedTurn'
    BY <1>1, <2>1, <2>2, <2>3, ChannelAssumption DEF Inv, AdmittedTurn
  <2>7. Unmarked'
    BY <1>1, <2>2, <2>3 DEF Inv, Unmarked
  <2>8. QED BY <1>2, <2>4, <2>5, <2>6, <2>7 DEF Inv
<1>4. CASE ReturnsReply(m) \/ Interrupt(m)
  <2>1. /\ activeTurn' = activeTurn
        /\ turn' \in [Message -> {"none", "queued", "running", "replying"}]
        /\ \A n \in Message : InTurn(n)' <=> InTurn(n)
        /\ \A n \in Message : turn'[n] # "none" <=> turn[n] # "none"
        /\ aborted' \subseteq {n \in Message : InTurn(n)}
    <3>1. CASE ReturnsReply(m)
      BY <3>1 DEF ReturnsReply, Inv, TurnsTypeOK, InTurn
    <3>2. CASE Interrupt(m)
      BY <3>2 DEF Interrupt, Inv, TurnsTypeOK, InTurn
    <3>3. QED BY <1>4, <3>1, <3>2
  <2>2. TurnsTypeOK'
    BY <1>1, <2>1 DEF Inv, TurnsTypeOK
  <2>3. Lines'
    BY <1>1, <2>1 DEF Inv, Lines, Orderly
  <2>4. AdmittedTurn' /\ Unmarked'
    BY <1>1, <2>1 DEF Inv, AdmittedTurn, Unmarked
  <2>5. QED BY <1>2, <2>2, <2>3, <2>4 DEF Inv
<1> QED BY <1>3, <1>4

(* The process stops: its turns are aborted, and something counts as a      *)
(* fault from here on.                                                      *)
LEMMA Stopping ==
  ASSUME Inv, StopTurns \/ CloseTurns
  PROVE  Inv'
<1>1. UNCHANGED <<task, activeTurn, line, turn, verdict, storeFaults>>
  BY DEF StopTurns, CloseTurns, Stop, Close, volatile
<1>2. /\ faults' \in Nat /\ faults' >= faults
      /\ phase' \in {"draining", "closed"} => faults' > 0
      /\ faults' = faults \/ faults' > 0
  <2>1. CASE StopTurns
    BY <2>1 DEF StopTurns, Stop, Fault, Inv, BusTypes
  <2>2. CASE CloseTurns
    BY <2>2 DEF CloseTurns, Close, history, Inv, BusTypes
  <2>3. QED BY <2>1, <2>2
<1>3. /\ aborted' \subseteq {m \in Message : InTurn(m)}
      /\ awaited' \subseteq Message
  <2>1. CASE StopTurns
    BY <2>1 DEF StopTurns, Inv, TurnsTypeOK
  <2>2. CASE CloseTurns
    <3>1. \A s \in Session : line[s] # <<>> => Head(line[s]) \in Message
      BY DEF Inv, TurnsTypeOK
    <3>2. QED BY <2>2, <3>1 DEF CloseTurns, Inv, TurnsTypeOK
  <2>3. QED BY <2>1, <2>2
<1>4. TurnsTypeOK'
  BY <1>1, <1>3 DEF Inv, TurnsTypeOK, InTurn
<1>5. BusTypes'
  BY <1>1, <1>2 DEF Inv, BusTypes
<1>6. Lines' /\ AdmittedTurn'
  BY <1>1 DEF Inv, Lines, Orderly, AdmittedTurn, InTurn
<1>7. /\ faults' + storeFaults' = 0 => faults + storeFaults = 0
      /\ faults + storeFaults > 0 => faults' + storeFaults' > 0
  <2>1. /\ faults \in Nat /\ faults' \in Nat /\ faults' >= faults
        /\ storeFaults \in Nat /\ storeFaults' = storeFaults
    BY <1>1, <1>2, ChannelAssumption DEF Inv, BusTypes, TurnsTypeOK
  <2>2. \A a, b, c \in Nat : b >= a => /\ b + c = 0 => a + c = 0
                                       /\ a + c > 0 => b + c > 0
    OBVIOUS
  <2>3. QED BY <2>1, <2>2
<1>8. Unmarked' /\ RejectedOnlyAfterFault'
  BY <1>1, <1>7 DEF Inv, Unmarked, RejectedOnlyAfterFault, InTurn
<1> QED BY <1>4, <1>5, <1>6, <1>8 DEF Inv

(* The process is gone: no line, no turn, and the marks it left follow a    *)
(* fault.                                                                   *)
LEMMA Halting ==
  ASSUME Inv, ExitTurns \/ DieInTurns
  PROVE  Inv'
<1>1. /\ task' = [m \in Message |-> "none"] /\ phase' = "down"
      /\ faults' \in Nat /\ faults' > 0
  <2>1. CASE ExitTurns
    BY <2>1 DEF ExitTurns, Exit, Lost, Inv, BusTypes
  <2>2. CASE DieInTurns
    <3>1. Lost /\ Fault
      BY <2>2 DEF DieInTurns, Die, CrashAccepting, CrashDeadLettering,
                  CrashRequeueing, Requeued, Crash
    <3>2. QED BY <3>1 DEF Lost, Fault, Inv, BusTypes
  <2>3. QED BY <2>1, <2>2
<1>2. /\ line' = [s \in Session |-> <<>>]
      /\ turn' = [m \in Message |-> "none"]
      /\ aborted' = {} /\ awaited' = {}
      /\ activeTurn' = [s \in Session |-> IF activeTurn[s] = NoTurn THEN NoTurn ELSE Orphan]
      /\ UNCHANGED <<verdict, storeFaults>>
  BY DEF ExitTurns, DieInTurns, Halt
<1>3. TurnsTypeOK'
  <2>1. line' \in [Session -> Seq(Message)]
    BY <1>2
  <2>2. QED BY <1>2, <2>1 DEF Inv, TurnsTypeOK
<1>4. BusTypes'
  BY <1>1 DEF BusTypes
<1>5. Lines'
  <2>1. \A s \in Session : line'[s] = <<>> /\ line'[s] \in Seq(Message) /\ Len(line'[s]) = 0
    BY <1>2
  <2>2. \A s \in Session : Orderly(s, line'[s]) /\ ToSet(line'[s]) = {}
    BY <2>1 DEF Orderly, ToSet
  <2>3. \A m \in Message : /\ SessionOf[m] \in Session
                           /\ task'[m] = "none" /\ turn'[m] = "none"
    BY <1>1, <1>2, ChannelAssumption
  <2>4. QED BY <2>2, <2>3 DEF Lines, Orderly
<1>6. AdmittedTurn'
  BY <1>2 DEF AdmittedTurn, InTurn
<1>7. faults' + storeFaults' > 0
  <2>1. storeFaults' \in Nat /\ faults' \in Nat /\ faults' > 0
    BY <1>1, <1>2, ChannelAssumption DEF Inv, TurnsTypeOK
  <2>2. \A a, b \in Nat : a > 0 => a + b > 0
    OBVIOUS
  <2>3. QED BY <2>1, <2>2
<1>8. Unmarked' /\ RejectedOnlyAfterFault'
  BY <1>7 DEF Unmarked, RejectedOnlyAfterFault
<1> QED BY <1>3, <1>4, <1>5, <1>6, <1>8 DEF Inv

LEMMA Starting == TurnsInit => Inv
<1> SUFFICES ASSUME TurnsInit PROVE Inv
  OBVIOUS
<1> USE DEF TurnsInit
<1>1. TurnsTypeOK
  <2>1. line \in [Session -> Seq(Message)] /\ storeFaults \in 0..MaxStoreFaults
    BY ChannelAssumption
  <2>2. QED BY <2>1 DEF TurnsTypeOK
<1>2. BusTypes
  BY DEF BusTypes, Init
<1>3. Lines
  <2>1. \A s \in Session : line[s] = <<>> /\ line[s] \in Seq(Message) /\ Len(line[s]) = 0
    OBVIOUS
  <2>2. \A s \in Session : Orderly(s, line[s]) /\ ToSet(line[s]) = {}
    BY <2>1 DEF Orderly, ToSet
  <2>3. \A m \in Message : SessionOf[m] \in Session /\ task[m] = "none" /\ turn[m] = "none"
    BY ChannelAssumption DEF Init
  <2>4. QED BY <2>2, <2>3 DEF Lines
<1>4. AdmittedTurn /\ Unmarked /\ RejectedOnlyAfterFault
  BY DEF AdmittedTurn, Unmarked, RejectedOnlyAfterFault, InTurn
<1> QED BY <1>1, <1>2, <1>3, <1>4 DEF Inv

LEMMA Stepping == Inv /\ [TurnsNext]_allVars => Inv'
<1> SUFFICES ASSUME Inv, [TurnsNext]_allVars PROVE Inv'
  OBVIOUS
<1>1. ASSUME NEW m \in Message, TurnStep(m) PROVE Inv'
  <2>1. CASE Reject(m) \/ AdmissionFails(m)
    BY <2>1, Dismissing
  <2>2. CASE Admit(m) \/ ReturnsReply(m)
    BY <2>2, Turning
  <2>3. CASE \/ HandlerThrows(m) \/ ReturnsNothing(m) \/ ReplyRefused(m)
             \/ ReplySent(m) \/ ReplyFails(m)
    <3>1. InTurn(m) /\ \E outcome \in Outcomes \ {"rejected"} : EndTurn(m, outcome)
      BY <2>3 DEF HandlerThrows, ReturnsNothing, ReplyRefused, ReplySent, ReplyFails,
                  Broken, InTurn, Outcomes
    <3>2. QED BY <3>1, Ending
  <2>4. QED BY <1>1, <2>1, <2>2, <2>3 DEF TurnStep
<1>2. CASE UNCHANGED allVars
  <2>1. UNCHANGED <<task, faults, phase, activeTurn, line, turn, aborted,
                    awaited, verdict, storeFaults>>
    BY <1>2 DEF allVars, busVars, turnVars
  <2>2. QED BY <2>1 DEF Inv, TurnsTypeOK, BusTypes, Lines, Orderly, AdmittedTurn, Unmarked,
                        RejectedOnlyAfterFault, InTurn
<1> QED BY <1>1, <1>2, Serving, Stopping, Halting, Turning DEF TurnsNext

LEMMA InvHolds == TurnsSpec => []Inv
BY Starting, Stepping, PTL DEF TurnsSpec
-----------------------------------------------------------------------------
(* Consistent, for any number of messages, sessions and faults: one turn    *)
(* per session, the one its file names, and the bus waits for exactly what  *)
(* stands in the lines.                                                     *)
THEOREM TurnsConsistentHolds == TurnsSpec => []TurnsConsistent
<1>1. Inv => TurnsConsistent
  <2>1. SUFFICES ASSUME Inv PROVE LineIsTasks
    BY DEF Inv, TurnsConsistent
  <2>2. ASSUME NEW m \in Message, NEW s \in Session, m \in ToSet(line[s])
        PROVE  SessionOf[m] = s
    <3>1. Orderly(s, line[s])
      BY <2>1 DEF Inv, Lines
    <3>2. PICK i \in 1..Len(line[s]) : line[s][i] = m
      BY <2>2, <3>1 DEF ToSet, Orderly
    <3>3. QED BY <3>1, <3>2 DEF Orderly
  <2>3. QED BY <2>1, <2>2, ChannelAssumption DEF Inv, Lines, LineIsTasks
<1> QED BY <1>1, InvHolds, PTL

(* beginTurn turns no message away unless something has failed before.      *)
THEOREM TurnedAwayHolds == TurnsSpec => []RejectedOnlyAfterFault
<1>1. Inv => RejectedOnlyAfterFault
  BY DEF Inv
<1> QED BY <1>1, InvHolds, PTL

(* The runtime adds to the bus and takes nothing from it: each of its steps *)
(* is one of InboundHandoff or leaves the bus as it is, by the way they are *)
(* composed, so that what is proved of the bus carries over.                *)
LEMMA HandoffRefinement == TurnsSpec => Spec
<1>1. TurnsInit => Init
  BY DEF TurnsInit
<1>2. [TurnsNext]_allVars => [Next]_vars
  <2>1. ASSUME NEW m \in Message, NEW outcome, Conclude(m, outcome)
        PROVE  Next
    BY <2>1 DEF Conclude, Next, HandlerSettles
  <2>2. ASSUME NEW m \in Message, TurnStep(m)
        PROVE  Next \/ UNCHANGED busVars
    BY <2>1, <2>2 DEF TurnStep, Admit, Reject, AdmissionFails, HandlerThrows,
                      ReturnsNothing, ReturnsReply, ReplyRefused, ReplySent, ReplyFails,
                      EndTurn
  <2>3. ASSUME NEW m \in Message, Interrupt(m)
        PROVE  UNCHANGED busVars
    BY <2>3 DEF Interrupt
  <2>4. ServeTurns \/ StopTurns \/ CloseTurns \/ ExitTurns \/ DieInTurns => Next
    BY DEF ServeTurns, StopTurns, CloseTurns, ExitTurns, DieInTurns, Next
  <2>5. UNCHANGED busVars => UNCHANGED vars
    BY DEF busVars, vars, durable, volatile, history
  <2>6. QED BY <2>2, <2>3, <2>4, <2>5 DEF TurnsNext, allVars
<1> QED BY <1>1, <1>2, PTL DEF TurnsSpec, Spec

(* What holds of the bus with any handler holds of the gateway: an accepted *)
(* message is on disk until its turn has ended, it never has two turns, its *)
(* key and its attempts are counted, and an acknowledged message has no     *)
(* further turn (bus.ts, runtime.ts).                                       *)
THEOREM GatewayKeeps ==
  TurnsSpec => [](OwedIsOnDisk /\ Consistent) /\ AckIsFinal /\ ImplementsCustody
BY HandoffRefinement, OwedStaysOnDisk, HandoffConsistentHolds, AckIsFinalHolds,
   CustodyRefinement, PTL
=============================================================================
