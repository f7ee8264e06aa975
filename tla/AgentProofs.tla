---------------------------- MODULE AgentProofs ----------------------------
(***************************************************************************)
(* packages/agent and packages/host, in two parts that share no state.     *)
(*                                                                         *)
(* AgentRun, for any number of messages, calls, batches and faults, and    *)
(* both modes of either queue: the context of the loop and the transcript  *)
(* agree, the results follow the answer that asked for them, a submitted   *)
(* message is in one place and in its order, and an aborted run lets no    *)
(* further tool call through.                                              *)
(*                                                                         *)
(* None of these is inductive as it stands.  IInv says besides where a run *)
(* may hold messages (Phases), how far a batch is in each of its modes     *)
(* (Batched), by what the context and the transcript are apart while       *)
(* prompts are told and results given (Agreed), where the answer of the    *)
(* batch stands (Followed), that a message given up was submitted (Placed) *)
(* and that the order of each queue runs on from the transcript over the   *)
(* hands of the loop to the queue (Ordered).  Placed and Ordered speak of  *)
(* the messages only: what a step does with them is one of the few ways of *)
(* Handles, and the two are proved from these.                             *)
(*                                                                         *)
(* AgentSession, for any number of prompts, messages, retries, aborts and  *)
(* compactions (at the end of the module): the flag of a session covers    *)
(* all the work of a prompt, a session that settled left nothing open, and *)
(* the whole implements SessionPrompts, however prompts overlap.           *)
(***************************************************************************)
EXTENDS AgentRun, AgentSession, FiniteSetTheorems, SequenceTheorems, TLAPS

Results(n) == [i \in 1..n |-> Result(i)]

(* A message emitted is the last of the transcript, and moves no other.     *)
LEMMA Appended ==
  ASSUME NEW S, NEW s \in Seq(S), NEW x \in S
  PROVE  /\ Append(s, x) \in Seq(S) /\ Len(Append(s, x)) = Len(s) + 1
         /\ Len(s) \in Nat /\ DOMAIN s = 1..Len(s)
         /\ DOMAIN Append(s, x) = 1..(Len(s) + 1)
         /\ \A i \in 1..Len(s) : Append(s, x)[i] = s[i]
         /\ Append(s, x)[Len(s) + 1] = x
<1>1. Append(s, x) \in Seq(S) /\ Len(Append(s, x)) = Len(s) + 1 /\ Len(s) \in Nat
  BY AppendProperties, LenProperties
<1>2. /\ \A i \in 1..Len(s) : Append(s, x)[i] = s[i]
      /\ Append(s, x)[Len(s) + 1] = x
  BY AppendProperties
<1>3. DOMAIN s = 1..Len(s) /\ DOMAIN Append(s, x) = 1..(Len(s) + 1)
  BY <1>1, LenProperties
<1> QED BY <1>1, <1>2, <1>3

(* What is told and what is to be told: the head passes from one to the     *)
(* other.                                                                   *)
LEMMA Passes ==
  ASSUME NEW S, NEW s \in Seq(S), NEW q \in Seq(S), q # <<>>
  PROVE  s \o q = Append(s, Head(q)) \o Tail(q)
<1>1. Head(q) \in S /\ Tail(q) \in Seq(S) /\ q = <<Head(q)>> \o Tail(q)
  <2>1. Head(q) \in S /\ Tail(q) \in Seq(S)
    BY HeadTailProperties
  <2>2. Len(q) \in Nat \ {0} /\ 1 \in 1..Len(q) /\ Len(q) \in 1..Len(q)
    BY EmptySeq
  <2>3. SubSeq(q, 1, Len(q)) = <<q[1]>> \o SubSeq(q, 1 + 1, Len(q))
    BY <2>2, SubSeqRecursiveFirst
  <2>4. Tail(q) = SubSeq(q, 2, Len(q)) /\ SubSeq(q, 1, Len(q)) = q /\ Head(q) = q[1]
    BY <2>2, TailIsSubSeq, SubSeqFull
  <2>5. QED BY <2>1, <2>3, <2>4
<1>2. <<Head(q)>> \in Seq(S)
  BY <1>1
<1>3. Append(s, Head(q)) = s \o <<Head(q)>>
  BY <1>1, AppendIsConcat
<1>4. (s \o <<Head(q)>>) \o Tail(q) = s \o (<<Head(q)>> \o Tail(q))
  BY <1>1, <1>2, ConcatAssociative
<1> QED BY <1>1, <1>3, <1>4

(* Prompts as items of the transcript: the first prompt is its first item.  *)
LEMMA UsersOf ==
  ASSUME NEW q \in Seq(Msg)
  PROVE  /\ Users(q) \in Seq(Items)
         /\ Users(<<>>) = <<>>
         /\ q # <<>> => /\ Users(q) # <<>> /\ Head(Users(q)) = User(Head(q))
                        /\ Tail(Users(q)) = Users(Tail(q))
<1>1. Len(q) \in Nat /\ DOMAIN q = 1..Len(q) /\ \A i \in 1..Len(q) : q[i] \in Msg
  BY LenProperties, ElementOfSeq
<1>2. \A m \in Msg : User(m) \in Items
  BY DEF Items
<1>3. Users(q) = [i \in 1..Len(q) |-> User(q[i])] /\ Users(q) \in Seq(Items)
  BY <1>1, <1>2 DEF Users
<1>4. Len(Users(q)) = Len(q)
  BY <1>1, <1>3
<1>5. Users(<<>>) = <<>>
  BY DEF Users
<1>6. ASSUME q # <<>>
      PROVE /\ Users(q) # <<>> /\ Head(Users(q)) = User(Head(q))
            /\ Tail(Users(q)) = Users(Tail(q))
  <2>1. Len(q) \in Nat \ {0} /\ Head(q) = q[1] /\ 1 \in 1..Len(q)
    BY <1>6, EmptySeq
  <2>2. Users(q) # <<>>
    BY <1>4, <2>1, EmptySeq
  <2>3. Users(q)[1] = User(q[1]) /\ Head(Users(q)) = Users(q)[1]
    BY <1>3, <2>1
  <2>4. /\ Tail(q) \in Seq(Msg) /\ Len(Tail(q)) = Len(q) - 1
        /\ \A i \in 1..Len(Tail(q)) : Tail(q)[i] = q[i + 1]
    BY <1>6, HeadTailProperties
  <2>5. /\ Tail(Users(q)) \in Seq(Items) /\ Len(Tail(Users(q))) = Len(q) - 1
        /\ \A i \in 1..Len(Tail(Users(q))) : Tail(Users(q))[i] = Users(q)[i + 1]
    BY <1>3, <1>4, <2>2, HeadTailProperties
  <2>6. Users(Tail(q)) = [i \in 1..(Len(q) - 1) |-> User(Tail(q)[i])]
    BY <2>4, LenProperties DEF Users
  <2>7. \A i \in 1..(Len(q) - 1) : Tail(q)[i] \in Msg
    BY <2>4, ElementOfSeq
  <2>8. Users(Tail(q)) \in Seq(Items) /\ Len(Users(Tail(q))) = Len(q) - 1
    <3>1. Len(q) - 1 \in Nat /\ \A i \in 1..(Len(q) - 1) : User(Tail(q)[i]) \in Items
      BY <1>2, <2>1, <2>7
    <3>2. QED BY <2>6, <3>1
  <2>9. \A i \in 1..(Len(q) - 1) : Tail(Users(q))[i] = Users(Tail(q))[i]
    <3>1. \A i \in 1..(Len(q) - 1) : i + 1 \in 1..Len(q)
      BY <1>1, <2>1
    <3>2. QED BY <1>3, <2>4, <2>5, <2>6, <3>1
  <2>10. Tail(Users(q)) = Users(Tail(q))
    BY <2>5, <2>8, <2>9, SeqEqual
  <2>11. QED BY <2>1, <2>2, <2>3, <2>10
<1> QED BY <1>3, <1>5, <1>6

(* drain takes the front of a queue and leaves the rest.                    *)
LEMMA Drains ==
  ASSUME NEW q \in Seq(Msg), NEW mode \in Modes
  PROVE  /\ Drained(q, mode) \in Seq(Msg) /\ Left(q, mode) \in Seq(Msg)
         /\ Drained(q, mode) \o Left(q, mode) = q
         /\ q # <<>> => Drained(q, mode) # <<>>
<1>1. CASE mode = "all"
  BY <1>1, ConcatEmptySeq, EmptySeq DEF Drained, Left
<1>2. CASE q = <<>>
  BY <1>2, ConcatEmptySeq, EmptySeq DEF Drained, Left
<1>3. CASE mode # "all" /\ q # <<>>
  <2>1. Head(q) \in Msg /\ Tail(q) \in Seq(Msg)
    BY <1>3, HeadTailProperties
  <2>2. <<Head(q)>> \in Seq(Msg) /\ <<Head(q)>> # <<>>
    BY <2>1
  <2>3. <<Head(q)>> \o Tail(q) = q
    <3>1. <<>> \o q = Append(<<>>, Head(q)) \o Tail(q)
      BY <1>3, Passes, EmptySeq
    <3>2. Append(<<>>, Head(q)) = <<Head(q)>>
      OBVIOUS
    <3>3. QED BY <3>1, <3>2, ConcatEmptySeq
  <2>4. QED BY <1>3, <2>1, <2>2, <2>3 DEF Drained, Left
<1> QED BY <1>1, <1>2, <1>3
-----------------------------------------------------------------------------
(* Counting goes over the parts of a sequence.                              *)
LEMMA Counts ==
  ASSUME NEW S, NEW x, NEW s \in Seq(S), NEW t \in Seq(S)
  PROVE  /\ Count(x, s) \in Nat
         /\ Count(x, s \o t) = Count(x, s) + Count(x, t)
         /\ Count(x, s) > 0 <=> \E i \in DOMAIN s : s[i] = x
<1> DEFINE At(q) == {i \in 1..Len(q) : q[i] = x}
           moved == {i \in (Len(s) + 1)..(Len(s) + Len(t)) : t[i - Len(s)] = x}
<1>1. /\ Len(s) \in Nat /\ DOMAIN s = 1..Len(s)
      /\ Len(t) \in Nat /\ DOMAIN t = 1..Len(t)
      /\ s \o t \in Seq(S) /\ Len(s \o t) = Len(s) + Len(t)
      /\ DOMAIN (s \o t) = 1..(Len(s) + Len(t))
      /\ \A i \in 1..(Len(s) + Len(t)) :
           (s \o t)[i] = IF i <= Len(s) THEN s[i] ELSE t[i - Len(s)]
  BY ConcatProperties, LenProperties
<1>2. Count(x, s) = Cardinality(At(s)) /\ Count(x, t) = Cardinality(At(t))
      /\ Count(x, s \o t) = Cardinality(At(s \o t))
  BY <1>1 DEF Count
<1>3. \A n \in Nat : IsFiniteSet(1..n)
  BY FS_Interval
<1>4. IsFiniteSet(At(s)) /\ IsFiniteSet(At(t))
  BY <1>1, <1>3, FS_Subset
<1>5. At(s \o t) = At(s) \cup moved
  BY <1>1
<1>6. At(s) \cap moved = {}
  BY <1>1
<1>7. IsFiniteSet(moved) /\ Cardinality(moved) = Cardinality(At(t))
  <2> DEFINE f == [i \in At(t) |-> Len(s) + i]
  <2>1. f \in Bijection(At(t), moved)
    <3>1. \A i \in At(t) : Len(s) + i \in moved
      BY <1>1
    <3>2. \A i \in moved : i - Len(s) \in At(t) /\ Len(s) + (i - Len(s)) = i
      BY <1>1
    <3>3. \A i, j \in At(t) : Len(s) + i = Len(s) + j => i = j
      BY <1>1
    <3> HIDE DEF moved, At
    <3>4. f \in [At(t) -> moved]
      BY <3>1
    <3>5. \A i, j \in At(t) : f[i] = f[j] => i = j
      BY <3>3
    <3>6. \A i \in moved : \E j \in At(t) : f[j] = i
      BY <3>2
    <3>7. QED BY <3>4, <3>5, <3>6 DEF Bijection, Injection, IsInjective, Surjection
  <2>2. QED
    <3> HIDE DEF f, moved, At
    <3>1. ExistsBijection(At(t), moved)
      BY <2>1 DEF ExistsBijection
    <3>2. QED BY <1>4, <3>1, FS_Bijection
<1>8. Cardinality(At(s) \cap moved) = 0
  BY <1>6, FS_EmptySet
<1> HIDE DEF At, moved
<1>9. Cardinality(At(s) \cup moved) = Cardinality(At(s)) + Cardinality(moved)
  <2>1. Cardinality(At(s) \cup moved)
          = Cardinality(At(s)) + Cardinality(moved) - Cardinality(At(s) \cap moved)
    BY <1>4, <1>7, FS_Union
  <2>2. Cardinality(At(s)) \in Nat /\ Cardinality(moved) \in Nat
    BY <1>4, <1>7, FS_CardinalityType
  <2>3. QED BY <1>8, <2>1, <2>2
<1>10. Count(x, s) \in Nat
  BY <1>2, <1>4, FS_CardinalityType
<1>11. Count(x, s) > 0 <=> \E i \in DOMAIN s : s[i] = x
  <2>1. Cardinality(At(s)) = 0 <=> At(s) = {}
    BY <1>4, FS_EmptySet
  <2>2. At(s) = {} <=> ~\E i \in DOMAIN s : s[i] = x
    BY <1>1 DEF At
  <2>3. QED BY <1>2, <1>10, <2>1, <2>2
<1> QED BY <1>2, <1>5, <1>7, <1>9, <1>10, <1>11

(* A message is once in a sequence of itself alone.                         *)
LEMMA CountsOne ==
  ASSUME NEW x, NEW y
  PROVE  Count(x, <<>>) = 0 /\ Count(x, <<y>>) = IF x = y THEN 1 ELSE 0
<1>1. {i \in DOMAIN <<>> : <<>>[i] = x} = {}
  OBVIOUS
<1>2. {i \in DOMAIN <<y>> : <<y>>[i] = x} = IF x = y THEN {1} ELSE {}
  OBVIOUS
<1>3. Cardinality({}) = 0 /\ Cardinality({1}) = 1
  BY FS_EmptySet, FS_Singleton
<1> QED BY <1>1, <1>2, <1>3 DEF Count

(* A message appended is counted once more, and no other is.                *)
LEMMA CountsAppend ==
  ASSUME NEW S, NEW x, NEW s \in Seq(S), NEW y \in S
  PROVE  Count(x, Append(s, y)) = Count(x, s) + (IF x = y THEN 1 ELSE 0)
<1>1. Append(s, y) = s \o <<y>> /\ <<y>> \in Seq(S)
  BY AppendIsConcat
<1>2. Count(x, s \o <<y>>) = Count(x, s) + Count(x, <<y>>)
  BY <1>1, Counts
<1> QED BY <1>1, <1>2, CountsOne
-----------------------------------------------------------------------------
Opening == {"begin", "prompting", "refusing"}

(* Where a run may hold what: prompts until they are told, polled messages  *)
(* until they are injected, a failure and an end of the run only last.      *)
Phases ==
  /\ pc \notin {"failing", "end"} => ~failed /\ ends = 0
  /\ pc = "failing" => failed /\ ends <= 1
  /\ pc = "end" => 1 <= ends /\ (~failed => ends = 1)
  /\ pc \notin Opening => prompts = <<>>
  /\ pc \notin {"turn", "inject"} => pending = <<>>

(* How far a batch is: the calls looked at, and the results given.          *)
Batched ==
  /\ pc = "sequential" => /\ batch.given < batch.asked
                          /\ IF batch.open = {} THEN batch.next = batch.given
                                                ELSE batch.next = batch.given + 1
  /\ pc = "preflight" => batch.given = 0 /\ batch.next < batch.asked
  /\ pc = "parallel" => batch.given < batch.next /\ (batch.next = batch.asked \/ aborted)
  /\ pc = "truncated" => /\ batch.given < batch.asked /\ batch.next = batch.given
                         /\ batch.open = {}
  /\ pc = "batched" => batch.given = batch.asked \/ aborted

(* What a step does with the messages that were submitted.                  *)
held == <<prompts, pending, steering, followUps, via, spilled>>
Says == \/ transcript' = transcript
        \/ \E x \in Items : x.kind # "user" /\ transcript' = Append(transcript, x)

Keeps == Says /\ UNCHANGED held
Tells == /\ prompts # <<>> /\ pending = <<>>
         /\ transcript' = Append(transcript, User(Head(prompts)))
         /\ prompts' = Tail(prompts)
         /\ UNCHANGED <<pending, steering, followUps, via, spilled>>
Injects == /\ pending # <<>> /\ prompts = <<>>
           /\ transcript' = Append(transcript, User(Head(pending)))
           /\ pending' = Tail(pending)
           /\ UNCHANGED <<prompts, steering, followUps, via, spilled>>
Polls == /\ pending = <<>> /\ prompts = <<>>
         /\ UNCHANGED <<transcript, via, spilled>>
         /\ \/ /\ prompts' = prompts /\ pending' \o steering' = steering
               /\ followUps' = followUps
            \/ /\ prompts' = prompts /\ pending' \o followUps' = followUps
               /\ steering' = steering
            \/ /\ pending' = pending /\ prompts' \o steering' = steering
               /\ followUps' = followUps
            \/ /\ pending' = pending /\ prompts' \o followUps' = followUps
               /\ steering' = steering
         /\ {prompts', pending', steering', followUps'} \subseteq Seq(Msg)
Drops == /\ Says
         /\ prompts' = <<>> /\ pending' = <<>>
         /\ spilled' = spilled \cup Range(prompts) \cup Range(pending)
         /\ UNCHANGED <<steering, followUps, via>>
Submits(m) == /\ \/ /\ Submit(m, "prompt") /\ prompts = <<>> /\ prompts' = <<m>>
                    /\ UNCHANGED <<steering, followUps>>
                 \/ /\ Submit(m, "steer") /\ steering' = Append(steering, m)
                    /\ UNCHANGED <<prompts, followUps>>
                 \/ /\ Submit(m, "follow-up") /\ followUps' = Append(followUps, m)
                    /\ UNCHANGED <<prompts, steering>>
              /\ UNCHANGED <<transcript, pending, spilled>>
Clears == /\ UNCHANGED <<transcript, prompts, pending, spilled>>
          /\ steering' = <<>> /\ followUps' = <<>>
          /\ via' = [m \in Msg |-> IF m \in Range(steering \o followUps) THEN "cleared"
                                                                        ELSE via[m]]

Handles == \/ Keeps \/ Tells \/ Injects \/ Polls \/ Drops \/ Clears
           \/ \E m \in Msg : Submits(m)

(* The three kinds of item, told apart by their kind.                       *)
LEMMA ItemsAre ==
  ASSUME TypeOK
  PROVE  /\ \A n \in 0..MaxCalls, s \in Stops : Answer(s, n) \in Items /\ Answer(s, n).kind = "assistant"
         /\ MaxCalls \in Nat /\ 0 \in 0..MaxCalls /\ MaxCalls \in 0..MaxCalls
         /\ \A i \in 1..MaxCalls : Result(i) \in Items /\ Result(i).kind = "result"
         /\ \A m \in Msg : User(m) \in Items /\ User(m).kind = "user" /\ User(m).of = m
<1>1. MaxCalls \in Nat /\ 0 \in 0..MaxCalls /\ MaxCalls \in 0..MaxCalls
  BY RunAssumption
<1>2. \A n \in 0..MaxCalls, s \in Stops : Answer(s, n) \in Items /\ Answer(s, n).kind = "assistant"
  BY DEF Items, Answer
<1>3. \A i \in 1..MaxCalls : Result(i) \in Items /\ Result(i).kind = "result"
  BY DEF Items, Result
<1>4. \A m \in Msg : User(m) \in Items /\ User(m).kind = "user" /\ User(m).of = m
  BY DEF Items, User
<1> QED BY <1>1, <1>2, <1>3, <1>4

(* A result in its turn is one of the calls that were asked for.            *)
LEMMA Gives ==
  ASSUME TypeOK, NEW b, b.given = batch.given, Given(b), batch.given < batch.asked
  PROVE  Says /\ transcript' = Append(transcript, Result(batch.given + 1))
<1>1. batch.given + 1 \in 1..MaxCalls
  BY RunAssumption DEF TypeOK
<1>2. transcript' = Append(transcript, Result(batch.given + 1))
  BY DEF Given, Emit
<1> QED BY <1>1, <1>2, ItemsAre DEF Says

(* Every step of the callers and the loop handles the messages in one of    *)
(* these ways.                                                              *)
LEMMA Handling ==
  ASSUME TypeOK, Phases, Batched, [Next]_vars
  PROVE  Handles
<1>1. CASE UNCHANGED vars \/ Abort \/ BeforeTurn \/ StopAfterTurn \/ CloseTurn \/ Finish
  BY <1>1 DEF vars, queues, Abort, BeforeTurn, StopAfterTurn, CloseTurn, Finish, FinishRun, Running,
      Callers, Ending, Handles, Keeps, Says, held
<1>2. ASSUME NEW m \in Msg, Prompt(m) \/ Steer(m) \/ FollowUp(m) PROVE Handles
  <2>1. Submits(m)
    <3>1. CASE Prompt(m)
      BY <3>1 DEF Prompt, Start, queues, Submits, Phases, Opening
    <3>2. CASE Steer(m) \/ FollowUp(m)
      BY <3>2 DEF Steer, FollowUp, Running, Submits
    <3>3. QED BY <1>2, <3>1, <3>2
  <2>2. QED BY <2>1 DEF Handles
<1>3. CASE Continue
  <2>1. prompts = <<>> /\ pending = <<>> /\ UNCHANGED <<transcript, via, spilled, pending>>
    BY <1>3 DEF Continue, Start, Phases, Opening
  <2>2. \/ /\ prompts' = Drained(steering, SteeringMode) /\ steering' = Left(steering, SteeringMode)
           /\ followUps' = followUps
        \/ /\ prompts' = Drained(followUps, FollowUpMode) /\ followUps' = Left(followUps, FollowUpMode)
           /\ steering' = steering
        \/ prompts' = <<>> /\ UNCHANGED <<steering, followUps>>
    BY <1>3 DEF Continue, Start, queues
  <2>3. CASE prompts' = <<>> /\ UNCHANGED <<steering, followUps>>
    BY <2>1, <2>3 DEF Handles, Keeps, Says, held
  <2>4. CASE ~(prompts' = <<>> /\ UNCHANGED <<steering, followUps>>)
    <3>1. /\ {steering, followUps, pending} \subseteq Seq(Msg) /\ prompts = <<>>
          /\ SteeringMode \in Modes /\ FollowUpMode \in Modes
      BY <2>1, RunAssumption DEF TypeOK
    <3>2. \/ prompts' \o steering' = steering /\ {prompts', steering'} \subseteq Seq(Msg)
             /\ followUps' = followUps
          \/ prompts' \o followUps' = followUps /\ {prompts', followUps'} \subseteq Seq(Msg)
             /\ steering' = steering
      BY <2>2, <2>4, <3>1, Drains
    <3>3. Polls
      BY <2>1, <3>1, <3>2 DEF Polls
    <3>4. QED BY <3>3 DEF Handles
  <2>5. QED BY <2>3, <2>4
<1>4. CASE ClearAllQueues
  BY <1>4 DEF ClearAllQueues, Running, Handles, Clears
<1>5. CASE EmitPrompt
  <2>1. Tells
    BY <1>5 DEF EmitPrompt, Callers, Tells, Emit, Phases
  <2>2. QED BY <2>1 DEF Handles
<1>6. CASE PollFirst \/ EndTurn \/ PollFollowUps
  <2>1. prompts = <<>> /\ pending = <<>> /\ UNCHANGED <<transcript, via, spilled, prompts>>
    BY <1>6 DEF PollFirst, EndTurn, PollFollowUps, Phases, Opening, Ending
  <2>2. \/ /\ pending' = Drained(steering, SteeringMode) /\ steering' = Left(steering, SteeringMode)
           /\ followUps' = followUps
        \/ /\ pending' = Drained(followUps, FollowUpMode) /\ followUps' = Left(followUps, FollowUpMode)
           /\ steering' = steering
        \/ UNCHANGED <<pending, steering, followUps>>
    BY <1>6 DEF PollFirst, EndTurn, PollFollowUps
  <2>3. CASE UNCHANGED <<pending, steering, followUps>>
    BY <2>1, <2>3 DEF Handles, Keeps, Says, held
  <2>4. CASE ~UNCHANGED <<pending, steering, followUps>>
    <3>1. /\ {steering, followUps, prompts} \subseteq Seq(Msg) /\ pending = <<>>
          /\ SteeringMode \in Modes /\ FollowUpMode \in Modes
      BY <2>1, RunAssumption DEF TypeOK
    <3>2. \/ pending' \o steering' = steering /\ {pending', steering'} \subseteq Seq(Msg)
             /\ followUps' = followUps
          \/ pending' \o followUps' = followUps /\ {pending', followUps'} \subseteq Seq(Msg)
             /\ steering' = steering
      BY <2>2, <2>4, <3>1, Drains
    <3>3. Polls
      BY <2>1, <3>1, <3>2 DEF Polls
    <3>4. QED BY <3>3 DEF Handles
  <2>5. QED BY <2>3, <2>4
<1>7. CASE Refuse \/ Ask \/ AnswerFails \/ AnswerPlain \/ ReportFailure \/ ReportBreaks
  <2>1. Says
    BY <1>7, ItemsAre DEF Says, Refuse, Ask, AnswerFails, AnswerPlain, Answered, ReportFailure,
       ReportBreaks, EmitAndPush, Emit, GatedTurn, Failure, Stops
  <2>2. UNCHANGED held
    BY <1>7 DEF held, Refuse, Ask, AnswerFails, AnswerPlain, Answered, ReportFailure,
       ReportBreaks, FinishRun, Callers
  <2>3. QED BY <2>1, <2>2 DEF Handles, Keeps
<1>8. ASSUME NEW n \in 1..MaxCalls, AnswerTools(n) PROVE Handles
  <2>1. Says
    <3>1. n \in 0..MaxCalls
      BY RunAssumption
    <3>2. QED BY <1>8, <3>1, ItemsAre DEF Says, AnswerTools, Answered, EmitAndPush, Emit, Stops
  <2>2. UNCHANGED held
    BY <1>8 DEF held, AnswerTools, Answered, Callers
  <2>3. QED BY <2>1, <2>2 DEF Handles, Keeps
<1>9. CASE BeginTurn
  <2>1. CASE UNCHANGED <<transcript, context, pending, spilled, faults>>
    BY <1>9, <2>1 DEF BeginTurn, Callers, Handles, Keeps, Says, held
  <2>2. CASE GatedTurn /\ spilled' = spilled \cup Range(pending) /\ pending' = <<>>
    <3>1. Says
      BY <2>2, ItemsAre DEF Says, EmitAndPush, Emit, GatedTurn, Stops
    <3>2. prompts = <<>> /\ prompts' = <<>> /\ UNCHANGED <<steering, followUps, via>>
      BY <1>9 DEF BeginTurn, Callers, Phases, Opening
    <3>3. Range(prompts) = {}
      BY <3>2 DEF Range
    <3>4. QED BY <2>2, <3>1, <3>2, <3>3 DEF Handles, Drops
  <2>3. QED BY <1>9, <2>1, <2>2 DEF BeginTurn
<1>10. CASE Inject
  <2>1. Injects
    BY <1>10 DEF Inject, Callers, Injects, EmitAndPush, Emit, Phases, Opening
  <2>2. QED BY <2>1 DEF Handles
<1>11. CASE SequentialCall \/ SequentialResult \/ ParallelResult \/ TruncatedResult
  <2>1. UNCHANGED held
    BY <1>11 DEF held, SequentialCall, SequentialResult, ParallelResult, TruncatedResult,
       InBatch, Callers
  <2>2. batch.given < batch.asked
    BY <1>11 DEF Batched, SequentialCall, SequentialResult, ParallelResult, TruncatedResult, TypeOK
  <2>3. \/ transcript' = transcript \/ Given(Refused) \/ Given(batch)
        \/ Given([batch EXCEPT !.open = {}])
    BY <1>11 DEF SequentialCall, SequentialResult, ParallelResult, TruncatedResult
  <2>4. Refused.given = batch.given /\ [batch EXCEPT !.open = {}].given = batch.given
    BY DEF Refused, TypeOK
  <2>5. Says
    BY <2>2, <2>3, <2>4, Gives DEF Says
  <2>6. QED BY <2>1, <2>5 DEF Handles, Keeps
<1>12. CASE Preflight \/ BatchEnds \/ \E i \in 1..MaxCalls : ToolEnds(i)
  BY <1>12 DEF Preflight, BatchEnds, ToolEnds, InBatch, Callers, Handles, Keeps, Says, held
<1>13. CASE Throw
  BY <1>13 DEF Throw, Callers, Handles, Drops, Says
<1> QED BY <1>1, <1>2, <1>3, <1>4, <1>5, <1>6, <1>7, <1>8, <1>9, <1>10, <1>11, <1>12, <1>13
        DEF Next, Loop
-----------------------------------------------------------------------------
(* Phases is kept by every step: messages are taken only where the last ones*)
(* taken have all been told or given up.                                    *)
LEMMA PhasesStep ==
  ASSUME TypeOK, Phases, [Next]_vars
  PROVE  Phases'
<1> USE DEF Phases, Opening
<1>0. ends \in Nat /\ failed \in BOOLEAN
  BY DEF TypeOK
<1>1. CASE UNCHANGED vars
  BY <1>1 DEF vars
<1>2. CASE \/ \E m \in Msg : Prompt(m) \/ Steer(m) \/ FollowUp(m)
           \/ Continue \/ ClearAllQueues \/ Abort
  <2>1. \/ UNCHANGED <<pc, prompts, pending, failed, ends>>
        \/ /\ pc = "idle" /\ pc' = "begin" /\ pending' = pending
           /\ failed' = FALSE /\ ends' = 0
    BY <1>2 DEF Prompt, Continue, Start, Steer, FollowUp, ClearAllQueues, Abort, Running
  <2>2. QED BY <2>1
<1>3. CASE BeforeTurn \/ EmitPrompt \/ Refuse \/ PollFirst \/ BeginTurn \/ Inject \/ Ask
  <2>1. failed' = failed /\ ends' = ends
    BY <1>3 DEF BeforeTurn, EmitPrompt, Refuse, PollFirst, BeginTurn, Inject, Ask
  <2>2. CASE BeforeTurn \/ Refuse
    BY <2>1, <2>2 DEF BeforeTurn, Refuse
  <2>3. CASE EmitPrompt \/ PollFirst
    BY <2>1, <2>3 DEF EmitPrompt, PollFirst
  <2>4. CASE BeginTurn
    <3>1. pc = "turn" /\ prompts' = prompts
      BY <2>4 DEF BeginTurn
    <3>2. \/ pc' = "inject" /\ pending' = pending
          \/ pc' = "closing" /\ pending' = <<>>
      BY <2>4 DEF BeginTurn, GatedTurn
    <3>3. QED BY <2>1, <3>1, <3>2
  <2>5. CASE Inject
    <3>1. pc = "inject" /\ pc' = pc /\ prompts' = prompts
      BY <2>5 DEF Inject
    <3>2. QED BY <2>1, <3>1
  <2>6. CASE Ask
    <3>1. pc = "inject" /\ pending = <<>> /\ pending' = pending /\ prompts' = prompts
      BY <2>6 DEF Ask
    <3>2. pc' = "stream" \/ pc' = "closing"
      BY <2>6 DEF Ask, GatedTurn
    <3>3. QED BY <2>1, <3>1, <3>2
  <2>7. QED BY <1>3, <2>2, <2>3, <2>4, <2>5, <2>6
<1>4. CASE AnswerFails \/ AnswerPlain \/ \E n \in 1..MaxCalls : AnswerTools(n)
  <2>1. UNCHANGED <<prompts, pending, ends, failed>> /\ pc = "stream"
    BY <1>4 DEF AnswerFails, AnswerPlain, AnswerTools, Answered
  <2>2. pc' \in {"closing", "ended turn", "sequential", "preflight", "truncated"}
    BY <1>4 DEF AnswerFails, AnswerPlain, AnswerTools
  <2>3. QED BY <2>1, <2>2
<1>5. CASE \/ SequentialCall \/ SequentialResult \/ Preflight \/ ParallelResult
           \/ TruncatedResult \/ \E i \in 1..MaxCalls : ToolEnds(i)
  <2>1. UNCHANGED <<prompts, pending, ends, failed>> /\ {pc, pc'} \subseteq Batching
    BY <1>5 DEF SequentialCall, SequentialResult, Preflight, ParallelResult, TruncatedResult,
                ToolEnds, InBatch, AfterResult, Batching
  <2>2. QED BY <2>1 DEF Batching
<1>6. CASE BatchEnds
  <2>1. UNCHANGED <<prompts, pending, ends, failed>> /\ pc = "batched" /\ pc' = "ended turn"
    BY <1>6 DEF BatchEnds
  <2>2. QED BY <2>1
<1>7. CASE EndTurn \/ PollFollowUps
  <2>1. UNCHANGED <<prompts, failed>> /\ pc \in {"ended turn", "follow-ups"}
    BY <1>7 DEF EndTurn, PollFollowUps, Ending
  <2>2. \/ pc' = "turn" /\ ends' = ends
        \/ pc' = "follow-ups" /\ pending' = <<>> /\ ends' = ends
        \/ pc' = "end" /\ ends' = ends + 1 /\ pending' = pending
    BY <1>7 DEF EndTurn, PollFollowUps, AgentEnd
  <2>3. ends = 0 /\ ~failed /\ ~failed' /\ prompts = <<>> /\ prompts' = <<>> /\ pending = <<>>
    BY <2>1
  <2>4. CASE pc' = "end" /\ ends' = ends + 1 /\ pending' = pending
    <3>1. ends' = 1
      BY <2>3, <2>4
    <3>2. QED BY <2>3, <2>4, <3>1
  <2>5. QED BY <2>2, <2>3, <2>4
<1>8. CASE StopAfterTurn \/ CloseTurn \/ ReportFailure
  <2>1. /\ pc \in {"ended turn", "closing", "failing"} /\ pc' = "end" /\ ends' = ends + 1
        /\ UNCHANGED <<prompts, pending, failed>>
    BY <1>8 DEF StopAfterTurn, CloseTurn, ReportFailure, Ending, AgentEnd
  <2>2. ends <= 1 /\ (~failed => ends = 0)
    <3>1. CASE pc = "failing"
      BY <3>1
    <3>2. CASE pc \in {"ended turn", "closing"}
      <4>1. ~failed /\ ends = 0
        BY <3>2
      <4>2. QED BY <4>1
    <3>3. QED BY <2>1, <3>1, <3>2
  <2>3. 1 <= ends' /\ (ends = 0 => ends' = 1)
    <3>1. ends' = ends + 1 /\ ends \in Nat
      BY <1>0, <2>1
    <3>2. QED BY ONLY <3>1
  <2>4. prompts' = <<>> /\ pending' = <<>>
    BY <2>1
  <2>5. ~failed' => ends' = 1
    BY <2>1, <2>2, <2>3
  <2>6. QED BY <2>1, <2>3, <2>4, <2>5
<1>9. CASE Finish \/ ReportBreaks
  <2>1. /\ pc \in {"end", "failing"} /\ pc' = "idle" /\ failed' = FALSE /\ ends' = 0
        /\ UNCHANGED <<prompts, pending>>
    BY <1>9 DEF Finish, FinishRun, ReportBreaks
  <2>2. QED BY <2>1
<1>10. CASE Throw
  <2>1. /\ ~failed /\ pc' = "failing" /\ failed' = TRUE /\ ends' = ends
        /\ prompts' = <<>> /\ pending' = <<>>
    BY <1>10 DEF Throw
  <2>2. QED BY <2>1
<1> QED BY <1>1, <1>2, <1>3, <1>4, <1>5, <1>6, <1>7, <1>8, <1>9, <1>10 DEF Next, Loop

(* A batch is a record of this type.                                        *)
BatchOf == [asked : 0..MaxCalls, next : 0..MaxCalls, open : SUBSET (1..MaxCalls),
            given : 0..MaxCalls, refused : BOOLEAN]
Sound(b) == /\ b \in BatchOf /\ b.given <= b.next /\ b.next <= b.asked
            /\ b.open \subseteq 1..b.next

(* One more call is looked at, or one more result given.                    *)
LEMMA Advances ==
  ASSUME NEW b, Sound(b)
  PROVE  /\ b.next < b.asked =>
              /\ Sound([b EXCEPT !.next = @ + 1, !.refused = TRUE])
              /\ Sound([b EXCEPT !.next = @ + 1, !.open = @ \cup {b.next + 1}])
         /\ b.given < b.next => Sound([b EXCEPT !.given = @ + 1])
         /\ \A S \in SUBSET b.open : Sound([b EXCEPT !.open = S])
<1> USE RunAssumption DEF Sound, BatchOf
<1>1. /\ b.next \in Nat /\ b.asked \in Nat /\ b.given \in Nat /\ MaxCalls \in Nat
      /\ b.asked <= MaxCalls
  OBVIOUS
<1>2. ASSUME b.next < b.asked
      PROVE  /\ Sound([b EXCEPT !.next = @ + 1, !.refused = TRUE])
             /\ Sound([b EXCEPT !.next = @ + 1, !.open = @ \cup {b.next + 1}])
  <2>1. /\ b.next + 1 \in 1..MaxCalls /\ b.given <= b.next + 1 /\ b.next + 1 <= b.asked
        /\ 1..b.next \subseteq 1..(b.next + 1) /\ b.next + 1 \in 1..(b.next + 1)
        /\ b.next + 1 \in 0..MaxCalls
    BY <1>1, <1>2
  <2>2. /\ b.open \cup {b.next + 1} \in SUBSET (1..MaxCalls)
        /\ b.open \cup {b.next + 1} \subseteq 1..(b.next + 1)
    BY <2>1
  <2>3. QED BY <2>1, <2>2
<1>3. b.given < b.next => Sound([b EXCEPT !.given = @ + 1])
  BY <1>1
<1> QED BY <1>2, <1>3

(* Batched is kept by every step: each mode of executing a batch looks at a *)
(* call before it gives its result, and ends when all results are given or  *)
(* the run is aborted.                                                      *)
LEMMA BatchedStep ==
  ASSUME TypeOK, Batched, [Next]_vars
  PROVE  Batched' /\ Sound(batch')
<1>1. Sound(batch) /\ batch.given \in Nat /\ batch.next \in Nat /\ batch.asked \in Nat
  BY DEF TypeOK, Sound, BatchOf
<1>2. CASE batch' = batch /\ pc' = pc /\ (aborted => aborted')
  BY <1>1, <1>2 DEF Batched
<1>3. CASE batch' = batch /\ pc' \notin Batching
  BY <1>1, <1>3 DEF Batched, Batching
<1>4. CASE \/ UNCHANGED vars
           \/ \E m \in Msg : Prompt(m) \/ Steer(m) \/ FollowUp(m)
           \/ Continue \/ ClearAllQueues \/ Abort
  <2>1. \/ batch' = batch /\ pc' = pc /\ (aborted => aborted')
        \/ batch' = batch /\ pc' = "begin"
    BY <1>4 DEF vars, Prompt, Continue, Start, Steer, FollowUp, ClearAllQueues, Abort, Running
  <2>2. QED BY <1>2, <1>3, <2>1 DEF Batching
<1>5. CASE \/ BeforeTurn \/ EmitPrompt \/ Refuse \/ PollFirst \/ BeginTurn \/ Inject \/ Ask
           \/ AnswerFails \/ AnswerPlain
  <2>1. batch' = batch
    BY <1>5 DEF BeforeTurn, EmitPrompt, Refuse, PollFirst, BeginTurn, Inject, Ask,
       AnswerFails, AnswerPlain, Tools
  <2>2. CASE EmitPrompt \/ Inject
    BY <1>3, <2>1, <2>2 DEF EmitPrompt, Inject, Batching
  <2>3. CASE BeforeTurn \/ Refuse \/ PollFirst \/ BeginTurn \/ Ask \/ AnswerFails \/ AnswerPlain
    <3>1. pc' \in {"prompting", "refusing", "closing", "inject", "stream", "ended turn"}
      BY <2>3 DEF BeforeTurn, Refuse, PollFirst, BeginTurn, Ask, GatedTurn, AnswerFails, AnswerPlain
    <3>2. QED BY <1>3, <2>1, <3>1 DEF Batching
  <2>4. QED BY <1>5, <2>2, <2>3
<1>6. CASE EndTurn \/ StopAfterTurn \/ PollFollowUps \/ CloseTurn
           \/ Finish \/ ReportFailure \/ ReportBreaks
  <2>1. batch' = batch /\ pc' \in {"turn", "follow-ups", "end", "idle"}
    BY <1>6 DEF EndTurn, StopAfterTurn, PollFollowUps, CloseTurn, Finish, FinishRun,
       ReportFailure, ReportBreaks, AgentEnd, Ending, Tools
  <2>2. QED BY <1>3, <2>1 DEF Batching
<1>7. \A n \in 0..MaxCalls : Sound(Batch(n)) /\ Batch(n).given = 0 /\ Batch(n).next = 0
                             /\ Batch(n).asked = n /\ Batch(n).open = {}
  BY RunAssumption DEF Batch, Sound, BatchOf
<1>8. ASSUME NEW n \in 1..MaxCalls, AnswerTools(n) PROVE Batched' /\ Sound(batch')
  <2>1. /\ batch' = Batch(n) /\ pc' \in {"sequential", "preflight", "truncated"}
        /\ n \in 0..MaxCalls /\ n > 0
    BY <1>8, RunAssumption DEF AnswerTools
  <2>2. QED BY <1>7, <2>1 DEF Batched
<1>9. CASE BatchEnds \/ Throw
  <2>1. batch' = Batch(0) /\ pc' \in {"ended turn", "failing"}
    BY <1>9 DEF BatchEnds, Throw, NoBatch
  <2>2. 0 \in 0..MaxCalls
    BY RunAssumption
  <2>3. QED BY <1>7, <2>1, <2>2 DEF Batched, Batching
<1>10. CASE SequentialCall
  <2>1. pc = "sequential" /\ batch.open = {} /\ aborted' = aborted
        /\ batch.given < batch.asked /\ batch.next = batch.given
    BY <1>10 DEF SequentialCall, InBatch, Callers, Batched
  <2>2. CASE batch' = Opened /\ pc' = pc
    <3>1. Sound(Opened)
      BY <1>1, <2>1, Advances DEF Opened
    <3>2. Opened.given = batch.given /\ Opened.asked = batch.asked /\ Opened.next = batch.next + 1
          /\ Opened.open = batch.open \cup {batch.next + 1}
      BY DEF Opened, TypeOK
    <3>3. QED BY <1>1, <2>1, <2>2, <3>1, <3>2 DEF Batched
  <2>3. CASE Given(Refused) /\ AfterResult("sequential")
    <3>1. Sound(Refused) /\ Refused.next = batch.next + 1 /\ Refused.given = batch.given
          /\ Refused.asked = batch.asked /\ Refused.open = batch.open
      BY <1>1, <2>1, Advances DEF Refused, TypeOK
    <3>2. batch' = [Refused EXCEPT !.given = @ + 1]
      BY <2>3 DEF Given
    <3>3. Sound(batch')
      <4>1. Refused.given < Refused.next
        BY <1>1, <2>1, <3>1
      <4>2. QED BY <3>1, <3>2, <4>1, Advances
    <3>4. batch'.given = batch.given + 1 /\ batch'.next = batch.next + 1
          /\ batch'.asked = batch.asked /\ batch'.open = {}
      BY <2>1, <3>1, <3>2 DEF Sound, BatchOf
    <3>5. pc' = IF aborted \/ batch'.given = batch.asked THEN "batched" ELSE "sequential"
      BY <2>3 DEF AfterResult
    <3>6. QED BY <1>1, <2>1, <3>3, <3>4, <3>5 DEF Batched
  <2>4. QED BY <1>10, <2>2, <2>3 DEF SequentialCall
<1>11. CASE SequentialResult
  <2> DEFINE b == [batch EXCEPT !.open = {}]
  <2>1. pc = "sequential" /\ batch.open # {} /\ aborted' = aborted
        /\ batch.given < batch.asked /\ batch.next = batch.given + 1
    BY <1>11 DEF SequentialResult, InBatch, Callers, Batched
  <2>2. /\ Sound(b) /\ b.given = batch.given /\ b.next = batch.next
        /\ b.asked = batch.asked /\ b.open = {}
    BY <1>1, Advances DEF TypeOK
  <2>3. batch' = [b EXCEPT !.given = @ + 1]
    BY <1>11 DEF SequentialResult, Given
  <2> HIDE DEF b
  <2>4. Sound(batch')
    <3>1. b.given < b.next
      BY <1>1, <2>1, <2>2
    <3>2. QED BY <2>2, <2>3, <3>1, Advances
  <2>5. batch'.given = batch.given + 1 /\ batch'.next = batch.next
        /\ batch'.asked = batch.asked /\ batch'.open = {}
    BY <2>2, <2>3 DEF Sound, BatchOf
  <2>6. pc' = IF aborted \/ batch'.given = batch.asked THEN "batched" ELSE "sequential"
    BY <1>11 DEF SequentialResult, AfterResult
  <2>7. QED
    <3>1. batch'.given = batch'.next
      BY <1>1, <2>1, <2>5
    <3>2. batch'.given <= batch'.asked
      BY <2>4, <3>1 DEF Sound
    <3>3. batch'.given \in Nat /\ batch'.asked \in Nat
      BY <1>1, <2>5
    <3>4. QED BY <2>1, <2>4, <2>5, <2>6, <3>1, <3>2, <3>3 DEF Batched
<1>12. CASE Preflight
  <2>1. pc = "preflight" /\ aborted' = aborted /\ batch.given = 0 /\ batch.next < batch.asked
    BY <1>12 DEF Preflight, InBatch, Callers, Batched
  <2>2. batch' \in {Refused, Opened}
    BY <1>12 DEF Preflight
  <2>3. Sound(batch')
    <3>1. Sound(Refused) /\ Sound(Opened)
      BY <1>1, <2>1, Advances DEF Refused, Opened
    <3>2. QED BY <2>2, <3>1
  <2>4. batch'.given = 0 /\ batch'.next = batch.next + 1 /\ batch'.asked = batch.asked
    <3>1. \A b \in {Refused, Opened} : /\ b.given = batch.given /\ b.asked = batch.asked
                                       /\ b.next = batch.next + 1
      BY DEF Refused, Opened, TypeOK
    <3>2. QED BY <2>1, <2>2, <3>1
  <2>5. pc' = IF aborted \/ batch'.next = batch.asked THEN "parallel" ELSE "preflight"
    BY <1>12 DEF Preflight
  <2>6. QED BY <1>1, <2>1, <2>3, <2>4, <2>5 DEF Batched
<1>13. ASSUME NEW i \in 1..MaxCalls, ToolEnds(i) PROVE Batched' /\ Sound(batch')
  <2>1. pc = "parallel" /\ pc' = pc /\ aborted' = aborted
        /\ batch' = [batch EXCEPT !.open = batch.open \ {i}]
    BY <1>13 DEF ToolEnds, InBatch, Callers
  <2>2. Sound(batch') /\ batch'.given = batch.given /\ batch'.next = batch.next
        /\ batch'.asked = batch.asked
    BY <1>1, <2>1, Advances DEF TypeOK
  <2>3. QED BY <2>1, <2>2 DEF Batched
<1>14. CASE ParallelResult
  <2>1. pc = "parallel" /\ aborted' = aborted
        /\ batch.given < batch.next /\ (batch.next = batch.asked \/ aborted)
    BY <1>14 DEF ParallelResult, InBatch, Callers, Batched
  <2>2. batch' = [batch EXCEPT !.given = @ + 1]
    BY <1>14 DEF ParallelResult, Given
  <2>3. Sound(batch') /\ batch'.given = batch.given + 1 /\ batch'.next = batch.next
        /\ batch'.asked = batch.asked
    BY <1>1, <2>1, <2>2, Advances DEF TypeOK
  <2>4. pc' = IF batch'.given = batch.next THEN "batched" ELSE "parallel"
    BY <1>14 DEF ParallelResult
  <2>5. QED BY <1>1, <2>1, <2>3, <2>4 DEF Batched
<1>15. CASE TruncatedResult
  <2>1. pc = "truncated" /\ aborted' = aborted /\ batch.open = {}
        /\ batch.given < batch.asked /\ batch.next = batch.given
    BY <1>15 DEF TruncatedResult, InBatch, Callers, Batched
  <2>2. Sound(Refused) /\ Refused.next = batch.next + 1 /\ Refused.given = batch.given
        /\ Refused.asked = batch.asked /\ Refused.open = batch.open
    BY <1>1, <2>1, Advances DEF Refused, TypeOK
  <2>3. batch' = [Refused EXCEPT !.given = @ + 1]
    BY <1>15 DEF TruncatedResult, Given
  <2>4. Sound(batch')
    <3>1. Refused.given < Refused.next
      BY <1>1, <2>1, <2>2
    <3>2. QED BY <2>2, <2>3, <3>1, Advances
  <2>5. batch'.given = batch.given + 1 /\ batch'.next = batch.next + 1
        /\ batch'.asked = batch.asked /\ batch'.open = {}
    BY <2>1, <2>2, <2>3 DEF Sound, BatchOf
  <2>6. pc' = IF batch'.given = batch.asked THEN "batched" ELSE "truncated"
    BY <1>15 DEF TruncatedResult
  <2>7. QED BY <1>1, <2>1, <2>4, <2>5, <2>6 DEF Batched
<1> QED BY <1>4, <1>5, <1>6, <1>8, <1>9, <1>10, <1>11, <1>12, <1>13, <1>14, <1>15 DEF Next, Loop
-----------------------------------------------------------------------------
(* The last answer of a transcript is where nothing but results follows.    *)
LEMMA LastIs ==
  ASSUME NEW t \in Seq(Items), NEW a \in 1..Len(t), t[a].kind = "assistant",
         \A q \in 1..Len(t) : q > a => t[q].kind # "assistant"
  PROVE  (CHOOSE p \in DOMAIN t : /\ t[p].kind = "assistant"
                                  /\ \A q \in DOMAIN t : q > p => t[q].kind # "assistant") = a
<1> DEFINE P(p) == /\ t[p].kind = "assistant"
                   /\ \A q \in DOMAIN t : q > p => t[q].kind # "assistant"
<1>1. Len(t) \in Nat /\ DOMAIN t = 1..Len(t)
  BY LenProperties
<1>2. a \in DOMAIN t /\ P(a)
  BY <1>1
<1>3. \A p \in DOMAIN t : P(p) => p = a
  <2>1. SUFFICES ASSUME NEW p \in 1..Len(t), P(p), p # a PROVE FALSE
    BY <1>1
  <2>2. p > a \/ a > p
    BY <2>1
  <2>3. QED BY <1>1, <2>1, <2>2
<1> HIDE DEF P
<1>4. (CHOOSE p \in DOMAIN t : P(p)) = a
  BY <1>2, <1>3
<1>5. QED BY <1>4 DEF P

(* The answer of a batch under way, and the results given so far, are the   *)
(* end of the transcript.                                                   *)
Asked == Len(transcript) - batch.given
Followed ==
  /\ pc \in Batching => /\ Asked \in DOMAIN transcript
                        /\ Executable(transcript[Asked]) /\ transcript[Asked].calls = batch.asked
                        /\ \A i \in 1..batch.given : transcript[Asked + i] = Result(i)
  /\ ResultsFollow

(* LastAnswer, which BatchEnds and Throw name, is the answer of the batch.  *)
LEMMA LastAnswerIs ==
  ASSUME TypeOK, Followed, pc \in Batching
  PROVE  LastAnswer = Asked /\ Asked \in 1..Len(transcript)
<1>1. /\ Len(transcript) \in Nat /\ DOMAIN transcript = 1..Len(transcript)
      /\ transcript \in Seq(Items) /\ batch.given \in Nat
  BY LenProperties DEF TypeOK
<1>2. /\ Asked \in 1..Len(transcript) /\ transcript[Asked].kind = "assistant"
      /\ \A i \in 1..batch.given : transcript[Asked + i].kind = "result"
  <2>1. /\ Asked \in DOMAIN transcript /\ Executable(transcript[Asked])
        /\ \A i \in 1..batch.given : transcript[Asked + i] = Result(i)
    BY DEF Followed
  <2>2. \A i \in 1..batch.given : Result(i).kind = "result"
    BY DEF Result
  <2>3. QED BY <1>1, <2>1, <2>2 DEF Executable
<1>3. ASSUME NEW q \in 1..Len(transcript), q > Asked
      PROVE  transcript[q].kind # "assistant"
  <2>1. q - Asked \in 1..batch.given /\ Asked + (q - Asked) = q
    BY <1>1, <1>2, <1>3 DEF Asked
  <2>2. QED BY <1>2, <2>1
<1>4. LastAnswer = Asked
  BY <1>1, <1>2, <1>3, LastIs DEF LastAnswer
<1> QED BY <1>2, <1>4

(* Submitted messages stay messages.                                        *)
LEMMA MessagesTyped ==
  ASSUME TypeOK, Handles
  PROVE  /\ transcript' \in Seq(Items)
         /\ prompts' \in Seq(Msg) /\ pending' \in Seq(Msg)
         /\ steering' \in Seq(Msg) /\ followUps' \in Seq(Msg)
         /\ via' \in [Msg -> {"none", "prompt", "steer", "follow-up", "cleared"}]
         /\ spilled' \subseteq Msg
<1> DEFINE Ok == /\ transcript' \in Seq(Items)
                 /\ prompts' \in Seq(Msg) /\ pending' \in Seq(Msg)
                 /\ steering' \in Seq(Msg) /\ followUps' \in Seq(Msg)
                 /\ via' \in [Msg -> {"none", "prompt", "steer", "follow-up", "cleared"}]
                 /\ spilled' \subseteq Msg
<1>1. /\ transcript \in Seq(Items)
      /\ prompts \in Seq(Msg) /\ pending \in Seq(Msg)
      /\ steering \in Seq(Msg) /\ followUps \in Seq(Msg)
      /\ via \in [Msg -> {"none", "prompt", "steer", "follow-up", "cleared"}]
      /\ spilled \subseteq Msg
  BY DEF TypeOK
<1>2. Says => transcript' \in Seq(Items)
  <2>1. \A x \in Items : Append(transcript, x) \in Seq(Items)
    BY <1>1, AppendProperties
  <2>2. QED BY <1>1, <2>1 DEF Says
<1>3. CASE Keeps
  BY <1>1, <1>2, <1>3 DEF Keeps, held
<1>4. CASE Tells
  <2>1. Head(prompts) \in Msg /\ Tail(prompts) \in Seq(Msg)
    BY <1>1, <1>4, HeadTailProperties DEF Tells
  <2>2. transcript' \in Seq(Items)
    BY <1>1, <1>4, <2>1, ItemsAre DEF Tells
  <2>3. QED BY <1>1, <1>4, <2>1, <2>2 DEF Tells
<1>5. CASE Injects
  <2>1. Head(pending) \in Msg /\ Tail(pending) \in Seq(Msg)
    BY <1>1, <1>5, HeadTailProperties DEF Injects
  <2>2. transcript' \in Seq(Items)
    BY <1>1, <1>5, <2>1, ItemsAre DEF Injects
  <2>3. QED BY <1>1, <1>5, <2>1, <2>2 DEF Injects
<1>6. CASE Polls
  BY <1>1, <1>6 DEF Polls
<1>7. CASE Drops
  <2>1. Range(prompts) \subseteq Msg /\ Range(pending) \subseteq Msg
    BY <1>1 DEF Range
  <2>2. <<>> \in Seq(Msg)
    OBVIOUS
  <2>3. QED BY <1>1, <1>2, <1>7, <2>1, <2>2 DEF Drops
<1>8. CASE Clears
  BY <1>1, <1>8 DEF Clears
<1>9. ASSUME NEW m \in Msg, Submits(m) PROVE Ok
  <2>1. <<m>> \in Seq(Msg) /\ Append(steering, m) \in Seq(Msg) /\ Append(followUps, m) \in Seq(Msg)
    BY <1>1
  <2>2. via' \in [Msg -> {"none", "prompt", "steer", "follow-up", "cleared"}]
    BY <1>1, <1>9 DEF Submits, Submit
  <2>3. UNCHANGED <<transcript, pending, spilled>>
    BY <1>9 DEF Submits
  <2>4. prompts' \in {prompts, <<m>>} /\ steering' \in {steering, Append(steering, m)}
        /\ followUps' \in {followUps, Append(followUps, m)}
    BY <1>9 DEF Submits
  <2>5. QED BY <1>1, <2>1, <2>2, <2>3, <2>4
<1> QED BY <1>3, <1>4, <1>5, <1>6, <1>7, <1>8, <1>9 DEF Handles

(* The place of the loop, and its flags and counters.                       *)
Flags == /\ pc \in Points /\ {more, skip, aborted, failed} \subseteq BOOLEAN
         /\ ends \in 0..2 /\ batches \in 0..MaxBatches /\ faults \in 0..MaxFaults

(* The place of the loop, its flags and the bounded counters keep their     *)
(* types; a run ends at most twice, the second time as a failure.           *)
LEMMA FlagsStep ==
  ASSUME TypeOK, Phases, [Next]_vars
  PROVE  Flags'
<1>0. /\ pc \in Points /\ more \in BOOLEAN /\ skip \in BOOLEAN /\ aborted \in BOOLEAN
      /\ failed \in BOOLEAN /\ ends \in 0..2 /\ batches \in 0..MaxBatches
      /\ faults \in 0..MaxFaults /\ MaxBatches \in Nat /\ MaxFaults \in Nat
  BY RunAssumption DEF TypeOK
<1>1. /\ batches' \in 0..MaxBatches
  <2>1. batches' = batches \/ (batches < MaxBatches /\ batches' = batches + 1)
    <3>1. CASE UNCHANGED vars
      BY <3>1 DEF vars, counts
    <3>2. CASE \/ \E m \in Msg : Prompt(m) \/ Steer(m) \/ FollowUp(m)
               \/ Continue \/ ClearAllQueues \/ Abort
      BY <3>2 DEF Prompt, Steer, FollowUp, Continue, Start, ClearAllQueues, Abort, Running, counts
    <3>3. CASE \/ BeforeTurn \/ EmitPrompt \/ Refuse \/ PollFirst \/ BeginTurn \/ Inject \/ Ask
               \/ AnswerFails \/ AnswerPlain
      BY <3>3 DEF BeforeTurn, EmitPrompt, Refuse, PollFirst, BeginTurn, Inject, Ask, AnswerFails,
         AnswerPlain
    <3>4. CASE \E n \in 1..MaxCalls : AnswerTools(n)
      BY <3>4 DEF AnswerTools
    <3>5. CASE \/ SequentialCall \/ SequentialResult \/ Preflight
               \/ ParallelResult \/ TruncatedResult \/ BatchEnds
      BY <3>5 DEF SequentialCall, SequentialResult, Preflight, ParallelResult, TruncatedResult,
         BatchEnds, InBatch
    <3>6. CASE \E i \in 1..MaxCalls : ToolEnds(i)
      BY <3>6 DEF ToolEnds, InBatch
    <3>7. CASE \/ EndTurn \/ StopAfterTurn \/ PollFollowUps \/ CloseTurn
               \/ Finish \/ ReportFailure \/ ReportBreaks
      BY <3>7 DEF EndTurn, StopAfterTurn, PollFollowUps, CloseTurn, Finish, FinishRun,
                  ReportFailure, ReportBreaks, Ending
    <3>8. CASE Throw
      BY <3>8 DEF Throw
    <3>9. QED BY <3>1, <3>2, <3>3, <3>4, <3>5, <3>6, <3>7, <3>8 DEF Next, Loop
  <2>2. QED BY ONLY <1>0, <2>1
<1>2. faults' \in 0..MaxFaults
  <2>1. faults' = faults \/ (faults < MaxFaults /\ faults' = faults + 1)
    <3>1. CASE UNCHANGED vars
      BY <3>1 DEF vars, counts
    <3>2. CASE \/ \E m \in Msg : Prompt(m) \/ Steer(m) \/ FollowUp(m)
               \/ Continue \/ ClearAllQueues \/ Abort
      BY <3>2 DEF Prompt, Steer, FollowUp, Continue, Start, ClearAllQueues, Abort, Running, counts
    <3>3. CASE \/ BeforeTurn \/ EmitPrompt \/ Refuse \/ PollFirst \/ BeginTurn \/ Inject \/ Ask
               \/ AnswerFails \/ AnswerPlain
      BY <3>3 DEF BeforeTurn, EmitPrompt, Refuse, PollFirst, BeginTurn, Inject, Ask, AnswerFails,
         AnswerPlain,
         Answered, GatedTurn, Fault
    <3>4. CASE \E n \in 1..MaxCalls : AnswerTools(n)
      BY <3>4 DEF AnswerTools, Answered
    <3>5. CASE \/ SequentialCall \/ SequentialResult \/ Preflight
               \/ ParallelResult \/ TruncatedResult \/ BatchEnds
      BY <3>5 DEF SequentialCall, SequentialResult, Preflight, ParallelResult, TruncatedResult,
         BatchEnds, InBatch
    <3>6. CASE \E i \in 1..MaxCalls : ToolEnds(i)
      BY <3>6 DEF ToolEnds, InBatch
    <3>7. CASE \/ EndTurn \/ StopAfterTurn \/ PollFollowUps \/ CloseTurn
               \/ Finish \/ ReportFailure \/ ReportBreaks
      BY <3>7 DEF EndTurn, StopAfterTurn, PollFollowUps, CloseTurn, Finish, FinishRun,
                  ReportFailure, ReportBreaks, Ending
    <3>8. CASE Throw
      BY <3>8 DEF Throw, Fault
    <3>9. QED BY <3>1, <3>2, <3>3, <3>4, <3>5, <3>6, <3>7, <3>8 DEF Next, Loop
  <2>2. QED BY ONLY <1>0, <2>1
<1>3. /\ pc' \in Points /\ more' \in BOOLEAN /\ skip' \in BOOLEAN /\ aborted' \in BOOLEAN
      /\ failed' \in BOOLEAN /\ (ends' \in {ends, 0} \/ (ends <= 1 /\ ends' = ends + 1))
  <2> DEFINE Goal == /\ pc' \in Points /\ more' \in BOOLEAN /\ skip' \in BOOLEAN /\ aborted' \in BOOLEAN
                     /\ failed' \in BOOLEAN /\ (ends' \in {ends, 0} \/ (ends <= 1 /\ ends' = ends + 1))
  <2>1. CASE UNCHANGED vars
    BY <1>0, <2>1 DEF vars
  <2>2. ASSUME NEW m \in Msg, Prompt(m) \/ Steer(m) \/ FollowUp(m) PROVE Goal
    BY <1>0, <2>2 DEF Prompt, Steer, FollowUp, Start, Running, Points
  <2>3. CASE Continue \/ ClearAllQueues \/ Abort
    BY <1>0, <2>3 DEF Continue, Start, ClearAllQueues, Abort, Running, Points
  <2>4. CASE BeforeTurn \/ EmitPrompt \/ Refuse \/ PollFirst
    BY <1>0, <2>4 DEF BeforeTurn, EmitPrompt, Refuse, PollFirst, Callers, Tools, Points
  <2>5. CASE BeginTurn \/ Inject \/ Ask
    BY <1>0, <2>5 DEF BeginTurn, Inject, Ask, GatedTurn, Callers, Tools, Points
  <2>6. CASE AnswerFails \/ AnswerPlain
    BY <1>0, <2>6 DEF AnswerFails, AnswerPlain, Answered, Callers, Points
  <2>7. ASSUME NEW n \in 1..MaxCalls, AnswerTools(n) PROVE Goal
    <3>1. pc' \in {"sequential", "preflight", "truncated"} /\ more' = FALSE
          /\ UNCHANGED <<skip, aborted, failed, ends>>
      BY <2>7 DEF AnswerTools, Answered, Callers
    <3>2. QED BY <1>0, <3>1 DEF Points, Batching
  <2>8. CASE \/ SequentialCall \/ SequentialResult \/ Preflight
             \/ ParallelResult \/ TruncatedResult
    <3>1. UNCHANGED <<more, skip, aborted, failed, ends>>
      BY <2>8 DEF SequentialCall, SequentialResult, Preflight, ParallelResult, TruncatedResult,
         InBatch, Callers
    <3>2. pc' \in Batching
      BY <2>8 DEF SequentialCall, SequentialResult, Preflight, ParallelResult, TruncatedResult,
         AfterResult, Batching
    <3>3. QED BY <1>0, <3>1, <3>2 DEF Points
  <2>9. ASSUME NEW i \in 1..MaxCalls, ToolEnds(i) PROVE Goal
    BY <1>0, <2>9 DEF ToolEnds, InBatch, Callers
  <2>10. CASE BatchEnds
    <3>1. UNCHANGED <<skip, aborted, failed, ends>> /\ pc' = "ended turn"
      BY <2>10 DEF BatchEnds, Callers
    <3>2. more' \in BOOLEAN
      BY <2>10 DEF BatchEnds
    <3>3. QED BY <1>0, <3>1, <3>2 DEF Points
  <2>11. CASE EndTurn \/ PollFollowUps
    <3>1. UNCHANGED <<more, skip, aborted, failed>> /\ pc' \in {"turn", "follow-ups", "end"}
      BY <2>11 DEF EndTurn, PollFollowUps, Ending, Tools, AgentEnd
    <3>2. ends = 0
      BY <2>11 DEF EndTurn, PollFollowUps, Phases
    <3>3. ends' = ends \/ ends' = ends + 1
      BY <2>11 DEF EndTurn, PollFollowUps, AgentEnd
    <3>4. ends' \in {ends, 0} \/ (ends <= 1 /\ ends' = ends + 1)
      BY <3>2, <3>3
    <3>5. pc' \in Points
      BY <3>1 DEF Points
    <3>6. QED BY <1>0, <3>1, <3>4, <3>5
  <2>12. CASE StopAfterTurn \/ CloseTurn \/ ReportFailure
    <3>1. UNCHANGED <<more, skip, aborted, failed>> /\ pc' = "end" /\ ends' = ends + 1
      BY <2>12 DEF StopAfterTurn, CloseTurn, ReportFailure, Ending, Tools, AgentEnd, Callers
    <3>2. ends <= 1
      <4>1. CASE StopAfterTurn \/ CloseTurn
        <5>1. ends = 0
          BY <4>1 DEF StopAfterTurn, CloseTurn, Phases
        <5>2. QED BY <5>1
      <4>2. CASE ReportFailure
        BY <4>2 DEF ReportFailure, Phases
      <4>3. QED BY <2>12, <4>1, <4>2
    <3>3. QED BY <1>0, <3>1, <3>2 DEF Points
  <2>13. CASE Finish \/ ReportBreaks
    BY <1>0, <2>13 DEF Finish, FinishRun, ReportBreaks, Points
  <2>14. CASE Throw
    BY <1>0, <2>14 DEF Throw, Points, Callers
  <2>15. QED BY <2>1, <2>2, <2>3, <2>4, <2>5, <2>6, <2>7, <2>8, <2>9, <2>10, <2>11, <2>12, <2>13, <2>14
         DEF Next, Loop
<1>4. ends' \in 0..2
  BY ONLY <1>0, <1>3
<1> QED BY <1>1, <1>2, <1>3, <1>4 DEF Flags
-----------------------------------------------------------------------------
(* The loop's context and the transcript: apart by the prompts that are not *)
(* told yet, or by the results that have not joined the context yet.        *)
Between == {"turn", "inject", "stream", "ended turn", "follow-ups", "closing"}
Agreed ==
  /\ pc \in Opening => context = transcript \o Users(prompts)
  /\ pc \in Batching => transcript = context \o Results(batch.given)
  /\ pc \in Between => context = transcript
  /\ pc = "end" /\ ~failed => context = transcript

(* The next result, after those given.                                      *)
LEMMA ResultsGrow ==
  ASSUME TypeOK, NEW n \in Nat, n < MaxCalls, NEW c \in Seq(Items)
  PROVE  /\ Append(c \o Results(n), Result(n + 1)) = c \o Results(n + 1)
         /\ Results(0) = <<>>
<1>1. Results(n) \in Seq(Items) /\ Results(n + 1) \in Seq(Items)
  <2>1. \A i \in 1..(n + 1) : Result(i) \in Items
    BY ItemsAre, RunAssumption
  <2>2. QED BY <2>1 DEF Results
<1>2. Results(n + 1) = Append(Results(n), Result(n + 1))
  <2>1. Len(Results(n)) = n
    BY DEF Results
  <2>2. Result(n + 1) \in Items
    BY ItemsAre, RunAssumption
  <2>3. /\ Append(Results(n), Result(n + 1)) \in Seq(Items)
        /\ DOMAIN Append(Results(n), Result(n + 1)) = 1..(n + 1)
        /\ \A i \in 1..n : Append(Results(n), Result(n + 1))[i] = Results(n)[i]
        /\ Append(Results(n), Result(n + 1))[n + 1] = Result(n + 1)
        /\ Len(Append(Results(n), Result(n + 1))) = n + 1
    BY <1>1, <2>1, <2>2, Appended
  <2>4. Len(Results(n + 1)) = n + 1
    BY DEF Results
  <2>5. \A i \in 1..(n + 1) : Results(n + 1)[i] = Append(Results(n), Result(n + 1))[i]
    <3>1. \A i \in 1..n : Results(n)[i] = Result(i)
      BY DEF Results
    <3>2. \A i \in 1..(n + 1) : Results(n + 1)[i] = Result(i)
      BY DEF Results
    <3>3. \A i \in 1..(n + 1) : i \in 1..n \/ i = n + 1
      OBVIOUS
    <3>4. QED BY <2>3, <3>1, <3>2, <3>3
  <2>6. QED BY <1>1, <2>3, <2>4, <2>5, SeqEqual
<1>3. Append(c \o Results(n), Result(n + 1)) = c \o Append(Results(n), Result(n + 1))
  <2>1. Result(n + 1) \in Items /\ <<Result(n + 1)>> \in Seq(Items) /\ c \o Results(n) \in Seq(Items)
    BY <1>1, ItemsAre, RunAssumption, ConcatProperties
  <2>2. /\ Append(c \o Results(n), Result(n + 1)) = (c \o Results(n)) \o <<Result(n + 1)>>
        /\ Append(Results(n), Result(n + 1)) = Results(n) \o <<Result(n + 1)>>
    BY <1>1, <2>1, AppendIsConcat
  <2>3. (c \o Results(n)) \o <<Result(n + 1)>> = c \o (Results(n) \o <<Result(n + 1)>>)
    BY <1>1, <2>1, ConcatAssociative
  <2>4. QED BY <2>2, <2>3
<1>4. Results(0) = <<>>
  BY DEF Results
<1> QED BY <1>2, <1>3, <1>4

(* A step within a batch: at most the next result is given.                 *)
Calls == \/ SequentialCall \/ SequentialResult \/ Preflight \/ ParallelResult \/ TruncatedResult
         \/ \E i \in 1..MaxCalls : ToolEnds(i)

(* A step within a batch leaves the context alone, and gives no result but  *)
(* the next one.                                                            *)
LEMMA BatchMoves ==
  ASSUME TypeOK, Batched, Calls
  PROVE  /\ {pc, pc'} \subseteq Batching /\ batch'.asked = batch.asked
         /\ UNCHANGED InBatch
         /\ \/ transcript' = transcript /\ batch'.given = batch.given
            \/ /\ batch.given < batch.asked
               /\ transcript' = Append(transcript, Result(batch.given + 1))
               /\ batch'.given = batch.given + 1
<1>1. UNCHANGED InBatch
  BY DEF Calls, SequentialCall, SequentialResult, Preflight, ParallelResult, TruncatedResult,
         ToolEnds
<1>2. {pc, pc'} \subseteq Batching
  BY DEF Calls, SequentialCall, SequentialResult, Preflight, ParallelResult, TruncatedResult,
         ToolEnds, AfterResult, Batching
<1>3. \/ /\ batch' \in {Refused, Opened} \cup {[batch EXCEPT !.open = S] : S \in SUBSET batch.open}
         /\ transcript' = transcript
      \/ Given(Refused) \/ Given(batch) \/ Given([batch EXCEPT !.open = {}])
  <2>1. CASE \E i \in 1..MaxCalls : ToolEnds(i)
    <3>1. PICK i \in 1..MaxCalls : ToolEnds(i)
      BY <2>1
    <3>2. batch' = [batch EXCEPT !.open = batch.open \ {i}] /\ transcript' = transcript
      BY <3>1 DEF ToolEnds, TypeOK
    <3>3. QED BY <3>2
  <2>2. CASE ~\E i \in 1..MaxCalls : ToolEnds(i)
    BY <2>2 DEF Calls, SequentialCall, SequentialResult, Preflight, ParallelResult, TruncatedResult
  <2>3. QED BY <2>1, <2>2
<1>4. \A b \in {Refused, Opened, batch} \cup {[batch EXCEPT !.open = S] : S \in SUBSET batch.open} :
        /\ b.given = batch.given /\ b.asked = batch.asked
        /\ [b EXCEPT !.given = @ + 1].given = batch.given + 1
        /\ [b EXCEPT !.given = @ + 1].asked = batch.asked
  BY DEF Refused, Opened, TypeOK
<1>5. CASE /\ batch' \in {Refused, Opened} \cup {[batch EXCEPT !.open = S] : S \in SUBSET batch.open}
           /\ transcript' = transcript
  BY <1>1, <1>2, <1>4, <1>5
<1>6. CASE Given(Refused) \/ Given(batch) \/ Given([batch EXCEPT !.open = {}])
  <2>1. PICK b \in {Refused, Opened, batch} \cup {[batch EXCEPT !.open = S] : S \in SUBSET batch.open} :
          Given(b)
    BY <1>6
  <2>2. b.given = batch.given /\ b.asked = batch.asked
        /\ transcript' = Append(transcript, Result(batch.given + 1))
        /\ batch'.given = batch.given + 1 /\ batch'.asked = batch.asked
    BY <1>4, <2>1 DEF Given, Emit
  <2>3. batch.given < batch.asked
    <3>1. pc \in {"sequential", "parallel", "truncated"}
      <4>1. CASE Preflight \/ \E i \in 1..MaxCalls : ToolEnds(i)
        <5>1. transcript' = transcript
          BY <4>1 DEF Preflight, ToolEnds
        <5>2. Len(transcript) \in Nat /\ Len(transcript') = Len(transcript) + 1
          BY <2>2, LenProperties DEF TypeOK
        <5>3. QED BY <5>1, <5>2
      <4>2. CASE SequentialCall \/ SequentialResult \/ ParallelResult \/ TruncatedResult
        BY <4>2 DEF SequentialCall, SequentialResult, ParallelResult, TruncatedResult
      <4>3. QED BY <4>1, <4>2 DEF Calls
    <3>2. batch.given \in Nat /\ batch.next \in Nat /\ batch.asked \in Nat /\ batch.next <= batch.asked
      BY DEF TypeOK
    <3>3. QED BY <3>1, <3>2 DEF Batched
  <2>4. QED BY <1>1, <1>2, <2>2, <2>3
<1> QED BY <1>3, <1>5, <1>6

(* Agreed is kept by every step: what is emitted is pushed too, but for the *)
(* prompts, pushed when the run starts, and the results, pushed when the    *)
(* batch ends.                                                              *)
LEMMA AgreedStep ==
  ASSUME TypeOK, Phases, Batched, Agreed, [Next]_vars
  PROVE  Agreed' /\ context' \in Seq(Items)
<1>0. /\ transcript \in Seq(Items) /\ context \in Seq(Items) /\ prompts \in Seq(Msg)
      /\ steering \in Seq(Msg) /\ followUps \in Seq(Msg)
  BY DEF TypeOK
(* The ways in which both move.                                             *)
<1>1. CASE UNCHANGED <<pc, transcript, context, prompts, batch, failed>>
  <2>1. (Users(prompts))' = Users(prompts) /\ (Results(batch.given))' = Results(batch.given)
    BY <1>1 DEF Users, Results
  <2>2. context' = context /\ transcript' = transcript /\ pc' = pc /\ failed' = failed
    BY <1>1
  <2>3. Agreed'
    BY <2>1, <2>2 DEF Agreed
  <2>4. QED BY <1>0, <2>2, <2>3
<1>2. CASE pc' \in {"idle", "failing"} /\ context' = <<>>
  <2>1. pc' \notin Opening \cup Batching \cup Between \cup {"end"}
    BY <1>2 DEF Opening, Batching, Between
  <2>2. context' \in Seq(Items)
    BY <1>2
  <2>3. QED BY <2>1, <2>2 DEF Agreed
<1>3. CASE /\ pc' \in Between \cup {"end"} /\ context = transcript
           /\ \/ UNCHANGED <<transcript, context>>
              \/ \E x \in Items : transcript' = Append(transcript, x) /\ context' = Append(context, x)
  <2>1. \A x \in Items : Append(context, x) \in Seq(Items)
    BY <1>0, AppendProperties
  <2>2. context' = transcript' /\ context' \in Seq(Items)
    BY <1>0, <1>3, <2>1
  <2>3. QED BY <1>3, <2>2 DEF Agreed, Opening, Batching, Between
<1>4. ASSUME NEW first \in Seq(Msg), NEW how \in BOOLEAN, Start(first, how)
      PROVE  Agreed' /\ context' \in Seq(Items)
  <2>1. /\ pc' = "begin" /\ prompts' = first /\ transcript' = transcript
        /\ context' = transcript \o Users(first)
    BY <1>4 DEF Start
  <2>2. Users(first) \in Seq(Items) /\ context' \in Seq(Items)
    BY <1>0, <2>1, UsersOf, ConcatProperties
  <2>3. Users(first) = (Users(prompts))'
    BY <2>1 DEF Users
  <2>4. QED BY <2>1, <2>2, <2>3 DEF Agreed, Opening, Batching, Between
<1>5. CASE UNCHANGED vars \/ ClearAllQueues \/ Abort
  BY <1>1, <1>5 DEF vars, ClearAllQueues, Abort, Running
<1>6. ASSUME NEW m \in Msg, Prompt(m) \/ Steer(m) \/ FollowUp(m)
      PROVE  Agreed' /\ context' \in Seq(Items)
  <2>1. <<m>> \in Seq(Msg)
    OBVIOUS
  <2>2. Start(<<m>>, FALSE) \/ UNCHANGED <<pc, transcript, context, prompts, batch, failed>>
    BY <1>6 DEF Prompt, Steer, FollowUp, Running
  <2>3. QED BY <1>1, <1>4, <2>1, <2>2
<1>7. CASE Continue
  <2>1. /\ Drained(steering, SteeringMode) \in Seq(Msg)
        /\ Drained(followUps, FollowUpMode) \in Seq(Msg) /\ <<>> \in Seq(Msg)
    BY <1>0, Drains, RunAssumption
  <2>2. \/ Start(Drained(steering, SteeringMode), TRUE)
        \/ Start(Drained(followUps, FollowUpMode), FALSE)
        \/ Start(<<>>, FALSE)
    BY <1>7 DEF Continue
  <2>3. QED BY <1>4, <2>1, <2>2
<1>8. CASE BeforeTurn
  <2>1. {pc, pc'} \subseteq Opening /\ UNCHANGED <<transcript, context, prompts>>
    BY <1>8 DEF BeforeTurn, Opening
  <2>2. (Users(prompts))' = Users(prompts)
    BY <2>1 DEF Users
  <2>3. QED BY <1>0, <2>1, <2>2 DEF Agreed, Opening, Batching, Between
<1>9. CASE EmitPrompt
  <2>1. /\ pc \in Opening /\ pc' = pc /\ prompts # <<>> /\ context' = context
        /\ transcript' = Append(transcript, User(Head(prompts))) /\ prompts' = Tail(prompts)
    BY <1>9 DEF EmitPrompt, Emit, Opening
  <2>2. /\ Users(prompts) \in Seq(Items) /\ Users(prompts) # <<>>
        /\ Head(Users(prompts)) = User(Head(prompts))
        /\ Tail(Users(prompts)) = Users(Tail(prompts))
    BY <1>0, <2>1, UsersOf
  <2>3. transcript \o Users(prompts) = transcript' \o Users(prompts')
    BY <1>0, <2>1, <2>2, Passes
  <2>4. (Users(prompts))' = Users(prompts')
    BY DEF Users
  <2>5. QED BY <1>0, <2>1, <2>3, <2>4 DEF Agreed, Opening, Batching, Between
<1>10. CASE Refuse \/ PollFirst
  <2>1. prompts = <<>> /\ pc \in Opening
    BY <1>10 DEF Refuse, PollFirst, Opening
  <2>2. context = transcript
    BY <1>0, <2>1, UsersOf, ConcatEmptySeq DEF Agreed
  <2>3. pc' \in Between
    BY <1>10 DEF Refuse, PollFirst, Between
  <2>4. \/ UNCHANGED <<transcript, context>>
        \/ \E x \in Items : transcript' = Append(transcript, x) /\ context' = Append(context, x)
    BY <1>10, ItemsAre DEF Refuse, PollFirst, EmitAndPush, Emit, Stops
  <2>5. QED BY <1>3, <2>2, <2>3, <2>4
<1>11. CASE BeginTurn \/ Inject \/ Ask
  <2>1. pc \in Between
    BY <1>11 DEF BeginTurn, Inject, Ask, Between
  <2>2. pc' \in Between
    BY <1>11, <2>1 DEF BeginTurn, Inject, Ask, GatedTurn, Between
  <2>3. ASSUME Inject PROVE User(Head(pending)) \in Items
    <3>1. Head(pending) \in Msg
      BY <2>3, HeadTailProperties DEF Inject, TypeOK
    <3>2. QED BY <3>1, ItemsAre
  <2>4. Answer("failed", 0) \in Items
    BY ItemsAre DEF Stops
  <2>5. \/ UNCHANGED <<transcript, context>>
        \/ \E x \in Items : transcript' = Append(transcript, x) /\ context' = Append(context, x)
    BY <1>11, <2>3, <2>4 DEF BeginTurn, Inject, Ask, GatedTurn, EmitAndPush, Emit
  <2>6. QED BY <1>3, <2>1, <2>2, <2>5 DEF Agreed
<1>12. CASE AnswerFails \/ AnswerPlain
  <2>1. pc \in Between /\ pc' \in Between
    BY <1>12 DEF AnswerFails, AnswerPlain, Answered, Between
  <2>2. \E x \in Items : transcript' = Append(transcript, x) /\ context' = Append(context, x)
    BY <1>12, ItemsAre DEF AnswerFails, AnswerPlain, Answered, EmitAndPush, Emit, Stops
  <2>3. QED BY <1>3, <2>1, <2>2 DEF Agreed
<1>13. ASSUME NEW n \in 1..MaxCalls, AnswerTools(n)
       PROVE  Agreed' /\ context' \in Seq(Items)
  <2>1. PICK s \in {"stop", "length"} : Answered(s, n)
    BY <1>13 DEF AnswerTools
  <2>2. /\ pc = "stream" /\ transcript' = Append(transcript, Answer(s, n))
        /\ context' = Append(context, Answer(s, n))
    BY <2>1 DEF Answered, EmitAndPush, Emit
  <2>3. Answer(s, n) \in Items
    <3>1. n \in 0..MaxCalls
      BY RunAssumption
    <3>2. QED BY <3>1, ItemsAre DEF Stops
  <2>4. context' = transcript' /\ context' \in Seq(Items)
    BY <1>0, <2>2, <2>3, AppendProperties DEF Agreed, Between
  <2>5. pc' \in Batching /\ batch'.given = 0
    BY <1>13 DEF AnswerTools, Batch, Batching
  <2>6. (Results(batch.given))' = <<>>
    BY <2>5 DEF Results
  <2>7. transcript' = context' \o (Results(batch.given))'
    BY <2>4, <2>6, ConcatEmptySeq
  <2>8. QED BY <2>4, <2>5, <2>7 DEF Agreed, Opening, Batching, Between
<1>14. CASE Calls
  <2>1. /\ pc \in Batching /\ pc' \in Batching /\ context' = context
        /\ \/ transcript' = transcript /\ batch'.given = batch.given
           \/ /\ batch.given < batch.asked
              /\ transcript' = Append(transcript, Result(batch.given + 1))
              /\ batch'.given = batch.given + 1
    BY <1>14, BatchMoves DEF InBatch
  <2>2. (Results(batch.given))' = Results(batch'.given)
    BY DEF Results
  <2>3. transcript' = context \o Results(batch'.given)
    <3>1. transcript = context \o Results(batch.given)
      BY <2>1 DEF Agreed
    <3>2. batch.given \in Nat /\ batch.asked \in 0..MaxCalls
      BY DEF TypeOK
    <3>3. batch.given < batch.asked => batch.given < MaxCalls
      BY <3>2, RunAssumption
    <3>4. CASE transcript' = transcript /\ batch'.given = batch.given
      BY <3>1, <3>4
    <3>5. CASE /\ batch.given < batch.asked
               /\ transcript' = Append(transcript, Result(batch.given + 1))
               /\ batch'.given = batch.given + 1
      BY <1>0, <3>1, <3>2, <3>3, <3>5, ResultsGrow
    <3>6. QED BY <2>1, <3>4, <3>5
  <2>4. QED BY <1>0, <2>1, <2>2, <2>3 DEF Agreed, Opening, Batching, Between
<1>15. CASE BatchEnds
  <2>1. /\ pc \in Batching /\ pc' \in Between /\ transcript' = transcript
        /\ context' = context \o Results(batch.given)
    BY <1>15 DEF BatchEnds, Batching, Between, Results
  <2>2. context' = transcript'
    BY <2>1 DEF Agreed
  <2>3. QED BY <1>0, <2>1, <2>2 DEF Agreed, Opening, Batching, Between
<1>16. CASE EndTurn \/ StopAfterTurn \/ PollFollowUps \/ CloseTurn
  <2>1. pc \in Between /\ UNCHANGED <<transcript, context>>
    BY <1>16 DEF EndTurn, StopAfterTurn, PollFollowUps, CloseTurn, Ending, Between
  <2>2. pc' \in Between \cup {"end"}
    BY <1>16 DEF EndTurn, StopAfterTurn, PollFollowUps, CloseTurn, AgentEnd, Between
  <2>3. QED BY <1>3, <2>1, <2>2 DEF Agreed
<1>17. CASE Finish \/ ReportBreaks \/ Throw
  BY <1>2, <1>17 DEF Finish, ReportBreaks, FinishRun, Throw
<1>18. CASE ReportFailure
  <2>1. pc' = "end" /\ context' = context /\ failed' = failed /\ failed
    BY <1>18 DEF ReportFailure, AgentEnd, Phases
  <2>2. QED BY <1>0, <2>1 DEF Agreed, Opening, Batching, Between
<1> QED BY <1>5, <1>6, <1>7, <1>8, <1>9, <1>10, <1>11, <1>12, <1>13, <1>14, <1>15, <1>16, <1>17, <1>18
        DEF Next, Loop, Calls
-----------------------------------------------------------------------------
(* Batches that come to an end, and the steps outside of a batch.           *)
Outside == {pc, pc'} \cap Batching = {} /\ cut' = cut
Quiet == transcript' = transcript /\ (Outside \/ UNCHANGED <<pc, batch, cut>>)
Adds  == /\ Outside
         /\ \E x \in Items : /\ x.kind # "result" /\ (Executable(x) => x.calls = 0)
                             /\ transcript' = Append(transcript, x)
Asks  == /\ pc \notin Batching /\ pc' \in Batching /\ cut' = cut /\ batch'.given = 0
         /\ \E x \in Items : /\ Executable(x) /\ x.calls = batch'.asked
                             /\ transcript' = Append(transcript, x)
Closes == /\ pc \in Batching /\ pc' \notin Batching /\ transcript' = transcript
          /\ \/ cut' = cut /\ batch.given = batch.asked
             \/ cut' = cut \cup {LastAnswer}

(* Every step is of one of these kinds: it leaves the transcript alone, adds*)
(* an item that calls no tool, asks for a batch, closes one or is in one.   *)
LEMMA AnswerSteps ==
  ASSUME TypeOK, Batched, [Next]_vars
  PROVE  Quiet \/ Adds \/ Asks \/ Closes \/ Calls
<1>0. /\ batch.given \in Nat /\ batch.asked \in Nat /\ batch.given <= batch.asked
      /\ prompts \in Seq(Msg) /\ pending \in Seq(Msg)
  BY DEF TypeOK
<1>1. /\ Answer("failed", 0) \in Items /\ Answer("failed", MaxCalls) \in Items
      /\ Answer("stop", 0) \in Items
  BY ItemsAre DEF Stops
<1>2. /\ ~Executable(Answer("failed", 0)) /\ ~Executable(Answer("failed", MaxCalls))
      /\ Answer("stop", 0).calls = 0
      /\ Answer("failed", 0).kind # "result" /\ Answer("failed", MaxCalls).kind # "result"
      /\ Answer("stop", 0).kind # "result"
      /\ \A m \in Msg : User(m) \in Items /\ User(m).kind # "result" /\ ~Executable(User(m))
  BY ItemsAre DEF Answer, Executable, User
<1>3. CASE \/ UNCHANGED vars \/ Abort \/ ClearAllQueues
           \/ \E m \in Msg : Steer(m) \/ FollowUp(m)
  BY <1>3 DEF vars, Abort, ClearAllQueues, Steer, FollowUp, Running, Quiet
<1>4. CASE Continue \/ \E m \in Msg : Prompt(m)
  <2>1. pc = "idle" /\ pc' = "begin" /\ UNCHANGED <<transcript, cut>>
    BY <1>4 DEF Continue, Prompt, Start
  <2>2. QED BY <2>1 DEF Quiet, Outside, Batching
<1>5. CASE BeforeTurn \/ PollFirst
  <2>1. pc \in Opening /\ pc' \in {"prompting", "refusing", "inject"} /\ UNCHANGED <<transcript, cut>>
    BY <1>5 DEF BeforeTurn, PollFirst, Opening, Tools
  <2>2. QED BY <2>1 DEF Quiet, Outside, Batching, Opening
<1>6. CASE EmitPrompt \/ Inject
  <2>1. pc \in {"prompting", "refusing", "inject"} /\ pc' = pc /\ cut' = cut
    BY <1>6 DEF EmitPrompt, Inject, Tools
  <2>2. PICK m \in Msg : transcript' = Append(transcript, User(m))
    <3>1. CASE EmitPrompt
      <4>1. Head(prompts) \in Msg
        BY <1>0, <3>1, HeadTailProperties DEF EmitPrompt
      <4>2. QED BY <3>1, <4>1 DEF EmitPrompt, Emit
    <3>2. CASE Inject
      <4>1. Head(pending) \in Msg
        BY <1>0, <3>2, HeadTailProperties DEF Inject
      <4>2. QED BY <3>2, <4>1 DEF Inject, EmitAndPush, Emit
    <3>3. QED BY <1>6, <3>1, <3>2
  <2>3. QED BY <1>2, <2>1, <2>2 DEF Adds, Outside, Batching
<1>7. CASE Refuse \/ BeginTurn \/ Ask
  <2>1. pc \in {"refusing", "turn", "inject"} /\ pc' \in {"inject", "stream", "closing"} /\ cut' = cut
    BY <1>7 DEF Refuse, BeginTurn, Ask, GatedTurn, Tools
  <2>2. Outside
    BY <2>1 DEF Outside, Batching
  <2>3. transcript' = transcript \/ transcript' = Append(transcript, Answer("failed", 0))
    BY <1>7 DEF Refuse, BeginTurn, Ask, GatedTurn, EmitAndPush, Emit
  <2>4. QED BY <1>1, <1>2, <2>2, <2>3 DEF Quiet, Adds
<1>8. CASE AnswerFails \/ AnswerPlain
  <2>1. pc = "stream" /\ pc' \in {"closing", "ended turn"} /\ cut' = cut
    BY <1>8 DEF AnswerFails, AnswerPlain, Answered
  <2>2. \/ transcript' = Append(transcript, Answer("failed", MaxCalls))
        \/ transcript' = Append(transcript, Answer("stop", 0))
    BY <1>8 DEF AnswerFails, AnswerPlain, Answered, EmitAndPush, Emit
  <2>3. Outside
    BY <2>1 DEF Outside, Batching
  <2>4. QED BY <1>1, <1>2, <2>2, <2>3 DEF Adds
<1>9. ASSUME NEW n \in 1..MaxCalls, AnswerTools(n) PROVE Asks
  <2>1. PICK s \in {"stop", "length"} : Answered(s, n)
    BY <1>9 DEF AnswerTools
  <2>2. pc = "stream" /\ transcript' = Append(transcript, Answer(s, n)) /\ cut' = cut
    BY <2>1 DEF Answered, EmitAndPush, Emit
  <2>3. Answer(s, n) \in Items /\ Executable(Answer(s, n)) /\ Answer(s, n).calls = n
    <3>1. n \in 0..MaxCalls
      BY RunAssumption
    <3>2. QED BY <3>1, ItemsAre DEF Stops, Executable, Answer
  <2>4. pc' \in Batching /\ batch'.given = 0 /\ batch'.asked = n
    BY <1>9 DEF AnswerTools, Batch, Batching
  <2>5. pc \notin Batching
    BY <2>2 DEF Batching
  <2>6. QED BY <2>2, <2>3, <2>4, <2>5 DEF Asks
<1>10. CASE BatchEnds
  <2>1. pc = "batched" /\ pc' = "ended turn" /\ transcript' = transcript
        /\ cut' = IF aborted /\ batch.given < batch.asked THEN cut \cup {LastAnswer} ELSE cut
    BY <1>10 DEF BatchEnds
  <2>2. batch.given = batch.asked \/ aborted
    BY <2>1 DEF Batched
  <2>3. (aborted /\ batch.given < batch.asked) \/ batch.given = batch.asked
    BY <1>0, <2>2
  <2>4. QED BY <1>0, <2>1, <2>3 DEF Closes, Batching
<1>11. CASE Throw
  <2>1. pc' = "failing" /\ transcript' = transcript
        /\ cut' = IF pc \in Batching THEN cut \cup {LastAnswer} ELSE cut
    BY <1>11 DEF Throw
  <2>2. pc' \notin Batching
    BY <2>1 DEF Batching
  <2>3. QED BY <2>1, <2>2 DEF Closes, Quiet, Outside
<1>12. CASE EndTurn \/ StopAfterTurn \/ PollFollowUps \/ CloseTurn \/ Finish
  <2>1. pc \in {"ended turn", "follow-ups", "closing", "end"} /\ UNCHANGED <<transcript, cut>>
    BY <1>12 DEF EndTurn, StopAfterTurn, PollFollowUps, CloseTurn, Finish, FinishRun, Ending, Tools
  <2>2. pc' \in {"turn", "follow-ups", "end", "idle"}
    BY <1>12 DEF EndTurn, StopAfterTurn, PollFollowUps, CloseTurn, Finish, FinishRun, AgentEnd
  <2>3. QED BY <2>1, <2>2 DEF Quiet, Outside, Batching
<1>13. CASE ReportFailure \/ ReportBreaks
  <2>1. pc = "failing" /\ pc' \in {"end", "idle"} /\ cut' = cut
    BY <1>13 DEF ReportFailure, ReportBreaks, FinishRun, AgentEnd, Tools
  <2>2. transcript' = transcript \/ transcript' = Append(transcript, Answer("failed", 0))
    BY <1>13 DEF ReportFailure, ReportBreaks, Emit, Failure
  <2>3. Outside
    BY <2>1 DEF Outside, Batching
  <2>4. QED BY <1>1, <1>2, <2>2, <2>3 DEF Quiet, Adds
<1> QED BY <1>3, <1>4, <1>5, <1>6, <1>7, <1>8, <1>9, <1>10, <1>11, <1>12, <1>13 DEF Next, Loop,
   Calls
-----------------------------------------------------------------------------
(* What is in place stays in place as the transcript grows.                 *)
LEMMA StaysInPlace ==
  ASSUME TypeOK, ResultsFollow, NEW x \in Items, transcript' = Append(transcript, x)
  PROVE  /\ \A q \in 1..Len(transcript) : transcript'[q].kind = "result" => InPlace(q)'
         /\ \A p \in Answers \ (cut \cup Current) : \A i \in 1..transcript'[p].calls : ResultAt(p, i)'
         /\ Answers' = Answers \cup (IF Executable(x) THEN {Len(transcript) + 1} ELSE {})
<1>1. /\ Len(transcript) \in Nat /\ DOMAIN transcript = 1..Len(transcript)
      /\ DOMAIN transcript' = 1..(Len(transcript) + 1)
      /\ \A i \in 1..Len(transcript) : transcript'[i] = transcript[i]
      /\ transcript'[Len(transcript) + 1] = x
  BY Appended DEF TypeOK
<1>2. 1..Len(transcript) \subseteq 1..(Len(transcript) + 1)
      /\ Len(transcript) + 1 \in 1..(Len(transcript) + 1)
  BY <1>1
<1>3. ASSUME NEW q \in 1..Len(transcript), transcript'[q].kind = "result"
      PROVE  InPlace(q)'
  <2>1. InPlace(q) /\ transcript'[q] = transcript[q]
    BY <1>1, <1>3 DEF ResultsFollow
  <2>2. PICK p \in 1..Len(transcript) : /\ p + transcript[q].of = q /\ Executable(transcript[p])
                                        /\ transcript[q].of \in 1..transcript[p].calls
    BY <1>1, <2>1 DEF InPlace
  <2>3. transcript'[p] = transcript[p] /\ p \in DOMAIN transcript'
    BY <1>1, <1>2
  <2>4. QED BY <2>1, <2>2, <2>3 DEF InPlace
<1>4. ASSUME NEW p \in Answers \ (cut \cup Current), NEW i \in 1..transcript'[p].calls
      PROVE  ResultAt(p, i)'
  <2>1. p \in 1..Len(transcript) /\ transcript'[p] = transcript[p]
    BY <1>1 DEF Answers
  <2>2. ResultAt(p, i)
    BY <1>4, <2>1 DEF ResultsFollow
  <2>3. p + i \in 1..Len(transcript) /\ transcript[p + i] = Result(i)
    BY <1>1, <2>2 DEF ResultAt
  <2>4. p + i \in DOMAIN transcript' /\ transcript'[p + i] = Result(i)
    BY <1>1, <1>2, <2>3
  <2>5. QED BY <2>4 DEF ResultAt
<1>5. Answers' = Answers \cup (IF Executable(x) THEN {Len(transcript) + 1} ELSE {})
  <2>1. Answers' = {p \in 1..(Len(transcript) + 1) : Executable(transcript'[p])}
    BY <1>1 DEF Answers
  <2>2. Answers = {p \in 1..Len(transcript) : Executable(transcript[p])}
    BY <1>1 DEF Answers
  <2>3. \A p \in 1..(Len(transcript) + 1) : p \in 1..Len(transcript) \/ p = Len(transcript) + 1
    BY <1>1
  <2>4. Len(transcript) + 1 \notin 1..Len(transcript)
    BY <1>1
  <2>5. QED BY <1>1, <1>2, <2>1, <2>2, <2>3, <2>4
<1> QED BY <1>3, <1>4, <1>5

(* Followed is kept by every step: a result given is the next after its     *)
(* answer, and a batch closes when all are there or it is marked cut off.   *)
LEMMA FollowedStep ==
  ASSUME TypeOK, Batched, Followed, [Next]_vars
  PROVE  Followed'
<1>0. /\ transcript \in Seq(Items) /\ Len(transcript) \in Nat
      /\ DOMAIN transcript = 1..Len(transcript)
      /\ batch.given \in Nat /\ batch.asked \in Nat /\ ResultsFollow
  BY LenProperties DEF TypeOK, Followed
<1>1. CASE Quiet
  <2>1. transcript' = transcript /\ (Outside \/ UNCHANGED <<pc, batch, cut>>)
    BY <1>1 DEF Quiet
  <2>2. /\ LastAnswer' = LastAnswer /\ Answers' = Answers
        /\ \A q : InPlace(q)' = InPlace(q)
        /\ \A p, i : ResultAt(p, i)' = ResultAt(p, i)
    BY <2>1 DEF LastAnswer, Answers, InPlace, ResultAt
  <2>3. Current' = Current /\ cut' = cut
    BY <2>1, <2>2 DEF Current, Outside
  <2>4. ResultsFollow'
    BY <1>0, <2>1, <2>2, <2>3 DEF ResultsFollow
  <2>5. CASE Outside
    <3>1. pc' \notin Batching
      BY <2>5 DEF Outside
    <3>2. QED BY <2>4, <3>1 DEF Followed
  <2>6. CASE UNCHANGED <<pc, batch, cut>>
    BY <2>1, <2>4, <2>6 DEF Followed, Asked
  <2>7. QED BY <2>1, <2>5, <2>6
<1>2. CASE Adds
  <2>1. PICK x \in Items : /\ x.kind # "result" /\ (Executable(x) => x.calls = 0)
                           /\ transcript' = Append(transcript, x)
    BY <1>2 DEF Adds
  <2>2. pc' \notin Batching /\ cut' = cut /\ Current = {} /\ Current' = {}
    BY <1>2 DEF Adds, Outside, Current
  <2>3. /\ DOMAIN transcript' = 1..(Len(transcript) + 1)
        /\ transcript'[Len(transcript) + 1] = x
    BY <1>0, <2>1, Appended
  <2>4. \A q \in DOMAIN transcript' : transcript'[q].kind = "result" => InPlace(q)'
    <3>1. \A q \in 1..(Len(transcript) + 1) : q \in 1..Len(transcript) \/ q = Len(transcript) + 1
      BY <1>0
    <3>2. QED BY <1>0, <2>1, <2>3, <3>1, StaysInPlace
  <2>5. \A p \in Answers' \ (cut \cup Current)' : \A i \in 1..transcript'[p].calls : ResultAt(p, i)'
    <3>1. SUFFICES ASSUME NEW p \in Answers' \ (cut \cup Current)', NEW i \in 1..transcript'[p].calls
                   PROVE  ResultAt(p, i)'
      OBVIOUS
    <3>2. p \in Answers \/ (Executable(x) /\ p = Len(transcript) + 1)
      BY <1>0, <2>1, StaysInPlace
    <3>3. CASE p \in Answers
      <4>1. p \in Answers \ (cut \cup Current)
        BY <2>2, <3>3
      <4>2. QED BY <1>0, <2>1, <4>1, StaysInPlace
    <3>4. CASE Executable(x) /\ p = Len(transcript) + 1
      <4>1. transcript'[p].calls = 0
        BY <2>1, <2>3, <3>4
      <4>2. QED BY <4>1
    <3>5. QED BY <3>2, <3>3, <3>4
  <2>6. QED BY <2>2, <2>4, <2>5 DEF Followed, ResultsFollow
<1>3. CASE Asks
  <2>1. PICK x \in Items : /\ Executable(x) /\ x.calls = batch'.asked
                           /\ transcript' = Append(transcript, x)
    BY <1>3 DEF Asks
  <2>2. pc' \in Batching /\ cut' = cut /\ Current = {} /\ batch'.given = 0
    BY <1>3 DEF Asks, Current
  <2>3. /\ DOMAIN transcript' = 1..(Len(transcript) + 1) /\ Len(transcript') = Len(transcript) + 1
        /\ transcript'[Len(transcript) + 1] = x /\ transcript' \in Seq(Items)
    BY <1>0, <2>1, Appended
  <2>4. Asked' = Len(transcript) + 1 /\ Asked' \in DOMAIN transcript'
    <3>1. Asked' = (Len(transcript) + 1) - 0
      BY <2>2, <2>3 DEF Asked
    <3>2. QED BY <1>0, <2>3, <3>1
  <2>5. LastAnswer' = Len(transcript) + 1
    <3>1. Len(transcript) + 1 \in 1..Len(transcript') /\ transcript'[Len(transcript) + 1].kind = "assistant"
      BY <1>0, <2>1, <2>3 DEF Executable
    <3>2. \A q \in 1..Len(transcript') : ~(q > Len(transcript) + 1)
      BY <1>0, <2>3
    <3>3. QED BY <2>3, <3>1, <3>2, LastIs DEF LastAnswer
  <2>6. Current' = {Len(transcript) + 1}
    BY <2>2, <2>5 DEF Current
  <2>7. \A q \in DOMAIN transcript' : transcript'[q].kind = "result" => InPlace(q)'
    <3>1. \A q \in 1..(Len(transcript) + 1) : q \in 1..Len(transcript) \/ q = Len(transcript) + 1
      BY <1>0
    <3>2. x.kind # "result"
      BY <2>1 DEF Executable
    <3>3. QED BY <1>0, <2>1, <2>3, <3>1, <3>2, StaysInPlace
  <2>8. \A p \in Answers' \ (cut \cup Current)' : \A i \in 1..transcript'[p].calls : ResultAt(p, i)'
    <3>1. \A p \in Answers' \ (cut \cup Current)' : p \in Answers \ (cut \cup Current)
      <4>1. Answers' \subseteq Answers \cup {Len(transcript) + 1}
        BY <1>0, <2>1, StaysInPlace
      <4>2. QED BY <2>2, <2>6, <4>1
    <3>2. QED BY <1>0, <2>1, <3>1, StaysInPlace
  <2>9. \A i \in 1..batch'.given : FALSE
    BY <2>2
  <2>10. QED BY <2>1, <2>2, <2>3, <2>4, <2>7, <2>8, <2>9 DEF Followed, ResultsFollow
<1>4. CASE Closes
  <2>1. pc \in Batching /\ pc' \notin Batching /\ transcript' = transcript
    BY <1>4 DEF Closes
  <2>2. LastAnswer = Asked /\ Current = {Asked} /\ Current' = {}
    BY <1>0, <2>1, LastAnswerIs DEF Current
  <2>3. Answers' = Answers /\ (\A q : InPlace(q)' = InPlace(q))
        /\ \A p, i : ResultAt(p, i)' = ResultAt(p, i)
    BY <2>1 DEF Answers, InPlace, ResultAt
  <2>4. ASSUME NEW p \in Answers \ cut', NEW i \in 1..transcript[p].calls PROVE ResultAt(p, i)
    <3>1. CASE p # Asked
      <4>1. p \notin cut \cup Current
        BY <1>4, <2>2, <2>4, <3>1 DEF Closes
      <4>2. QED BY <1>0, <2>4, <4>1 DEF ResultsFollow
    <3>2. CASE p = Asked
      <4>1. batch.given = batch.asked
        BY <1>4, <2>2, <2>4, <3>2 DEF Closes
      <4>2. i \in 1..batch.given
        BY <2>1, <2>4, <3>2, <4>1 DEF Followed
      <4>3. transcript[p + i] = Result(i)
        BY <2>1, <3>2, <4>2 DEF Followed
      <4>4. p + i \in 1..Len(transcript)
        <5>1. Asked = Len(transcript) - batch.given /\ Asked \in 1..Len(transcript)
          BY <2>1, LastAnswerIs DEF Asked
        <5>2. QED BY <1>0, <3>2, <4>2, <5>1
      <4>5. QED BY <1>0, <4>3, <4>4 DEF ResultAt
    <3>3. QED BY <3>1, <3>2
  <2>5. QED BY <1>0, <2>1, <2>2, <2>3, <2>4 DEF Followed, ResultsFollow
<1>5. CASE Calls
  <2>1. /\ pc \in Batching /\ pc' \in Batching /\ cut' = cut /\ batch'.asked = batch.asked
        /\ \/ transcript' = transcript /\ batch'.given = batch.given
           \/ /\ batch.given < batch.asked
              /\ transcript' = Append(transcript, Result(batch.given + 1))
              /\ batch'.given = batch.given + 1
    BY <1>5, BatchMoves DEF InBatch
  <2>2. /\ LastAnswer = Asked /\ Asked \in 1..Len(transcript) /\ Current = {Asked}
        /\ Executable(transcript[Asked]) /\ transcript[Asked].calls = batch.asked
        /\ \A i \in 1..batch.given : transcript[Asked + i] = Result(i)
    BY <2>1, LastAnswerIs DEF Current, Followed
  <2>3. CASE transcript' = transcript /\ batch'.given = batch.given
    <3>1. /\ LastAnswer' = LastAnswer /\ Answers' = Answers /\ Asked' = Asked
          /\ \A q : InPlace(q)' = InPlace(q)
          /\ \A p, i : ResultAt(p, i)' = ResultAt(p, i)
      BY <2>3 DEF LastAnswer, Answers, InPlace, ResultAt, Asked
    <3>2. Current' = Current
      BY <2>1, <3>1 DEF Current
    <3>3. ResultsFollow'
      BY <1>0, <2>1, <2>3, <3>1, <3>2 DEF ResultsFollow
    <3>4. QED BY <1>0, <2>1, <2>2, <2>3, <3>1, <3>3 DEF Followed
  <2>4. CASE /\ batch.given < batch.asked
             /\ transcript' = Append(transcript, Result(batch.given + 1))
             /\ batch'.given = batch.given + 1
    <3> DEFINE g == batch.given + 1
    <3>1. g \in 1..batch.asked /\ Result(g) \in Items /\ Result(g).kind = "result" /\ Result(g).of = g
      <4>1. g \in 1..batch.asked /\ g \in 1..MaxCalls
        BY <1>0, <2>4, RunAssumption DEF TypeOK
      <4>2. QED BY <4>1, ItemsAre DEF Result
    <3>2. transcript' = Append(transcript, Result(g)) /\ batch'.given = g
      BY <2>4
    <3>3. Asked + g = Len(transcript) + 1
      BY <1>0 DEF Asked
    <3> HIDE DEF g
    <3>4. /\ DOMAIN transcript' = 1..(Len(transcript) + 1) /\ Len(transcript') = Len(transcript) + 1
          /\ transcript'[Len(transcript) + 1] = Result(g) /\ transcript' \in Seq(Items)
          /\ \A i \in 1..Len(transcript) : transcript'[i] = transcript[i]
      BY <1>0, <3>1, <3>2, Appended
    <3>5. Asked' = Asked
      <4>1. Asked' = (Len(transcript) + 1) - (batch.given + 1)
        BY <2>4, <3>4 DEF Asked
      <4>2. QED BY <1>0, <4>1 DEF Asked
    <3>6. \A i \in 1..g : i \in 1..batch.given \/ i = g
      BY <1>0 DEF g
    <3>7. \A i \in 1..batch.given : Asked + i \in 1..Len(transcript)
      BY <1>0, <2>2 DEF Asked
    <3>8. \A i \in 1..g : transcript'[Asked + i] = Result(i)
      BY <2>2, <3>3, <3>4, <3>6, <3>7
    <3>9. Asked \in DOMAIN transcript' /\ transcript'[Asked] = transcript[Asked]
      <4>1. 1..Len(transcript) \subseteq 1..(Len(transcript) + 1)
        BY <1>0
      <4>2. QED BY <2>2, <3>4, <4>1
    <3>10. LastAnswer' = Asked
      <4>1. Asked \in 1..Len(transcript') /\ transcript'[Asked].kind = "assistant"
        BY <2>2, <3>4, <3>9 DEF Executable
      <4>2. ASSUME NEW q \in 1..Len(transcript'), q > Asked PROVE transcript'[q].kind # "assistant"
        <5>1. q - Asked \in 1..g /\ Asked + (q - Asked) = q
          BY <1>0, <2>2, <3>3, <3>4, <4>2 DEF g
        <5>2. transcript'[q] = Result(q - Asked)
          BY <3>8, <5>1
        <5>3. QED BY <5>2 DEF Result
      <4>3. QED BY <3>4, <4>1, <4>2, LastIs DEF LastAnswer
    <3>11. Current' = Current
      BY <2>1, <2>2, <3>10 DEF Current
    <3>12. Answers' = Answers
      <4>1. ~Executable(Result(g))
        BY <3>1 DEF Executable
      <4>2. QED BY <1>0, <3>1, <3>2, <4>1, StaysInPlace
    <3>13. ASSUME NEW q, q = Len(transcript) + 1 PROVE InPlace(q)'
      <4>1. transcript'[q].of = g /\ Asked + g = q
        BY <3>1, <3>3, <3>4, <3>13
      <4>2. g \in 1..transcript'[Asked].calls /\ Executable(transcript'[Asked])
        BY <2>2, <3>1, <3>9
      <4>3. QED BY <3>9, <4>1, <4>2 DEF InPlace
    <3>14. ResultsFollow'
      <4>1. \A q \in 1..(Len(transcript) + 1) : q \in 1..Len(transcript) \/ q = Len(transcript) + 1
        BY <1>0
      <4>2. \A q \in DOMAIN transcript' : transcript'[q].kind = "result" => InPlace(q)'
        BY <1>0, <3>1, <3>2, <3>4, <3>13, <4>1, StaysInPlace
      <4>3. \A p \in Answers \ (cut \cup Current) : \A i \in 1..transcript'[p].calls : ResultAt(p, i)'
        BY <1>0, <3>1, <3>2, StaysInPlace
      <4>4. QED BY <2>1, <3>11, <3>12, <4>2, <4>3 DEF ResultsFollow
    <3>15. QED BY <2>1, <2>2, <3>2, <3>5, <3>8, <3>9, <3>14 DEF Followed
  <2>5. QED BY <2>1, <2>3, <2>4
<1> QED BY <1>1, <1>2, <1>3, <1>4, <1>5, AnswerSteps
-----------------------------------------------------------------------------
(* Every message is in one place, and a message given up was submitted.     *)
Placed == OncePlaced /\ \A m \in spilled : via[m] # "none"

(* What is queued or held is counted place by place.                        *)
LEMMA CountsInParts ==
  ASSUME NEW m, NEW a \in Seq(Msg), NEW b \in Seq(Msg), NEW c \in Seq(Msg), NEW d \in Seq(Msg)
  PROVE  /\ Count(m, a \o b \o c \o d) = Count(m, a) + Count(m, b) + Count(m, c) + Count(m, d)
         /\ Count(m, a) \in Nat /\ Count(m, b) \in Nat /\ Count(m, c) \in Nat /\ Count(m, d) \in Nat
<1>1. a \o b \in Seq(Msg) /\ (a \o b) \o c \in Seq(Msg)
  BY ConcatProperties
<1>2. Count(m, a \o b) = Count(m, a) + Count(m, b)
  BY Counts
<1>3. Count(m, (a \o b) \o c) = Count(m, a \o b) + Count(m, c)
  BY <1>1, Counts
<1>4. Count(m, ((a \o b) \o c) \o d) = Count(m, (a \o b) \o c) + Count(m, d)
  BY <1>1, Counts
<1>5. Count(m, a) \in Nat /\ Count(m, b) \in Nat /\ Count(m, c) \in Nat /\ Count(m, d) \in Nat
  BY Counts
<1> QED BY <1>2, <1>3, <1>4, <1>5

(* The head of a queue counts once, and the rest as before.                 *)
LEMMA HeadCounts ==
  ASSUME NEW m, NEW q \in Seq(Msg), q # <<>>
  PROVE  /\ Count(m, q) = (IF m = Head(q) THEN 1 ELSE 0) + Count(m, Tail(q))
         /\ Count(m, Tail(q)) \in Nat /\ Head(q) \in Msg /\ Tail(q) \in Seq(Msg)
<1>1. Head(q) \in Msg /\ Tail(q) \in Seq(Msg) /\ <<Head(q)>> \in Seq(Msg)
  BY HeadTailProperties
<1>2. <<>> \o q = Append(<<>>, Head(q)) \o Tail(q)
  BY Passes, EmptySeq
<1>3. <<>> \o q = q /\ Append(<<>>, Head(q)) = <<Head(q)>>
  BY ConcatEmptySeq
<1>4. Count(m, <<Head(q)>> \o Tail(q)) = Count(m, <<Head(q)>>) + Count(m, Tail(q))
  BY <1>1, Counts
<1>5. Count(m, <<Head(q)>>) = IF m = Head(q) THEN 1 ELSE 0
  BY CountsOne
<1>6. Count(m, Tail(q)) \in Nat
  BY <1>1, Counts
<1> QED BY <1>1, <1>2, <1>3, <1>4, <1>5, <1>6

(* What is told of a message.                                               *)
LEMMA ToldCounts ==
  ASSUME TypeOK, NEW m \in Msg
  PROVE  /\ Says => Count(User(m), transcript') = Count(User(m), transcript)
         /\ \A n \in Msg : Count(User(m), Append(transcript, User(n)))
                             = Count(User(m), transcript) + (IF m = n THEN 1 ELSE 0)
         /\ Count(User(m), transcript) \in Nat
<1>1. transcript \in Seq(Items)
  BY DEF TypeOK
<1>2. Count(User(m), transcript) \in Nat
  BY <1>1, Counts
<1>3. \A x \in Items : Count(User(m), Append(transcript, x))
                         = Count(User(m), transcript) + (IF User(m) = x THEN 1 ELSE 0)
  BY <1>1, CountsAppend
<1>4. \A x \in Items : x.kind # "user" => User(m) # x
  BY ItemsAre
<1>5. \A n \in Msg : User(n) \in Items /\ (User(m) = User(n) <=> m = n)
  BY ItemsAre
<1>6. Says => Count(User(m), transcript') = Count(User(m), transcript)
  <2>1. \A x \in Items : x.kind # "user" =>
          Count(User(m), Append(transcript, x)) = Count(User(m), transcript)
    <3>1. ASSUME NEW x \in Items, x.kind # "user"
          PROVE  Count(User(m), Append(transcript, x)) = Count(User(m), transcript) + 0
      BY <1>3, <1>4, <3>1
    <3>2. QED BY <1>2, <3>1
  <2>2. ASSUME Says PROVE Count(User(m), transcript') = Count(User(m), transcript)
    <3>1. CASE transcript' = transcript
      BY <3>1
    <3>2. ASSUME NEW x \in Items, x.kind # "user", transcript' = Append(transcript, x)
          PROVE  Count(User(m), transcript') = Count(User(m), transcript)
      BY <2>1, <3>2
    <3>3. QED BY <2>2, <3>1, <3>2 DEF Says
  <2>3. QED BY <2>2
<1> QED BY <1>2, <1>3, <1>5, <1>6

(* Placed is kept however the messages are handled: a message told leaves   *)
(* the hands of the loop, one polled leaves its queue, one dropped is       *)
(* spilled and one cleared is marked so.                                    *)
LEMMA PlacedStep ==
  ASSUME TypeOK, Placed, Handles
  PROVE  Placed'
<1> DEFINE Gone(m) == via[m] \in {"none", "cleared"} \/ m \in spilled
           P(m) == Count(m, prompts)
           H(m) == Count(m, pending)
           S(m) == Count(m, steering)
           F(m) == Count(m, followUps)
           T(m) == Count(User(m), transcript)
<1>0. /\ transcript \in Seq(Items)
      /\ prompts \in Seq(Msg) /\ pending \in Seq(Msg)
      /\ steering \in Seq(Msg) /\ followUps \in Seq(Msg)
      /\ via \in [Msg -> {"none", "prompt", "steer", "follow-up", "cleared"}]
      /\ spilled \subseteq Msg
  BY DEF TypeOK
<1>1. /\ prompts' \in Seq(Msg) /\ pending' \in Seq(Msg)
      /\ steering' \in Seq(Msg) /\ followUps' \in Seq(Msg) /\ spilled' \subseteq Msg
  BY MessagesTyped
<1>2. ASSUME NEW m \in Msg
      PROVE  /\ P(m) + H(m) + S(m) + F(m) + T(m) = IF Gone(m) THEN 0 ELSE 1
             /\ P(m) \in Nat /\ H(m) \in Nat /\ S(m) \in Nat /\ F(m) \in Nat /\ T(m) \in Nat
  <2>1. /\ Count(m, prompts \o pending \o steering \o followUps) = P(m) + H(m) + S(m) + F(m)
        /\ P(m) \in Nat /\ H(m) \in Nat /\ S(m) \in Nat /\ F(m) \in Nat
    BY <1>0, CountsInParts
  <2>2. T(m) \in Nat
    BY ToldCounts
  <2>3. Count(m, prompts \o pending \o steering \o followUps) + T(m) = IF Gone(m) THEN 0 ELSE 1
    BY DEF Placed, OncePlaced
  <2>4. QED BY <2>1, <2>2, <2>3
<1>3. SUFFICES ASSUME NEW m \in Msg
               PROVE  /\ P(m)' + H(m)' + S(m)' + F(m)' + T(m)' = IF Gone(m)' THEN 0 ELSE 1
                      /\ m \in spilled' => via'[m] # "none"
  <2>1. ASSUME NEW m \in Msg
        PROVE  Count(m, prompts' \o pending' \o steering' \o followUps')
                 = P(m)' + H(m)' + S(m)' + F(m)'
    BY <1>1, CountsInParts
  <2>2. QED BY <1>1, <2>1 DEF Placed, OncePlaced
<1>4. Count(m, <<>>) = 0 /\ \A n : Count(m, <<n>>) = IF m = n THEN 1 ELSE 0
  BY CountsOne
<1>5. m \in spilled => via[m] # "none"
  BY DEF Placed
<1>6. /\ P(m) + H(m) + S(m) + F(m) + T(m) = IF Gone(m) THEN 0 ELSE 1
      /\ P(m) \in Nat /\ H(m) \in Nat /\ S(m) \in Nat /\ F(m) \in Nat /\ T(m) \in Nat
  BY <1>2
<1>7. /\ m \in Range(prompts) <=> P(m) > 0
      /\ m \in Range(pending) <=> H(m) > 0
      /\ m \in Range(steering \o followUps) <=> S(m) + F(m) > 0
  <2>1. Count(m, steering \o followUps) = S(m) + F(m) /\ steering \o followUps \in Seq(Msg)
    BY <1>0, Counts, ConcatProperties
  <2>2. /\ P(m) > 0 <=> \E i \in DOMAIN prompts : prompts[i] = m
        /\ H(m) > 0 <=> \E i \in DOMAIN pending : pending[i] = m
        /\ Count(m, steering \o followUps) > 0
             <=> \E i \in DOMAIN (steering \o followUps) : (steering \o followUps)[i] = m
    BY <1>0, <2>1, Counts
  <2>3. QED BY <2>1, <2>2 DEF Range
<1>8. CASE Keeps
  <2>1. T(m)' = T(m)
    BY <1>8, ToldCounts DEF Keeps
  <2>2. UNCHANGED held
    BY <1>8 DEF Keeps
  <2>3. /\ P(m)' = P(m) /\ H(m)' = H(m) /\ S(m)' = S(m)
        /\ F(m)' = F(m) /\ via' = via /\ spilled' = spilled
    BY <2>2 DEF held
  <2>4. QED BY <1>5, <1>6, <2>1, <2>3
<1>9. CASE Tells
  <2>1. P(m) = (IF m = Head(prompts) THEN 1 ELSE 0) + P(m)' /\ P(m)' \in Nat /\ Head(prompts) \in Msg
    BY <1>0, <1>9, HeadCounts DEF Tells
  <2>2. T(m)' = T(m) + (IF m = Head(prompts) THEN 1 ELSE 0)
    BY <1>9, <2>1, ToldCounts DEF Tells
  <2>3. H(m)' = H(m) /\ S(m)' = S(m) /\ F(m)' = F(m) /\ via' = via /\ spilled' = spilled
    BY <1>9 DEF Tells
  <2> HIDE DEF P, H, S, F, T
  <2>4. QED BY <1>5, <1>6, <2>1, <2>2, <2>3
<1>10. CASE Injects
  <2>1. H(m) = (IF m = Head(pending) THEN 1 ELSE 0) + H(m)' /\ H(m)' \in Nat /\ Head(pending) \in Msg
    BY <1>0, <1>10, HeadCounts DEF Injects
  <2>2. T(m)' = T(m) + (IF m = Head(pending) THEN 1 ELSE 0)
    BY <1>10, <2>1, ToldCounts DEF Injects
  <2>3. P(m)' = P(m) /\ S(m)' = S(m) /\ F(m)' = F(m) /\ via' = via /\ spilled' = spilled
    BY <1>10 DEF Injects
  <2> HIDE DEF P, H, S, F, T
  <2>4. QED BY <1>5, <1>6, <2>1, <2>2, <2>3
<1>11. CASE Polls
  <2>1. T(m)' = T(m) /\ via' = via /\ spilled' = spilled /\ P(m) = 0 /\ H(m) = 0
    BY <1>4, <1>11 DEF Polls
  <2>2. \/ P(m)' = P(m) /\ H(m)' + S(m)' = S(m) /\ F(m)' = F(m)
        \/ P(m)' = P(m) /\ H(m)' + F(m)' = F(m) /\ S(m)' = S(m)
        \/ H(m)' = H(m) /\ P(m)' + S(m)' = S(m) /\ F(m)' = F(m)
        \/ H(m)' = H(m) /\ P(m)' + F(m)' = F(m) /\ S(m)' = S(m)
    <3>1. /\ Count(m, pending' \o steering') = H(m)' + S(m)'
          /\ Count(m, pending' \o followUps') = H(m)' + F(m)'
          /\ Count(m, prompts' \o steering') = P(m)' + S(m)'
          /\ Count(m, prompts' \o followUps') = P(m)' + F(m)'
      BY <1>1, Counts
    <3>2. QED BY <1>11, <3>1 DEF Polls
  <2>3. P(m)' \in Nat /\ H(m)' \in Nat /\ S(m)' \in Nat /\ F(m)' \in Nat
    BY <1>1, Counts
  <2> HIDE DEF P, H, S, F, T
  <2>4. QED BY <1>5, <1>6, <2>1, <2>2, <2>3
<1>12. CASE Drops
  <2>1. P(m)' = 0 /\ H(m)' = 0 /\ S(m)' = S(m) /\ F(m)' = F(m) /\ via' = via
        /\ spilled' = spilled \cup Range(prompts) \cup Range(pending)
    BY <1>4, <1>12 DEF Drops
  <2>2. T(m)' = T(m)
    BY <1>12, ToldCounts DEF Drops
  <2>3. m \in spilled' <=> m \in spilled \/ P(m) > 0 \/ H(m) > 0
    BY <1>7, <2>1
  <2> HIDE DEF P, H, S, F, T
  <2>4. CASE P(m) > 0 \/ H(m) > 0
    <3>1. ~Gone(m) /\ S(m) + F(m) + T(m) = 0
      BY <1>6, <2>4
    <3>2. QED BY <1>6, <2>1, <2>2, <2>3, <2>4, <3>1
  <2>5. CASE ~(P(m) > 0 \/ H(m) > 0)
    <3>1. P(m) = 0 /\ H(m) = 0
      BY <1>6, <2>5
    <3>2. Gone(m)' <=> Gone(m)
      BY <2>1, <2>3, <2>5
    <3>3. QED BY <1>5, <1>6, <2>1, <2>2, <2>3, <2>5, <3>1, <3>2
  <2>6. QED BY <2>4, <2>5
<1>13. CASE Clears
  <2>1. P(m)' = P(m) /\ H(m)' = H(m) /\ S(m)' = 0 /\ F(m)' = 0 /\ T(m)' = T(m)
        /\ spilled' = spilled
        /\ via'[m] = IF S(m) + F(m) > 0 THEN "cleared" ELSE via[m]
    BY <1>4, <1>7, <1>13 DEF Clears
  <2> HIDE DEF P, H, S, F, T
  <2>2. CASE S(m) + F(m) > 0
    <3>1. P(m) + H(m) + T(m) = 0 /\ via'[m] = "cleared"
      BY <1>6, <2>1, <2>2
    <3>2. QED BY <1>6, <2>1, <3>1
  <2>3. CASE ~(S(m) + F(m) > 0)
    <3>1. S(m) = 0 /\ F(m) = 0 /\ via'[m] = via[m]
      BY <1>6, <2>1, <2>3
    <3>2. QED BY <1>5, <1>6, <2>1, <3>1
  <2>4. QED BY <2>2, <2>3
<1>14. ASSUME NEW n \in Msg, Submits(n)
       PROVE  /\ P(m)' + H(m)' + S(m)' + F(m)' + T(m)' = IF Gone(m)' THEN 0 ELSE 1
              /\ m \in spilled' => via'[m] # "none"
  <2>1. /\ H(m)' = H(m) /\ T(m)' = T(m) /\ spilled' = spilled /\ via[n] = "none"
        /\ \E how \in {"prompt", "steer", "follow-up"} : via' = [via EXCEPT ![n] = how]
    BY <1>14 DEF Submits, Submit
  <2>2. /\ Count(m, Append(steering, n)) = S(m) + (IF m = n THEN 1 ELSE 0)
        /\ Count(m, Append(followUps, n)) = F(m) + (IF m = n THEN 1 ELSE 0)
    BY <1>0, CountsAppend
  <2>3. \/ P(m) = 0 /\ P(m)' = (IF m = n THEN 1 ELSE 0) /\ S(m)' = S(m) /\ F(m)' = F(m)
        \/ P(m)' = P(m) /\ S(m)' = S(m) + (IF m = n THEN 1 ELSE 0) /\ F(m)' = F(m)
        \/ P(m)' = P(m) /\ S(m)' = S(m) /\ F(m)' = F(m) + (IF m = n THEN 1 ELSE 0)
    BY <1>4, <1>14, <2>2 DEF Submits
  <2> HIDE DEF P, H, S, F, T
  <2>4. P(m)' + H(m)' + S(m)' + F(m)' + T(m)'
          = P(m) + H(m) + S(m) + F(m) + T(m) + (IF m = n THEN 1 ELSE 0)
    BY <1>6, <2>1, <2>3
  <2>5. CASE m = n
    <3>1. Gone(m) /\ m \notin spilled /\ ~Gone(m)' /\ m \notin spilled'
      BY <1>0, <1>5, <2>1, <2>5
    <3>2. QED BY <1>6, <2>4, <2>5, <3>1
  <2>6. CASE m # n
    <3>1. via'[m] = via[m] /\ (Gone(m)' <=> Gone(m))
      BY <1>0, <2>1, <2>6
    <3>2. QED BY <1>5, <1>6, <2>1, <2>4, <2>6, <3>1
  <2>7. QED BY <2>5, <2>6
<1> QED BY <1>8, <1>9, <1>10, <1>11, <1>12, <1>13, <1>14 DEF Handles
-----------------------------------------------------------------------------
(* The order of the messages of a queue, wherever they are: told before     *)
(* those the loop holds, and these before those still queued.               *)
Ahead(v, m, n) == v[m] = v[n] /\ v[m] \in {"steer", "follow-up"} => m < n
Rising(v, q) == \A i, j \in DOMAIN q : i < j => Ahead(v, q[i], q[j])
Behind(v, M, N) == \A m \in M, n \in N : Ahead(v, m, n)
InLine(v, t) == \A p, q \in DOMAIN t :
                  p < q /\ t[p].kind = "user" /\ t[q].kind = "user" => Ahead(v, t[p].of, t[q].of)
Told(t) == {m \in Msg : \E p \in DOMAIN t : t[p] = User(m)}
Hands == Range(prompts) \cup Range(pending)
Ordered ==
  /\ InLine(via, transcript)
  /\ Rising(via, prompts) /\ Rising(via, pending) /\ Rising(via, steering) /\ Rising(via, followUps)
  /\ Behind(via, Told(transcript), Hands)
  /\ Behind(via, Told(transcript) \cup Hands, Range(steering) \cup Range(followUps))
  /\ \A m \in Range(steering) : via[m] = "steer"
  /\ \A m \in Range(followUps) : via[m] = "follow-up"
  /\ \A m \in Told(transcript) \cup Hands : via[m] # "none"
  /\ \A m, n \in Msg : m < n /\ via[m] = "none" => via[n] = "none"

(* A user message of the transcript is one that can be submitted.           *)
LEMMA UserItem ==
  ASSUME NEW x \in Items, x.kind = "user"
  PROVE  x.of \in Msg /\ x = User(x.of)
BY DEF Items, User, Answer, Result

(* An item that is emitted tells the message it is of, and no other.        *)
LEMMA ToldGrows ==
  ASSUME NEW t \in Seq(Items), NEW x \in Items
  PROVE  Told(Append(t, x)) = Told(t) \cup {m \in Msg : x = User(m)}
<1>1. /\ DOMAIN t = 1..Len(t) /\ DOMAIN Append(t, x) = 1..(Len(t) + 1) /\ Len(t) \in Nat
      /\ \A i \in 1..Len(t) : Append(t, x)[i] = t[i]
      /\ Append(t, x)[Len(t) + 1] = x
  BY Appended
<1>2. \A i \in 1..(Len(t) + 1) : i \in 1..Len(t) \/ i = Len(t) + 1
  BY <1>1
<1>3. 1..Len(t) \subseteq 1..(Len(t) + 1) /\ Len(t) + 1 \in 1..(Len(t) + 1)
  BY <1>1
<1> QED BY <1>1, <1>2, <1>3 DEF Told

(* A message told after those ahead of it keeps the transcript in line.     *)
LEMMA LineGrows ==
  ASSUME NEW v, NEW t \in Seq(Items), NEW x \in Items, InLine(v, t),
         x.kind = "user" => \A m \in Told(t) : Ahead(v, m, x.of)
  PROVE  InLine(v, Append(t, x))
<1>1. /\ DOMAIN t = 1..Len(t) /\ DOMAIN Append(t, x) = 1..(Len(t) + 1) /\ Len(t) \in Nat
      /\ \A i \in 1..Len(t) : Append(t, x)[i] = t[i]
      /\ Append(t, x)[Len(t) + 1] = x
  BY Appended
<1>2. SUFFICES ASSUME NEW p \in 1..(Len(t) + 1), NEW q \in 1..(Len(t) + 1), p < q,
                      Append(t, x)[p].kind = "user", Append(t, x)[q].kind = "user"
               PROVE  Ahead(v, Append(t, x)[p].of, Append(t, x)[q].of)
  BY <1>1 DEF InLine
<1>3. p \in 1..Len(t) /\ (q \in 1..Len(t) \/ q = Len(t) + 1)
  BY <1>1, <1>2
<1>4. CASE q \in 1..Len(t)
  BY <1>1, <1>2, <1>3, <1>4 DEF InLine
<1>5. CASE q = Len(t) + 1
  <2>1. t[p] \in Items /\ t[p].kind = "user" /\ Append(t, x)[p] = t[p]
    BY <1>1, <1>2, <1>3, ElementOfSeq
  <2>2. t[p].of \in Told(t)
    BY <1>1, <1>3, <2>1, UserItem DEF Told
  <2>3. QED BY <1>1, <1>2, <1>5, <2>1, <2>2
<1> QED BY <1>3, <1>4, <1>5

(* Two sequences are one rising line when each rises and the first is ahead *)
(* of the second.                                                           *)
LEMMA InParts ==
  ASSUME NEW v, NEW s \in Seq(Msg), NEW t \in Seq(Msg)
  PROVE  /\ Range(s \o t) = Range(s) \cup Range(t)
         /\ Range(s) \subseteq Msg
         /\ Rising(v, s \o t)
              <=> Rising(v, s) /\ Rising(v, t) /\ Behind(v, Range(s), Range(t))
<1> DEFINE r == s \o t
<1>1. /\ Len(s) \in Nat /\ DOMAIN s = 1..Len(s)
      /\ Len(t) \in Nat /\ DOMAIN t = 1..Len(t)
      /\ DOMAIN r = 1..(Len(s) + Len(t))
      /\ \A i \in 1..Len(s) : r[i] = s[i]
      /\ \A i \in 1..Len(t) : r[Len(s) + i] = t[i]
  <2>1. /\ Len(s) \in Nat /\ DOMAIN s = 1..Len(s)
        /\ Len(t) \in Nat /\ DOMAIN t = 1..Len(t)
        /\ r \in Seq(Msg) /\ Len(r) = Len(s) + Len(t)
        /\ \A i \in 1..(Len(s) + Len(t)) : r[i] = IF i <= Len(s) THEN s[i] ELSE t[i - Len(s)]
    BY ConcatProperties, LenProperties
  <2>2. DOMAIN r = 1..(Len(s) + Len(t))
    BY <2>1, LenProperties
  <2> HIDE DEF r
  <2>3. \A i \in 1..Len(s) : i \in 1..(Len(s) + Len(t)) /\ i <= Len(s)
    BY <2>1
  <2>4. \A i \in 1..Len(t) : /\ Len(s) + i \in 1..(Len(s) + Len(t)) /\ ~(Len(s) + i <= Len(s))
                             /\ (Len(s) + i) - Len(s) = i
    BY <2>1
  <2>5. QED BY <2>1, <2>2, <2>3, <2>4
<1> HIDE DEF r
<1>2. \A i \in 1..(Len(s) + Len(t)) :
        i \in 1..Len(s) \/ \E j \in 1..Len(t) : i = Len(s) + j
  <2>1. SUFFICES ASSUME NEW i \in 1..(Len(s) + Len(t)), i \notin 1..Len(s)
                 PROVE  \E j \in 1..Len(t) : i = Len(s) + j
    OBVIOUS
  <2>2. i - Len(s) \in 1..Len(t) /\ i = Len(s) + (i - Len(s))
    BY <1>1, <2>1
  <2>3. QED BY <2>2
<1>3. /\ \A i \in 1..Len(s) : i \in 1..(Len(s) + Len(t))
      /\ \A j \in 1..Len(t) : Len(s) + j \in 1..(Len(s) + Len(t))
      /\ \A i \in 1..Len(s), j \in 1..Len(t) : i < Len(s) + j /\ ~(Len(s) + j < i)
      /\ \A i, j \in 1..Len(t) : Len(s) + i < Len(s) + j <=> i < j
  BY <1>1
<1>4. Range(r) = Range(s) \cup Range(t)
  <2>1. /\ Range(r) = {r[i] : i \in 1..(Len(s) + Len(t))}
        /\ Range(s) = {s[i] : i \in 1..Len(s)} /\ Range(t) = {t[i] : i \in 1..Len(t)}
    BY <1>1 DEF Range
  <2>2. ASSUME NEW i \in 1..(Len(s) + Len(t)) PROVE r[i] \in Range(s) \cup Range(t)
    BY <1>1, <1>2, <2>1
  <2>3. \A i \in 1..Len(s) : s[i] \in Range(r)
    BY <1>1, <1>3, <2>1
  <2>4. \A i \in 1..Len(t) : t[i] \in Range(r)
    BY <1>1, <1>3, <2>1
  <2>5. QED BY <2>1, <2>2, <2>3, <2>4
<1>5. Range(s) \subseteq Msg
  BY <1>1, ElementOfSeq DEF Range
<1>6. ASSUME Rising(v, r) PROVE Rising(v, s) /\ Rising(v, t) /\ Behind(v, Range(s), Range(t))
  <2>1. \A i, j \in 1..(Len(s) + Len(t)) : i < j => Ahead(v, r[i], r[j])
    BY <1>1, <1>6 DEF Rising
  <2>2. Rising(v, s)
    BY <1>1, <1>3, <2>1 DEF Rising
  <2>3. Rising(v, t)
    <3>1. SUFFICES ASSUME NEW i \in 1..Len(t), NEW j \in 1..Len(t), i < j
                   PROVE  Ahead(v, t[i], t[j])
      BY <1>1 DEF Rising
    <3>2. Ahead(v, r[Len(s) + i], r[Len(s) + j])
      BY <1>3, <2>1, <3>1
    <3>3. QED BY <1>1, <3>2
  <2>4. ASSUME NEW i \in 1..Len(s), NEW j \in 1..Len(t) PROVE Ahead(v, s[i], t[j])
    <3>1. Ahead(v, r[i], r[Len(s) + j])
      BY <1>3, <2>1
    <3>2. QED BY <1>1, <3>1
  <2>5. QED BY <1>1, <2>2, <2>3, <2>4 DEF Behind, Range
<1>7. ASSUME Rising(v, s), Rising(v, t), Behind(v, Range(s), Range(t)) PROVE Rising(v, r)
  <2>1. SUFFICES ASSUME NEW i \in 1..(Len(s) + Len(t)), NEW j \in 1..(Len(s) + Len(t)), i < j
                 PROVE  Ahead(v, r[i], r[j])
    BY <1>1 DEF Rising
  <2>2. CASE i \in 1..Len(s) /\ j \in 1..Len(s)
    BY <1>1, <1>7, <2>1, <2>2 DEF Rising
  <2>3. ASSUME NEW b \in 1..Len(t), j = Len(s) + b PROVE Ahead(v, r[i], r[j])
    <3>1. CASE i \in 1..Len(s)
      <4>1. Ahead(v, s[i], t[b])
        BY <1>1, <1>7, <3>1 DEF Behind, Range
      <4>2. QED BY <1>1, <2>3, <3>1, <4>1
    <3>2. ASSUME NEW a \in 1..Len(t), i = Len(s) + a PROVE Ahead(v, r[i], r[j])
      <4>1. a < b
        BY <1>3, <2>1, <2>3, <3>2
      <4>2. Ahead(v, t[a], t[b])
        BY <1>1, <1>7, <4>1 DEF Rising
      <4>3. QED BY <1>1, <2>3, <3>2, <4>2
    <3>3. QED BY <1>2, <3>1, <3>2
  <2>4. i \in 1..Len(s) \/ j \notin 1..Len(s)
    BY <1>1, <2>1
  <2>5. QED BY <1>2, <2>2, <2>3, <2>4
<1> QED BY <1>4, <1>5, <1>6, <1>7 DEF r

(* A message alone, and no message, are in line.                            *)
LEMMA OneInLine ==
  ASSUME NEW v, NEW m \in Msg
  PROVE  /\ Range(<<m>>) = {m} /\ Rising(v, <<m>>)
         /\ Range(<<>>) = {} /\ Rising(v, <<>>)
<1>1. DOMAIN <<m>> = {1} /\ <<m>>[1] = m /\ DOMAIN <<>> = {}
  OBVIOUS
<1> QED BY <1>1 DEF Range, Rising

(* The head of a rising line is ahead of the rest.                          *)
LEMMA HeadFirst ==
  ASSUME NEW v, NEW q \in Seq(Msg), q # <<>>, Rising(v, q)
  PROVE  /\ Head(q) \in Msg /\ Tail(q) \in Seq(Msg)
         /\ Range(q) = {Head(q)} \cup Range(Tail(q)) /\ Range(Tail(q)) \subseteq Msg
         /\ Rising(v, Tail(q)) /\ \A n \in Range(Tail(q)) : Ahead(v, Head(q), n)
<1>1. Head(q) \in Msg /\ Tail(q) \in Seq(Msg) /\ <<Head(q)>> \in Seq(Msg)
  BY HeadTailProperties
<1>2. <<>> \o q = Append(<<>>, Head(q)) \o Tail(q)
  BY Passes, EmptySeq
<1>3. q = <<Head(q)>> \o Tail(q)
  BY <1>2, ConcatEmptySeq
<1>4. /\ Range(<<Head(q)>> \o Tail(q)) = Range(<<Head(q)>>) \cup Range(Tail(q))
      /\ Rising(v, <<Head(q)>> \o Tail(q)) =>
           Rising(v, Tail(q)) /\ Behind(v, Range(<<Head(q)>>), Range(Tail(q)))
  BY <1>1, InParts
<1>5. Range(<<Head(q)>>) = {Head(q)} /\ Range(Tail(q)) \subseteq Msg
  BY <1>1, OneInLine, InParts
<1>6. Rising(v, Tail(q)) /\ Behind(v, {Head(q)}, Range(Tail(q)))
  BY <1>3, <1>4, <1>5
<1>7. Range(q) = {Head(q)} \cup Range(Tail(q))
  BY <1>3, <1>4, <1>5
<1> QED BY <1>1, <1>5, <1>6, <1>7 DEF Behind

(* An item of another kind leaves the messages told as they are.            *)
LEMMA SaysNoMessage ==
  ASSUME TypeOK, Says, InLine(via, transcript)
  PROVE  InLine(via, transcript') /\ Told(transcript') = Told(transcript)
<1>1. transcript \in Seq(Items)
  BY DEF TypeOK
<1>2. ASSUME NEW x \in Items, x.kind # "user", transcript' = Append(transcript, x)
      PROVE  InLine(via, transcript') /\ Told(transcript') = Told(transcript)
  <2>1. InLine(via, transcript')
    BY <1>1, <1>2, LineGrows
  <2>2. {m \in Msg : x = User(m)} = {}
    BY <1>2, ItemsAre
  <2>3. QED BY <1>1, <1>2, <2>1, <2>2, ToldGrows
<1> QED BY <1>2 DEF Says

(* A message told after those ahead of it.                                  *)
LEMMA MessageTold ==
  ASSUME TypeOK, InLine(via, transcript), NEW h \in Msg, transcript' = Append(transcript, User(h)),
         \A m \in Told(transcript) : Ahead(via, m, h)
  PROVE  InLine(via, transcript') /\ Told(transcript') = Told(transcript) \cup {h}
<1>1. transcript \in Seq(Items) /\ User(h) \in Items /\ User(h).of = h
  BY ItemsAre DEF TypeOK
<1>2. InLine(via, transcript')
  BY <1>1, LineGrows
<1>3. {m \in Msg : User(h) = User(m)} = {h}
  BY ItemsAre
<1> QED BY <1>1, <1>2, <1>3, ToldGrows

(* Ordered is kept however the messages are handled: they move from the     *)
(* queue to the hands of the loop to the transcript from the front, and a   *)
(* message submitted comes last.                                            *)
LEMMA OrderedStep ==
  ASSUME TypeOK, Ordered, Handles
  PROVE  Ordered'
<1>0. /\ transcript \in Seq(Items)
      /\ prompts \in Seq(Msg) /\ pending \in Seq(Msg)
      /\ steering \in Seq(Msg) /\ followUps \in Seq(Msg)
      /\ via \in [Msg -> {"none", "prompt", "steer", "follow-up", "cleared"}]
  BY DEF TypeOK
<1>1. /\ InLine(via, transcript)
      /\ Rising(via, prompts) /\ Rising(via, pending) /\ Rising(via, steering) /\ Rising(via, followUps)
      /\ \A m \in Told(transcript), n \in Hands : Ahead(via, m, n)
      /\ \A m \in Told(transcript) \cup Hands, n \in Range(steering) \cup Range(followUps) :
           Ahead(via, m, n)
      /\ \A m \in Range(steering) : via[m] = "steer"
      /\ \A m \in Range(followUps) : via[m] = "follow-up"
      /\ \A m \in Told(transcript) \cup Hands : via[m] # "none"
      /\ \A m, n \in Msg : m < n /\ via[m] = "none" => via[n] = "none"
  BY DEF Ordered, Behind
<1>2. Told(transcript) \subseteq Msg /\ Range(<<>>) = {} /\ \A v : Rising(v, <<>>)
  BY DEF Told, Range, Rising
<1>3. /\ Range(prompts) \subseteq Msg /\ Range(pending) \subseteq Msg
      /\ Range(steering) \subseteq Msg /\ Range(followUps) \subseteq Msg
  BY <1>0, InParts
(* The messages stay where they are, or move to an earlier place in line.   *)
<1>4. ASSUME UNCHANGED via, InLine(via, transcript'),
             Rising(via, prompts'), Rising(via, pending'),
             Rising(via, steering'), Rising(via, followUps'),
             \A m \in Told(transcript'), n \in Hands' : Ahead(via, m, n),
             \A m \in Told(transcript') \cup Hands', n \in Range(steering') \cup Range(followUps') :
               Ahead(via, m, n),
             Range(steering') \subseteq Range(steering), Range(followUps') \subseteq Range(followUps),
             \A m \in Told(transcript') \cup Hands' : via[m] # "none"
      PROVE  Ordered'
  BY <1>1, <1>4 DEF Ordered, Behind
<1>5. CASE Keeps
  <2>1. /\ InLine(via, transcript') /\ Told(transcript') = Told(transcript) /\ via' = via
        /\ prompts' = prompts /\ pending' = pending /\ steering' = steering /\ followUps' = followUps
    BY <1>1, <1>5, SaysNoMessage DEF Keeps, held
  <2>2. Hands' = Hands
    BY <2>1 DEF Hands
  <2>3. QED BY <1>1, <1>4, <2>1, <2>2
<1>6. CASE Drops
  <2>1. /\ InLine(via, transcript') /\ Told(transcript') = Told(transcript) /\ via' = via
        /\ prompts' = <<>> /\ pending' = <<>> /\ steering' = steering /\ followUps' = followUps
    BY <1>1, <1>6, SaysNoMessage DEF Drops
  <2>2. Hands' = {}
    BY <1>2, <2>1 DEF Hands
  <2>3. QED BY <1>1, <1>2, <1>4, <2>1, <2>2
(* The first message the loop holds is told.                                *)
<1>7. ASSUME NEW q \in Seq(Msg), q # <<>>, Rising(via, q), Range(q) = Hands, Hands' = Range(Tail(q)),
             transcript' = Append(transcript, User(Head(q))), UNCHANGED <<via, steering, followUps>>,
             Rising(via, prompts'), Rising(via, pending')
      PROVE  Ordered'
  <2>1. /\ Head(q) \in Msg /\ Range(q) = {Head(q)} \cup Range(Tail(q))
        /\ \A n \in Range(Tail(q)) : Ahead(via, Head(q), n)
    BY <1>7, HeadFirst
  <2>2. InLine(via, transcript') /\ Told(transcript') = Told(transcript) \cup {Head(q)}
    BY <1>1, <1>7, <2>1, MessageTold
  <2>3. Head(q) \in Hands /\ Hands' \subseteq Hands
    BY <1>7, <2>1
  <2>4. \A m \in Told(transcript'), n \in Hands' : Ahead(via, m, n)
    BY <1>1, <1>7, <2>1, <2>2, <2>3
  <2>5. Told(transcript') \cup Hands' \subseteq Told(transcript) \cup Hands
    BY <2>2, <2>3
  <2>6. via' = via /\ steering' = steering /\ followUps' = followUps
    BY <1>7
  <2>7. QED BY <1>1, <1>4, <1>7, <2>2, <2>4, <2>5, <2>6
<1>8. CASE Tells
  <2>1. /\ prompts # <<>> /\ pending = <<>> /\ prompts' = Tail(prompts) /\ pending' = <<>>
        /\ transcript' = Append(transcript, User(Head(prompts)))
        /\ UNCHANGED <<via, steering, followUps>>
    BY <1>8 DEF Tells
  <2>2. Hands = Range(prompts) /\ Hands' = Range(Tail(prompts))
    BY <1>2, <2>1 DEF Hands
  <2>3. Rising(via, prompts') /\ Rising(via, pending')
    BY <1>0, <1>1, <1>2, <2>1, HeadFirst
  <2>4. QED BY <1>0, <1>1, <1>7, <2>1, <2>2, <2>3
<1>9. CASE Injects
  <2>1. /\ pending # <<>> /\ prompts = <<>> /\ pending' = Tail(pending) /\ prompts' = <<>>
        /\ transcript' = Append(transcript, User(Head(pending)))
        /\ UNCHANGED <<via, steering, followUps>>
    BY <1>9 DEF Injects
  <2>2. Hands = Range(pending) /\ Hands' = Range(Tail(pending))
    BY <1>2, <2>1 DEF Hands
  <2>3. Rising(via, pending') /\ Rising(via, prompts')
    BY <1>0, <1>1, <1>2, <2>1, HeadFirst
  <2>4. QED BY <1>0, <1>1, <1>7, <2>1, <2>2, <2>3
(* The front of a queue is taken into the hands of the loop.                *)
<1>10. ASSUME NEW hand \in Seq(Msg), NEW left \in Seq(Msg), hand \o left = steering,
              Hands = {}, Hands' = Range(hand), steering' = left, followUps' = followUps,
              UNCHANGED <<transcript, via>>,
              Rising(via, hand) => Rising(via, prompts') /\ Rising(via, pending')
       PROVE  Ordered'
  <2>1. /\ Range(steering) = Range(hand) \cup Range(left)
        /\ Rising(via, hand) /\ Rising(via, left) /\ Behind(via, Range(hand), Range(left))
    BY <1>1, <1>10, InParts
  <2>2. \A m \in Range(hand), n \in Range(followUps) : Ahead(via, m, n)
    BY <1>1, <2>1 DEF Ahead
  <2>3. \A m \in Range(hand), n \in Range(left) : Ahead(via, m, n)
    BY <2>1 DEF Behind
  <2>4. \A m \in Range(hand) : via[m] = "steer"
    BY <1>1, <2>1
  <2>5. via' = via /\ transcript' = transcript /\ Range(left) \subseteq Range(steering)
        /\ Range(hand) \subseteq Range(steering)
    BY <1>10, <2>1
  <2>6. QED BY <1>1, <1>4, <1>10, <2>1, <2>2, <2>3, <2>4, <2>5
<1>11. ASSUME NEW hand \in Seq(Msg), NEW left \in Seq(Msg), hand \o left = followUps,
              Hands = {}, Hands' = Range(hand), followUps' = left, steering' = steering,
              UNCHANGED <<transcript, via>>,
              Rising(via, hand) => Rising(via, prompts') /\ Rising(via, pending')
       PROVE  Ordered'
  <2>1. /\ Range(followUps) = Range(hand) \cup Range(left)
        /\ Rising(via, hand) /\ Rising(via, left) /\ Behind(via, Range(hand), Range(left))
    BY <1>1, <1>11, InParts
  <2>2. \A m \in Range(hand), n \in Range(steering) : Ahead(via, m, n)
    BY <1>1, <2>1 DEF Ahead
  <2>3. \A m \in Range(hand), n \in Range(left) : Ahead(via, m, n)
    BY <2>1 DEF Behind
  <2>4. \A m \in Range(hand) : via[m] = "follow-up"
    BY <1>1, <2>1
  <2>5. via' = via /\ transcript' = transcript /\ Range(left) \subseteq Range(followUps)
        /\ Range(hand) \subseteq Range(followUps)
    BY <1>11, <2>1
  <2>6. QED BY <1>1, <1>4, <1>11, <2>1, <2>2, <2>3, <2>4, <2>5
<1>12. CASE Polls
  <2>1. /\ pending = <<>> /\ prompts = <<>> /\ UNCHANGED <<transcript, via>>
        /\ prompts' \in Seq(Msg) /\ pending' \in Seq(Msg)
        /\ steering' \in Seq(Msg) /\ followUps' \in Seq(Msg)
    BY <1>12 DEF Polls
  <2>2. Hands = {} /\ (pending' = <<>> => Hands' = Range(prompts'))
        /\ (prompts' = <<>> => Hands' = Range(pending'))
    BY <1>2, <2>1 DEF Hands
  <2>3. CASE prompts' = prompts /\ pending' \o steering' = steering /\ followUps' = followUps
    BY <1>2, <1>10, <2>1, <2>2, <2>3
  <2>4. CASE prompts' = prompts /\ pending' \o followUps' = followUps /\ steering' = steering
    BY <1>2, <1>11, <2>1, <2>2, <2>4
  <2>5. CASE pending' = pending /\ prompts' \o steering' = steering /\ followUps' = followUps
    BY <1>2, <1>10, <2>1, <2>2, <2>5
  <2>6. CASE pending' = pending /\ prompts' \o followUps' = followUps /\ steering' = steering
    BY <1>2, <1>11, <2>1, <2>2, <2>6
  <2>7. QED BY <1>12, <2>3, <2>4, <2>5, <2>6 DEF Polls
(* The queues are emptied.                                                  *)
<1>13. CASE Clears
  <2>1. /\ UNCHANGED <<transcript, prompts, pending>> /\ steering' = <<>> /\ followUps' = <<>>
        /\ via' = [m \in Msg |-> IF m \in Range(steering \o followUps) THEN "cleared" ELSE via[m]]
    BY <1>13 DEF Clears
  <2>2. Range(steering \o followUps) = Range(steering) \cup Range(followUps)
    BY <1>0, InParts
  <2>3. \A m \in Msg : via'[m] = via[m] \/ (via'[m] = "cleared" /\ via[m] # "none")
    BY <1>1, <2>1, <2>2
  <2>4. \A m, n \in Msg : Ahead(via, m, n) => Ahead(via', m, n)
    BY <2>3 DEF Ahead
  <2>5. InLine(via', transcript')
    <3>1. \A p \in DOMAIN transcript : transcript[p].kind = "user" => transcript[p].of \in Msg
      <4>1. \A p \in DOMAIN transcript : transcript[p] \in Items
        BY <1>0, ElementOfSeq, LenProperties
      <4>2. QED BY <4>1, UserItem
    <3>2. QED BY <1>1, <2>1, <2>4, <3>1 DEF InLine
  <2>6. ASSUME NEW q \in Seq(Msg), Rising(via, q) PROVE Rising(via', q)
    <3>1. \A i \in DOMAIN q : q[i] \in Msg
      BY ElementOfSeq, LenProperties
    <3>2. QED BY <2>4, <2>6, <3>1 DEF Rising
  <2>7. /\ Rising(via', prompts') /\ Rising(via', pending')
        /\ Rising(via', steering') /\ Rising(via', followUps')
    BY <1>0, <1>1, <1>2, <2>1, <2>6
  <2>8. Hands' = Hands /\ Told(transcript') = Told(transcript) /\ Hands \subseteq Msg
    BY <1>3, <2>1 DEF Hands
  <2>9. \A m \in Told(transcript'), n \in Hands' : Ahead(via', m, n)
    BY <1>1, <1>2, <2>4, <2>8
  <2>10. Range(steering') = {} /\ Range(followUps') = {}
    BY <1>2, <2>1
  <2>11. \A m \in Told(transcript') \cup Hands' : via'[m] # "none"
    BY <1>1, <1>2, <2>3, <2>8
  <2>12. \A m, n \in Msg : m < n /\ via'[m] = "none" => via'[n] = "none"
    BY <1>1, <2>3
  <2>13. QED BY <2>5, <2>7, <2>9, <2>10, <2>11, <2>12 DEF Ordered, Behind
(* A message is submitted: it comes after all that were.                    *)
<1>14. ASSUME NEW m \in Msg, Submits(m) PROVE Ordered'
  <2>1. PICK how \in {"prompt", "steer", "follow-up"} :
          /\ via[m] = "none" /\ \A n \in 1..(m - 1) : via[n] # "none"
          /\ via' = [via EXCEPT ![m] = how]
          /\ \/ how = "prompt" /\ prompts = <<>> /\ prompts' = <<m>> /\ UNCHANGED <<steering, followUps>>
             \/ how = "steer" /\ steering' = Append(steering, m) /\ UNCHANGED <<prompts, followUps>>
             \/ how = "follow-up" /\ followUps' = Append(followUps, m) /\ UNCHANGED <<prompts, steering>>
          /\ UNCHANGED <<transcript, pending>>
    BY <1>14 DEF Submits, Submit
  <2>2. via'[m] = how /\ \A n \in Msg : n # m => via'[n] = via[n]
    BY <1>0, <2>1
  <2> DEFINE Known == {n \in Msg : via[n] # "none"}
  <2>3. \A n \in Known : n < m /\ n # m /\ via'[n] = via[n]
    <3>1. \A n \in Msg : n < m \/ n = m \/ m < n
      BY DEF Msg
    <3>2. QED BY <1>1, <2>1, <2>2, <3>1
  <2>4. /\ Told(transcript) \subseteq Known /\ Hands \subseteq Known
        /\ Range(steering) \subseteq Known /\ Range(followUps) \subseteq Known
    BY <1>1, <1>2, <1>3 DEF Hands
  <2>5. \A a, b \in Known : Ahead(via, a, b) => Ahead(via', a, b)
    BY <2>3 DEF Ahead
  <2>6. \A a \in Known : Ahead(via', a, m)
    BY <2>3 DEF Ahead
  <2>7. how = "prompt" => \A b \in Known : via[b] \in {"steer", "follow-up"} => Ahead(via', m, b)
    BY <2>2, <2>3 DEF Ahead
  <2> HIDE DEF Known
  <2>8. InLine(via', transcript')
    <3>1. \A p \in DOMAIN transcript : transcript[p].kind = "user" => transcript[p].of \in Known
      <4>1. \A p \in DOMAIN transcript : transcript[p] \in Items
        BY <1>0, ElementOfSeq, LenProperties
      <4>2. ASSUME NEW p \in DOMAIN transcript, transcript[p].kind = "user"
            PROVE  transcript[p].of \in Told(transcript)
        BY <4>1, <4>2, UserItem DEF Told
      <4>3. QED BY <2>4, <4>2
    <3>2. QED BY <1>1, <2>1, <2>5, <3>1 DEF InLine
  <2>9. ASSUME NEW q \in Seq(Msg), Rising(via, q), Range(q) \subseteq Known PROVE Rising(via', q)
    <3>1. \A i \in DOMAIN q : q[i] \in Known
      BY <2>9 DEF Range
    <3>2. QED BY <2>5, <2>9, <3>1 DEF Rising
  <2>10. ASSUME NEW q \in Seq(Msg), Rising(via, q), Range(q) \subseteq Known
         PROVE  Rising(via', Append(q, m)) /\ Range(Append(q, m)) = Range(q) \cup {m}
    <3>1. Append(q, m) = q \o <<m>> /\ <<m>> \in Seq(Msg)
      BY AppendIsConcat
    <3>2. Rising(via', q) /\ Rising(via', <<m>>) /\ Range(<<m>>) = {m}
      BY <2>9, <2>10, OneInLine
    <3>3. Behind(via', Range(q), {m})
      BY <2>6, <2>10 DEF Behind
    <3>4. /\ Range(q \o <<m>>) = Range(q) \cup Range(<<m>>)
          /\ Rising(via', q) /\ Rising(via', <<m>>) /\ Behind(via', Range(q), Range(<<m>>))
               => Rising(via', q \o <<m>>)
      BY <3>1, InParts
    <3>5. QED BY <3>1, <3>2, <3>3, <3>4
  <2>11. /\ Rising(via', prompts') /\ Rising(via', pending')
         /\ Rising(via', steering') /\ Rising(via', followUps')
    <3>1. /\ Range(prompts) \subseteq Known /\ Range(pending) \subseteq Known
      BY <2>4 DEF Hands
    <3>2. /\ Rising(via', prompts) /\ Rising(via', pending) /\ Rising(via', steering)
          /\ Rising(via', followUps) /\ Rising(via', <<m>>)
      BY <1>0, <1>1, <2>4, <2>9, <3>1, OneInLine
    <3>3. Rising(via', Append(steering, m)) /\ Rising(via', Append(followUps, m))
      BY <1>0, <1>1, <2>4, <2>10
    <3>4. QED BY <2>1, <3>2, <3>3
  <2>12. /\ how = "prompt" => Hands' = Hands \cup {m} /\ UNCHANGED <<steering, followUps>>
         /\ how = "steer" => /\ Hands' = Hands /\ Range(steering') = Range(steering) \cup {m}
                             /\ followUps' = followUps
         /\ how = "follow-up" => /\ Hands' = Hands /\ Range(followUps') = Range(followUps) \cup {m}
                                 /\ steering' = steering
    <3>1. /\ Range(Append(steering, m)) = Range(steering) \cup {m}
          /\ Range(Append(followUps, m)) = Range(followUps) \cup {m}
      BY <1>0, <1>1, <2>4, <2>10
    <3>2. Range(<<m>>) = {m}
      BY OneInLine
    <3>3. QED BY <1>2, <2>1, <3>1, <3>2 DEF Hands
  <2>13. Told(transcript') = Told(transcript)
    BY <2>1
  <2>14. \A a \in Told(transcript'), b \in Hands' : Ahead(via', a, b)
    BY <1>1, <2>4, <2>5, <2>6, <2>12, <2>13
  <2>15. \A a \in Told(transcript') \cup Hands', b \in Range(steering') \cup Range(followUps') :
           Ahead(via', a, b)
    <3>1. \A a \in Told(transcript) \cup Hands, b \in Range(steering) \cup Range(followUps) :
            Ahead(via', a, b)
      BY <1>1, <2>4, <2>5
    <3>2. how = "prompt" => \A b \in Range(steering) \cup Range(followUps) : Ahead(via', m, b)
      BY <1>1, <2>4, <2>7
    <3>3. \A a \in Told(transcript) \cup Hands : Ahead(via', a, m)
      BY <2>4, <2>6
    <3>4. QED BY <2>12, <2>13, <3>1, <3>2, <3>3
  <2>16. /\ \A b \in Range(steering') : via'[b] = "steer"
         /\ \A b \in Range(followUps') : via'[b] = "follow-up"
    BY <1>1, <2>2, <2>3, <2>4, <2>12
  <2>17. \A a \in Told(transcript') \cup Hands' : via'[a] # "none"
    BY <1>1, <2>2, <2>3, <2>4, <2>12, <2>13
  <2>18. ASSUME NEW a \in Msg, NEW b \in Msg, a < b, via'[a] = "none" PROVE via'[b] = "none"
    <3>1. a # m /\ via[a] = "none"
      BY <2>2, <2>18
    <3>2. b # m
      <4>1. b = m => a \in 1..(m - 1)
        BY <2>18 DEF Msg
      <4>2. QED BY <2>1, <3>1, <4>1
    <3>3. QED BY <1>1, <2>2, <2>18, <3>1, <3>2
  <2>19. QED BY <2>8, <2>11, <2>14, <2>15, <2>16, <2>17, <2>18 DEF Ordered, Behind
<1> QED BY <1>5, <1>6, <1>8, <1>9, <1>12, <1>13, <1>14 DEF Handles
-----------------------------------------------------------------------------
IInv == TypeOK /\ Phases /\ Batched /\ Agreed /\ Followed /\ Placed /\ Ordered

(* Every variable keeps its type.                                           *)
LEMMA TypeStep ==
  ASSUME TypeOK, Phases, Batched, Agreed, Followed, [Next]_vars
  PROVE  TypeOK'
<1>1. /\ transcript' \in Seq(Items)
      /\ prompts' \in Seq(Msg) /\ pending' \in Seq(Msg)
      /\ steering' \in Seq(Msg) /\ followUps' \in Seq(Msg)
      /\ via' \in [Msg -> {"none", "prompt", "steer", "follow-up", "cleared"}]
      /\ spilled' \subseteq Msg
  BY Handling, MessagesTyped
<1>2. context' \in Seq(Items)
  BY AgreedStep
<1>3. Sound(batch')
  BY BatchedStep
<1>4. Flags'
  BY FlagsStep
<1>5. cut' \subseteq Nat
  <2>1. cut' = cut \/ (pc \in Batching /\ cut' = cut \cup {LastAnswer})
    <3>1. CASE Calls
      BY <3>1, BatchMoves DEF InBatch
    <3>2. QED BY <3>1, AnswerSteps DEF Quiet, Adds, Asks, Closes, Outside
  <2>2. pc \in Batching => LastAnswer \in Nat
    BY LastAnswerIs
  <2>3. QED BY <2>1, <2>2 DEF TypeOK
<1> QED BY <1>1, <1>2, <1>3, <1>4, <1>5 DEF TypeOK, Sound, BatchOf, Flags

(* The agent begins idle, with nothing submitted.                           *)
LEMMA InvInit == Init => IInv
<1> SUFFICES ASSUME Init PROVE IInv
  OBVIOUS
<1>1. /\ pc = "idle" /\ transcript = <<>> /\ context = <<>> /\ prompts = <<>> /\ pending = <<>>
      /\ steering = <<>> /\ followUps = <<>> /\ batch = Batch(0) /\ via = [m \in Msg |-> "none"]
      /\ spilled = {} /\ cut = {} /\ failed = FALSE /\ ends = 0
  BY DEF Init, NoBatch
<1>2. TypeOK
  <2>1. /\ pc \in Points /\ {more, skip, aborted, failed} \subseteq BOOLEAN /\ ends \in 0..2
        /\ batches \in 0..MaxBatches /\ faults \in 0..MaxFaults
    <3>1. /\ more = FALSE /\ skip = FALSE /\ aborted = FALSE
          /\ failed = FALSE /\ batches = 0 /\ faults = 0
      BY DEF Init
    <3>2. MaxBatches \in Nat /\ MaxFaults \in Nat
      BY RunAssumption
    <3>3. pc \in Points
      BY <1>1 DEF Points
    <3>4. {more, skip, aborted, failed} \subseteq BOOLEAN
      BY <3>1
    <3>5. ends \in 0..2 /\ batches \in 0..MaxBatches /\ faults \in 0..MaxFaults
      BY <1>1, <3>1, <3>2
    <3>6. QED BY <3>3, <3>4, <3>5
  <2>2. <<>> \in Seq(Items) /\ <<>> \in Seq(Msg)
    OBVIOUS
  <2>3. /\ batch \in BatchOf /\ batch.given <= batch.next /\ batch.next <= batch.asked
        /\ batch.open \subseteq 1..batch.next
    BY <1>1, RunAssumption DEF Batch, BatchOf
  <2>4. via \in [Msg -> {"none", "prompt", "steer", "follow-up", "cleared"}]
    BY <1>1
  <2>5. QED BY <1>1, <2>1, <2>2, <2>3, <2>4 DEF TypeOK, BatchOf
<1>3. Phases /\ Batched
  BY <1>1 DEF Phases, Batched, Opening
<1>4. Agreed
  BY <1>1 DEF Agreed, Opening, Batching, Between
<1>5. DOMAIN transcript = {} /\ Range(<<>>) = {}
  BY <1>1 DEF Range
<1>6. Followed
  BY <1>1, <1>5 DEF Followed, ResultsFollow, Batching, Answers
<1>7. Placed
  <2>1. prompts \o pending \o steering \o followUps = <<>>
    BY <1>1
  <2>2. \A m \in Msg : Count(m, <<>>) = 0 /\ Count(User(m), <<>>) = 0
    BY CountsOne
  <2>3. \A m \in Msg : via[m] = "none"
    BY <1>1
  <2>4. QED BY <1>1, <2>1, <2>2, <2>3 DEF Placed, OncePlaced
<1>8. Ordered
  BY <1>1, <1>5 DEF Ordered, InLine, Rising, Behind, Told, Hands
<1> QED BY <1>2, <1>3, <1>4, <1>6, <1>7, <1>8 DEF IInv

(* The invariant is kept by every step of the callers and of the loop.      *)
LEMMA InvStep == IInv /\ [Next]_vars => IInv'
<1> SUFFICES ASSUME IInv, [Next]_vars PROVE IInv'
  OBVIOUS
<1>1. TypeOK /\ Phases /\ Batched /\ Agreed /\ Followed /\ Placed /\ Ordered
  BY DEF IInv
<1>2. Handles
  BY <1>1, Handling
<1>3. TypeOK'
  BY <1>1, TypeStep
<1>4. Phases' /\ Batched' /\ Agreed' /\ Followed'
  BY <1>1, PhasesStep, BatchedStep, AgreedStep, FollowedStep
<1>5. Placed' /\ Ordered'
  BY <1>1, <1>2, PlacedStep, OrderedStep
<1> QED BY <1>3, <1>4, <1>5 DEF IInv

(* The invariant holds in every state of every run of the agent.            *)
LEMMA Invariant == Spec => []IInv
BY InvInit, InvStep, PTL DEF Spec

(* What the model is asked with, and what agent_end reports, is what the    *)
(* listeners were given: runLoop and processEvents keep two lists that      *)
(* agree.                                                                   *)
THEOREM ContextAgreesHolds == Spec => []ContextAgrees
<1>1. IInv => ContextAgrees
  BY DEF IInv, Agreed, Between, ContextAgrees
<1> QED BY <1>1, Invariant, PTL

(* Every result stands behind the answer that asked for it, at the place of *)
(* its call, and every call has its result unless its batch was cut off.    *)
THEOREM ResultsFollowHold == Spec => []ResultsFollow
<1>1. IInv => ResultsFollow
  BY DEF IInv, Followed
<1> QED BY <1>1, Invariant, PTL

(* A message submitted is in one place and once - a queue, the hands of the *)
(* loop or the transcript - and those of a queue enter the transcript in the*)
(* order in which they were queued.                                         *)
THEOREM ConsistentHolds == Spec => []Consistent
<1>1. IInv => Consistent
  <2>1. Ordered => QueuesInOrder
    BY DEF Ordered, InLine, Ahead, QueuesInOrder
  <2>2. QED BY <2>1 DEF IInv, Placed, Consistent
<1> QED BY <1>1, Invariant, PTL
-----------------------------------------------------------------------------
(* Abort.                                                                  *)

Batches == [asked : Nat, next : Nat, open : SUBSET Nat, given : Nat, refused : BOOLEAN]
BatchTyped == batch \in Batches

(* Looking at a call, and emitting a result, keep the record one of its     *)
(* type; only a call let through joins the open ones.                       *)
LEMMA LookedAt == ASSUME BatchTyped
                  PROVE  /\ Refused \in Batches /\ Refused.open = batch.open
                         /\ Opened \in Batches
<1> USE DEF BatchTyped, Batches
<1>1. batch.next + 1 \in Nat /\ batch.open \in SUBSET Nat
  OBVIOUS
<1>2. batch.open \cup {batch.next + 1} \in SUBSET Nat
  BY <1>1
<1>3. Refused \in Batches /\ Refused.open = batch.open
  BY <1>1 DEF Refused
<1>4. Opened \in Batches
  BY <1>1, <1>2 DEF Opened
<1>5. QED
  BY <1>3, <1>4

(* A result given leaves the open calls alone.                              *)
LEMMA GivenTyped == ASSUME NEW b \in Batches, Given(b)
                    PROVE  batch' \in Batches /\ batch'.open = b.open
  BY DEF Given, Batches

(* A tool that ends leaves the open calls.                                  *)
LEMMA Closed == ASSUME BatchTyped, NEW S \in SUBSET batch.open
                PROVE  /\ [batch EXCEPT !.open = S] \in Batches
                       /\ [batch EXCEPT !.open = S].open = S
  BY DEF BatchTyped, Batches

(* No call of a new batch is open.                                          *)
LEMMA Fresh == ASSUME NEW n \in Nat
               PROVE  Batch(n) \in Batches /\ Batch(n).open = {}
  BY DEF Batch, Batches

(* No step of an aborted run lets a tool call through.                      *)
LEMMA AbortedStep == BatchTyped /\ [Next]_vars => (aborted => batch'.open \subseteq batch.open)
<1> SUFFICES ASSUME BatchTyped, [Next]_vars, aborted PROVE batch'.open \subseteq batch.open
  OBVIOUS
<1> USE DEF BatchTyped
<1>1. CASE batch' = batch
  BY <1>1
<1>2. CASE \E n \in 1..MaxCalls : AnswerTools(n)
  BY <1>2, RunAssumption, Fresh DEF AnswerTools
<1>3. CASE SequentialCall
  BY <1>3, LookedAt, GivenTyped DEF SequentialCall
<1>4. CASE SequentialResult
  BY <1>4, Closed, GivenTyped DEF SequentialResult
<1>5. CASE Preflight
  BY <1>5, LookedAt DEF Preflight
<1>6. CASE \E i \in 1..MaxCalls : ToolEnds(i)
  BY <1>6, Closed DEF ToolEnds
<1>7. CASE ParallelResult \/ TruncatedResult
  BY <1>7, LookedAt, GivenTyped DEF ParallelResult, TruncatedResult
<1>8. CASE BatchEnds \/ Throw
  BY <1>8, Fresh DEF BatchEnds, Throw, NoBatch
<1>9. QED
  <2>1. CASE UNCHANGED vars
    BY <2>1, <1>1 DEF vars
  <2>2. CASE \/ \E m \in Msg : Prompt(m) \/ Steer(m) \/ FollowUp(m)
             \/ Continue \/ ClearAllQueues \/ Abort
    BY <2>2, <1>1 DEF Prompt, Continue, Start, Steer, FollowUp, ClearAllQueues, Abort, Running
  <2>3. CASE \/ BeforeTurn \/ EmitPrompt \/ Refuse \/ PollFirst \/ BeginTurn \/ Inject \/ Ask
             \/ AnswerFails \/ AnswerPlain
             \/ EndTurn \/ StopAfterTurn \/ PollFollowUps \/ CloseTurn
             \/ Finish \/ ReportFailure \/ ReportBreaks
    BY <2>3, <1>1 DEF BeforeTurn, EmitPrompt, Refuse, PollFirst, BeginTurn, Inject, Ask,
                      AnswerFails, AnswerPlain, EndTurn, StopAfterTurn, PollFollowUps,
                      CloseTurn, Finish, FinishRun, ReportFailure, ReportBreaks, Ending, Tools
  <2>4. QED
    BY <2>1, <2>2, <2>3, <1>2, <1>3, <1>4, <1>5, <1>6, <1>7, <1>8 DEF Next, Loop

(* Abort: whatever is under way when the signal fires, no further tool call *)
(* is let through to execution.                                             *)
THEOREM AbortedOpensNoneHolds == Spec => AbortedOpensNone
<1>1. TypeOK => BatchTyped
  BY RunAssumption DEF TypeOK, BatchTyped, Batches
<1>2. IInv /\ [Next]_vars => [aborted => batch'.open \subseteq batch.open]_vars
  BY <1>1, AbortedStep DEF IInv
<1>3. QED
  BY <1>2, Invariant, PTL DEF Spec, AbortedOpensNone
-----------------------------------------------------------------------------
(* AgentSession                                                             *)

Busy == {c \in Call : call[c] \in Working \cup {"failing"}}

(* While calls do not overlap there is one at work at most; it has the      *)
(* flag, and the run if there is one, and no call is refused by the agent.  *)
Flagged == \/ overlapped
           \/ /\ \A c, d \in Busy : c = d
              /\ \A c \in Call : call[c] # "failing"
              /\ active <=> Busy # {}
              /\ \A c \in Call : call[c] = "run" <=> run # None /\ run.by = c

(* A retry that was announced has been counted; only a manual compaction    *)
(* takes the listener away.                                                 *)
Announced == retryOpen => attempt > 0
Steady == compacts = 0 => connected /\ manual = "none"

(* What is known of the last answer when a run has ended.                   *)
Heard == last # "none" /\ (last \in {"ok", "aborted"} => ~retryOpen)

(* Where a prompt is once it has decided not to retry.                      *)
Decided == {"compact", "compact and retry", "checked", "cut"}

(* A run that has ended told how, and past the decision not to retry the    *)
(* retry is closed.                                                         *)
Reported == \/ overlapped
            \/ compacts > 0
            \/ /\ run # None /\ run.ended => Heard
               /\ \A c \in Call : /\ call[c] = "post" => Heard
                                  /\ call[c] \in Decided => ~retryOpen

SessionInv == SessionTypeOK /\ Announced /\ Steady /\ Flagged /\ Reported /\ SettledIsClean
-----------------------------------------------------------------------------
(* Types *)

Places == {"none", "settling", "failing", "done", "rejected"} \cup PreflightStages \cup Working
Runs   == [by : Call, ended : BOOLEAN, aborted : BOOLEAN]

LEMMA SessionTyped == ASSUME SessionTypeOK, [SessionNext]_sessionVars PROVE SessionTypeOK'
<1> USE SessionAssumption DEF SessionTypeOK, retries, sessionQueues, spent, history, troubles
<1>1. ASSUME NEW c \in Call, NEW from, NEW to \in Places, Goes(c, from, to)
      PROVE  call' \in [Call -> Places]
  BY <1>1 DEF Goes, Places
<1>2. ASSUME NEW c \in Call, run' = [by |-> c, ended |-> FALSE, aborted |-> FALSE]
      PROVE  run' \in Runs
  BY <1>2 DEF Runs
<1>3. /\ {"none", "settling", "failing", "done", "rejected", "input", "checks", "compacting",
         "run", "post", "backoff", "checked", "cut", "compact",
         "compact and retry", "broken"} \subseteq Places
      /\ call \in [Call -> Places] /\ run \in Runs \cup {None}
      /\ call' \in [Call -> Places] /\ run' \in Runs \cup {None} =>
           /\ call' \in [Call -> {"none", "settling", "failing", "done", "rejected"}
                                   \cup PreflightStages \cup Working]
           /\ run' \in [by : Call, ended : BOOLEAN, aborted : BOOLEAN] \cup {None}
  BY DEF Places, Runs, PreflightStages, Working
<1>4. ASSUME NEW c \in Call, NEW from, ContinueRun(c, from)
      PROVE  /\ call' \in [Call -> Places] /\ run' \in Runs \cup {None}
             /\ overlapped' \in BOOLEAN /\ brokeOff' \in BOOLEAN
  BY <1>1, <1>2, <1>3, <1>4 DEF ContinueRun, Others
<1>5. ASSUME NEW c \in Call, Run(c)
      PROVE  /\ run' \in Runs \cup {None} /\ active' \in BOOLEAN
             /\ {overlapped', brokeOff'} \subseteq BOOLEAN
  BY <1>2, <1>3, <1>5 DEF Run, Others
<1> DEFINE Counters == /\ attempt' \in 0..MaxRetries
                       /\ retryOpen' \in BOOLEAN
<1>20. 0 \in 0..MaxRetries /\ ((retryOpen /\ attempt = 0) \in BOOLEAN)
  OBVIOUS
<1>21. (Succeeds => Counters) /\ (GivesUp => Counters)
  BY <1>20 DEF Succeeds, GivesUp
<1>22. (UNCHANGED <<attempt, retryOpen>> => Counters) /\ (UNCHANGED retries => Counters)
  OBVIOUS
<1>6. ASSUME NEW c \in Call, PromptCall(c) PROVE SessionTypeOK'
  BY <1>3, <1>6 DEF PromptCall
<1>7. ASSUME NEW c \in Call, Enter(c) \/ PreCompact(c) PROVE SessionTypeOK'
  BY <1>1, <1>3, <1>7 DEF Enter, PreCompact
<1>8. ASSUME NEW c \in Call, Begin(c) \/ Trigger(c) PROVE SessionTypeOK'
  <2>1. call' \in [Call -> Places]
    BY <1>1, <1>3, <1>8 DEF Begin, Trigger
  <2>2. overflowed' \in BOOLEAN
    BY <1>8 DEF Begin, Trigger
  <2> QED BY <1>3, <1>5, <1>8, <2>1, <2>2 DEF Begin, Trigger
<1>9. ASSUME NEW c \in Call, Post(c) PROVE SessionTypeOK'
  <2>1. call' \in [Call -> Places]
    BY <1>1, <1>3, <1>9 DEF Post, Settle
  <2>2. Counters
    <3>1. ASSUME attempt < MaxRetries, attempt' = attempt + 1, retryOpen' = TRUE PROVE Counters
      BY <3>1
    <3> HIDE DEF Counters, SessionTypeOK
    <3> QED BY <1>9, <1>21, <1>22, <3>1 DEF Post
  <2>3. retry' \in {"none", "armed", "aborted"} /\ overflowed' \in BOOLEAN
    BY <1>9 DEF Post
  <2>4. /\ run' = run /\ overlapped' = overlapped /\ last' = "none"
        /\ active' \in BOOLEAN /\ brokeOff' \in BOOLEAN
    BY <1>9 DEF Post, Settle
  <2>5. UNCHANGED <<sessionQueues, waiting, connected, manual, spent>>
    BY <1>9 DEF Post
  <2> QED BY <1>3, <2>1, <2>2, <2>3, <2>4, <2>5
<1>10. ASSUME NEW c \in Call, Backoff(c) PROVE SessionTypeOK'
  <2>1. /\ call' \in [Call -> Places] /\ run' \in Runs \cup {None}
        /\ overlapped' \in BOOLEAN /\ brokeOff' \in BOOLEAN
    BY <1>1, <1>3, <1>4, <1>10 DEF Backoff
  <2>2. Counters /\ retry' = "none"
    BY <1>10, <1>20 DEF Backoff
  <2>3. UNCHANGED <<active, last, overflowed, sessionQueues, waiting, connected, manual, spent>>
    BY <1>10 DEF Backoff
  <2> QED BY <1>3, <2>1, <2>2, <2>3
<1>11. ASSUME NEW c \in Call, CompactEnds(c) PROVE SessionTypeOK'
  <2>1. /\ call' \in [Call -> Places] /\ run' \in Runs \cup {None}
        /\ overlapped' \in BOOLEAN /\ brokeOff' \in BOOLEAN
    BY <1>1, <1>3, <1>4, <1>11 DEF CompactEnds
  <2> QED BY <1>3, <1>11, <2>1 DEF CompactEnds
<1>23. ASSUME NEW c \in Call, PostThrows(c) PROVE SessionTypeOK'
  <2>1. call' \in [Call -> Places]
    BY <1>1, <1>3, <1>23 DEF PostThrows
  <2>2. Counters /\ retry' \in {"none", "armed", "aborted"}
    <3>1. ASSUME attempt < MaxRetries, attempt' = attempt + 1, retryOpen' = TRUE PROVE Counters
      BY <3>1
    <3>2. ASSUME attempt' \in {0, attempt}, retryOpen' = FALSE PROVE Counters
      BY <1>20, <3>2
    <3>3. retry' \in {retry, "none"}
      BY <1>23 DEF PostThrows
    <3>4. retry' \in {"none", "armed", "aborted"}
      BY <3>3
    <3> HIDE DEF Counters, SessionTypeOK
    <3> QED BY <1>23, <1>21, <1>22, <3>1, <3>2, <3>4 DEF PostThrows
  <2>3. last' \in Outcomes \cup {"none"}
    BY <1>23 DEF PostThrows
  <2>4. UNCHANGED <<active, run, overflowed, sessionQueues, waiting, connected, manual, troubles,
                    spent>>
    BY <1>23 DEF PostThrows
  <2> QED BY <1>3, <2>1, <2>2, <2>3, <2>4
<1>12. ASSUME NEW c \in Call, Checked(c) PROVE SessionTypeOK'
  <2>1. /\ call' \in [Call -> Places] /\ run' \in Runs \cup {None}
        /\ {overlapped', brokeOff', active'} \subseteq BOOLEAN
    BY <1>1, <1>3, <1>4, <1>12 DEF Checked, Settle
  <2>2. queue' \subseteq queue /\ overflowed' \in BOOLEAN
    BY <1>12 DEF Checked
  <2> QED BY <1>3, <1>12, <2>1, <2>2 DEF Checked
<1>13. ASSUME NEW c \in Call, Fail(c) \/ Settled(c) PROVE SessionTypeOK'
  BY <1>1, <1>3, <1>13 DEF Fail, Settled
<1>14. CASE EndRun \/ RunRejects
  <2>1. call' \in [Call -> Places] /\ run' = None
    BY <1>1, <1>3, <1>14 DEF EndRun, RunRejects, Runs
  <2> QED BY <1>3, <1>14, <2>1 DEF EndRun, RunRejects
<1>15. CASE Step \/ \E m \in QueuedMsg : Take(m)
  <2>1. Counters /\ overflowed' \in BOOLEAN
    BY <1>15, <1>21, <1>22 DEF Step, Take
  <2>2. queue' \subseteq queue /\ steps' \in 0..MaxSteps
    BY <1>15 DEF Step, Take
  <2>3. UNCHANGED <<call, active, run, retry, asked, idleMsgs, waiting, connected, manual,
                    troubles, aborts, compacts>>
    BY <1>15 DEF Step, Take
  <2>4. last' \in Outcomes \cup {"none"}
    BY <1>15 DEF Step, Take, Outcomes
  <2> QED BY <2>1, <2>2, <2>3, <2>4
<1>16. ASSUME NEW k \in Outcomes, ModelAnswers(k) PROVE SessionTypeOK'
  <2>1. run' \in Runs \cup {None}
    BY <1>3, <1>16 DEF ModelAnswers, Looping, Runs
  <2>2. Counters /\ overflowed' \in BOOLEAN
    BY <1>16, <1>21, <1>22 DEF ModelAnswers
  <2> QED BY <1>3, <1>16, <2>1, <2>2 DEF ModelAnswers
<1>17. CASE AbortSession \/ Compact
  <2>1. run' \in Runs \cup {None}
    BY <1>3, <1>17 DEF AbortSession, Compact, Stopping, Runs
  <2>2. retry' \in {"none", "armed", "aborted"} /\ waiting' \in BOOLEAN
    BY <1>17 DEF AbortSession, Compact, Stopping
  <2>3. aborts' \in 0..MaxAborts /\ compacts' \in 0..MaxCompacts
    BY <1>17 DEF AbortSession, Compact
  <2>5. /\ connected' \in BOOLEAN
        /\ manual' \in {"none", "waiting", "aborting", "compacting"}
    BY <1>17 DEF AbortSession, Compact
  <2>4. UNCHANGED <<call, active, last, attempt, retryOpen, overflowed, sessionQueues, troubles, steps>>
    BY <1>17 DEF AbortSession, Compact
  <2> QED BY <1>3, <2>1, <2>2, <2>3, <2>4, <2>5
<1>18. CASE Compacts \/ ClearQueue \/ \E m \in QueuedMsg : Queue(m)
  BY <1>18 DEF Compacts, CompactStart, CompactDone, ClearQueue, Queue
<1>19. CASE UNCHANGED sessionVars
  BY <1>19 DEF sessionVars
<1> QED BY <1>6, <1>7, <1>8, <1>9, <1>10, <1>11, <1>12, <1>13, <1>14, <1>15, <1>16, <1>17,
        <1>18, <1>19, <1>23 DEF SessionNext, Preflights, Works, Agent
-----------------------------------------------------------------------------
(* Who has the flag and the run *)

(* A call that is not at work moves, to where it is not at work either.     *)
LEMMA Aside ==
  ASSUME SessionTypeOK, Flagged, NEW c \in Call, NEW from, NEW to,
         {from, to} \cap (Working \cup {"failing"}) = {}, Goes(c, from, to),
         UNCHANGED <<active, run, overlapped>>
  PROVE  Flagged'
<1>1. Busy' = Busy
  BY DEF Busy, Goes, SessionTypeOK
<1>2. \A d \in Call : /\ call'[d] = "run" <=> call[d] = "run"
                      /\ call'[d] = "failing" <=> call[d] = "failing"
  BY DEF Goes, SessionTypeOK, Working
<1> QED BY <1>1, <1>2 DEF Flagged

(* A call at work moves on, outside of its runs.                            *)
LEMMA MovesOn ==
  ASSUME SessionTypeOK, Flagged, NEW c \in Call, NEW from \in Working \ {"run"},
         NEW to \in Working \ {"run"}, Goes(c, from, to), UNCHANGED <<active, run, overlapped>>
  PROVE  Flagged'
<1>1. Busy' = Busy
  BY DEF Busy, Goes, SessionTypeOK
<1>2. \A d \in Call : /\ call'[d] = "run" <=> call[d] = "run"
                      /\ call'[d] = "failing" <=> call[d] = "failing"
  BY DEF Goes, SessionTypeOK, Working
<1> QED BY <1>1, <1>2 DEF Flagged

(* A call begins a run, or goes on to another: no other may be at work.     *)
LEMMA Setting ==
  ASSUME SessionTypeOK, Flagged, NEW c \in Call, NEW from, from \notin {"run", "failing"},
         Goes(c, from, IF run = None THEN "run" ELSE "failing"),
         active' = TRUE, overlapped' \/ (~overlapped /\ ~Others(c)),
         run = None => run' = [by |-> c, ended |-> FALSE, aborted |-> FALSE]
  PROVE  Flagged'
<1> SUFFICES ASSUME ~overlapped' PROVE Flagged'
  BY DEF Flagged
<1>1. /\ ~overlapped /\ \A d \in Call \ {c} : d \notin Busy
      /\ \A d \in Call : call[d] = "run" <=> run # None /\ run.by = d
  BY DEF Others, Busy, Flagged
<1>2. run = None
  <2>1. ASSUME run # None PROVE FALSE
    <3>1. run.by \in Call /\ call[run.by] = "run"
      BY <1>1, <2>1 DEF SessionTypeOK
    <3>2. run.by \in Busy /\ call[c] = from
      BY <3>1 DEF Busy, Working, Goes
    <3> QED BY <1>1, <3>1, <3>2
  <2> QED BY <2>1
<1>3. /\ call' = [call EXCEPT ![c] = "run"]
      /\ run' = [by |-> c, ended |-> FALSE, aborted |-> FALSE]
  BY <1>2 DEF Goes
<1>4. run' # None /\ run'.by = c
  <2>1. run' \in [by : Call, ended : BOOLEAN, aborted : BOOLEAN]
    BY <1>3
  <2> QED BY <1>3, <2>1, SessionAssumption
<1>5. Busy' = {c}
  BY <1>1, <1>3 DEF Busy, Working, SessionTypeOK
<1>6. \A d \in Call : /\ call'[d] = "run" <=> d = c
                      /\ call'[d] # "failing"
  BY <1>1, <1>3 DEF Busy, Working, SessionTypeOK
<1> QED BY <1>4, <1>5, <1>6 DEF Flagged

(* A call lowers the flag: it was the only one at work.                     *)
LEMMA Lowers ==
  ASSUME SessionTypeOK, Flagged, NEW c \in Call, NEW from \in (Working \ {"run"}) \cup {"failing"},
         Goes(c, from, "settling"), active' = FALSE, UNCHANGED <<run, overlapped>>
  PROVE  Flagged'
<1> SUFFICES ASSUME ~overlapped PROVE Flagged'
  BY DEF Flagged
<1>1. c \in Busy
  BY DEF Busy, Goes
<1>2. Busy' = {}
  BY <1>1 DEF Flagged, Busy, Goes, SessionTypeOK, Working
<1>3. \A d \in Call : call'[d] # "run" /\ call'[d] # "failing" /\ (call[d] = "run" <=> d = c /\ FALSE)
  BY <1>1, <1>2 DEF Flagged, Busy, Goes, SessionTypeOK, Working
<1> QED BY <1>2, <1>3 DEF Flagged

(* The flag and the run are kept by every step.                             *)
LEMMA FlagKept == ASSUME SessionTypeOK, Flagged, [SessionNext]_sessionVars PROVE Flagged'
<1> USE DEF history, troubles
<1>1. ASSUME UNCHANGED <<call, active>>, overlapped => overlapped',
             run' = None <=> run = None, run # None => run'.by = run.by
      PROVE  Flagged'
  <2>1. Busy' = Busy
    BY <1>1 DEF Busy
  <2> QED BY <1>1, <2>1 DEF Flagged, SessionTypeOK
<1>2. ASSUME NEW c \in Call, PromptCall(c) \/ Enter(c) \/ PreCompact(c) PROVE Flagged'
  <2>1. /\ UNCHANGED <<active, run, overlapped>>
        /\ \E from, to \in {"none", "input", "checks", "compacting", "rejected"} :
             Goes(c, from, to)
    BY <1>2 DEF PromptCall, Enter, PreCompact, Goes
  <2> QED BY <2>1, Aside DEF Working
<1>3. ASSUME NEW c \in Call, Begin(c) \/ Trigger(c) PROVE Flagged'
  <2>1. /\ \E from \in {"none", "checks", "compacting"} :
             Goes(c, from, IF run = None THEN "run" ELSE "failing")
        /\ Run(c)
    BY <1>3 DEF Begin, Trigger
  <2> QED BY <2>1, Setting DEF Run
<1>4. ASSUME NEW c \in Call, NEW from \in Working \ {"run"}, ContinueRun(c, from), active' = active
      PROVE  Flagged'
  <2>1. overlapped \/ active = TRUE
    <3>1. c \in Busy
      BY <1>4 DEF ContinueRun, Goes, Busy
    <3> QED BY <3>1 DEF Flagged, SessionTypeOK
  <2>2. overlapped => Flagged'
    BY <1>4 DEF ContinueRun, Flagged
  <2>3. from \notin {"run", "failing"}
    BY DEF Working
  <2> QED BY <1>4, <2>1, <2>2, <2>3, Setting DEF ContinueRun
<1>5. ASSUME NEW c \in Call, NEW from \in Working \ {"run"}, Settle(c, from) PROVE Flagged'
  BY <1>5, Lowers DEF Settle
<1>6. ASSUME NEW c \in Call, Post(c) PROVE Flagged'
  <2>1. CASE Settle(c, "post")
    BY <1>5, <2>1 DEF Working
  <2>2. CASE ~Settle(c, "post")
    <3>1. /\ UNCHANGED <<active, run, overlapped>>
          /\ \E to \in {"backoff", "compact and retry", "checked", "compact"} :
               Goes(c, "post", to)
      BY <1>6, <2>2 DEF Post
    <3> QED BY <3>1, MovesOn DEF Working
  <2> QED BY <2>1, <2>2
<1>7. ASSUME NEW c \in Call, Backoff(c) PROVE Flagged'
  <2>1. \/ ContinueRun(c, "backoff")
        \/ /\ UNCHANGED <<run, overlapped>>
           /\ \E to \in {"cut", "compact"} : Goes(c, "backoff", to)
    BY <1>7 DEF Backoff
  <2>2. active' = active
    BY <1>7 DEF Backoff
  <2> QED BY <1>4, <2>1, <2>2, MovesOn DEF Working
<1>8. ASSUME NEW c \in Call, CompactEnds(c) PROVE Flagged'
  <2>1. \/ ContinueRun(c, "compact and retry")
        \/ /\ UNCHANGED <<run, overlapped>>
           /\ \E from \in {"compact", "compact and retry"}, to \in {"checked", "cut"} :
                Goes(c, from, to)
    BY <1>8 DEF CompactEnds
  <2>2. active' = active
    BY <1>8 DEF CompactEnds
  <2> QED BY <1>4, <2>1, <2>2, MovesOn DEF Working
<1>16. ASSUME NEW c \in Call, PostThrows(c) PROVE Flagged'
  <2>1. /\ UNCHANGED <<active, run, overlapped>>
        /\ \E from \in {"post", "backoff", "compact", "compact and retry"} :
             Goes(c, from, "broken")
    BY <1>16 DEF PostThrows
  <2> QED BY <2>1, MovesOn DEF Working
<1>9. ASSUME NEW c \in Call, Checked(c) PROVE Flagged'
  <2>1. \/ Settle(c, "checked") \/ Settle(c, "cut")
        \/ active' = active /\ (ContinueRun(c, "checked") \/ ContinueRun(c, "cut"))
    BY <1>9 DEF Checked
  <2> QED BY <1>4, <1>5, <2>1 DEF Working
<1>10. ASSUME NEW c \in Call, Fail(c) PROVE Flagged'
  <2>1. /\ \E from \in {"failing", "broken"} : Goes(c, from, "settling")
        /\ active' = FALSE /\ UNCHANGED <<run, overlapped>>
    BY <1>10 DEF Fail
  <2> QED BY <2>1, Lowers DEF Working
<1>11. ASSUME NEW c \in Call, Settled(c) PROVE Flagged'
  BY <1>11, Aside DEF Settled, Working
<1>12. CASE EndRun \/ RunRejects
  <2>1. /\ run # None /\ run' = None /\ UNCHANGED <<active, overlapped>>
        /\ run.by \in Call /\ \E to \in {"post", "broken"} : Goes(run.by, "run", to)
    BY <1>12 DEF EndRun, RunRejects, SessionTypeOK
  <2>2. Busy' = Busy
    BY <2>1 DEF Busy, Goes, SessionTypeOK, Working
  <2>3. \A d \in Call : /\ call'[d] # "run" <=> call[d] # "run" \/ d = run.by
                        /\ call'[d] = "failing" <=> call[d] = "failing"
    BY <2>1 DEF Goes, SessionTypeOK
  <2> QED BY <2>1, <2>2, <2>3 DEF Flagged
<1>13. CASE Step \/ (\E m \in QueuedMsg : Take(m)) \/ (\E k \in Outcomes : ModelAnswers(k))
  <2>1. /\ UNCHANGED <<call, active, overlapped>> /\ run # None
        /\ run' = run \/ run' = [run EXCEPT !.ended = TRUE]
    BY <1>13 DEF Step, Take, ModelAnswers, Looping
  <2>2. run' # None /\ run'.by = run.by
    <3>1. /\ run \in [by : Call, ended : BOOLEAN, aborted : BOOLEAN]
          /\ run' \in [by : Call, ended : BOOLEAN, aborted : BOOLEAN]
      BY <2>1 DEF SessionTypeOK
    <3> QED BY <2>1, <3>1, SessionAssumption
  <2> QED BY <1>1, <2>1, <2>2
<1>14. CASE AbortSession \/ Compact
  <2>1. /\ UNCHANGED <<call, active, overlapped>>
        /\ run' = IF run # None THEN [run EXCEPT !.aborted = TRUE] ELSE run
    BY <1>14 DEF AbortSession, Compact, Stopping
  <2>2. CASE run # None
    <3>1. /\ run' \in [by : Call, ended : BOOLEAN, aborted : BOOLEAN]
          /\ run'.by = run.by
      BY <2>1, <2>2 DEF SessionTypeOK
    <3> QED BY <1>1, <2>1, <2>2, <3>1, SessionAssumption
  <2> QED BY <1>1, <2>1, <2>2
<1>15. CASE Compacts \/ ClearQueue \/ (\E m \in QueuedMsg : Queue(m)) \/ UNCHANGED sessionVars
  <2>1. UNCHANGED <<call, active, run>>
    BY <1>15 DEF Compacts, CompactStart, CompactDone, ClearQueue, Queue, sessionVars
  <2>2. overlapped => overlapped'
    BY <1>15 DEF Compacts, CompactStart, CompactDone, ClearQueue, Queue, sessionVars
  <2> QED BY <1>1, <2>1, <2>2
<1> QED BY <1>2, <1>3, <1>6, <1>7, <1>8, <1>9, <1>10, <1>11, <1>12, <1>13, <1>14, <1>15, <1>16
        DEF SessionNext, Preflights, Works, Agent
-----------------------------------------------------------------------------
(* Retries that are reported to their end, and messages that are taken      *)

(* What has happened once stays so. *)
LEMMA Stays ==
  ASSUME SessionTypeOK, [SessionNext]_sessionVars
  PROVE  (overlapped => overlapped') /\ (compacts > 0 => compacts' > 0)
<1> USE DEF history, troubles, spent
<1>1. overlapped => overlapped'
  BY DEF SessionNext, PromptCall, Trigger, Preflights, Enter, PreCompact, Begin, Run, Works, Post,
         Settle, Backoff, ContinueRun, CompactEnds, Checked, Fail, Settled, Agent, EndRun,
         PostThrows, RunRejects, Step, Take, ModelAnswers, Compacts, CompactStart, CompactDone, AbortSession,
         Compact, ClearQueue, Queue, sessionVars
<1>2. compacts' = compacts \/ Compact
  BY DEF SessionNext, PromptCall, Trigger, Preflights, Enter, PreCompact, Begin, Run, Works, Post,
         Settle, Backoff, ContinueRun, CompactEnds, Checked, Fail, Settled, Agent, EndRun,
         PostThrows, RunRejects, Step, Take, ModelAnswers, Compacts, CompactStart, CompactDone, AbortSession,
         ClearQueue, Queue, sessionVars
<1>3. Compact => compacts' > 0
  BY DEF Compact, SessionTypeOK
<1> QED BY <1>1, <1>2, <1>3

(* What a retry's success and its end do with its report. *)
LEMMA Shuts ==
  ASSUME SessionTypeOK, Announced, Succeeds \/ GivesUp
  PROVE  ~retryOpen' /\ Announced'
<1>1. retryOpen' = (retryOpen /\ attempt = 0)
  BY DEF Succeeds, GivesUp
<1>2. retryOpen => attempt # 0
  BY DEF Announced, SessionTypeOK
<1>3. ~retryOpen'
  BY <1>1, <1>2
<1> QED BY <1>3 DEF Announced

LEMMA AnnouncedKept == ASSUME SessionTypeOK, Announced, [SessionNext]_sessionVars PROVE Announced'
<1> USE DEF retries, history, troubles
<1>1. ASSUME UNCHANGED <<attempt, retryOpen>> PROVE Announced'
  BY <1>1 DEF Announced
<1>2. ASSUME NEW c \in Call, Post(c) PROVE Announced'
  <2>1. \/ UNCHANGED <<attempt, retryOpen>> \/ GivesUp
        \/ attempt' = attempt + 1
    BY <1>2 DEF Post
  <2>2. attempt' = attempt + 1 => Announced'
    BY DEF Announced, SessionTypeOK
  <2> QED BY <1>1, <2>1, <2>2, Shuts
<1>3. ASSUME NEW c \in Call, Backoff(c) PROVE Announced'
  BY <1>1, <1>3 DEF Backoff, Announced
<1>6. ASSUME NEW c \in Call, PostThrows(c) PROVE Announced'
  <2>1. \/ UNCHANGED <<attempt, retryOpen>> \/ GivesUp
        \/ attempt' = attempt + 1 \/ retryOpen' = FALSE
    BY <1>6 DEF PostThrows
  <2>2. attempt' = attempt + 1 \/ retryOpen' = FALSE => Announced'
    BY DEF Announced, SessionTypeOK
  <2> QED BY <1>1, <2>1, <2>2, Shuts
<1>4. CASE Step \/ \E k \in Outcomes : ModelAnswers(k)
  <2>1. Succeeds \/ UNCHANGED <<attempt, retryOpen>>
    BY <1>4 DEF Step, ModelAnswers
  <2> QED BY <1>1, <2>1, Shuts
<1>5. CASE \/ \E c \in Call : \/ PromptCall(c) \/ Trigger(c) \/ Preflights(c) \/ CompactEnds(c)
                              \/ Checked(c) \/ Fail(c) \/ Settled(c)
           \/ EndRun \/ RunRejects \/ Compacts \/ AbortSession \/ Compact \/ ClearQueue
           \/ \E m \in QueuedMsg : Take(m) \/ Queue(m)
           \/ UNCHANGED sessionVars
  <2>1. UNCHANGED <<attempt, retryOpen>>
    BY <1>5 DEF PromptCall, Trigger, Preflights, Enter, PreCompact, Begin, CompactEnds, Checked,
                Fail, Settled, EndRun, RunRejects, Compacts, CompactStart, CompactDone,
                AbortSession, Compact, ClearQueue, Take, Queue, sessionVars
  <2> QED BY <1>1, <2>1
<1> QED BY <1>2, <1>3, <1>4, <1>5, <1>6 DEF SessionNext, Works, Agent

LEMMA SteadyKept == ASSUME SessionTypeOK, Steady, [SessionNext]_sessionVars PROVE Steady'
<1> SUFFICES ASSUME compacts' = 0 PROVE Steady'
  BY DEF Steady
<1>1. compacts = 0 /\ connected /\ manual = "none"
  BY Stays DEF Steady, SessionTypeOK
<1>2. ~Compact
  BY <1>1 DEF Compact
<1>3. ~Compacts
  BY <1>1 DEF Compacts, CompactStart, CompactDone
<1>4. UNCHANGED <<connected, manual>>
  BY <1>1, <1>2, <1>3
     DEF SessionNext, PromptCall, Trigger, Preflights, Enter, PreCompact, Begin, Works, Post,
         Backoff, CompactEnds, Checked, Fail, Settled, Agent, EndRun, PostThrows, RunRejects, Step, Take,
         ModelAnswers, AbortSession, ClearQueue, Queue, sessionVars
<1> QED BY <1>1, <1>4 DEF Steady

(* While calls do not overlap, a call at work outside of a run is alone,    *)
(* and the agent rests.                                                     *)
LEMMA Alone ==
  ASSUME SessionTypeOK, Flagged, ~overlapped, NEW c \in Call, c \in Busy
  PROVE  /\ \A d \in Call : d # c => call[d] # "post" /\ call[d] \notin Decided
         /\ active /\ call[c] # "failing"
         /\ run # None => run.by = c /\ call[c] = "run"
<1>1. \A d \in Call : d # c => d \notin Busy
  BY DEF Flagged
<1>2. run # None => run.by \in Busy /\ call[run.by] = "run"
  BY DEF Flagged, SessionTypeOK, Busy, Working
<1> QED BY <1>1, <1>2 DEF Flagged, Busy, Working, Decided

LEMMA ReportedKept ==
  ASSUME SessionTypeOK, Announced, Steady, Flagged, Reported, [SessionNext]_sessionVars
  PROVE  Reported'
<1> USE DEF retries, history, troubles
<1> SUFFICES ASSUME ~overlapped', ~(compacts' > 0) PROVE Reported'
  BY DEF Reported
<1>1. ~overlapped /\ compacts = 0 /\ connected
  BY Stays DEF Steady, SessionTypeOK
<1>2. /\ run # None /\ run.ended => Heard
      /\ \A c \in Call : /\ call[c] = "post" => Heard
                         /\ call[c] \in Decided => ~retryOpen
  BY <1>1 DEF Reported
<1>3. ASSUME /\ run' # None /\ run'.ended => Heard'
             /\ \A c \in Call : /\ call'[c] = "post" => Heard'
                                /\ call'[c] \in Decided => ~retryOpen'
      PROVE  Reported'
  BY <1>3 DEF Reported
<1> HIDE DEF Reported
<1>4. ASSUME UNCHANGED <<last, retryOpen, call>>,
             run' # None /\ run'.ended => run # None /\ run.ended
      PROVE  Reported'
  BY <1>2, <1>3, <1>4 DEF Heard
<1>5. ASSUME NEW c \in Call, NEW from, NEW to, Goes(c, from, to), to # "post", to \notin Decided,
             UNCHANGED <<last, retryOpen>>,
             run' # None /\ run'.ended => run # None /\ run.ended
      PROVE  Reported'
  <2>1. \A d \in Call : call'[d] = call[d] \/ (call'[d] # "post" /\ call'[d] \notin Decided)
    BY <1>5 DEF Goes, SessionTypeOK
  <2> QED BY <1>2, <1>3, <1>5, <2>1 DEF Heard
<1>6. ASSUME NEW c \in Call, NEW from, ContinueRun(c, from), UNCHANGED <<last, retryOpen>>
      PROVE  Reported'
  <2>1. Goes(c, from, IF run = None THEN "run" ELSE "failing")
    BY <1>6 DEF ContinueRun
  <2>2. run' # None /\ run'.ended => run # None /\ run.ended
    BY <1>6 DEF ContinueRun
  <2>3. \E to \in {"run", "failing"} : Goes(c, from, to)
    BY <2>1
  <2> QED BY <1>5, <1>6, <2>2, <2>3 DEF Decided
<1>7. ASSUME NEW c \in Call, PromptCall(c) \/ Enter(c) \/ PreCompact(c) \/ Fail(c) \/ Settled(c)
      PROVE  Reported'
  <2>1. /\ UNCHANGED <<last, retryOpen, run>>
        /\ \E from, to : to \notin {"post"} \cup Decided /\ Goes(c, from, to)
    BY <1>7 DEF PromptCall, Enter, PreCompact, Fail, Settled, Goes, Decided
  <2> QED BY <1>5, <2>1
<1>8. ASSUME NEW c \in Call, Begin(c) \/ Trigger(c) PROVE Reported'
  <2>1. UNCHANGED <<last, retryOpen>> /\ Run(c)
    BY <1>8 DEF Begin, Trigger
  <2>2. \E from : Goes(c, from, IF run = None THEN "run" ELSE "failing")
    BY <1>8 DEF Begin, Trigger
  <2>3. \E from : \E to \in {"run", "failing"} : Goes(c, from, to)
    BY <2>2
  <2>4. run' # None /\ run'.ended => run # None /\ run.ended
    BY <2>1 DEF Run
  <2> QED BY <1>5, <2>1, <2>3, <2>4 DEF Decided
<1>9. ASSUME NEW c \in Call, NEW from, NEW to, Goes(c, from, to), c \in Busy, from # "run",
             run' = run, to # "post", to \in Decided => ~retryOpen'
      PROVE  Reported'
  <2>1. call[c] = from /\ call' = [call EXCEPT ![c] = to]
    BY <1>9 DEF Goes
  <2>2. run' = None
    BY <1>1, <1>9, <2>1, Alone
  <2>3. \A d \in Call : d # c => call'[d] # "post" /\ call'[d] \notin Decided
    BY <1>1, <1>9, <2>1, Alone DEF SessionTypeOK
  <2>4. call'[c] = to
    BY <2>1 DEF SessionTypeOK
  <2> QED BY <1>3, <1>9, <2>2, <2>3, <2>4
<1>10. ASSUME NEW c \in Call, Post(c) PROVE Reported'
  <2>1. call[c] = "post" /\ c \in Busy
    BY <1>10 DEF Post, Busy, Working
  <2>2. run' = run /\ \E to : Goes(c, "post", to) /\ to # "post" /\ (to \in Decided => ~retryOpen')
    <3>1. CASE Settle(c, "post")
      <4>1. run' = run /\ \E to \in {"settling"} : Goes(c, "post", to)
        BY <3>1 DEF Settle
      <4> QED BY <4>1 DEF Decided
    <3>2. CASE GivesUp
      <4>1. ~retryOpen'
        BY <3>2, Shuts
      <4>2. run' = run /\ \E to \in {"backoff", "settling", "compact and retry", "compact", "checked"} :
                            Goes(c, "post", to)
        BY <1>10 DEF Post, Settle
      <4> QED BY <4>1, <4>2
    <3>3. CASE Goes(c, "post", "backoff") /\ run' = run
      <4>1. \E to \in {"backoff"} : Goes(c, "post", to)
        BY <3>3
      <4> QED BY <3>3, <4>1 DEF Decided
    <3>4. CASE last \in {"ok", "aborted"} /\ UNCHANGED <<run, retryOpen>>
      <4>1. ~retryOpen'
        BY <1>2, <2>1, <3>4 DEF Heard
      <4>2. \E to \in {"backoff", "settling", "compact and retry", "compact", "checked"} :
              Goes(c, "post", to)
        BY <1>10 DEF Post, Settle
      <4> QED BY <3>4, <4>1, <4>2
    <3> QED BY <1>10, <3>1, <3>2, <3>3, <3>4 DEF Post
  <2>3. PICK to : Goes(c, "post", to) /\ to # "post" /\ (to \in Decided => ~retryOpen')
    BY <2>2
  <2> QED BY <1>9, <2>1, <2>2, <2>3
<1>11. ASSUME NEW c \in Call, Backoff(c) PROVE Reported'
  <2>1. c \in Busy /\ last' = last
    BY <1>11 DEF Backoff, Busy, Working
  <2>2. CASE ContinueRun(c, "backoff") /\ retryOpen' = retryOpen
    BY <1>6, <2>1, <2>2
  <2>3. CASE /\ \E to \in {"cut", "compact"} : Goes(c, "backoff", to)
             /\ ~retryOpen' /\ run' = run
    BY <1>9, <2>1, <2>3
  <2> QED BY <1>11, <2>2, <2>3 DEF Backoff
<1>12. ASSUME NEW c \in Call, CompactEnds(c) PROVE Reported'
  <2>1. c \in Busy /\ UNCHANGED <<last, retryOpen>> /\ ~retryOpen
    BY <1>2, <1>12 DEF CompactEnds, ContinueRun, Goes, Busy, Working, Decided
  <2>2. CASE ContinueRun(c, "compact and retry")
    BY <1>6, <2>1, <2>2
  <2>3. CASE /\ \E from \in {"compact", "compact and retry"}, to \in {"checked", "cut"} :
                  Goes(c, from, to)
             /\ run' = run
    BY <1>9, <2>1, <2>3
  <2> QED BY <1>12, <2>2, <2>3 DEF CompactEnds
<1>21. ASSUME NEW c \in Call, PostThrows(c) PROVE Reported'
  <2>1. run' = run /\ \E from \in {"post", "backoff", "compact", "compact and retry"} :
                         Goes(c, from, "broken")
    BY <1>21 DEF PostThrows
  <2>2. c \in Busy
    BY <2>1 DEF Goes, Busy, Working
  <2> QED BY <1>9, <2>1, <2>2 DEF Decided
<1>13. ASSUME NEW c \in Call, Checked(c) PROVE Reported'
  <2>1. UNCHANGED <<last, retryOpen>>
    BY <1>13 DEF Checked
  <2>2. \/ ContinueRun(c, "checked") \/ ContinueRun(c, "cut")
        \/ Settle(c, "checked") \/ Settle(c, "cut")
    BY <1>13 DEF Checked
  <2>3. ASSUME NEW from, Settle(c, from) PROVE Reported'
    BY <1>5, <2>1, <2>3 DEF Settle, Decided
  <2> QED BY <1>6, <2>1, <2>2, <2>3
<1>14. CASE EndRun
  <2>1. /\ run # None /\ run.ended /\ run.by \in Call /\ run' = None
        /\ UNCHANGED <<last, retryOpen>> /\ Goes(run.by, "run", "post")
    BY <1>14 DEF EndRun, SessionTypeOK
  <2>2. Heard'
    BY <1>2, <2>1 DEF Heard
  <2>3. \A d \in Call : call'[d] = call[d] \/ call'[d] = "post"
    BY <2>1 DEF Goes, SessionTypeOK
  <2> QED BY <1>2, <1>3, <2>1, <2>2, <2>3 DEF Decided
<1>15. CASE Step
  <2>1. Succeeds /\ UNCHANGED <<call, run>> /\ last' = "ok"
    BY <1>1, <1>15 DEF Step
  <2>2. ~retryOpen'
    BY <2>1, Shuts
  <2> QED BY <1>3, <2>1, <2>2 DEF Heard
<1>20. CASE RunRejects
  <2>1. /\ run' = None /\ UNCHANGED <<last, retryOpen>>
        /\ run.by \in Call /\ Goes(run.by, "run", "broken")
    BY <1>20 DEF RunRejects, SessionTypeOK
  <2> QED BY <1>5, <2>1 DEF Decided
<1>16. ASSUME NEW k \in Outcomes, ModelAnswers(k) PROVE Reported'
  <2>1. run # None /\ last' = k /\ call' = call /\ k # "none"
    BY <1>1, <1>16 DEF ModelAnswers, Looping, Outcomes
  <2>2. k \in {"ok", "aborted"} => ~retryOpen'
    <3>1. k \in {"ok", "aborted"} => Succeeds
      BY <1>1, <1>16 DEF ModelAnswers, Errors
    <3> QED BY <3>1, Shuts
  <2>3. Heard'
    BY <2>1, <2>2 DEF Heard
  <2>4. run.by \in Busy /\ run.by \in Call /\ call[run.by] = "run"
    BY <1>1, <2>1 DEF Flagged, SessionTypeOK, Busy, Working
  <2>5. \A d \in Call : call'[d] # "post" /\ call'[d] \notin Decided
    BY <1>1, <2>1, <2>4, Alone DEF Decided
  <2> QED BY <1>3, <2>3, <2>5
<1>17. CASE AbortSession
  <2>1. /\ UNCHANGED <<call, last, retryOpen>>
        /\ run' = IF run # None THEN [run EXCEPT !.aborted = TRUE] ELSE run
    BY <1>17 DEF AbortSession, Stopping
  <2>2. run' # None /\ run'.ended => run # None /\ run.ended
    BY <2>1 DEF SessionTypeOK
  <2> QED BY <1>4, <2>1, <2>2
<1>18. ~Compact
  BY <1>1 DEF Compact
<1>19. CASE Compacts \/ ClearQueue \/ (\E m \in QueuedMsg : Queue(m) \/ Take(m)) \/ UNCHANGED sessionVars
  <2>1. UNCHANGED <<call, last, retryOpen, run>>
    BY <1>19 DEF Compacts, CompactStart, CompactDone, ClearQueue, Queue, Take, sessionVars
  <2> QED BY <1>4, <2>1
<1> QED BY <1>7, <1>8, <1>10, <1>11, <1>12, <1>13, <1>14, <1>15, <1>16, <1>17, <1>18, <1>19,
        <1>20, <1>21 DEF SessionNext, Preflights, Works, Agent

(* The flag is lowered by a call that has closed its retry and taken what   *)
(* was queued.                                                              *)
LEMMA CleanKept ==
  ASSUME SessionTypeOK, Steady, Flagged, Reported, SettledIsClean, [SessionNext]_sessionVars
  PROVE  SettledIsClean'
<1> USE DEF retries, sessionQueues, history, troubles
<1> SUFFICES ASSUME ~active', ~overlapped', ~(compacts' > 0), ~brokeOff'
             PROVE  ~retryOpen' /\ queue' \subseteq idleMsgs'
  BY DEF SettledIsClean
<1>1. ~overlapped /\ compacts = 0 /\ connected
  BY Stays DEF Steady, SessionTypeOK
<1>2. ~(compacts > 0)
  BY <1>1
<1> DEFINE Goal == ~retryOpen' /\ queue' \subseteq idleMsgs'
<1>3. CASE active
  <2>1. PICK c \in Call : (Settle(c, "post") /\ Post(c)) \/ Checked(c) \/ Fail(c)
    BY <1>3
       DEF SessionNext, PromptCall, Trigger, Preflights, Enter, PreCompact, Begin, Run, Works,
           Post, PostThrows, Backoff, CompactEnds, Settled, Agent, EndRun, RunRejects, Step, Take,
           ModelAnswers, Compacts, CompactStart, CompactDone, AbortSession, Compact, ClearQueue,
           Queue, sessionVars
  <2>2. ~Fail(c)
    <3>1. Fail(c) => call[c] = "failing"
      BY DEF Fail, Goes
    <3> QED BY <1>1, <3>1 DEF Flagged
  <2>3. CASE Post(c) /\ Settle(c, "post")
    <3>1. call[c] = "post"
      BY <2>3 DEF Post
    <3>2. last # "none"
      BY <1>1, <1>2, <3>1 DEF Reported, Heard
    <3>3. call'[c] = "settling" /\ call'[c] \notin {"backoff", "compact and retry", "compact", "checked"}
      BY <2>3 DEF Settle, Goes, SessionTypeOK
    <3> QED BY <2>3, <3>2, <3>3 DEF Post, Goes, SessionTypeOK
  <2>4. CASE Checked(c)
    <3>1. /\ queue' = {} /\ UNCHANGED <<retryOpen, idleMsgs>>
          /\ call[c] \in {"checked", "cut"}
      BY <1>3, <2>4 DEF Checked, Settle, Goes
    <3>2. ~retryOpen
      BY <1>1, <1>2, <3>1 DEF Reported, Decided
    <3> QED BY <3>1, <3>2
  <2> QED BY <2>1, <2>2, <2>3, <2>4
<1>4. CASE ~active
  <2>2. Busy = {} /\ run = None
    BY <1>1, <1>4 DEF Flagged, SessionTypeOK, Busy, Working
  <2>4. ASSUME NEW c \in Call, \/ Post(c) \/ Backoff(c) \/ CompactEnds(c) \/ Checked(c) \/ Fail(c)
                              \/ PostThrows(c)
        PROVE  FALSE
    BY <2>2, <2>4 DEF Busy, Working, Post, Backoff, CompactEnds, Checked, Fail, ContinueRun, Settle,
                      Goes, PostThrows
  <2>5. /\ ~EndRun /\ ~RunRejects /\ ~Step /\ (\A m \in QueuedMsg : ~Take(m))
        /\ \A k \in Outcomes : ~ModelAnswers(k)
    BY <2>2 DEF EndRun, RunRejects, Step, Take, ModelAnswers, Looping
  <2>11. brokeOff' = brokeOff
    BY <2>4, <2>5 DEF SessionNext, PromptCall, Trigger, Preflights, Enter, PreCompact, Begin, Run,
         Works, Settled, Agent, Compacts, CompactStart, CompactDone, AbortSession, Compact,
         ClearQueue, Queue, sessionVars
  <2>1. ~retryOpen /\ queue \subseteq idleMsgs
    BY <1>1, <1>2, <1>4, <2>11 DEF SettledIsClean
  <2>3. UNCHANGED <<retryOpen, queue, idleMsgs>> => Goal
    BY <2>1
  <2>6. ASSUME NEW m \in QueuedMsg, Queue(m) PROVE Goal
    BY <1>4, <2>1, <2>6 DEF Queue
  <2>7. ASSUME ClearQueue PROVE Goal
    BY <2>1, <2>7 DEF ClearQueue
  <2>8. ASSUME Compacts \/ AbortSession \/ Compact \/ UNCHANGED sessionVars PROVE Goal
    BY <2>3, <2>8 DEF Compacts, CompactStart, CompactDone, AbortSession, Compact, sessionVars
  <2>10. ASSUME NEW c \in Call,
                PromptCall(c) \/ Trigger(c) \/ Preflights(c) \/ Settled(c)
         PROVE  Goal
    BY <2>3, <2>10 DEF PromptCall, Trigger, Preflights, Enter, PreCompact, Begin, Settled
  <2> HIDE DEF Goal
  <2>9. Goal
    BY <2>4, <2>5, <2>6, <2>7, <2>8, <2>10 DEF SessionNext, Works, Agent
  <2> QED BY <2>9 DEF Goal
<1> QED BY <1>3, <1>4
-----------------------------------------------------------------------------
LEMMA SessionInvHolds == SessionSpec => []SessionInv
<1>1. SessionInit => SessionInv
  <2> SUFFICES ASSUME SessionInit PROVE SessionInv
    OBVIOUS
  <2>1. SessionTypeOK
    <3>1. 0 \in 0..MaxRetries /\ 0 \in 0..MaxSteps /\ 0 \in 0..MaxAborts /\ 0 \in 0..MaxCompacts
      BY SessionAssumption
    <3> QED BY <3>1 DEF SessionInit, SessionTypeOK
  <2>2. Busy = {}
    BY DEF SessionInit, Busy, Working
  <2> QED BY <2>1, <2>2 DEF SessionInit, SessionInv, Announced, Steady, Flagged, Reported,
     Decided, SettledIsClean
<1>2. SessionInv /\ [SessionNext]_sessionVars => SessionInv'
  BY SessionTyped, AnnouncedKept, SteadyKept, FlagKept, ReportedKept, CleanKept DEF SessionInv
<1> QED BY <1>1, <1>2, PTL DEF SessionSpec

(* While prompts do not overlap, the flag of a session is up exactly while  *)
(* a prompt of it works, and the run of the agent is one that a prompt      *)
(* awaits (isStreaming, _runAgentPrompt).                                   *)
THEOREM SessionConsistentHolds == SessionSpec => []SessionConsistent
<1>1. SessionInv => SessionConsistent
  <2> SUFFICES ASSUME SessionInv PROVE FlagCovers /\ RunIsAwaited
    BY DEF SessionInv, SessionConsistent
  <2>1. CASE overlapped
    BY <2>1 DEF FlagCovers, RunIsAwaited
  <2>2. CASE ~overlapped
    <3>1. /\ active <=> \E c \in Call : call[c] \in Working \cup {"failing"}
          /\ RunIsAwaited
      BY <2>2 DEF SessionInv, Flagged, Busy, RunIsAwaited
    <3>2. active \in BOOLEAN
      BY DEF SessionInv, SessionTypeOK
    <3> QED BY <3>1, <3>2 DEF FlagCovers
  <2> QED BY <2>1, <2>2
<1> QED BY <1>1, SessionInvHolds, PTL

(* A session that settled has closed its retries and taken its messages,    *)
(* through any number of prompts, retries, aborts and continuations.        *)
THEOREM SettledIsCleanHolds == SessionSpec => []SettledIsClean
<1>1. SessionInv => SettledIsClean
  BY DEF SessionInv
<1> QED BY <1>1, SessionInvHolds, PTL
-----------------------------------------------------------------------------
(* AgentSession implements SessionPrompts                                   *)

LEMMA WhereStagesAre ==
  /\ \A stage \in {"none", "input", "settling", "done", "rejected"} : PlaceOf(stage) = "out"
  /\ PlaceOf("checks") = "let in" /\ PlaceOf("compacting") = "let in"
  /\ PlaceOf("run") = "run" /\ PlaceOf("failing") = "failing"
  /\ \A stage \in {"post", "backoff", "checked", "cut", "compact", "compact and retry"} :
       PlaceOf(stage) = "between"
  /\ PlaceOf("broken") = "between"
BY DEF PlaceOf, Working

(* What the promise sees of a session.                                      *)
Seats   == [c \in Call |-> PlaceOf(call[c])]
Runners == IF run = None THEN {} ELSE {run.by}

Promised == [Prompts!Next]_(Prompts!promptVars)

LEMMA Reseats ==
  ASSUME SessionTypeOK, NEW c \in Call, NEW from, NEW to, Goes(c, from, to)
  PROVE  /\ Prompts!Goes(c, PlaceOf(from), PlaceOf(to))
         /\ PlaceOf(from) = PlaceOf(to) => Seats' = Seats
<1>1. /\ call[c] = from /\ call' = [call EXCEPT ![c] = to] /\ DOMAIN call = Call
  BY DEF Goes, SessionTypeOK
<1>2. Seats[c] = PlaceOf(from) /\ Seats' = [Seats EXCEPT ![c] = PlaceOf(to)]
  <2>1. \A d \in Call : Seats'[d] = IF d = c THEN PlaceOf(to) ELSE Seats[d]
    BY <1>1 DEF Seats
  <2>2. Seats' = [d \in Call |-> Seats'[d]]
    BY DEF Seats
  <2> QED BY <1>1, <2>1, <2>2 DEF Seats
<1>3. PlaceOf(from) = PlaceOf(to) => Seats' = Seats
  BY <1>2 DEF Seats
<1> QED BY <1>2, <1>3 DEF Prompts!Goes, Seats

LEMMA OneRunner ==
  ASSUME SessionTypeOK
  PROVE  /\ \A c \in Call : [by |-> c, ended |-> FALSE, aborted |-> FALSE] # None
         /\ run # None => run.by \in Call
<1> DEFINE Record == [by : Call, ended : BOOLEAN, aborted : BOOLEAN]
<1>1. None \notin Record
  BY SessionAssumption
<1>2. \A c \in Call : [by |-> c, ended |-> FALSE, aborted |-> FALSE] \in Record
  OBVIOUS
<1>3. run \in Record \cup {None}
  BY DEF SessionTypeOK
<1>4. \A r \in Record : r.by \in Call
  OBVIOUS
<1> HIDE DEF Record
<1> QED BY <1>1, <1>2, <1>3, <1>4

(* A call asks the agent for a run: the first of it, or another.            *)
LEMMA AsksForRun ==
  ASSUME SessionTypeOK, NEW c \in Call, NEW from,
         Goes(c, from, IF run = None THEN "run" ELSE "failing"),
         IF run = None THEN run' = [by |-> c, ended |-> FALSE, aborted |-> FALSE]
                       ELSE run' = run
  PROVE  Prompts!Runs(c, PlaceOf(from))
<1>1. CASE run = None
  <2>1. Prompts!Goes(c, PlaceOf(from), "run")
    BY <1>1, Reseats, WhereStagesAre
  <2>2. Runners = {} /\ Runners' = {c}
    BY <1>1, OneRunner DEF Runners
  <2> QED BY <2>1, <2>2 DEF Prompts!Runs, Runners
<1>2. CASE run # None
  <2>1. Prompts!Goes(c, PlaceOf(from), "failing")
    BY <1>2, Reseats, WhereStagesAre
  <2>2. Runners # {} /\ Runners' = Runners
    BY <1>2 DEF Runners
  <2> QED BY <2>1, <2>2 DEF Prompts!Runs, Runners
<1> QED BY <1>1, <1>2

LEMMA ContinuesRun ==
  ASSUME SessionTypeOK, NEW c \in Call, NEW from, ContinueRun(c, from),
         PlaceOf(from) = "between", active' = active
  PROVE  Promised
<1>1. Prompts!Runs(c, "between")
  BY AsksForRun DEF ContinueRun
<1>2. Prompts!Continue(c)
  BY <1>1 DEF Prompts!Continue
<1> QED BY <1>2 DEF Promised, Prompts!Next

LEMMA LeavesSession ==
  ASSUME SessionTypeOK, NEW c \in Call, NEW from, Goes(c, from, "settling"),
         PlaceOf(from) \in {"between", "failing"}, active' = FALSE, run' = run
  PROVE  Promised
<1>1. Prompts!Goes(c, PlaceOf(from), "out")
  BY Reseats, WhereStagesAre
<1>2. Prompts!Leave(c)
  BY <1>1 DEF Prompts!Leave
<1> QED BY <1>2 DEF Promised, Prompts!Next

LEMMA StaysSeated ==
  ASSUME Seats' = Seats, Runners' = Runners, active' = active
  PROVE  Promised
BY DEF Promised, Prompts!promptVars, Seats, Runners

LEMMA MovesWithin ==
  ASSUME SessionTypeOK, NEW c \in Call, NEW from, NEW to, Goes(c, from, to),
         PlaceOf(from) = PlaceOf(to), run' = run, active' = active
  PROVE  Promised
<1>1. Seats' = Seats /\ Runners' = Runners
  BY Reseats DEF Runners
<1> QED BY <1>1, StaysSeated

LEMMA PreflightPromised ==
  ASSUME SessionTypeOK, NEW c \in Call, PromptCall(c) \/ Trigger(c) \/ Preflights(c)
  PROVE  Promised
<1>1. CASE PromptCall(c)
  <2>1. PICK to \in {"rejected", "input"} : Goes(c, "none", to)
    BY <1>1 DEF PromptCall, Goes
  <2> QED BY <1>1, <2>1, MovesWithin, WhereStagesAre DEF PromptCall
<1>2. CASE Enter(c)
  <2>1. CASE active
    BY <1>2, <2>1, MovesWithin, WhereStagesAre DEF Enter
  <2>2. CASE ~active
    <3>1. Prompts!Goes(c, "out", "let in")
      BY <1>2, <2>2, Reseats, WhereStagesAre DEF Enter
    <3>2. active' = active /\ Runners' = Runners
      BY <1>2 DEF Enter, Runners
    <3>3. Prompts!Pass(c)
      BY <2>2, <3>1, <3>2 DEF Prompts!Pass, Runners
    <3> QED BY <3>3 DEF Promised, Prompts!Next
  <2> QED BY <2>1, <2>2
<1>3. CASE PreCompact(c)
  BY <1>3, MovesWithin, WhereStagesAre DEF PreCompact
<1>4. ASSUME NEW from, Goes(c, from, IF run = None THEN "run" ELSE "failing"), Run(c)
      PROVE  Prompts!Runs(c, PlaceOf(from)) /\ active' = TRUE
  BY <1>4, AsksForRun DEF Run
<1>5. CASE Begin(c)
  <2>1. Prompts!Runs(c, "let in") /\ active' = TRUE
    BY <1>4, <1>5, WhereStagesAre DEF Begin
  <2>2. Prompts!Begin(c)
    BY <2>1 DEF Prompts!Begin
  <2> QED BY <2>2 DEF Promised, Prompts!Next
<1>6. CASE Trigger(c)
  <2>1. Prompts!Runs(c, "out") /\ active' = TRUE /\ ~active
    BY <1>4, <1>6, WhereStagesAre DEF Trigger
  <2>2. Prompts!Trigger(c)
    BY <2>1 DEF Prompts!Trigger
  <2> QED BY <2>2 DEF Promised, Prompts!Next
<1> QED BY <1>1, <1>2, <1>3, <1>5, <1>6 DEF Preflights

LEMMA WorkPromised ==
  ASSUME SessionTypeOK, NEW c \in Call, Works(c)
  PROVE  Promised
<1> DEFINE B == {"post", "backoff", "checked", "cut", "compact", "compact and retry"}
<1>1. ASSUME NEW from \in B, NEW to \in B, Goes(c, from, to), run' = run, active' = active
      PROVE  Promised
  BY <1>1, MovesWithin, WhereStagesAre
<1>2. ASSUME NEW from \in B, Settle(c, from) PROVE Promised
  BY <1>2, LeavesSession, WhereStagesAre DEF Settle
<1>3. ASSUME NEW from \in B, ContinueRun(c, from), active' = active PROVE Promised
  BY <1>3, ContinuesRun, WhereStagesAre
<1>4. CASE Post(c)
  <2>1. \/ Settle(c, "post")
        \/ /\ \E to \in B : Goes(c, "post", to)
           /\ run' = run /\ active' = active
    BY <1>4 DEF Post
  <2> QED BY <1>1, <1>2, <2>1
<1>5. CASE Backoff(c)
  <2>1. /\ active' = active
        /\ \/ ContinueRun(c, "backoff")
           \/ (\E to \in B : Goes(c, "backoff", to)) /\ run' = run
    BY <1>5 DEF Backoff
  <2> QED BY <1>1, <1>3, <2>1
<1>6. CASE CompactEnds(c)
  <2>1. /\ active' = active
        /\ \/ ContinueRun(c, "compact and retry")
           \/ /\ Goes(c, "compact", "checked") \/ Goes(c, "compact and retry", "cut")
              /\ run' = run
    BY <1>6 DEF CompactEnds
  <2> QED BY <1>1, <1>3, <2>1
<1>7. CASE Checked(c)
  <2>1. \/ active' = active /\ (ContinueRun(c, "checked") \/ ContinueRun(c, "cut"))
        \/ Settle(c, "checked") \/ Settle(c, "cut")
    BY <1>7 DEF Checked
  <2> QED BY <1>2, <1>3, <2>1
<1>8. CASE Fail(c)
  <2>1. /\ Goes(c, "failing", "settling") \/ Goes(c, "broken", "settling")
        /\ active' = FALSE /\ run' = run
    BY <1>8 DEF Fail
  <2> QED BY <2>1, LeavesSession, WhereStagesAre
<1>9. CASE Settled(c)
  BY <1>9, MovesWithin, WhereStagesAre DEF Settled
<1> QED BY <1>4, <1>5, <1>6, <1>7, <1>8, <1>9 DEF Works

LEMMA PromisedStep == ASSUME SessionTypeOK, [SessionNext]_sessionVars PROVE Promised
<1>1. ASSUME call' = call, active' = active, run' = run PROVE Promised
  BY <1>1, StaysSeated DEF Seats, Runners
<1>8. ASSUME NEW c \in Call, PostThrows(c) PROVE Promised
  <2>1. /\ run' = run /\ active' = active
        /\ \E from \in {"post", "backoff", "compact", "compact and retry"} :
             Goes(c, from, "broken")
    BY <1>8 DEF PostThrows
  <2> QED BY <2>1, MovesWithin, WhereStagesAre
<1>2. ASSUME call' = call, active' = active, run # None, run' # None, run'.by = run.by
      PROVE  Promised
  BY <1>2, StaysSeated DEF Seats, Runners
<1>3. ASSUME NEW r, run # None, r = [run EXCEPT !.ended = TRUE] \/ r = [run EXCEPT !.aborted = TRUE]
      PROVE  r # None /\ r.by = run.by
  BY <1>3, SessionAssumption DEF SessionTypeOK
<1>4. CASE EndRun \/ RunRejects
  <2>1. run # None /\ run.by \in Call /\ run' = None /\ active' = active
    BY <1>4, OneRunner DEF EndRun, RunRejects
  <2>2. Prompts!Goes(run.by, "run", "between")
    BY <1>4, <2>1, Reseats, WhereStagesAre DEF EndRun, RunRejects
  <2>3. Prompts!RunEnds(run.by)
    BY <2>1, <2>2 DEF Prompts!RunEnds
  <2> QED BY <2>1, <2>3 DEF Promised, Prompts!Next
<1>5. ASSUME NEW k \in Outcomes, ModelAnswers(k) PROVE Promised
  <2>1. run # None /\ run' = [run EXCEPT !.ended = TRUE] /\ call' = call /\ active' = active
    BY <1>5 DEF ModelAnswers, Looping
  <2> QED BY <1>2, <1>3, <2>1
<1>6. CASE AbortSession \/ Compact
  <2>1. call' = call /\ active' = active
    BY <1>6 DEF AbortSession, Compact
  <2>2. run' = IF run # None THEN [run EXCEPT !.aborted = TRUE] ELSE run
    BY <1>6 DEF AbortSession, Compact, Stopping
  <2>3. CASE run = None
    BY <1>1, <2>1, <2>2, <2>3
  <2>4. CASE run # None
    BY <1>2, <1>3, <2>1, <2>2, <2>4
  <2> QED BY <2>3, <2>4
<1>7. CASE \/ Step \/ Compacts \/ ClearQueue \/ UNCHANGED sessionVars
           \/ (\E m \in QueuedMsg : Take(m) \/ Queue(m))
  BY <1>1, <1>7 DEF Step, Compacts, CompactStart, CompactDone, ClearQueue, sessionVars, Take, Queue
<1> QED BY <1>4, <1>5, <1>6, <1>7, <1>8, PreflightPromised, WorkPromised DEF SessionNext, Agent

(* Who prompts a session may think in terms of SessionPrompts: through      *)
(* retries, compactions, continuations, aborts and overlapping prompts, the *)
(* agent is in one run at a time, begun by a prompt that awaits it, and     *)
(* only a prompt that is done lowers the flag.                              *)
THEOREM PromptsRefinement == SessionSpec => ImplementsPrompts
<1>1. SessionInit => Prompts!Init
  <2> SUFFICES ASSUME SessionInit PROVE Prompts!Init
    OBVIOUS
  <2>1. [c \in Call |-> PlaceOf(call[c])] = [c \in Call |-> "out"]
    BY WhereStagesAre DEF SessionInit
  <2>2. active = FALSE /\ run = None
    BY DEF SessionInit
  <2> QED BY <2>1, <2>2 DEF Prompts!Init
<1>2. SessionInv /\ [SessionNext]_sessionVars => [Prompts!Next]_(Prompts!promptVars)
  BY PromisedStep DEF SessionInv, Promised
<1> QED BY <1>1, <1>2, SessionInvHolds, PTL DEF SessionSpec, ImplementsPrompts, Prompts!Spec

(* ... a run is awaited, and who awaits a run has one, even where prompts   *)
(* overlap: the flag may then be down, but no answer is without its prompt. *)
THEOREM RunsAwaitedHolds == SessionSpec => []Prompts!RunsAwaited
<1>1. SessionInit => Prompts!RunsAwaited
  BY DEF SessionInit, Prompts!RunsAwaited, PlaceOf
<1>2. SessionTypeOK /\ Prompts!RunsAwaited /\ Promised => Prompts!RunsAwaited'
  <2> SUFFICES ASSUME SessionTypeOK, Runners = {c \in Call : Seats[c] = "run"}, Promised
               PROVE  Runners' = {c \in Call : Seats'[c] = "run"}
    BY DEF Prompts!RunsAwaited, Runners, Seats
  <2>1. ASSUME NEW c \in Call, NEW from, NEW to, Prompts!Goes(c, from, to)
        PROVE  \A d \in Call : Seats'[d] = IF d = c THEN to ELSE Seats[d]
    BY <2>1 DEF Prompts!Goes, Seats
  <2>2. ASSUME NEW c \in Call, NEW from, Prompts!Runs(c, from), from # "run"
        PROVE  Runners' = {d \in Call : Seats'[d] = "run"}
    <3>1. CASE Runners = {} /\ Prompts!Goes(c, from, "run") /\ Runners' = {c}
      BY <2>1, <3>1
    <3>2. CASE Runners # {} /\ Prompts!Goes(c, from, "failing") /\ Runners' = Runners
      <4>1. Seats[c] = from
        BY <3>2 DEF Prompts!Goes, Seats
      <4> QED BY <2>1, <2>2, <3>2, <4>1
    <3> QED BY <2>2, <3>1, <3>2 DEF Prompts!Runs, Runners
  <2>3. ASSUME NEW c \in Call,
               \/ Prompts!Pass(c) \/ Prompts!Begin(c) \/ Prompts!Trigger(c)
               \/ Prompts!RunEnds(c) \/ Prompts!Continue(c) \/ Prompts!Leave(c)
        PROVE  Runners' = {d \in Call : Seats'[d] = "run"}
    <3>1. CASE Prompts!Pass(c)
      BY <2>1, <3>1 DEF Prompts!Pass, Runners, Prompts!Goes, Seats
    <3>2. CASE Prompts!Begin(c) \/ Prompts!Trigger(c) \/ Prompts!Continue(c)
      BY <2>2, <3>2 DEF Prompts!Begin, Prompts!Trigger, Prompts!Continue
    <3>3. CASE Prompts!RunEnds(c)
      BY <2>1, <3>3 DEF Prompts!RunEnds, Runners
    <3>4. CASE Prompts!Leave(c)
      BY <2>1, <3>4 DEF Prompts!Leave, Runners, Prompts!Goes, Seats
    <3> QED BY <2>3, <3>1, <3>2, <3>3, <3>4
  <2>4. CASE UNCHANGED Prompts!promptVars
    BY <2>4 DEF Prompts!promptVars, Runners, Seats
  <2> QED BY <2>3, <2>4 DEF Promised, Prompts!Next
<1>3. SessionInv /\ [SessionNext]_sessionVars => SessionTypeOK /\ Promised
  BY PromisedStep DEF SessionInv
<1> QED BY <1>1, <1>2, <1>3, SessionInvHolds, PTL DEF SessionSpec
=============================================================================
