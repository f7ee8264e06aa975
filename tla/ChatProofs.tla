----------------------------- MODULE ChatProofs -----------------------------
(***************************************************************************)
(* packages/chat, in two parts that share no state.                        *)
(*                                                                         *)
(* JobScheduler, for any number of jobs, overlapping ticks, intervals and  *)
(* ends of the process: a time of a job is delivered once per life of the  *)
(* process, the file follows the map, what is ended stays ended, and a     *)
(* one-shot job is lost only as the code loses it.                         *)
(*                                                                         *)
(* ChatSessions, for any number of turns, soft jobs, conversations and     *)
(* sessions: the map of the pool and its set agree, no run is cut short    *)
(* while prompts keep apart, a turn is answered with its own text, and the *)
(* prompts of each session are those of SessionPrompts.                    *)
(***************************************************************************)
EXTENDS JobScheduler, ChatSessions, TLAPS

Fired(t)    == tick[t].stage \notin {"idle", "scan"}
(* The job of a tick has fired and nothing has come of it yet.              *)
Underway(t) == tick[t].stage \in {"generate", "deliver"}

(* Ids are given out in order: nothing is known of a job before it is born. *)
Born == /\ \A t \in Tick : Fired(t) => tick[t].job \in 1..born
        /\ \A j \in Job : j > born => /\ mem[j] = Absent /\ disk[j] = Absent
                                      /\ \A s \in Slot : sent[j][s] = 0
        /\ ended \subseteq 1..born

(* Nothing is under way while the process is down.                          *)
Still == ~up => \A t \in Tick : tick[t] = Idle

(* What no fire holds is in the file as in the map.                         *)
Synced == up => \A j \in Job \ InFire :
                  /\ mem[j].state = "on" <=> disk[j].state = "on"
                  /\ mem[j].state = "on" => mem[j].at = disk[j].at

(* The map may still come to the slot s of j.                               *)
Ahead(j, s) == ~up \/ (mem[j].state = "on" /\ mem[j].at <= s)

(* A slot is delivered once in a life of the process: not yet when it lies  *)
(* ahead or is under way, and it is under way in one tick.                  *)
Counted ==
  /\ \A j \in Job, s \in Slot : Ahead(j, s) => sent[j][s] <= crashes
  /\ \A t \in Tick : Underway(t) => /\ sent[tick[t].job][tick[t].slot] <= crashes
                                    /\ ~Ahead(tick[t].job, tick[t].slot)
  /\ \A t, u \in Tick : /\ Underway(t) /\ Underway(u)
                        /\ tick[t].job = tick[u].job /\ tick[t].slot = tick[u].slot
                        => t = u

(* A one-shot job that nothing has become of is on in the file, and while   *)
(* the process runs on in the map or under way.                             *)
Settled(j) == \/ j \in ended \cup dropped \cup saved
              \/ \E s \in Slot : sent[j][s] > 0
Held(j) == \/ mem[j].state = "on"
           \/ mem[j].state = "off" /\ \E t \in Tick : Underway(t) /\ tick[t].job = j
Kept == \A j \in 1..born :
          ~kind[j].every => Settled(j) \/ (disk[j].state = "on" /\ (up => Held(j)))

IInv == /\ TypeOK /\ Born /\ Still /\ Synced /\ EndedStaysEnded
        /\ OncePerSlot /\ Counted /\ Kept
-----------------------------------------------------------------------------
(* Nothing is scheduled yet.                                                *)
LEMMA Initial == Init => IInv
<1> SUFFICES ASSUME Init PROVE IInv
  OBVIOUS
<1>1. MaxJobs \in Nat /\ MaxTime \in Nat /\ MaxCrashes \in Nat
  BY SchedulerAssumption
<1>2. Absent \in [state : {"absent", "on", "off"}, at : Slot] /\ Absent.state = "absent"
  BY <1>1 DEF Absent, Slot
<1>3. /\ Idle \in [stage : Stages, now : 0..MaxTime, job : 0..MaxJobs, slot : Slot]
      /\ Idle.stage = "idle"
  BY <1>1 DEF Idle, Slot, Stages
<1>4. \A j \in Job : mem[j] = Absent /\ disk[j] = Absent /\ \A s \in Slot : sent[j][s] = 0
  BY DEF Init
<1>5. \A t \in Tick : tick[t] = Idle
  BY DEF Init
<1>6. TypeOK
  <2>1. sent \in [Job -> [Slot -> Nat]]
    BY DEF Init
  <2>2. {mem, disk} \subseteq [Job -> [state : {"absent", "on", "off"}, at : Slot]]
    BY <1>2 DEF Init
  <2>3. tick \in [Tick -> [stage : Stages, now : 0..MaxTime, job : 0..MaxJobs, slot : Slot]]
    BY <1>3 DEF Init
  <2>4. kind \in [Job -> [soft : BOOLEAN, every : BOOLEAN]]
    BY DEF Init
  <2>5. QED BY <1>1, <2>1, <2>2, <2>3, <2>4 DEF Init, TypeOK
<1>7. Born
  BY <1>3, <1>4, <1>5 DEF Born, Fired, Init
<1>8. Still
  BY DEF Still, Init
<1>9. Synced /\ EndedStaysEnded
  BY <1>2, <1>4 DEF Synced, EndedStaysEnded, Init
<1>10. OncePerSlot /\ Counted
  <2>1. \A t \in Tick : ~Underway(t)
    BY <1>3, <1>5 DEF Underway
  <2>2. crashes = 0
    BY DEF Init
  <2>3. QED BY <1>4, <2>1, <2>2 DEF OncePerSlot, Counted
<1>11. Kept
  BY DEF Kept, Init
<1> QED BY <1>6, <1>7, <1>8, <1>9, <1>10, <1>11 DEF IInv
-----------------------------------------------------------------------------
(* What persist leaves: the file is the map, and saved only grows, by the   *)
(* jobs known to the map that were firing.                                  *)
LEMMA Persisting ==
  ASSUME TypeOK, NEW m, NEW firing, firing \subseteq Job, Persist(m, firing)
  PROVE  /\ disk' = m /\ saved \subseteq saved' /\ saved' \subseteq Job
         /\ \A j \in firing : m[j].state # "absent" => j \in saved'
BY DEF Persist, TypeOK

(* A job in fire is one that was born.                                      *)
LEMMA FiringAreJobs ==
  ASSUME TypeOK, Born
  PROVE  /\ InFire \subseteq Job
         /\ \A t \in Tick : Fired(t) => tick[t].job \in Job /\ tick[t].job \in InFire
         /\ \A t \in Tick : Underway(t) => Fired(t)
<1>1. 1..born \subseteq Job
  BY SchedulerAssumption DEF TypeOK, Job
<1> QED BY <1>1 DEF Born, Fired, InFire, Underway

(* Scheduling gives the new job its kind, and no other.                     *)
LEMMA NewKind ==
  ASSUME NEW j \in Job, Schedule(j)
  PROVE  \E s, e \in BOOLEAN : kind' = [kind EXCEPT ![j] = [soft |-> s, every |-> e]]
<1>1. kind' \in {[kind EXCEPT ![j] = [soft |-> s, every |-> e]] : s, e \in BOOLEAN}
  BY DEF Schedule
<1> QED BY ONLY <1>1

(* The type of the state after each step.                                   *)
LEMMA Types ==
  ASSUME TypeOK, Born, [Next]_vars
  PROVE  TypeOK'
<1> DEFINE Entry == [state : {"absent", "on", "off"}, at : Slot]
           TickOf == [stage : Stages, now : 0..MaxTime, job : 0..MaxJobs, slot : Slot]
<1>1. MaxJobs \in Nat /\ MaxTime \in Nat /\ MaxCrashes \in Nat /\ Job \subseteq 0..MaxJobs
  BY SchedulerAssumption DEF Job
<1>2. /\ Absent \in Entry /\ Idle \in TickOf
      /\ \A n \in 0..MaxTime : On(n + 1) \in Entry
      /\ 0 \in Slot /\ "scan" \in Stages
  BY <1>1 DEF Absent, Idle, On, Slot, Stages
<1>3. /\ mem \in [Job -> Entry] /\ disk \in [Job -> Entry] /\ tick \in [Tick -> TickOf]
      /\ now \in 0..MaxTime /\ born \in 0..MaxJobs /\ crashes \in 0..MaxCrashes
      /\ kind \in [Job -> [soft : BOOLEAN, every : BOOLEAN]]
      /\ sent \in [Job -> [Slot -> Nat]]
      /\ dropped \subseteq Job /\ ended \subseteq Job /\ saved \subseteq Job
      /\ up \in BOOLEAN /\ timer \in BOOLEAN
  BY DEF TypeOK
<1>4. /\ InFire \subseteq Job
      /\ \A t \in Tick : Fired(t) => tick[t].job \in Job
  BY FiringAreJobs
<1> HIDE DEF Entry, TickOf
<1>5. CASE UNCHANGED vars
  BY <1>5 DEF TypeOK, vars, jobs
<1>6. CASE Clock
  BY <1>1, <1>3, <1>6 DEF TypeOK, Clock, jobs, Entry, TickOf
<1>7. CASE Stop
  <2>1. disk' = mem /\ saved' \subseteq Job
    BY <1>4, <1>7, Persisting DEF Stop
  <2>2. QED BY <1>3, <1>7, <2>1 DEF TypeOK, Stop, jobs, Entry, TickOf
<1>8. CASE Crash
  <2>1. mem' \in [Job -> Entry] /\ tick' \in [Tick -> TickOf] /\ crashes' \in 0..MaxCrashes
    BY <1>1, <1>2, <1>3, <1>8 DEF Crash
  <2>2. QED BY <1>3, <1>8, <2>1 DEF TypeOK, Crash, jobs, Entry, TickOf
<1>9. CASE Restart
  <2>1. mem' \in [Job -> Entry]
    BY <1>2, <1>3, <1>9 DEF Restart
  <2>2. QED BY <1>3, <1>9, <2>1 DEF TypeOK, Restart, jobs, Entry, TickOf
<1>10. ASSUME NEW j \in Job, Schedule(j) PROVE TypeOK'
  <2>1. mem' \in [Job -> Entry]
    BY <1>2, <1>3, <1>10 DEF Schedule
  <2>2. disk' = mem' /\ saved' \subseteq Job
    <3>1. Persist(mem', InFire)
      BY <1>10 DEF Schedule
    <3>2. QED BY <1>4, <3>1, Persisting
  <2>3. kind' \in [Job -> [soft : BOOLEAN, every : BOOLEAN]]
    <3>1. \E s, e \in BOOLEAN : kind' = [kind EXCEPT ![j] = [soft |-> s, every |-> e]]
      BY <1>10, NewKind
    <3>2. QED BY <1>3, <3>1
  <2>4. QED BY <1>1, <1>3, <1>10, <2>1, <2>2, <2>3 DEF TypeOK, Schedule, Entry, TickOf
<1>11. ASSUME NEW j \in Job, Cancel(j) \/ Remove(j) PROVE TypeOK'
  <2>1. mem' \in [Job -> Entry]
    <3>1. [mem[j] EXCEPT !.state = "off"] \in Entry
      BY <1>3 DEF Entry
    <3>2. QED BY <1>2, <1>3, <1>11, <3>1 DEF Cancel, Remove
  <2>2. disk' = mem' /\ saved' \subseteq Job
    BY <1>4, <1>11, Persisting DEF Cancel, Remove
  <2>3. QED BY <1>3, <1>11, <2>1, <2>2 DEF TypeOK, Cancel, Remove, jobs, Entry, TickOf
<1>12. ASSUME NEW t \in Tick, StartTick(t) PROVE TypeOK'
  <2>1. [Idle EXCEPT !.stage = "scan", !.now = now] \in TickOf
    BY <1>2, <1>3 DEF TickOf
  <2>2. tick' \in [Tick -> TickOf]
    BY <1>3, <1>12, <2>1 DEF StartTick
  <2>3. QED BY <1>3, <1>12, <2>2 DEF TypeOK, StartTick, jobs, Entry, TickOf
<1>13. ASSUME NEW t \in Tick, Claim(t) PROVE TypeOK'
  <2>1. PICK j \in DueFor(t) :
          /\ Fires(t, j)
          /\ mem' = [mem EXCEPT ![j] = IF kind[j].every THEN On(tick[t].now + 1)
                                                        ELSE [@ EXCEPT !.state = "off"]]
    BY <1>13 DEF Claim
  <2>2. j \in Job /\ mem[j] \in Entry /\ tick[t] \in TickOf
    BY <1>3 DEF DueFor
  <2>3. /\ [mem[j] EXCEPT !.state = "off"] \in Entry
        /\ On(tick[t].now + 1) \in Entry
        /\ mem[j].at \in Slot
    BY <1>2, <2>2 DEF Entry, TickOf
  <2>4. mem' \in [Job -> Entry]
    BY <1>3, <2>1, <2>2, <2>3
  <2>5. [tick[t] EXCEPT !.job = j, !.slot = mem[j].at,
                        !.stage = IF kind[j].soft THEN "generate" ELSE "deliver"] \in TickOf
    BY <1>1, <2>2, <2>3 DEF TickOf, Stages
  <2>6. tick' \in [Tick -> TickOf]
    BY <1>3, <2>1, <2>5 DEF Fires
  <2>7. QED BY <1>3, <1>13, <2>4, <2>6 DEF TypeOK, Claim, jobs, Entry, TickOf
<1>14. ASSUME NEW t \in Tick, EndTick(t) PROVE TypeOK'
  <2>1. tick' \in [Tick -> TickOf]
    BY <1>2, <1>3, <1>14 DEF EndTick
  <2>2. QED BY <1>3, <1>14, <2>1 DEF TypeOK, EndTick, jobs, Entry, TickOf
<1>15. ASSUME NEW t \in Tick, Generate(t) \/ Deliver(t) PROVE TypeOK'
  <2>1. /\ Fired(t)
        /\ \E st \in Stages : tick' = [tick EXCEPT ![t].stage = st]
        /\ UNCHANGED <<up, timer, now, jobs, mem, disk, ended, saved, crashes>>
        /\ dropped' = dropped \/ dropped' = dropped \cup {tick[t].job}
        /\ sent' = sent \/ sent' = [sent EXCEPT ![tick[t].job][tick[t].slot] = @ + 1]
    BY <1>15 DEF Generate, Deliver, Moves, Fired, Stages
  <2>2. PICK st \in Stages : tick' = [tick EXCEPT ![t].stage = st]
    BY <2>1
  <2>3. [tick[t] EXCEPT !.stage = st] \in TickOf
    BY <1>3 DEF TickOf
  <2>4. tick' \in [Tick -> TickOf]
    BY <1>3, <2>2, <2>3
  <2>5. sent' \in [Job -> [Slot -> Nat]]
    <3>1. tick[t].job \in Job /\ tick[t].slot \in Slot
      BY <1>3, <1>4, <2>1 DEF TickOf
    <3>2. sent[tick[t].job][tick[t].slot] + 1 \in Nat
      BY <1>3, <3>1
    <3>3. [sent[tick[t].job] EXCEPT ![tick[t].slot] = @ + 1] \in [Slot -> Nat]
      BY <1>3, <3>1, <3>2
    <3>4. QED BY <1>3, <2>1, <3>1, <3>3
  <2>6. dropped' \subseteq Job
    BY <1>3, <1>4, <2>1
  <2>7. QED BY <1>3, <2>1, <2>4, <2>5, <2>6 DEF TypeOK, jobs, Entry, TickOf
<1>16. ASSUME NEW t \in Tick, Settle(t) PROVE TypeOK'
  <2>1. [tick[t] EXCEPT !.stage = "scan", !.slot = 0] \in TickOf
    BY <1>2, <1>3 DEF TickOf
  <2>2. tick' \in [Tick -> TickOf]
    BY <1>3, <1>16, <2>1 DEF Settle
  <2>3. {tick[u].job : u \in {v \in Tick \ {t} : tick[v].stage \notin {"idle", "scan"}}}
          \subseteq Job
    BY <1>4 DEF Fired
  <2>4. disk' = mem /\ saved' \subseteq Job
    BY <1>16, <2>3, Persisting DEF Settle
  <2>5. QED BY <1>3, <1>16, <2>2, <2>4 DEF TypeOK, Settle, jobs, Entry, TickOf
<1> QED BY <1>5, <1>6, <1>7, <1>8, <1>9, <1>10, <1>11, <1>12, <1>13, <1>14, <1>15, <1>16
        DEF Next, Works
-----------------------------------------------------------------------------
(* A step that writes the file as the map has it, and gives the map no      *)
(* entry but that of a job just born.                                       *)
LEMMA Written ==
  ASSUME IInv, TypeOK', up, up', disk' = mem',
         UNCHANGED <<sent, dropped, crashes>>,
         ended \subseteq ended', saved \subseteq saved', born' \in Nat,
         \A j \in 1..born : kind'[j] = kind[j],
         \A j \in 1..born' : j \in 1..born \/ mem'[j].state = "on",
         \A j \in 1..born : mem'[j] = mem[j] \/ j \in ended',
         \A j \in Job, s \in Slot : Ahead(j, s)' => Ahead(j, s) \/ j > born,
         \A t \in Tick : Underway(t)' <=> Underway(t),
         \A t \in Tick : Underway(t) => tick'[t] = tick[t],
         \A t \in Tick : Underway(t) /\ mem'[tick[t].job].state # "absent"
                            => tick[t].job \in saved'
  PROVE  Synced' /\ Still' /\ OncePerSlot' /\ Counted' /\ Kept'
<1> USE DEF IInv
<1>1. \A t \in Tick : Underway(t) => /\ tick[t].job \in Job /\ tick[t].job \in 1..born
                                     /\ tick[t].slot \in Slot
  BY FiringAreJobs DEF Born, TypeOK
<1>2. 1..born \subseteq Job /\ born \in Nat /\ crashes \in Nat
  BY SchedulerAssumption DEF TypeOK, Job
<1>3. Synced' /\ Still' /\ OncePerSlot'
  BY DEF Synced, Still, OncePerSlot
<1>4. ASSUME NEW j \in Job, NEW s \in Slot, Ahead(j, s)' PROVE sent'[j][s] <= crashes'
  <2>1. CASE Ahead(j, s)
    BY <2>1 DEF Counted
  <2>2. CASE j > born
    BY <1>2, <2>2 DEF Born
  <2>3. QED BY <1>4, <2>1, <2>2
<1>5. ASSUME NEW t \in Tick, Underway(t)'
      PROVE  (sent[tick[t].job][tick[t].slot] <= crashes /\ ~Ahead(tick[t].job, tick[t].slot))'
  <2>1. Underway(t) /\ tick'[t] = tick[t]
    BY <1>5
  <2>2. PICK i \in Job, s \in Slot : tick[t].job = i /\ tick[t].slot = s
    BY <1>1, <2>1
  <2>3. ~(i > born) /\ ~Ahead(i, s) /\ sent[i][s] <= crashes
    BY <1>1, <1>2, <2>1, <2>2 DEF Counted
  <2>4. ~Ahead(i, s)'
    BY <2>3
  <2>5. QED BY <2>1, <2>2, <2>3, <2>4 DEF Ahead
<1>6. Counted'
  <2>1. ASSUME NEW t \in Tick, NEW u \in Tick, Underway(t)', Underway(u)',
               tick'[t].job = tick'[u].job, tick'[t].slot = tick'[u].slot
        PROVE  t = u
    BY <2>1 DEF Counted
  <2>2. QED BY <1>4, <1>5, <2>1 DEF Counted
<1>7. ASSUME NEW j \in 1..born', ~kind'[j].every, ~Settled(j)'
      PROVE  disk'[j].state = "on" /\ Held(j)'
  <2>1. CASE j \notin 1..born
    BY <1>7, <2>1 DEF Held
  <2>2. CASE j \in 1..born
    <3>1. ~Settled(j) /\ ~kind[j].every /\ mem'[j] = mem[j]
      BY <1>7, <2>2 DEF Settled
    <3>2. Held(j)
      BY <2>2, <3>1 DEF Kept
    <3>3. mem[j].state = "on"
      <4>1. SUFFICES ASSUME mem[j].state = "off", NEW t \in Tick, Underway(t), tick[t].job = j
                     PROVE  FALSE
        BY <3>2 DEF Held
      <4>2. j \in saved'
        BY <3>1, <4>1
      <4>3. QED BY <1>7, <4>2 DEF Settled
    <3>4. QED BY <3>1, <3>3 DEF Held
  <2>3. QED BY <2>1, <2>2
<1> QED BY <1>3, <1>6, <1>7 DEF Kept, Settled, Held, Underway

(* The process stops its timer, or a job is scheduled, cancelled or removed *)
(* while others fire.                                                       *)
LEMMA Telling ==
  ASSUME IInv, TypeOK', NEW j,
         Stop \/ (j \in Job /\ (Schedule(j) \/ Cancel(j) \/ Remove(j)))
  PROVE  IInv'
<1> USE DEF IInv
<1>1. /\ up /\ up' = up /\ Persist(mem', InFire)
      /\ UNCHANGED <<tick, sent, dropped, crashes>>
  BY DEF Stop, Schedule, Cancel, Remove
<1>2. /\ disk' = mem' /\ saved \subseteq saved'
      /\ \A i \in InFire : mem'[i].state # "absent" => i \in saved'
  BY <1>1, FiringAreJobs, Persisting
<1>3. /\ 1..born \subseteq Job /\ born \in Nat /\ born' \in Nat /\ now \in Nat
      /\ mem \in [Job -> [state : {"absent", "on", "off"}, at : Slot]]
      /\ kind \in [Job -> [soft : BOOLEAN, every : BOOLEAN]]
  BY SchedulerAssumption DEF TypeOK, Job
<1>4. \/ /\ j \in Job /\ j = born + 1 /\ born' = j /\ ended' = ended /\ mem'[j].state = "on"
         /\ \A i \in Job \ {j} : mem'[i] = mem[i] /\ kind'[i] = kind[i]
      \/ /\ born' = born /\ kind' = kind
         /\ ended' = ended \/ (ended' = ended \cup {j} /\ j \in 1..born)
         /\ \A i \in Job : mem'[i] = mem[i] \/ (/\ i = j /\ i \in ended'
                                                /\ mem'[i].state # "on")
  <2>1. CASE Stop
    BY <2>1 DEF Stop, jobs
  <2>2. CASE j \in Job /\ Schedule(j)
    <3>1. mem'[j] = On(now + 1) /\ \A i \in Job \ {j} : mem'[i] = mem[i]
      BY <1>3, <2>2 DEF Schedule
    <3>2. \E s, e \in BOOLEAN : kind' = [kind EXCEPT ![j] = [soft |-> s, every |-> e]]
      BY <2>2, NewKind
    <3>3. \A i \in Job \ {j} : kind'[i] = kind[i]
      BY <1>3, <3>2
    <3>4. j = born + 1 /\ born' = j /\ ended' = ended
      BY <2>2 DEF Schedule
    <3>5. QED BY <2>2, <3>1, <3>3, <3>4 DEF On
  <2>3. CASE j \in Job /\ Cancel(j)
    <3>1. j \in 1..born
      BY <1>3, <2>3 DEF Cancel, Born, Absent, Job
    <3>2. QED BY <1>3, <2>3, <3>1 DEF Cancel, jobs
  <2>4. CASE j \in Job /\ Remove(j)
    <3>1. j \in 1..born
      BY <1>3, <2>4 DEF Remove, Born, Job
    <3>2. QED BY <1>3, <2>4, <3>1 DEF Remove, jobs, Absent
  <2>5. QED BY <2>1, <2>2, <2>3, <2>4
<1>5. Born'
  <2> \A i \in Job : i \in Nat
    BY DEF Job
  <2>1. 1..born \subseteq 1..born' /\ ended' \subseteq 1..born'
    <3>1. born' = born \/ (born' = born + 1 /\ j = born + 1)
      BY <1>3, <1>4
    <3>2. 1..born \subseteq 1..born'
      BY <1>3, <3>1
    <3>3. QED BY <1>4, <3>2 DEF Born
  <2>2. ASSUME NEW i \in Job, i > born' PROVE mem'[i] = Absent /\ i > born
    <3>1. i > born /\ (i # j \/ born' = born)
      BY <1>3, <1>4, <2>2
    <3>2. mem'[i] = mem[i]
      BY <1>3, <1>4, <2>1, <2>2, <3>1
    <3>3. QED BY <3>1, <3>2 DEF Born
  <2>3. QED BY <1>1, <1>2, <2>1, <2>2 DEF Born, Fired
<1>6. EndedStaysEnded'
  <2>1. ASSUME NEW i \in ended' PROVE mem'[i].state # "on"
    <3>1. CASE i \in ended
      <4>1. i \in 1..born /\ mem[i].state # "on"
        BY <3>1 DEF Born, EndedStaysEnded
      <4>2. i # born + 1
        BY <1>3, <4>1
      <4>3. QED BY <1>3, <1>4, <4>1, <4>2
    <3>2. CASE i \notin ended
      <4>1. i = j /\ j \in Job /\ born' = born /\ ended' = ended \cup {j}
        BY <1>3, <1>4, <2>1, <3>2
      <4>2. Cancel(j) \/ Remove(j)
        BY <2>1, <3>2, <1>4 DEF Stop, Schedule
      <4>3. QED BY <1>3, <4>1, <4>2 DEF Cancel, Remove, Absent
    <3>3. QED BY <3>1, <3>2
  <2>2. QED BY <1>2, <2>1 DEF EndedStaysEnded
<1>7. Synced' /\ Still' /\ OncePerSlot' /\ Counted' /\ Kept'
  <2>1. \A t \in Tick : Underway(t) => tick[t].job \in InFire
    BY FiringAreJobs
  <2>2. \A i \in 1..born : kind'[i] = kind[i] /\ (mem'[i] = mem[i] \/ i \in ended')
    <3>1. \A i \in 1..born : i \in Job /\ i # born + 1
      BY <1>3
    <3>2. QED BY <1>4, <3>1
  <2>3. \A i \in 1..born' : i \in 1..born \/ mem'[i].state = "on"
    <3>1. born' = born \/ (born' = born + 1 /\ j = born + 1 /\ mem'[j].state = "on")
      BY <1>3, <1>4
    <3>2. \A i \in 1..(born + 1) : i \in 1..born \/ i = born + 1
      BY <1>3
    <3>3. QED BY <3>1, <3>2
  <2>4. ASSUME NEW i \in Job, NEW s \in Slot, Ahead(i, s)' PROVE Ahead(i, s) \/ i > born
    <3>1. mem'[i].state = "on" /\ mem'[i].at <= s
      BY <1>1, <2>4 DEF Ahead
    <3>2. mem'[i] = mem[i] \/ i = born + 1
      BY <1>4, <3>1
    <3>3. QED BY <1>3, <3>1, <3>2 DEF Ahead
  <2>5. ended \subseteq ended'
    BY <1>4
  <2>6. \A t \in Tick : Underway(t)' <=> Underway(t)
    BY <1>1 DEF Underway
  <2>7. QED BY <1>1, <1>2, <1>3, <2>1, <2>2, <2>3, <2>4, <2>5, <2>6, Written
<1> QED BY <1>5, <1>6, <1>7

(* A fire whose outcome is known writes the file: the others are saved.     *)
LEMMA Settling ==
  ASSUME IInv, TypeOK', NEW t \in Tick, Settle(t)
  PROVE  IInv'
<1> USE DEF IInv
<1> DEFINE firing == {tick[u].job : u \in {v \in Tick \ {t} :
                                            tick[v].stage \notin {"idle", "scan"}}}
<1>1. /\ tick[t].stage \in {"delivered", "empty", "failed"}
      /\ tick'[t].stage = "scan" /\ \A u \in Tick \ {t} : tick'[u] = tick[u]
      /\ UNCHANGED <<up, timer, now, born, kind, mem, sent, dropped, ended, crashes>>
      /\ Persist(mem, firing)
  BY DEF Settle, TypeOK, jobs
<1>2. up
  BY <1>1 DEF Still, Idle
<1>3. firing \subseteq Job
  BY FiringAreJobs DEF Fired
<1>4. /\ disk' = mem' /\ saved \subseteq saved'
      /\ \A i \in firing : mem'[i].state # "absent" => i \in saved'
  BY <1>1, <1>3, Persisting
<1>5. \A u \in Tick : Underway(u) => u # t /\ tick[u].job \in firing
  BY <1>1 DEF Underway
<1> HIDE DEF firing
<1>6. Born'
  BY <1>1, <1>4 DEF Born, Fired
<1>7. EndedStaysEnded'
  BY <1>1, <1>4 DEF EndedStaysEnded
<1>8. /\ \A u \in Tick : Underway(u)' <=> Underway(u)
      /\ \A u \in Tick : Underway(u) => tick'[u] = tick[u]
      /\ \A j \in Job, s \in Slot : Ahead(j, s)' => Ahead(j, s)
  BY <1>1, <1>5 DEF Underway, Ahead
<1>9. born \in Nat
  BY SchedulerAssumption DEF TypeOK
<1>10. Synced' /\ Still' /\ OncePerSlot' /\ Counted' /\ Kept'
  BY <1>1, <1>2, <1>4, <1>5, <1>8, <1>9, Written
<1> QED BY <1>6, <1>7, <1>10
-----------------------------------------------------------------------------
(* Time passes, and a tick begins or ends its scan: no fire moves.          *)
LEMMA Scanning ==
  ASSUME IInv, TypeOK',
         UNCHANGED vars \/ Clock \/ \E t \in Tick : StartTick(t) \/ EndTick(t)
  PROVE  IInv'
<1> USE DEF IInv
<1>1. UNCHANGED <<up, born, kind, mem, disk, sent, dropped, ended, saved, crashes>>
  BY DEF vars, Clock, StartTick, EndTick, jobs
<1>2. /\ \A u \in Tick : Fired(u)' <=> Fired(u)
      /\ \A u \in Tick : Fired(u) => tick'[u] = tick[u]
      /\ ~up => tick' = tick
  <2>1. CASE UNCHANGED vars \/ Clock
    BY <2>1 DEF vars, Clock, Fired
  <2>2. ASSUME NEW t \in Tick, StartTick(t) \/ EndTick(t) PROVE <1>2!:
    <3>1. /\ ~Fired(t) /\ tick'[t].stage \in {"idle", "scan"}
          /\ \A u \in Tick \ {t} : tick'[u] = tick[u]
      <4> DEFINE scan == [Idle EXCEPT !.stage = "scan", !.now = now]
      <4>1. Idle.stage = "idle" /\ scan.stage = "scan"
        BY DEF Idle
      <4>2. tick[t] = Idle \/ tick[t].stage = "scan"
        BY <2>2 DEF StartTick, EndTick
      <4>3. tick' = [tick EXCEPT ![t] = Idle] \/ tick' = [tick EXCEPT ![t] = scan]
        BY <2>2 DEF StartTick, EndTick
      <4> HIDE DEF scan
      <4>4. QED BY <4>1, <4>2, <4>3 DEF Fired, TypeOK
    <3>2. up
      BY <2>2 DEF StartTick, EndTick, Still, Idle
    <3>3. QED BY <3>1, <3>2 DEF Fired
  <2>3. QED BY <2>1, <2>2
<1>3. /\ \A u \in Tick : Underway(u)' <=> Underway(u)
      /\ \A u \in Tick : Underway(u) => tick'[u] = tick[u]
  BY <1>2 DEF Underway, Fired
<1>4. InFire' = InFire
  BY <1>2 DEF InFire, Fired
<1>5. Born' /\ Still' /\ Synced' /\ EndedStaysEnded' /\ OncePerSlot'
  BY <1>1, <1>2, <1>4 DEF Born, Still, Synced, EndedStaysEnded, OncePerSlot, Fired
<1>6. Counted'
  BY <1>1, <1>3 DEF Counted, Ahead
<1>7. Kept'
  BY <1>1, <1>3 DEF Kept, Held, Settled
<1> QED BY <1>5, <1>6, <1>7

(* The process ends and begins again.                                       *)
LEMMA Ending ==
  ASSUME IInv, TypeOK', Crash \/ Restart
  PROVE  IInv'
<1> USE DEF IInv
<1>1. /\ \A t \in Tick : tick'[t] = Idle
      /\ UNCHANGED <<born, kind, disk, sent, dropped, ended, saved>>
      /\ crashes \in Nat /\ (crashes' = crashes \/ crashes' = crashes + 1)
  BY SchedulerAssumption DEF Crash, Restart, Still, TypeOK, jobs
<1>2. \A j \in Job : \/ mem'[j] = Absent
                     \/ up' /\ disk[j].state = "on" /\ mem'[j] = disk[j]
  BY DEF Crash, Restart
<1>3. up' => ~up /\ crashes' = crashes
             /\ \A j \in Job : disk[j].state = "on" => mem'[j] = disk[j]
  BY DEF Crash, Restart
<1>4. \A t \in Tick : ~Fired(t)' /\ ~Underway(t)'
  BY <1>1 DEF Fired, Underway, Idle
<1>5. Born'
  <2>1. ASSUME NEW j \in Job, j > born PROVE mem'[j] = Absent
    <3>1. disk[j] = Absent
      BY <2>1 DEF Born
    <3>2. QED BY <1>2, <3>1 DEF Absent
  <2>2. QED BY <1>1, <1>4, <2>1 DEF Born
<1>6. Still'
  BY <1>1 DEF Still
<1>7. Synced'
  BY <1>1, <1>2, <1>3 DEF Synced, Absent
<1>8. EndedStaysEnded'
  BY <1>1, <1>2 DEF EndedStaysEnded, Absent, TypeOK
<1>9. \A j \in Job, s \in Slot : sent[j][s] \in Nat /\ sent[j][s] <= 1 + crashes
  BY DEF OncePerSlot, TypeOK
<1>10. OncePerSlot'
  BY <1>1, <1>9 DEF OncePerSlot
<1>11. Counted'
  <2>1. ASSUME NEW j \in Job, NEW s \in Slot PROVE sent'[j][s] <= crashes'
    <3>1. CASE up'
      BY <1>1, <1>3, <3>1 DEF Counted, Ahead
    <3>2. CASE ~up'
      <4>1. crashes' = crashes + 1
        BY <3>2 DEF Crash, Restart
      <4>2. QED BY <1>1, <1>9, <4>1
    <3>3. QED BY <3>1, <3>2
  <2>2. QED BY <1>4, <2>1 DEF Counted
<1>12. Kept'
  <2>1. 1..born \subseteq Job
    BY SchedulerAssumption DEF TypeOK, Job
  <2>2. QED BY <1>1, <1>3, <2>1 DEF Kept, Settled, Held
<1> QED BY <1>5, <1>6, <1>7, <1>8, <1>10, <1>11, <1>12
-----------------------------------------------------------------------------
(* A claim takes the time of the job out of what the map may come to, so    *)
(* that no other tick takes it.                                             *)
LEMMA Claiming ==
  ASSUME IInv, TypeOK', NEW t \in Tick, Claim(t)
  PROVE  IInv'
<1> USE DEF IInv
<1> DEFINE claim(j) == IF kind[j].every THEN On(tick[t].now + 1)
                                        ELSE [mem[j] EXCEPT !.state = "off"]
           fire(j)  == [tick[t] EXCEPT !.job = j, !.slot = mem[j].at,
                                       !.stage = IF kind[j].soft THEN "generate" ELSE "deliver"]
<1>1. PICK j \in DueFor(t) : /\ tick' = [tick EXCEPT ![t] = fire(j)]
                            /\ mem' = [mem EXCEPT ![j] = claim(j)]
  BY DEF Claim, Fires
<1>2. /\ tick[t].stage = "scan" /\ up
      /\ UNCHANGED <<up, born, kind, disk, sent, dropped, ended, saved, crashes>>
  BY DEF Claim, Still, Idle, jobs
<1>3. /\ j \in Job /\ mem[j].state = "on" /\ mem[j].at <= tick[t].now
      /\ mem[j].at \in Slot /\ mem[j].at \in Nat /\ tick[t].now \in Nat
  BY SchedulerAssumption DEF DueFor, TypeOK, Slot
<1>4. j \in 1..born
  <2>1. ~(j > born)
    BY <1>3 DEF Born, Absent
  <2>2. QED BY <1>3, <2>1, SchedulerAssumption DEF TypeOK, Job
<1>5. /\ tick'[t].job = j /\ tick'[t].slot = mem[j].at
      /\ tick'[t].stage \in {"generate", "deliver"}
      /\ \A u \in Tick \ {t} : tick'[u] = tick[u]
  <2>1. fire(j).job = j /\ fire(j).slot = mem[j].at /\ fire(j).stage \in {"generate", "deliver"}
    BY DEF TypeOK
  <2> HIDE DEF fire
  <2>2. QED BY <1>1, <2>1 DEF TypeOK
<1>6. /\ \A i \in Job \ {j} : mem'[i] = mem[i]
      /\ kind[j].every => mem'[j].at = tick[t].now + 1
      /\ ~kind[j].every => mem'[j].state = "off"
  <2>1. /\ kind[j].every => claim(j).at = tick[t].now + 1
        /\ ~kind[j].every => claim(j).state = "off"
    BY <1>3 DEF On, TypeOK
  <2> HIDE DEF claim
  <2>2. QED BY <1>1, <1>3, <2>1 DEF TypeOK
<1> HIDE DEF claim, fire
(* The map comes to fewer slots than before, and not to the claimed one.    *)
<1>7. /\ \A i \in Job, s \in Slot : Ahead(i, s)' => Ahead(i, s)
      /\ Ahead(j, mem[j].at) /\ ~(mem'[j].state = "on" /\ mem'[j].at <= mem[j].at)
  <2>1. ~(mem'[j].state = "on" /\ mem'[j].at <= mem[j].at)
    BY <1>3, <1>6
  <2>2. ASSUME NEW s \in Slot, mem'[j].state = "on" /\ mem'[j].at <= s PROVE mem[j].at <= s
    <3>1. mem'[j].at = tick[t].now + 1 /\ s \in Nat
      BY <1>6, <2>2, SchedulerAssumption DEF Slot
    <3>2. QED BY <1>3, <2>2, <3>1
  <2>3. QED BY <1>2, <1>3, <1>6, <2>1, <2>2 DEF Ahead
<1>8. /\ \A u \in Tick : u # t => tick'[u] = tick[u]
      /\ \A u \in Tick : u # t => (Underway(u)' <=> Underway(u))
      /\ \A u \in Tick : u # t => (Fired(u)' <=> Fired(u))
      /\ Underway(t)' /\ Fired(t)' /\ ~Fired(t) /\ ~Underway(t)
  BY <1>2, <1>5 DEF Underway, Fired
<1>9. \A u \in Tick : Underway(u) => tick[u].job \in Job /\ tick[u].slot \in Slot
  BY FiringAreJobs DEF TypeOK
<1>10. Born'
  <2>1. \A i \in Job : i > born => i # j
    BY <1>4, SchedulerAssumption DEF TypeOK
  <2>2. ASSUME NEW u \in Tick, Fired(u)' PROVE tick'[u].job \in 1..born
    BY <1>4, <1>5, <1>8, <2>2 DEF Born
  <2>3. QED BY <1>2, <1>6, <2>1, <2>2 DEF Born
<1>11. Still' /\ EndedStaysEnded' /\ OncePerSlot'
  <2>1. \A i \in ended : i \in Job /\ i # j
    BY <1>3 DEF EndedStaysEnded, TypeOK
  <2>2. EndedStaysEnded'
    BY <1>2, <1>6, <2>1 DEF EndedStaysEnded
  <2>3. QED BY <1>2, <2>2 DEF Still, OncePerSlot
<1>12. Synced'
  <2>1. InFire \subseteq InFire' /\ j \in InFire'
    BY <1>5, <1>8 DEF InFire, Fired
  <2>2. QED BY <1>2, <1>6, <2>1 DEF Synced
<1>13. Counted'
  <2>1. \A i \in Job, s \in Slot : Ahead(i, s)' => sent'[i][s] <= crashes'
    BY <1>2, <1>7 DEF Counted
  <2>2. sent[j][mem[j].at] <= crashes
    BY <1>3, <1>7 DEF Counted
  <2>3. ASSUME NEW u \in Tick, Underway(u)'
        PROVE  (sent[tick[u].job][tick[u].slot] <= crashes /\ ~Ahead(tick[u].job, tick[u].slot))'
    <3>1. CASE u = t
      BY <1>2, <1>5, <1>7, <2>2, <3>1 DEF Ahead
    <3>2. CASE u # t
      <4>1. Underway(u) /\ tick'[u] = tick[u]
        BY <1>5, <1>8, <2>3, <3>2
      <4>2. PICK i \in Job, s \in Slot : tick[u].job = i /\ tick[u].slot = s
        BY <1>9, <4>1
      <4>3. ~Ahead(i, s) /\ sent[i][s] <= crashes
        BY <4>1, <4>2 DEF Counted
      <4>4. QED BY <1>2, <1>7, <4>1, <4>2, <4>3 DEF Ahead
    <3>3. QED BY <3>1, <3>2
  <2>4. ASSUME NEW u \in Tick, Underway(u)', u # t
        PROVE  tick'[u].job # j \/ tick'[u].slot # mem[j].at
    <3>1. Underway(u) /\ tick'[u] = tick[u]
      BY <1>5, <1>8, <2>4
    <3>2. QED BY <1>7, <3>1 DEF Counted
  <2>5. ASSUME NEW u \in Tick, NEW v \in Tick, Underway(u)', Underway(v)',
               tick'[u].job = tick'[v].job, tick'[u].slot = tick'[v].slot
        PROVE  u = v
    <3>1. CASE u = t \/ v = t
      BY <1>5, <2>4, <2>5, <3>1
    <3>2. CASE u # t /\ v # t
      BY <1>5, <1>8, <2>5, <3>2 DEF Counted
    <3>3. QED BY <3>1, <3>2
  <2>6. QED BY <2>1, <2>3, <2>5 DEF Counted
<1>14. Kept'
  <2>1. ASSUME NEW i \in 1..born, ~kind[i].every, Held(i) PROVE Held(i)'
    <3>1. CASE i = j
      BY <1>5, <1>6, <1>8, <2>1, <3>1 DEF Held
    <3>2. CASE i # j
      <4>1. mem'[i] = mem[i]
        BY <1>6, <3>2, SchedulerAssumption DEF TypeOK, Job
      <4>2. QED BY <1>5, <1>8, <2>1, <4>1 DEF Held
    <3>3. QED BY <3>1, <3>2
  <2>2. QED BY <1>2, <2>1 DEF Kept, Settled
<1> QED BY <1>10, <1>11, <1>12, <1>13, <1>14

(* A text comes or none, and it is delivered or not: what was under way in  *)
(* a tick stays so, or is counted.                                          *)
LEMMA Firing ==
  ASSUME IInv, TypeOK', NEW t \in Tick, Generate(t) \/ Deliver(t)
  PROVE  IInv'
<1> USE DEF IInv
<1> DEFINE j == tick[t].job
           s == tick[t].slot
<1>1. /\ Underway(t) /\ Fired(t)
      /\ UNCHANGED <<up, born, kind, mem, disk, ended, saved, crashes>>
      /\ \E st \in Stages \ {"idle", "scan"} : tick' = [tick EXCEPT ![t].stage = st]
      /\ dropped \subseteq dropped'
      /\ \/ sent' = sent /\ tick' = [tick EXCEPT ![t].stage = "deliver"]
         \/ sent' = sent /\ j \in dropped'
         \/ /\ sent' = [sent EXCEPT ![j][s] = @ + 1]
            /\ tick' = [tick EXCEPT ![t].stage = "delivered"]
  BY DEF Generate, Deliver, Moves, Underway, Fired, Stages, jobs
<1>2. j \in Job /\ s \in Slot /\ j \in 1..born
  BY <1>1, FiringAreJobs DEF Born, TypeOK
<1>3. /\ tick'[t].job = j /\ tick'[t].slot = s /\ Fired(t)'
      /\ \A u \in Tick \ {t} : tick'[u] = tick[u]
  <2>1. PICK st \in Stages \ {"idle", "scan"} : tick' = [tick EXCEPT ![t].stage = st]
    BY <1>1
  <2>2. QED BY <2>1 DEF TypeOK, Fired
<1>4. /\ \A i \in Job, r \in Slot : sent[i][r] \in Nat /\ crashes \in Nat
      /\ \A i \in Job, r \in Slot : <<i, r>> # <<j, s>> => sent'[i][r] = sent[i][r]
      /\ \/ sent' = sent /\ (Underway(t)' \/ j \in dropped')
         \/ sent'[j][s] = sent[j][s] + 1 /\ ~Underway(t)'
  <2>1. CASE sent' = sent /\ (j \in dropped' \/ tick' = [tick EXCEPT ![t].stage = "deliver"])
    BY <2>1 DEF TypeOK, Underway
  <2>2. CASE /\ sent' = [sent EXCEPT ![j][s] = @ + 1]
             /\ tick' = [tick EXCEPT ![t].stage = "delivered"]
    <3>1. ~Underway(t)'
      BY <2>2 DEF Underway, TypeOK
    <3>2. /\ sent'[j] = [sent[j] EXCEPT ![s] = sent[j][s] + 1]
          /\ \A i \in Job \ {j} : sent'[i] = sent[i]
      BY <1>2, <2>2 DEF TypeOK
    <3>3. sent'[j][s] = sent[j][s] + 1 /\ \A r \in Slot \ {s} : sent'[j][r] = sent[j][r]
      BY <1>2, <3>2 DEF TypeOK
    <3>4. QED BY <3>1, <3>2, <3>3 DEF TypeOK
  <2>3. QED BY <1>1, <2>1, <2>2
<1>5. \A u \in Tick : Underway(u)' => Underway(u)
  BY <1>1, <1>3 DEF Underway
<1>6. \A u \in Tick : Fired(u)' <=> Fired(u)
  BY <1>1, <1>3 DEF Fired
<1> HIDE DEF j, s
<1>7. /\ \A u \in Tick : tick'[u].job = tick[u].job /\ tick'[u].slot = tick[u].slot
      /\ ~Ahead(j, s) /\ sent[j][s] <= crashes
      /\ \A u \in Tick : Underway(u)' => \/ sent' = sent
                                        \/ <<tick[u].job, tick[u].slot>> # <<j, s>>
  BY <1>1, <1>3, <1>4, <1>5 DEF j, s, Counted
<1>8. Born'
  <2>1. \A i \in Job : i > born => i # j
    BY <1>2, SchedulerAssumption DEF TypeOK
  <2>2. QED BY <1>1, <1>4, <1>6, <1>7, <2>1 DEF Born
<1>9. EndedStaysEnded' /\ Still' /\ Synced'
  <2>1. InFire' = InFire
    BY <1>6, <1>7 DEF InFire, Fired
  <2>2. up
    BY <1>1 DEF Still, Fired, Idle
  <2>3. QED BY <1>1, <2>1, <2>2 DEF EndedStaysEnded, Still, Synced
<1>10. OncePerSlot'
  <2>1. ASSUME NEW i \in Job, NEW r \in Slot PROVE sent'[i][r] <= 1 + crashes
    <3>1. CASE sent' = sent
      BY <3>1 DEF OncePerSlot
    <3>2. CASE sent' # sent
      BY <1>2, <1>4, <1>7, <3>2 DEF OncePerSlot
    <3>3. QED BY <3>1, <3>2
  <2>2. QED BY <1>1, <2>1 DEF OncePerSlot
<1>11. Counted'
  <2>1. ASSUME NEW i \in Job, NEW r \in Slot, Ahead(i, r)' PROVE sent'[i][r] <= crashes'
    <3>1. Ahead(i, r)
      BY <1>1, <2>1 DEF Ahead
    <3>2. <<i, r>> # <<j, s>>
      BY <1>7, <3>1
    <3>3. QED BY <1>1, <1>4, <3>1, <3>2 DEF Counted
  <2>2. ASSUME NEW u \in Tick, Underway(u)'
        PROVE  (sent[tick[u].job][tick[u].slot] <= crashes /\ ~Ahead(tick[u].job, tick[u].slot))'
    <3>1. PICK i \in Job, r \in Slot : tick[u].job = i /\ tick[u].slot = r
      BY <1>5, <2>2, FiringAreJobs DEF TypeOK
    <3>2. ~Ahead(i, r) /\ sent[i][r] <= crashes
      BY <1>5, <2>2, <3>1 DEF Counted
    <3>3. sent'[i][r] = sent[i][r]
      BY <1>4, <1>7, <2>2, <3>1
    <3>4. QED BY <1>1, <1>7, <3>1, <3>2, <3>3 DEF Ahead
  <2>3. QED BY <1>5, <1>7, <2>1, <2>2 DEF Counted
<1>12. Kept'
  <2>1. ASSUME NEW i \in 1..born, ~kind[i].every, ~Settled(i)'
        PROVE  disk[i].state = "on" /\ (up => Held(i)')
    <3>1. i \in Job
      BY SchedulerAssumption DEF TypeOK, Job
    <3>2. ~Settled(i)
      BY <1>1, <1>2, <1>4, <2>1, <3>1 DEF Settled
    <3>3. disk[i].state = "on" /\ (up => Held(i))
      BY <2>1, <3>2 DEF Kept
    <3>4. ASSUME i = j PROVE Underway(t)'
      <4>1. j \notin dropped' /\ sent'[j][s] # sent[j][s] + 1
        BY <1>2, <1>4, <2>1, <3>4 DEF Settled
      <4>2. QED BY <1>4, <4>1
    <3>5. \A u \in Tick \ {t} : Underway(u) => Underway(u)'
      BY <1>3 DEF Underway
    <3>6. QED BY <1>1, <1>7, <3>3, <3>4, <3>5 DEF Held, j
  <2>2. QED BY <1>1, <2>1 DEF Kept
<1> QED BY <1>8, <1>9, <1>10, <1>11, <1>12
-----------------------------------------------------------------------------
(* Every step of the scheduler preserves the invariant.                     *)
LEMMA Inductive == IInv /\ [Next]_vars => IInv'
<1> SUFFICES ASSUME IInv, [Next]_vars PROVE IInv'
  OBVIOUS
<1>1. TypeOK'
  BY Types DEF IInv
<1>2. CASE UNCHANGED vars \/ Clock \/ \E t \in Tick : StartTick(t) \/ EndTick(t)
  BY <1>1, <1>2, Scanning
<1>3. CASE Crash \/ Restart
  BY <1>1, <1>3, Ending
<1>4. ASSUME NEW j \in Job, Schedule(j) \/ Cancel(j) \/ Remove(j) PROVE IInv'
  BY <1>1, <1>4, Telling
<1>5. ASSUME NEW t \in Tick, Claim(t) PROVE IInv'
  BY <1>1, <1>5, Claiming
<1>6. ASSUME NEW t \in Tick, Generate(t) \/ Deliver(t) PROVE IInv'
  BY <1>1, <1>6, Firing
<1>7. ASSUME NEW t \in Tick, Settle(t) PROVE IInv'
  BY <1>1, <1>7, Settling
<1>8. CASE Stop
  BY <1>1, <1>8, Telling
<1> QED BY <1>2, <1>3, <1>4, <1>5, <1>6, <1>7, <1>8 DEF Next, Works

(* With no fire in progress the file has the times of the map, and what was *)
(* cancelled or removed stays so, in the map and in the file: what a        *)
(* restart loads is what the tools of the agent were answered.              *)
THEOREM ConsistentHolds == Spec => []Consistent
<1>1. IInv => Consistent
  <2>1. IInv => FileIsMap
    BY DEF IInv, Synced, FileIsMap, Enabled
  <2>2. QED BY <2>1 DEF IInv, Consistent
<1> QED BY <1>1, Initial, Inductive, PTL DEF Spec

(* Overlapping ticks and ends of the process deliver a time of a job once,  *)
(* and once more at most per end of the process.                            *)
THEOREM OncePerSlotHolds == Spec => []OncePerSlot
<1>1. IInv => OncePerSlot
  BY DEF IInv
<1> QED BY <1>1, Initial, Inductive, PTL DEF Spec

(* A one-shot job that is neither ended nor delivered is in the file, but   *)
(* for what its fire dropped, or the file was given while it fired.         *)
THEOREM OneShotKeptHolds == Spec => []OneShotKept
<1>1. IInv => OneShotKept
  BY DEF IInv, Kept, Settled, OneShotKept
<1> QED BY <1>1, Initial, Inductive, PTL DEF Spec
-----------------------------------------------------------------------------
(* ChatSessions                                                             *)

(* The conversations of requests and of sessions are those they were made   *)
(* for, and sessions are made one after the other.                          *)
Homed == /\ key \in [Request -> Key \cup {None}] /\ home \in [Session -> Key \cup {None}]
         /\ \A s \in Session : stage[s] = "none" <=> s > made
         /\ \A c \in Request : at[c] # "none" => sess[c] \in 1..made /\ key[c] = home[sess[c]]
         /\ \A k \in Key : entry[k] # None => entry[k] \in 1..made /\ home[entry[k]] = k
         /\ \A s \in Session : run[s] # None => at[run[s]] # "none" /\ sess[run[s]] = s

(* Until the pool is closed a session that is being made, or is live, is    *)
(* the one its conversation resolves.                                       *)
Mapped == ~closed => /\ \A s \in Session : stage[s] \in {"creating", "live"} => entry[home[s]] = s
                     /\ \A k \in Key : entry[k] # None => stage[entry[k]] \in {"creating", "live"}

(* While prompts of a session do not overlap, there is one that has begun   *)
(* at most; the session is busy with it, and so not disposed of.            *)
Begun == {"run", "backoff", "post", "failing", "broken"}

Apart == \/ overlapped
         \/ /\ \A c \in Request : at[c] \in Begun => active[sess[c]]
            /\ \A c, d \in Request :
                 at[c] \in Begun /\ at[d] \in Begun /\ sess[c] = sess[d] => c = d
            /\ \A s \in Session : run[s] # None => at[run[s]] = "run"
            /\ ~cut

(* Without jobs, interrupts and late runs a turn has no answer before the   *)
(* end of its run, and a conversation has one such turn.                    *)
Excused == \/ late
           \/ \E c \in SoftJob : at[c] # "none"
           \/ \E c \in Turn : reply[c] = "interrupted"

Unanswered == {c \in Request : at[c] # "none" /\ reply[c] = "none"}

Own == \/ Excused
       \/ /\ \A c \in Request : reply[c] # "other"
          /\ \A c \in Request :
               at[c] \in {"none", "resolving", "preflight", "entered", "run", "backoff"}
                 => reply[c] = "none"
          /\ \A c, d \in Unanswered : key[c] = key[d] => c = d

PoolInv == PoolTypeOK /\ Homed /\ Mapped /\ Apart /\ Own
-----------------------------------------------------------------------------
(* Types *)

LEMMA PoolBounds == /\ MaxCreated \in Nat /\ MaxMore \in Nat
                /\ Session = 1..MaxCreated /\ None \notin Session /\ None = 0
BY PoolAssumption DEF Session, None

LEMMA PoolTyped == ASSUME PoolTypeOK, Homed, [PoolNext]_poolVars PROVE PoolTypeOK'
<1> USE DEF requests, pool, agents
<1>1. /\ at \in [Request -> RequestStages] /\ reply \in [Request -> Replies]
      /\ sess \in [Request -> Session \cup {None}] /\ signalled \subseteq Turn
      /\ entry \in [Key -> Session \cup {None}] /\ used \in [Key -> {"none", "recent", "old"}]
      /\ stage \in [Session -> {"none", "creating", "live", "failed", "disposed"}]
      /\ active \in [Session -> BOOLEAN] /\ run \in [Session -> Request \cup {None}]
      /\ doomed \subseteq Session \X Reason
      /\ closed \in BOOLEAN /\ overlapped \in BOOLEAN /\ late \in BOOLEAN /\ cut \in BOOLEAN
      /\ more \in 0..MaxMore /\ made \in 0..MaxCreated
  BY DEF PoolTypeOK
<1>2. /\ \A c \in Request : at[c] = "none" \/ key[c] \in Key
      /\ \A s \in Session : stage[s] = "none" \/ home[s] \in Key
  BY DEF PoolTypeOK
<1>3. /\ {"none", "resolving", "preflight", "entered", "run", "backoff", "post", "failing", "broken",
          "done"} \subseteq RequestStages
      /\ {"none", "own", "other", "fallback", "refused", "interrupted", "error",
          "skipped"} \subseteq Replies
  BY DEF RequestStages, Replies
<1> DEFINE Requests == /\ at' \in [Request -> RequestStages] /\ reply' \in [Request -> Replies]
                       /\ sess' \in [Request -> Session \cup {None}] /\ signalled' \subseteq Turn
                       /\ \A c \in Request : at'[c] = "none" \/ key'[c] \in Key
           Pool == /\ entry' \in [Key -> Session \cup {None}]
                   /\ used' \in [Key -> {"none", "recent", "old"}]
                   /\ stage' \in [Session -> {"none", "creating", "live", "failed", "disposed"}]
                   /\ \A s \in Session : stage'[s] = "none" \/ home'[s] \in Key
                   /\ doomed' \subseteq Session \X Reason
                   /\ closed' \in BOOLEAN /\ made' \in 0..MaxCreated
           Agents == /\ active' \in [Session -> BOOLEAN]
                     /\ run' \in [Session -> Request \cup {None}]
                     /\ overlapped' \in BOOLEAN /\ late' \in BOOLEAN
                     /\ more' \in 0..MaxMore
<1>4. Requests /\ Pool /\ Agents /\ cut' \in BOOLEAN => PoolTypeOK'
  BY DEF PoolTypeOK
<1>5. UNCHANGED requests => Requests
  BY <1>1, <1>2
<1>6. UNCHANGED pool => Pool
  BY <1>1, <1>2
<1>7. UNCHANGED agents => Agents
  BY <1>1
<1>8. UNCHANGED <<key, sess, signalled>> /\ at' \in [Request -> RequestStages]
      /\ reply' \in [Request -> Replies] /\ (\A c \in Request : at[c] = "none" => at'[c] = "none")
      => Requests
  BY <1>1, <1>2
<1> HIDE DEF Requests, Pool, Agents
<1>9. ASSUME NEW c \in Request, NEW k \in Key, Ask(c, k) PROVE PoolTypeOK'
  <2>1. CASE entry[k] # None
    <3>1. Existing(k) /\ entry' = entry
      BY <1>9, <2>1 DEF Ask, Existing
    <3>2. Pool
      BY <1>1, <1>2, <1>9, <3>1 DEF Ask, Existing, Pool
    <3>3. /\ at' = [at EXCEPT ![c] = "resolving"] /\ key' = [key EXCEPT ![c] = k]
          /\ sess' = [sess EXCEPT ![c] = entry[k]] /\ UNCHANGED <<reply, signalled>>
      BY <1>9, <3>1 DEF Ask, Goes
    <3>4. Requests
      BY <1>1, <1>2, <1>3, <3>3 DEF Requests, Homed
    <3> QED BY <1>4, <1>7, <1>9, <3>2, <3>4, <1>1 DEF Ask
  <2>2. CASE entry[k] = None
    <3>1. Create(k)
      BY <1>9, <2>2 DEF Ask
    <3>2. made + 1 \in Session /\ made' = made + 1 /\ made' \in 0..MaxCreated
      BY <1>1, <3>1, PoolBounds DEF Create
    <3>3. Evicted \subseteq Session
      BY <1>1 DEF Evicted
    <3>4. /\ entry' \in [Key -> Session \cup {None}] /\ entry'[k] = made + 1
          /\ stage' \in [Session -> {"none", "creating", "live", "failed", "disposed"}]
      BY <1>1, <3>1, <3>2 DEF Create
    <3>5. \A s \in Session : stage'[s] = "none" \/ home'[s] \in Key
      BY <1>1, <1>2, <3>1, <3>2 DEF Create, Homed
    <3>6. doomed' \subseteq Session \X Reason
      BY <1>1, <3>1, <3>3 DEF Create, Reason
    <3>7. Pool
      BY <1>1, <1>9, <3>1, <3>2, <3>4, <3>5, <3>6 DEF Pool, Ask, Create
    <3>8. /\ at' = [at EXCEPT ![c] = "resolving"] /\ key' = [key EXCEPT ![c] = k]
          /\ sess' = [sess EXCEPT ![c] = made + 1] /\ UNCHANGED <<reply, signalled>>
      BY <1>9, <3>4 DEF Ask, Goes
    <3>9. Requests
      BY <1>1, <1>2, <1>3, <3>2, <3>8 DEF Requests, Homed
    <3> QED BY <1>1, <1>4, <1>7, <1>9, <3>7, <3>9 DEF Ask
  <2> QED BY <2>1, <2>2
<1>10. ASSUME NEW s \in Session, Created(s) \/ CreateFails(s) PROVE PoolTypeOK'
  <2>1. home[s] \in Key /\ stage[s] = "creating"
    BY <1>2, <1>10 DEF Created, CreateFails
  <2>2. Pool
    BY <1>1, <1>2, <1>10, <2>1 DEF Created, CreateFails, Pool
  <2> QED BY <1>1, <1>4, <1>5, <1>7, <1>10, <2>2 DEF Created, CreateFails
<1>11. ASSUME NEW k \in Key, Age(k) PROVE PoolTypeOK'
  <2>1. Pool
    BY <1>1, <1>2, <1>11 DEF Age, Pool
  <2> QED BY <1>1, <1>4, <1>5, <1>7, <1>11, <2>1 DEF Age
<1>12. CASE Reap
  <2>1. PICK idle \in SUBSET Session : doomed' = doomed \cup (idle \X {"reap"})
    <3>1. {entry[k] : k \in {l \in Key : entry[l] # None /\ used[l] # "recent"}} \in SUBSET Session
      BY <1>1
    <3> QED BY <1>12, <3>1 DEF Reap
  <2>2. Pool
    BY <1>1, <1>2, <1>12, <2>1 DEF Reap, Pool, Reason
  <2> QED BY <1>1, <1>4, <1>5, <1>7, <1>12, <2>2 DEF Reap
<1>13. ASSUME NEW s \in Session, NEW why \in Reason, Dispose(s, why) PROVE PoolTypeOK'
  <2>1. CASE stage[s] = "live" /\ ~active[s]
    <3>1. Pool
      BY <1>1, <1>2, <1>13, <2>1 DEF Dispose, Pool
    <3>2. cut' \in BOOLEAN
      BY <1>13, <2>1 DEF Dispose
    <3> QED BY <1>4, <1>5, <1>7, <1>13, <3>1, <3>2 DEF Dispose
  <2>2. CASE ~(stage[s] = "live" /\ ~active[s])
    <3>1. Pool
      BY <1>1, <1>2, <1>13, <2>2 DEF Dispose, Pool
    <3> QED BY <1>1, <1>4, <1>5, <1>7, <1>13, <2>2, <3>1 DEF Dispose
  <2> QED BY <2>1, <2>2
<1>14. CASE DisposeAll
  <2>1. Pool
    BY <1>1, <1>2, <1>14 DEF DisposeAll, Pool, Live
  <2> QED BY <1>1, <1>4, <1>5, <1>7, <1>14, <2>1 DEF DisposeAll
<1>15. ASSUME NEW c \in Request, Resume(c) \/ Enter(c) PROVE PoolTypeOK'
  <2>1. at' \in [Request -> RequestStages] /\ reply' \in [Request -> Replies] /\ at[c] # "none"
        /\ at' = [at EXCEPT ![c] = at'[c]]
    BY <1>1, <1>3, <1>15 DEF Resume, Enter, Goes, Answers
  <2>2. Requests
    BY <1>1, <1>8, <1>15, <2>1 DEF Resume, Enter
  <2> QED BY <1>1, <1>4, <1>6, <1>7, <1>15, <2>2 DEF Resume, Enter
<1>16. ASSUME NEW c \in Request, Begin(c) PROVE PoolTypeOK'
  <2>1. /\ at' \in [Request -> RequestStages] /\ run' \in [Session -> Request \cup {None}]
        /\ at[c] = "entered" /\ at' = [at EXCEPT ![c] = at'[c]]
    BY <1>1, <1>3, <1>16 DEF Begin, Runs, Goes
  <2>2. Requests
    BY <1>1, <1>8, <1>16, <2>1 DEF Begin
  <2>3. overlapped' \in BOOLEAN
    BY <1>16 DEF Begin
  <2>4. Agents
    BY <1>1, <1>16, <2>1, <2>3 DEF Begin, Agents
  <2> QED BY <1>1, <1>4, <1>6, <1>16, <2>2, <2>4 DEF Begin
<1>17. ASSUME NEW c \in Request, Fail(c) \/ PromptSettles(c) PROVE PoolTypeOK'
  <2>1. /\ at' \in [Request -> RequestStages] /\ reply' \in [Request -> Replies]
        /\ at[c] # "none" /\ at' = [at EXCEPT ![c] = at'[c]]
    BY <1>1, <1>3, <1>17 DEF Fail, PromptSettles, Goes, Answers
  <2>2. Requests
    BY <1>1, <1>8, <1>17, <2>1 DEF Fail, PromptSettles
  <2>3. Agents
    BY <1>1, <1>17 DEF Fail, PromptSettles, Agents
  <2> QED BY <1>1, <1>4, <1>6, <1>17, <2>2, <2>3 DEF Fail, PromptSettles
<1>22. ASSUME NEW c \in Request, PostThrows(c) PROVE PoolTypeOK'
  <2>1. /\ at' \in [Request -> RequestStages]
        /\ at[c] # "none" /\ at' = [at EXCEPT ![c] = at'[c]]
    BY <1>1, <1>3, <1>22 DEF PostThrows, Goes
  <2>2. Requests
    BY <1>1, <1>8, <1>22, <2>1 DEF PostThrows
  <2> QED BY <1>1, <1>4, <1>6, <1>7, <1>22, <2>2 DEF PostThrows
<1>18. ASSUME NEW s \in Session, AgentEnd(s) \/ RunRejects(s) PROVE PoolTypeOK'
  <2>1. /\ at' \in [Request -> RequestStages] /\ at[run[s]] # "none"
        /\ at' = [at EXCEPT ![run[s]] = at'[run[s]]]
    BY <1>1, <1>3, <1>18 DEF AgentEnd, RunRejects, Goes
  <2>2. reply' \in [Request -> Replies]
    BY <1>1, <1>3, <1>18 DEF AgentEnd, RunRejects, Heard
  <2>3. Requests
    BY <1>1, <1>8, <1>18, <2>1, <2>2 DEF AgentEnd, RunRejects
  <2>4. more' \in 0..MaxMore
    BY <1>1, <1>18, PoolBounds DEF AgentEnd, RunRejects
  <2>5. Agents
    BY <1>1, <1>18, <2>4 DEF AgentEnd, RunRejects, Agents
  <2> QED BY <1>1, <1>4, <1>6, <1>18, <2>3, <2>5 DEF AgentEnd, RunRejects
<1>19. ASSUME NEW c \in Request, Continue(c) PROVE PoolTypeOK'
  <2>1. /\ at' \in [Request -> RequestStages] /\ run' \in [Session -> Request \cup {None}]
        /\ at[c] # "none" /\ at' = [at EXCEPT ![c] = at'[c]]
    BY <1>1, <1>3, <1>19 DEF Continue, Runs, Goes
  <2>2. Requests
    BY <1>1, <1>8, <1>19, <2>1 DEF Continue
  <2>3. more' \in 0..MaxMore
    <3>1. more' = more \/ (more < MaxMore /\ more' = more + 1)
      BY <1>19 DEF Continue
    <3> QED BY <1>1, <3>1, PoolBounds
  <2>4. late' \in BOOLEAN
    <3>1. late' = late \/ late' = TRUE
      BY <1>19 DEF Continue
    <3> QED BY <1>1, <3>1
  <2>5. Agents
    BY <1>1, <1>19, <2>1, <2>3, <2>4 DEF Continue, Agents
  <2> QED BY <1>1, <1>4, <1>6, <1>19, <2>2, <2>5 DEF Continue
<1>20. ASSUME NEW c \in Turn, Interrupt(c) PROVE PoolTypeOK'
  <2>1. reply' \in [Request -> Replies] /\ signalled' \subseteq Turn
    BY <1>1, <1>3, <1>20 DEF Interrupt, Answers, Request
  <2>2. Requests
    BY <1>1, <1>2, <1>20, <2>1 DEF Interrupt, Requests
  <2> QED BY <1>1, <1>4, <1>6, <1>7, <1>20, <2>2 DEF Interrupt
<1>21. CASE UNCHANGED poolVars
  BY <1>1, <1>4, <1>5, <1>6, <1>7, <1>21 DEF poolVars
<1> QED BY <1>9, <1>10, <1>11, <1>12, <1>13, <1>14, <1>15, <1>16, <1>17, <1>18, <1>19, <1>20,
           <1>21, <1>22 DEF PoolNext, Proceeds, Makes
-----------------------------------------------------------------------------
(* A request keeps its conversation and session, a session its conversation *)

LEMMA StaysHomed ==
  ASSUME PoolTypeOK, Homed, UNCHANGED <<key, home, made, sess>>,
         \A c \in Request : at'[c] = "none" <=> at[c] = "none",
         \A s \in Session : stage'[s] = "none" <=> stage[s] = "none",
         \A k \in Key : entry'[k] \in {entry[k], None},
         \A s \in Session : \/ run'[s] \in {run[s], None}
                            \/ at'[run'[s]] # "none" /\ sess[run'[s]] = s
  PROVE  Homed'
<1>1. \A s \in Session : run'[s] # None => at'[run'[s]] # "none" /\ sess[run'[s]] = s
  <2> SUFFICES ASSUME NEW s \in Session, run'[s] # None
               PROVE  at'[run'[s]] # "none" /\ sess[run'[s]] = s
    OBVIOUS
  <2>1. CASE run'[s] = run[s]
    <3>1. run[s] \in Request /\ at[run[s]] # "none" /\ sess[run[s]] = s
      BY <2>1 DEF Homed, PoolTypeOK
    <3> QED BY <2>1, <3>1
  <2>2. CASE run'[s] # run[s]
    BY <2>2
  <2> QED BY <2>1, <2>2
<1> QED BY <1>1 DEF Homed

LEMMA HomedKept == ASSUME PoolTypeOK, Homed, [PoolNext]_poolVars PROVE Homed'
<1> USE DEF requests, pool, agents
<1>1. /\ at \in [Request -> RequestStages]
      /\ stage \in [Session -> {"none", "creating", "live", "failed", "disposed"}]
      /\ sess \in [Request -> Session \cup {None}]
      /\ entry \in [Key -> Session \cup {None}] /\ run \in [Session -> Request \cup {None}]
      /\ made \in 0..MaxCreated
  BY DEF PoolTypeOK
<1>2. ASSUME NEW c \in Request, NEW k \in Key, Ask(c, k) PROVE Homed'
  <2>1. /\ at[c] = "none" /\ at' = [at EXCEPT ![c] = "resolving"]
        /\ key' = [key EXCEPT ![c] = k] /\ sess' = [sess EXCEPT ![c] = entry'[k]]
        /\ run' = run
    BY <1>2 DEF Ask, Goes
  <2>2. key' \in [Request -> Key \cup {None}]
    BY <2>1 DEF Homed
  <2>3. \A s \in Session : run[s] # None => run[s] # c
    BY <2>1 DEF Homed
  <2>4. \A s \in Session : run'[s] # None => at'[run'[s]] # "none" /\ sess'[run'[s]] = s
    BY <1>1, <2>1, <2>3 DEF Homed
  <2>5. CASE entry[k] # None
    <3>1. UNCHANGED <<entry, home, made, stage>>
      BY <1>2, <2>5 DEF Ask, Existing
    <3>2. \A d \in Request : at'[d] # "none" => sess'[d] \in 1..made /\ key'[d] = home[sess'[d]]
      BY <1>1, <2>1, <2>5, <3>1 DEF Homed
    <3> QED BY <2>2, <2>4, <3>1, <3>2 DEF Homed
  <2>6. CASE entry[k] = None
    <3>1. Create(k)
      BY <1>2, <2>6 DEF Ask
    <3>2. /\ made' = made + 1 /\ made + 1 \in Session /\ made \in Nat
          /\ entry' = [entry EXCEPT ![k] = made + 1]
          /\ stage' = [stage EXCEPT ![made + 1] = "creating"]
          /\ home' = [home EXCEPT ![made + 1] = k]
      BY <1>1, <3>1, PoolBounds DEF Create
    <3>3. home' \in [Session -> Key \cup {None}] /\ home'[made + 1] = k
          /\ (\A s \in 1..made : s \in Session /\ home'[s] = home[s])
      BY <1>1, <3>2, PoolBounds DEF Homed
    <3>4. \A s \in Session : stage'[s] = "none" <=> s > made'
      BY <1>1, <3>2, PoolBounds DEF Homed
    <3>5. \A d \in Request : at'[d] # "none" => sess'[d] \in 1..made' /\ key'[d] = home'[sess'[d]]
      <4>1. at'[c] # "none" => sess'[c] \in 1..made' /\ key'[c] = home'[sess'[c]]
        BY <1>1, <2>1, <2>2, <3>2, <3>3 DEF Homed
      <4>2. \A d \in Request \ {c} :
              at'[d] # "none" => sess'[d] \in 1..made /\ key'[d] = home'[sess'[d]]
        BY <1>1, <2>1, <3>3 DEF Homed
      <4> QED BY <3>2, <4>1, <4>2
    <3>6. \A l \in Key : entry'[l] # None => entry'[l] \in 1..made' /\ home'[entry'[l]] = l
      <4>1. entry'[k] \in 1..made' /\ home'[entry'[k]] = k
        BY <1>1, <3>2, <3>3
      <4>2. \A l \in Key \ {k} :
              entry'[l] # None => entry'[l] \in 1..made /\ home'[entry'[l]] = l
        BY <1>1, <3>2, <3>3 DEF Homed
      <4> QED BY <3>2, <4>1, <4>2
    <3> QED BY <2>2, <2>4, <3>3, <3>4, <3>5, <3>6 DEF Homed
  <2> QED BY <2>5, <2>6
<1>3. ASSUME NEW s \in Session, Created(s) \/ CreateFails(s) PROVE Homed'
  BY <1>1, <1>3, StaysHomed DEF Created, CreateFails
<1>4. ASSUME NEW k \in Key, Age(k) PROVE Homed'
  BY <1>4, StaysHomed DEF Age
<1>5. CASE Reap
  BY <1>5, StaysHomed DEF Reap
<1>6. ASSUME NEW s \in Session, NEW why \in Reason, Dispose(s, why) PROVE Homed'
  BY <1>1, <1>6, StaysHomed DEF Dispose
<1>7. CASE DisposeAll
  BY <1>1, <1>7, StaysHomed DEF DisposeAll, Live
<1>8. ASSUME NEW c \in Request, Resume(c) \/ Enter(c) PROVE Homed'
  BY <1>1, <1>8, StaysHomed DEF Resume, Enter, Goes
<1>9. ASSUME NEW c \in Request, Begin(c) \/ Continue(c) PROVE Homed'
  <2>1. UNCHANGED <<key, home, made, sess, stage, entry>>
    BY <1>9 DEF Begin, Continue
  <2>2. PICK from \in {"entered", "backoff", "post"} : Runs(c, from)
    BY <1>9 DEF Begin, Continue
  <2>3. /\ \A d \in Request : at'[d] = "none" <=> at[d] = "none"
        /\ at'[c] # "none"
    BY <1>1, <2>2 DEF Runs, Goes
  <2>4. \A s \in Session : run'[s] = run[s] \/ (run'[s] = c /\ sess[c] = s)
    BY <1>1, <2>2 DEF Runs
  <2> QED BY <2>1, <2>3, <2>4, StaysHomed
<1>10. ASSUME NEW c \in Request, Fail(c) \/ PromptSettles(c) \/ PostThrows(c) PROVE Homed'
  BY <1>1, <1>10, StaysHomed DEF Fail, PromptSettles, PostThrows, Goes
<1>11. ASSUME NEW s \in Session, AgentEnd(s) \/ RunRejects(s) PROVE Homed'
  <2>1. \A d \in Request : at'[d] = "none" <=> at[d] = "none"
    BY <1>1, <1>11 DEF AgentEnd, RunRejects, Goes
  <2>2. \A r \in Session : run'[r] \in {run[r], None}
    BY <1>1, <1>11 DEF AgentEnd, RunRejects
  <2>3. UNCHANGED <<key, home, made, sess, stage, entry>>
    BY <1>11 DEF AgentEnd, RunRejects
  <2> QED BY <2>1, <2>2, <2>3, StaysHomed
<1>12. ASSUME NEW c \in Turn, Interrupt(c) PROVE Homed'
  BY <1>12, StaysHomed DEF Interrupt
<1>13. CASE UNCHANGED poolVars
  BY <1>13, StaysHomed DEF poolVars
<1> QED BY <1>2, <1>3, <1>4, <1>5, <1>6, <1>7, <1>8, <1>9, <1>10, <1>11, <1>12, <1>13
        DEF PoolNext, Proceeds, Makes
-----------------------------------------------------------------------------
(* The map and the set                                                      *)

LEMMA MappedKept == ASSUME PoolTypeOK, Homed, Mapped, [PoolNext]_poolVars PROVE Mapped'
<1> USE DEF requests, pool, agents
<1>1. /\ stage \in [Session -> {"none", "creating", "live", "failed", "disposed"}]
      /\ entry \in [Key -> Session \cup {None}] /\ made \in 0..MaxCreated
      /\ \A s \in Session : stage[s] = "none" \/ home[s] \in Key
  BY DEF PoolTypeOK
<1>2. UNCHANGED <<closed, stage, entry, home>> => Mapped'
  BY DEF Mapped
<1>3. ASSUME NEW c \in Request, NEW k \in Key, Ask(c, k) PROVE Mapped'
  <2>1. CASE entry[k] # None
    BY <1>2, <1>3, <2>1 DEF Ask, Existing
  <2>2. CASE entry[k] = None
    <3>1. Create(k) /\ closed' = closed
      BY <1>3, <2>2 DEF Ask
    <3>2. /\ made + 1 \in Session /\ made \in Nat
          /\ entry' = [entry EXCEPT ![k] = made + 1]
          /\ stage' = [stage EXCEPT ![made + 1] = "creating"]
          /\ home' = [home EXCEPT ![made + 1] = k]
      BY <1>1, <3>1, PoolBounds DEF Create
    <3> SUFFICES ASSUME ~closed
                 PROVE  /\ \A s \in Session :
                             stage'[s] \in {"creating", "live"} => entry'[home'[s]] = s
                        /\ \A l \in Key : entry'[l] # None => stage'[entry'[l]] \in {"creating", "live"}
      BY <3>1 DEF Mapped
    <3>3. entry'[home'[made + 1]] = made + 1 /\ stage'[made + 1] = "creating" /\ entry'[k] = made + 1
      BY <1>1, <3>2 DEF Homed
    <3>4. ASSUME NEW s \in Session, s # made + 1, stage'[s] \in {"creating", "live"}
          PROVE  entry'[home'[s]] = s
      <4>1. stage[s] \in {"creating", "live"} /\ home'[s] = home[s] /\ home[s] \in Key
        BY <1>1, <3>2, <3>4 DEF Homed
      <4>2. entry[home[s]] = s /\ s # None
        BY <4>1, <3>4, PoolBounds DEF Mapped
      <4> QED BY <1>1, <2>2, <3>2, <4>1, <4>2
    <3>5. ASSUME NEW l \in Key, l # k, entry'[l] # None
          PROVE  stage'[entry'[l]] \in {"creating", "live"}
      <4>1. entry'[l] = entry[l] /\ entry[l] \in Session /\ stage[entry[l]] \in {"creating", "live"}
        BY <1>1, <3>2, <3>5 DEF Mapped
      <4> QED BY <1>1, <3>2, <4>1
    <3> QED BY <3>3, <3>4, <3>5
  <2> QED BY <2>1, <2>2
<1>4. ASSUME NEW s \in Session, Created(s) PROVE Mapped'
  BY <1>1, <1>4 DEF Created, Mapped
<1>5. ASSUME NEW s \in Session, CreateFails(s) \/ (\E why \in Reason : Dispose(s, why)) PROVE Mapped'
  <2>1. CASE UNCHANGED <<stage, entry>>
    BY <1>2, <1>5, <2>1 DEF CreateFails, Dispose
  <2>2. CASE ~UNCHANGED <<stage, entry>>
    <3>1. /\ stage[s] \in {"creating", "live"} /\ UNCHANGED <<home, closed>>
          /\ (stage' = [stage EXCEPT ![s] = "failed"] \/ stage' = [stage EXCEPT ![s] = "disposed"])
          /\ (entry' = [entry EXCEPT ![home[s]] = IF @ = s THEN None ELSE @]
               \/ entry' = [entry EXCEPT ![home[s]] = None])
      BY <1>5, <2>2 DEF CreateFails, Dispose
    <3> SUFFICES ASSUME ~closed
                 PROVE  /\ \A r \in Session :
                             stage'[r] \in {"creating", "live"} => entry'[home[r]] = r
                        /\ \A l \in Key : entry'[l] # None => stage'[entry'[l]] \in {"creating", "live"}
      BY <3>1 DEF Mapped
    <3>2. home[s] \in Key /\ entry[home[s]] = s
      BY <1>1, <3>1 DEF Mapped
    <3>3. entry' = [entry EXCEPT ![home[s]] = None]
      BY <1>1, <3>1, <3>2
    <3>4. ASSUME NEW r \in Session, stage'[r] \in {"creating", "live"} PROVE entry'[home[r]] = r
      <4>1. r # s /\ stage[r] \in {"creating", "live"}
        BY <1>1, <3>1, <3>4
      <4>2. home[r] \in Key /\ entry[home[r]] = r
        BY <1>1, <4>1 DEF Mapped
      <4> QED BY <1>1, <3>2, <3>3, <4>1, <4>2
    <3>5. ASSUME NEW l \in Key, entry'[l] # None PROVE stage'[entry'[l]] \in {"creating", "live"}
      <4>1. l # home[s] /\ entry'[l] = entry[l]
        BY <1>1, <3>2, <3>3, <3>5
      <4>2. entry[l] # s /\ entry[l] \in Session /\ stage[entry[l]] \in {"creating", "live"}
        BY <1>1, <3>5, <4>1 DEF Mapped, Homed
      <4> QED BY <1>1, <3>1, <4>1, <4>2
    <3> QED BY <3>4, <3>5
  <2> QED BY <2>1, <2>2
<1>6. CASE DisposeAll
  BY <1>6 DEF DisposeAll, Mapped
<1>7. CASE \/ \E k \in Key : Age(k)
           \/ Reap
           \/ \E s \in Session : AgentEnd(s) \/ RunRejects(s)
           \/ \E c \in Turn : Interrupt(c)
           \/ \E c \in Request : Proceeds(c) \/ PostThrows(c)
  BY <1>2, <1>7 DEF Age, Reap, AgentEnd, RunRejects, Interrupt, Proceeds, Resume, Enter, Begin,
     Fail, Continue, PromptSettles, PostThrows
<1>8. CASE UNCHANGED poolVars
  BY <1>2, <1>8 DEF poolVars
<1> QED BY <1>3, <1>4, <1>5, <1>6, <1>7, <1>8 DEF PoolNext, Makes
-----------------------------------------------------------------------------
(* One prompt of a session at a time, unless they overlap                   *)

LEMMA ApartKept == ASSUME PoolTypeOK, Homed, Apart, [PoolNext]_poolVars PROVE Apart'
<1> USE DEF requests, pool, agents
<1>1. /\ at \in [Request -> RequestStages] /\ sess \in [Request -> Session \cup {None}]
      /\ active \in [Session -> BOOLEAN] /\ run \in [Session -> Request \cup {None}]
  BY DEF PoolTypeOK
<1>2. /\ \A c \in Request : at[c] # "none" => sess[c] \in Session
      /\ \A s \in Session : run[s] # None => run[s] \in Request /\ sess[run[s]] = s
  BY <1>1, PoolBounds DEF Homed, PoolTypeOK
<1>3. overlapped => Apart'
  <2>1. overlapped => overlapped'
    BY DEF PoolNext, Proceeds, Makes, Ask, Created, CreateFails, Age, Reap, Dispose, DisposeAll,
           Resume,
           Enter, Begin, Fail, AgentEnd, RunRejects, Continue, PromptSettles, PostThrows, Interrupt,
           poolVars
  <2> QED BY <2>1 DEF Apart
<1> SUFFICES ASSUME ~overlapped PROVE Apart'
  BY <1>3
<1>4. /\ \A c \in Request : at[c] \in Begun => active[sess[c]]
      /\ \A c, d \in Request : at[c] \in Begun /\ at[d] \in Begun /\ sess[c] = sess[d] => c = d
      /\ \A s \in Session : run[s] # None => at[run[s]] = "run"
      /\ ~cut
  BY DEF Apart
<1>5. \A c \in Request : c # None /\ at[c] # "run" => \A s \in Session : run[s] # c
  BY <1>4
<1>6. ASSUME UNCHANGED <<active, run, cut>>,
             \A c \in Request : at'[c] = at[c] \/ (at[c] \notin Begun /\ at'[c] \notin Begun),
             \A c \in Request : at[c] # "none" => sess'[c] = sess[c]
      PROVE  Apart'
  <2>1. \A c \in Request : at'[c] \in Begun => at[c] \in Begun /\ sess'[c] = sess[c]
    BY <1>6 DEF Begun
  <2>2. \A s \in Session : run[s] # None => at'[run[s]] = "run"
    BY <1>2, <1>4, <1>6 DEF Begun
  <2> QED BY <1>4, <1>6, <2>1, <2>2 DEF Apart
<1>7. ASSUME NEW c \in Request, NEW k \in Key, Ask(c, k) PROVE Apart'
  BY <1>1, <1>6, <1>7 DEF Ask, Goes, Begun
<1>8. ASSUME NEW c \in Request, Resume(c) \/ Enter(c) PROVE Apart'
  BY <1>1, <1>6, <1>8 DEF Resume, Enter, Goes, Begun
<1>9. ASSUME NEW c \in Request, Fail(c) \/ PromptSettles(c) PROVE Apart'
  <2>1. /\ at[c] \in Begun \ {"run"} /\ at' = [at EXCEPT ![c] = "done"]
        /\ active' = [active EXCEPT ![sess[c]] = FALSE] /\ UNCHANGED <<sess, run, cut>>
    BY <1>9 DEF Fail, PromptSettles, Goes, Begun
  <2>2. \A d \in Request : at'[d] \in Begun => d # c /\ at[d] \in Begun /\ sess[d] # sess[c]
    BY <1>1, <1>4, <2>1 DEF Begun
  <2>3. \A d \in Request : at'[d] \in Begun => active'[sess[d]]
    <3> SUFFICES ASSUME NEW d \in Request, at'[d] \in Begun PROVE active'[sess[d]]
      OBVIOUS
    <3>1. sess[d] \in Session /\ sess[d] # sess[c] /\ active[sess[d]]
      BY <1>2, <1>4, <2>2 DEF Begun
    <3> QED BY <1>1, <2>1, <3>1
  <2>4. \A s \in Session : run[s] # None => at'[run[s]] = "run"
    BY <1>1, <1>2, <1>4, <2>1
  <2> QED BY <1>4, <2>1, <2>2, <2>3, <2>4 DEF Apart
<1>16. ASSUME NEW c \in Request, PostThrows(c) PROVE Apart'
  <2>1. /\ at[c] \in Begun \ {"run"} /\ at' = [at EXCEPT ![c] = "broken"]
        /\ UNCHANGED <<active, sess, run, cut>>
    BY <1>16 DEF PostThrows, Goes, Begun
  <2>2. \A d \in Request : at'[d] \in Begun => at[d] \in Begun
    BY <1>1, <2>1 DEF Begun
  <2>3. \A s \in Session : run[s] # None => at'[run[s]] = "run"
    BY <1>1, <1>2, <1>4, <2>1
  <2> QED BY <1>4, <2>1, <2>2, <2>3 DEF Apart
<1>10. ASSUME NEW c \in Request, Begin(c) \/ Continue(c), ~overlapped' PROVE Apart'
  <2>1. PICK from \in {"entered", "backoff", "post"} : Runs(c, from)
    BY <1>10 DEF Begin, Continue
  <2>2. UNCHANGED <<sess, cut>> /\ at[c] = from /\ sess[c] \in Session
    BY <1>2, <1>10, <2>1 DEF Begin, Continue, Runs, Goes
  <2>3. \A d \in Request \ {c} : at[d] \in Begun => sess[d] # sess[c]
    <3>1. CASE Begin(c)
      BY <1>10, <3>1 DEF Begin, Begun, Prompting
    <3>2. CASE Continue(c)
      BY <1>4, <2>2, <3>2 DEF Continue, Runs, Goes, Begun
    <3> QED BY <1>10, <3>1, <3>2
  <2>4. run[sess[c]] = None
    <3> SUFFICES ASSUME run[sess[c]] # None PROVE FALSE
      OBVIOUS
    <3>1. run[sess[c]] \in Request /\ sess[run[sess[c]]] = sess[c] /\ at[run[sess[c]]] = "run"
      BY <1>2, <1>4, <2>2
    <3> QED BY <2>2, <2>3, <3>1 DEF Begun
  <2>5. at' = [at EXCEPT ![c] = "run"] /\ run' = [run EXCEPT ![sess[c]] = c]
    BY <2>1, <2>4 DEF Runs, Goes
  <2>6. active' = [active EXCEPT ![sess[c]] = TRUE] \/ (active' = active /\ active[sess[c]])
    BY <1>4, <1>10, <2>2 DEF Begin, Continue, Runs, Goes, Begun
  <2>7. \A d \in Request : at'[d] \in Begun => active'[sess[d]]
    <3> SUFFICES ASSUME NEW d \in Request, at'[d] \in Begun PROVE active'[sess[d]]
      OBVIOUS
    <3>1. sess[d] \in Session /\ (d = c \/ active[sess[d]])
      BY <1>1, <1>2, <1>4, <2>2, <2>5 DEF Begun
    <3> QED BY <1>1, <2>2, <2>6, <3>1
  <2>8. \A d, e \in Request :
          at'[d] \in Begun /\ at'[e] \in Begun /\ sess[d] = sess[e] => d = e
    BY <1>1, <1>4, <2>3, <2>5
  <2>9. \A s \in Session : run'[s] # None => at'[run'[s]] = "run"
    BY <1>1, <1>2, <1>4, <2>5
  <2> QED BY <1>4, <2>2, <2>7, <2>8, <2>9 DEF Apart
<1>11. ASSUME NEW s \in Session, AgentEnd(s) \/ RunRejects(s) PROVE Apart'
  <2>1. /\ run[s] \in Request /\ sess[run[s]] = s /\ at[run[s]] = "run"
        /\ UNCHANGED <<sess, active, cut>> /\ run' = [run EXCEPT ![s] = None]
        /\ \/ at' = [at EXCEPT ![run[s]] = "post"]
           \/ at' = [at EXCEPT ![run[s]] = "backoff"]
           \/ at' = [at EXCEPT ![run[s]] = "broken"]
    BY <1>2, <1>11 DEF AgentEnd, RunRejects, Goes
  <2>2. \A d \in Request : at'[d] \in Begun => at[d] \in Begun
    BY <1>1, <2>1 DEF Begun
  <2>3. \A r \in Session : run'[r] # None => at'[run'[r]] = "run"
    BY <1>1, <1>2, <1>4, <2>1
  <2> QED BY <1>4, <2>1, <2>2, <2>3 DEF Apart
<1>12. ASSUME NEW s \in Session, NEW why \in Reason, Dispose(s, why) PROVE Apart'
  <2>1. cut' = cut
    <3>1. ~active[s] => run[s] = None
      BY <1>2, <1>4 DEF Begun
    <3>2. cut' = cut \/ (~active[s] /\ cut' = (cut \/ run[s] # None))
      BY <1>12 DEF Dispose
    <3>3. cut \in BOOLEAN
      BY DEF PoolTypeOK
    <3> QED BY <1>4, <3>1, <3>2, <3>3
  <2> QED BY <1>6, <1>12, <2>1 DEF Dispose
<1>13. CASE \/ \E s \in Session : Makes(s)
            \/ \E k \in Key : Age(k)
            \/ Reap \/ DisposeAll
            \/ \E c \in Turn : Interrupt(c)
  BY <1>6, <1>13 DEF Makes, Created, CreateFails, Age, Reap, DisposeAll, Interrupt
<1>14. CASE UNCHANGED poolVars
  BY <1>6, <1>14 DEF poolVars
<1>15. CASE overlapped'
  BY <1>15 DEF Apart
<1> QED BY <1>7, <1>8, <1>9, <1>10, <1>11, <1>12, <1>13, <1>14, <1>15, <1>16 DEF PoolNext, Proceeds
-----------------------------------------------------------------------------
(* Whose text answers a turn                                                *)

LEMMA StaysExcused == ASSUME PoolTypeOK, Homed, Excused, [PoolNext]_poolVars PROVE Excused'
<1> USE DEF requests, pool, agents
<1>1. at \in [Request -> RequestStages] /\ reply \in [Request -> Replies]
      /\ SoftJob \subseteq Request /\ Turn \subseteq Request
  BY DEF PoolTypeOK, Request
<1>2. late => late'
  BY DEF PoolNext, Proceeds, Makes, Ask, Created, CreateFails, Age, Reap, Dispose, DisposeAll,
         Resume,
         Enter, Begin, Fail, AgentEnd, RunRejects, Continue, PromptSettles, PostThrows, Interrupt,
           poolVars
<1>3. \A c \in Request : at[c] # "none" => at'[c] # "none"
  <2>1. \/ at' = at
        \/ \E d \in Request, to \in RequestStages \ {"none"} : at' = [at EXCEPT ![d] = to]
    BY DEF PoolNext, Proceeds, Makes, Ask, Created, CreateFails, Age, Reap, Dispose, DisposeAll,
           Resume, Enter, Begin, Fail, AgentEnd, RunRejects, Continue, PromptSettles, PostThrows, Interrupt,
           poolVars, Goes, Runs, RequestStages, PoolTypeOK
  <2> QED BY <1>1, <2>1
<1>4. \A c \in Request : reply[c] # "none" => reply'[c] = reply[c]
  BY <1>1 DEF PoolNext, Proceeds, Makes, Ask, Created, CreateFails, Age, Reap, Dispose,
              DisposeAll, Resume, Enter, Begin, Fail, AgentEnd, RunRejects, Continue,
              PromptSettles, PostThrows, Interrupt, poolVars, Answers, Heard, Subscribed
<1> QED BY <1>1, <1>2, <1>3, <1>4 DEF Excused

LEMMA OwnKept == ASSUME PoolTypeOK, Homed, Own, [PoolNext]_poolVars PROVE Own'
<1> USE DEF requests, pool, agents
<1>1. /\ at \in [Request -> RequestStages] /\ reply \in [Request -> Replies]
      /\ run \in [Session -> Request \cup {None}]
      /\ SoftJob \subseteq Request /\ Turn \subseteq Request
      /\ Request = Turn \cup SoftJob
  BY DEF PoolTypeOK, Request
<1> SUFFICES ASSUME ~Excused' PROVE Own'
  BY DEF Own
<1> DEFINE early == {"none", "resolving", "preflight", "entered", "run", "backoff"}
<1>2. /\ \A c \in Request : reply[c] # "other"
      /\ \A c \in Request : at[c] \in early => reply[c] = "none"
      /\ \A c, d \in Unanswered : key[c] = key[d] => c = d
      /\ ~Excused
  BY StaysExcused DEF Own
<1>3. ASSUME \A c \in Request : reply'[c] # "other",
             \A c \in Request : at'[c] \in early => reply'[c] = "none",
             UNCHANGED key, Unanswered' \subseteq Unanswered
      PROVE  Own'
  BY <1>2, <1>3 DEF Own
<1> HIDE DEF early
<1>4. ASSUME NEW c \in Request, NEW k \in Key, Ask(c, k) PROVE Own'
  <2>1. /\ c \in Turn /\ at[c] = "none" /\ at' = [at EXCEPT ![c] = "resolving"]
        /\ key' = [key EXCEPT ![c] = k] /\ reply' = reply
    BY <1>1, <1>4 DEF Ask, Goes, Excused
  <2>2. \A d \in Unanswered : d \in Turn /\ key[d] # k
    BY <1>1, <1>2, <1>4, <2>1 DEF Ask, Unanswered, Excused
  <2>3. Unanswered' \subseteq Unanswered \cup {c} /\ c \notin Unanswered
    BY <1>1, <2>1 DEF Unanswered
  <2>4. \A d, e \in Unanswered' : key'[d] = key'[e] => d = e
    <3>1. key'[c] = k /\ \A d \in Unanswered : key'[d] = key[d]
      BY <2>1, <2>3 DEF Homed, Unanswered
    <3> QED BY <1>2, <2>2, <2>3, <3>1
  <2>5. \A d \in Request : at'[d] \in early => reply'[d] = "none"
    BY <1>1, <1>2, <2>1 DEF early
  <2> QED BY <1>2, <2>1, <2>4, <2>5 DEF Own, early
<1>5. ASSUME NEW c \in Request, Resume(c) \/ Enter(c) \/ Fail(c) \/ PromptSettles(c) PROVE Own'
  <2>1. /\ at[c] # "none" /\ UNCHANGED key
        /\ \/ /\ at' = [at EXCEPT ![c] = "done"]
              /\ \E r \in Replies \ {"other", "none"} : Answers(c, r)
           \/ /\ at[c] \in early
              /\ at' = [at EXCEPT ![c] = "preflight"] \/ at' = [at EXCEPT ![c] = "entered"]
              /\ reply' = reply
    BY <1>5 DEF Resume, Enter, Fail, PromptSettles, Goes, Replies, early
  <2>2. \A d \in Request : at'[d] \in early => reply'[d] = "none"
    BY <1>1, <1>2, <2>1 DEF Answers, early
  <2>3. Unanswered' \subseteq Unanswered /\ \A d \in Request : reply'[d] # "other"
    BY <1>1, <1>2, <2>1 DEF Answers, Unanswered
  <2> QED BY <1>3, <2>1, <2>2, <2>3
<1>6. ASSUME NEW c \in Request, Begin(c) \/ Continue(c) PROVE Own'
  <2>1. /\ at[c] \in early \ {"none"} /\ UNCHANGED <<key, reply>>
        /\ at' = [at EXCEPT ![c] = "run"] \/ at' = [at EXCEPT ![c] = "failing"]
    BY <1>6 DEF Begin, Continue, Runs, Goes, Excused, early
  <2>2. \A d \in Request : at'[d] \in early => reply'[d] = "none"
    BY <1>1, <1>2, <2>1
  <2>3. Unanswered' \subseteq Unanswered
    BY <1>1, <2>1 DEF Unanswered, early
  <2> QED BY <1>2, <1>3, <2>1, <2>2, <2>3
<1>10. ASSUME NEW c \in Request, PostThrows(c) PROVE Own'
  <2>1. at[c] # "none" /\ at' = [at EXCEPT ![c] = "broken"] /\ UNCHANGED <<key, reply>>
    BY <1>10 DEF PostThrows, Goes
  <2>2. \A d \in Request : at'[d] \in early => reply'[d] = "none"
    BY <1>1, <1>2, <2>1 DEF early
  <2>3. Unanswered' \subseteq Unanswered
    BY <1>1, <2>1 DEF Unanswered
  <2> QED BY <1>2, <1>3, <2>1, <2>2, <2>3
<1>7. ASSUME NEW s \in Session, AgentEnd(s) \/ RunRejects(s) PROVE Own'
  <2>1. /\ run[s] \in Request /\ sess[run[s]] = s /\ at[run[s]] = "run" /\ UNCHANGED key
        /\ \/ at' = [at EXCEPT ![run[s]] = "post"] /\ reply' = Heard(s, run[s])
           \/ at' = [at EXCEPT ![run[s]] = "backoff"] /\ reply' = reply
           \/ at' = [at EXCEPT ![run[s]] = "broken"] /\ reply' \in {reply, Heard(s, run[s])}
    BY <1>1, <1>7 DEF AgentEnd, RunRejects, Goes, Homed
  <2>2. \A d \in Subscribed : sess[d] = s => d = run[s]
    BY <1>1, <1>2, <2>1 DEF Subscribed, Unanswered, Homed, early
  <2>3. \A d \in Request : reply'[d] \in {reply[d], "own"} /\ (d # run[s] => reply'[d] = reply[d])
    BY <1>1, <2>1, <2>2 DEF Heard
  <2>4. \A d \in Request : at'[d] \in early => reply'[d] = "none"
    BY <1>1, <1>2, <2>1, <2>3 DEF early
  <2>5. Unanswered' \subseteq Unanswered
    BY <1>1, <2>1, <2>3 DEF Unanswered
  <2> QED BY <1>2, <1>3, <2>1, <2>3, <2>4, <2>5
<1>8. ASSUME NEW c \in Turn, Interrupt(c) PROVE Own'
  <2>1. UNCHANGED <<at, key, reply>>
    BY <1>1, <1>8 DEF Interrupt, Answers, Excused
  <2> QED BY <1>2, <1>3, <2>1 DEF Unanswered
<1>9. CASE UNCHANGED <<at, key, reply>>
  BY <1>2, <1>3, <1>9 DEF Unanswered
<1> QED BY <1>4, <1>5, <1>6, <1>7, <1>8, <1>9, <1>10
        DEF PoolNext, Proceeds, Makes, Created, CreateFails, Age, Reap, Dispose, DisposeAll,
            poolVars
-----------------------------------------------------------------------------
LEMMA PoolStart == PoolInit => PoolInv
<1> SUFFICES ASSUME PoolInit PROVE PoolInv
  OBVIOUS
<1>1. PoolTypeOK
  <2>1. /\ at \in [Request -> RequestStages] /\ reply \in [Request -> Replies]
        /\ sess \in [Request -> Session \cup {None}] /\ signalled \subseteq Turn
        /\ \A c \in Request : at[c] = "none" \/ key[c] \in Key
    BY DEF PoolInit, RequestStages, Replies
  <2>2. /\ entry \in [Key -> Session \cup {None}] /\ used \in [Key -> {"none", "recent", "old"}]
        /\ stage \in [Session -> {"none", "creating", "live", "failed", "disposed"}]
        /\ \A s \in Session : stage[s] = "none" \/ home[s] \in Key
        /\ doomed \subseteq Session \X Reason
    BY DEF PoolInit
  <2>3. active \in [Session -> BOOLEAN] /\ run \in [Session -> Request \cup {None}]
    BY DEF PoolInit
  <2>4. {closed, overlapped, late, cut} \subseteq BOOLEAN
    BY DEF PoolInit
  <2>5. more \in 0..MaxMore /\ made \in 0..MaxCreated
    BY PoolBounds DEF PoolInit
  <2> QED BY <2>1, <2>2, <2>3, <2>4, <2>5 DEF PoolTypeOK
<1>2. Homed
  BY PoolBounds DEF PoolInit, Homed
<1>3. Mapped
  BY DEF PoolInit, Mapped
<1>4. Apart
  BY DEF PoolInit, Apart, Begun
<1>5. Own
  BY DEF PoolInit, Own, Unanswered
<1> QED BY <1>1, <1>2, <1>3, <1>4, <1>5 DEF PoolInv

LEMMA PoolInvHolds == PoolSpec => []PoolInv
<1>1. PoolInv /\ [PoolNext]_poolVars => PoolInv'
  BY PoolTyped, HomedKept, MappedKept, ApartKept, OwnKept DEF PoolInv
<1> QED BY PoolStart, <1>1, PTL DEF PoolSpec

(* The map and the set of the pool agree, so no transcript has two writers  *)
(* and no conversation resolves a session that failed or was disposed; and  *)
(* an eviction or the reaper cuts a run only where prompts overlapped       *)
(* (session-pool.ts).                                                       *)
THEOREM PoolConsistentHolds == PoolSpec => []PoolConsistent
<1>1. PoolInv => PoolConsistent
  BY DEF PoolInv, Mapped, Apart, PoolConsistent, MapAgrees, RunsEnd, Live
<1> QED BY PoolInvHolds, <1>1, PTL

(* The first agent_end of its session is the turn's own, unless a job       *)
(* shares the session, a turn was interrupted or a prompt ran on after its  *)
(* answer, however runs and retries interleave (promptSession).             *)
THEOREM OwnTextHolds == PoolSpec => []OwnText
<1>1. PoolInv => OwnText
  BY DEF PoolInv, Own, Excused, OwnText
<1> QED BY PoolInvHolds, <1>1, PTL
-----------------------------------------------------------------------------
(* What ReplyComes rests on, whether prompts overlap or not: a request whose*)
(* prompt is over has its answer, and one whose prompt is in a run is the   *)
(* one that the agent runs, so the end of that run takes it on.  In every   *)
(* other place a request has a step of its own.                             *)
Awaited == \A c \in Request : /\ at[c] = "done" => reply[c] # "none"
                              /\ at[c] = "run" => run[sess[c]] = c

LEMMA AwaitedKept == ASSUME PoolTypeOK, Homed, Awaited, [PoolNext]_poolVars PROVE Awaited'
<1> USE DEF requests, pool, agents
<1>1. /\ at \in [Request -> RequestStages] /\ reply \in [Request -> Replies]
      /\ run \in [Session -> Request \cup {None}]
      /\ \A c \in Request : at[c] # "none" => sess[c] \in Session
      /\ None \notin Request /\ Turn \subseteq Request
  BY PoolBounds, PoolAssumption DEF PoolTypeOK, Homed, Request, None
<1>2. ASSUME \A c \in Request : reply[c] # "none" => reply'[c] # "none",
             \A c \in Request : at'[c] = "done" => at[c] = "done" \/ reply'[c] # "none",
             \A c \in Request : at'[c] = "run" => run'[sess'[c]] = c
      PROVE  Awaited'
  BY <1>2 DEF Awaited
<1>3. ASSUME UNCHANGED <<at, sess, run>>,
             \A c \in Request : reply[c] # "none" => reply'[c] # "none"
      PROVE  Awaited'
  BY <1>3 DEF Awaited
<1>4. ASSUME NEW c \in Request, NEW k \in Key, Ask(c, k) PROVE Awaited'
  BY <1>1, <1>2, <1>4 DEF Ask, Goes, Awaited
<1>5. ASSUME NEW c \in Request, Resume(c) \/ Enter(c) \/ Fail(c) \/ PromptSettles(c) PROVE Awaited'
  <2>1. /\ UNCHANGED <<sess, run>>
        /\ \/ /\ at' = [at EXCEPT ![c] = "done"]
              /\ \E r \in Replies \ {"none"} : Answers(c, r)
           \/ /\ at' = [at EXCEPT ![c] = "preflight"] \/ at' = [at EXCEPT ![c] = "entered"]
              /\ reply' = reply
    BY <1>5 DEF Resume, Enter, Fail, PromptSettles, Goes, Replies
  <2>2. \A d \in Request : reply[d] # "none" => reply'[d] # "none"
    BY <1>1, <2>1 DEF Answers
  <2>3. \A d \in Request : at'[d] = "done" => at[d] = "done" \/ reply'[d] # "none"
    BY <1>1, <2>1 DEF Answers
  <2>4. \A d \in Request : at'[d] = "run" => run'[sess'[d]] = d
    BY <1>1, <2>1 DEF Awaited
  <2> QED BY <1>2, <2>2, <2>3, <2>4
<1>6. ASSUME NEW c \in Request, Begin(c) \/ Continue(c) PROVE Awaited'
  <2>1. PICK from \in {"entered", "backoff", "post"} : Runs(c, from)
    BY <1>6 DEF Begin, Continue
  <2>2. UNCHANGED <<sess, reply>>
    BY <1>6 DEF Begin, Continue
  <2>3. CASE run[sess[c]] = None
    <3>1. at' = [at EXCEPT ![c] = "run"] /\ run' = [run EXCEPT ![sess[c]] = c] /\ at[c] = from
      BY <2>1, <2>3 DEF Runs, Goes
    <3>2. \A d \in Request \ {c} : at[d] = "run" => sess[d] # sess[c]
      BY <1>1, <2>3 DEF Awaited
    <3>3. \A d \in Request : at'[d] = "run" => run'[sess[d]] = d
      BY <1>1, <3>1, <3>2 DEF Awaited
    <3> QED BY <1>1, <1>2, <2>2, <3>1, <3>3
  <2>4. CASE run[sess[c]] # None
    <3>1. at' = [at EXCEPT ![c] = "failing"] /\ run' = run
      BY <1>1, <2>1, <2>4 DEF Runs, Goes
    <3> QED BY <1>1, <1>2, <2>2, <3>1 DEF Awaited
  <2> QED BY <2>3, <2>4
<1>10. ASSUME NEW c \in Request, PostThrows(c) PROVE Awaited'
  <2>1. at' = [at EXCEPT ![c] = "broken"] /\ UNCHANGED <<sess, run, reply>>
    BY <1>10 DEF PostThrows, Goes
  <2> QED BY <1>1, <1>2, <2>1 DEF Awaited
<1>7. ASSUME NEW s \in Session, AgentEnd(s) \/ RunRejects(s) PROVE Awaited'
  <2>1. /\ run[s] \in Request /\ sess[run[s]] = s /\ sess' = sess
        /\ run' = [run EXCEPT ![s] = None]
        /\ \/ at' = [at EXCEPT ![run[s]] = "post"]
           \/ at' = [at EXCEPT ![run[s]] = "backoff"]
           \/ at' = [at EXCEPT ![run[s]] = "broken"]
    BY <1>1, <1>7 DEF AgentEnd, RunRejects, Goes, Homed
  <2>2. \A d \in Request : reply[d] # "none" => reply'[d] # "none"
    BY <1>1, <1>7 DEF AgentEnd, RunRejects, Heard, Subscribed
  <2>3. \A d \in Request : at'[d] = "run" => at[d] = "run" /\ d # run[s]
    BY <1>1, <2>1
  <2>4. \A d \in Request : at'[d] = "run" => run'[sess[d]] = d
    BY <1>1, <2>1, <2>3 DEF Awaited
  <2>5. \A d \in Request : at'[d] = "done" => at[d] = "done"
    BY <1>1, <2>1
  <2> QED BY <1>2, <2>1, <2>2, <2>4, <2>5
<1>8. ASSUME NEW c \in Turn, Interrupt(c) PROVE Awaited'
  BY <1>1, <1>3, <1>8 DEF Interrupt, Answers
<1>9. CASE UNCHANGED <<at, sess, run, reply>>
  BY <1>3, <1>9
<1> QED BY <1>4, <1>5, <1>6, <1>7, <1>8, <1>9, <1>10
        DEF PoolNext, Proceeds, Makes, Created, CreateFails, Age, Reap, Dispose, DisposeAll,
            poolVars

(* No request is forgotten: one without an answer is not at its end, and if *)
(* it waits for a run, the run is its own (promptSession).  So the lane of  *)
(* a conversation is not blocked by a turn that waits for nothing.          *)
THEOREM EveryReplyIsAwaited == PoolSpec => []Awaited
<1>1. PoolInit => Awaited
  BY DEF PoolInit, Awaited
<1>2. PoolInv /\ Awaited /\ [PoolNext]_poolVars => Awaited'
  BY AwaitedKept DEF PoolInv
<1> QED BY PoolInvHolds, <1>1, <1>2, PTL DEF PoolSpec
-----------------------------------------------------------------------------
(* The prompts of a session are those of SessionPrompts *)

LEMMA PlacesAre ==
  /\ \A w \in {"none", "resolving", "preflight", "done"} : PlaceOf(w) = "out"
  /\ PlaceOf("entered") = "let in" /\ PlaceOf("run") = "run" /\ PlaceOf("failing") = "failing"
  /\ PlaceOf("backoff") = "between" /\ PlaceOf("post") = "between"
  /\ PlaceOf("broken") = "between"
BY DEF PlaceOf

(* What the promise sees of a session.                                      *)
PoolSeats(s)  == [c \in Request |-> IF sess[c] = s THEN PlaceOf(at[c]) ELSE "out"]
PoolRunner(s) == {run[s]} \ {None}

Seated == /\ at \in [Request -> RequestStages] /\ sess \in [Request -> Session \cup {None}]
          /\ active \in [Session -> BOOLEAN] /\ run \in [Session -> Request \cup {None}]
          /\ \A c \in Request : at[c] # "none" => sess[c] \in Session
          /\ \A s \in Session : run[s] # None => run[s] \in Request /\ sess[run[s]] = s
          /\ None \notin Request

LEMMA SeatedHolds == ASSUME PoolTypeOK, Homed PROVE Seated
BY PoolBounds, PoolAssumption DEF PoolTypeOK, Homed, Request, None, Seated

(* A request that goes from one place to another moves in its session only. *)
LEMMA PoolReseats ==
  ASSUME Seated, NEW c \in Request, NEW from, NEW to, Goes(c, from, to), sess' = sess,
         NEW s \in Session
  PROVE  /\ s # sess[c] => PoolSeats(s)' = PoolSeats(s)
         /\ s = sess[c] => /\ PoolSeats(s)[c] = PlaceOf(from)
                           /\ PoolSeats(s)' = [PoolSeats(s) EXCEPT ![c] = PlaceOf(to)]
         /\ PlaceOf(from) = PlaceOf(to) => PoolSeats(s)' = PoolSeats(s)
<1>1. at[c] = from /\ at' = [at EXCEPT ![c] = to] /\ at \in [Request -> RequestStages]
  BY DEF Goes, Seated
<1>2. \A d \in Request : at'[d] = IF d = c THEN to ELSE at[d]
  BY <1>1
<1>3. \A d \in Request : PoolSeats(s)[d] = IF sess[d] = s THEN PlaceOf(at[d]) ELSE "out"
  BY DEF PoolSeats
<1>4. PoolSeats(s)' = [d \in Request |-> IF sess[d] = s THEN PlaceOf(at'[d]) ELSE "out"]
  BY DEF PoolSeats
<1>5. PoolSeats(s) = [d \in Request |-> IF sess[d] = s THEN PlaceOf(at[d]) ELSE "out"]
  BY DEF PoolSeats
<1>6. s # sess[c] => PoolSeats(s)' = PoolSeats(s)
  BY <1>2, <1>4, <1>5
<1>7. PlaceOf(from) = PlaceOf(to) => PoolSeats(s)' = PoolSeats(s)
  <2> SUFFICES ASSUME PlaceOf(from) = PlaceOf(to) PROVE PoolSeats(s)' = PoolSeats(s)
    OBVIOUS
  <2>1. \A d \in Request : PlaceOf(at'[d]) = PlaceOf(at[d])
    BY <1>1, <1>2
  <2> QED BY <1>4, <1>5, <2>1
<1>8. ASSUME s = sess[c]
      PROVE  PoolSeats(s)' = [PoolSeats(s) EXCEPT ![c] = PlaceOf(to)]
  <2>1. PoolSeats(s)' = [d \in Request |-> IF d = c THEN PlaceOf(to) ELSE PoolSeats(s)[d]]
    BY <1>2, <1>3, <1>4, <1>8
  <2>2. [PoolSeats(s) EXCEPT ![c] = PlaceOf(to)]
          = [d \in Request |-> IF d = c THEN PlaceOf(to) ELSE PoolSeats(s)[d]]
    BY <1>5
  <2> QED BY <2>1, <2>2
<1> QED BY <1>1, <1>3, <1>6, <1>7, <1>8

LEMMA PromptsStay ==
  ASSUME NEW s \in Session, PoolSeats(s)' = PoolSeats(s), active'[s] = active[s],
         run'[s] = run[s]
  PROVE  PromptsKeep(s)
BY DEF PromptsKeep, Prompts!promptVars, PoolSeats

(* A step of a prompt, seen by its session and by any other.                *)
LEMMA PromptMoves ==
  ASSUME Seated, NEW c \in Request, NEW from, NEW to, Goes(c, from, to), sess' = sess,
         at[c] # "none", NEW s \in Session,
         s # sess[c] => active'[s] = active[s] /\ run'[s] = run[s]
  PROVE  /\ s # sess[c] => PromptsKeep(s)
         /\ s = sess[c] => Prompts(s)!Goes(c, PlaceOf(from), PlaceOf(to))
<1>1. s # sess[c] => PromptsKeep(s)
  BY PoolReseats, PromptsStay
<1>2. s = sess[c] => Prompts(s)!Goes(c, PlaceOf(from), PlaceOf(to))
  BY PoolReseats DEF Prompts!Goes, PoolSeats
<1> QED BY <1>1, <1>2

(* A prompt asks the agent for a run: the first of it, or another.          *)
LEMMA PoolRuns ==
  ASSUME Seated, NEW c \in Request, NEW from, Runs(c, from), sess' = sess, at[c] # "none",
         NEW s \in Session, s = sess[c]
  PROVE  Prompts(s)!Runs(c, PlaceOf(from))
<1>1. CASE run[s] = None
  <2>1. Goes(c, from, "run") /\ run' = [run EXCEPT ![s] = c]
    BY <1>1 DEF Runs
  <2>2. Prompts(s)!Goes(c, PlaceOf(from), PlaceOf("run"))
    BY <2>1, PromptMoves
  <2>3. {run[s]} \ {None} = {} /\ {run'[s]} \ {None} = {c}
    BY <1>1, <2>1 DEF Seated
  <2> QED BY <2>2, <2>3, PlacesAre DEF Prompts!Runs
<1>2. CASE run[s] # None
  <2>1. Goes(c, from, "failing") /\ run' = [run EXCEPT ![s] = run[s]]
    BY <1>2 DEF Runs
  <2>2. Prompts(s)!Goes(c, PlaceOf(from), PlaceOf("failing"))
    BY <2>1, PromptMoves
  <2>3. {run[s]} \ {None} # {} /\ run'[s] = run[s]
    BY <1>2, <2>1 DEF Seated
  <2> QED BY <2>2, <2>3, PlacesAre DEF Prompts!Runs
<1> QED BY <1>1, <1>2

LEMMA RunsElsewhere ==
  ASSUME Seated, NEW c \in Request, NEW from, Runs(c, from), sess' = sess, at[c] # "none",
         NEW s \in Session, s # sess[c], active'[s] = active[s]
  PROVE  PromptsKeep(s)
<1>1. run'[s] = run[s]
  BY DEF Runs, Seated
<1>2. PICK to : Goes(c, from, to)
  BY DEF Runs
<1> QED BY <1>1, <1>2, PoolReseats, PromptsStay

LEMMA PromptsKept ==
  ASSUME PoolTypeOK, Homed, [PoolNext]_poolVars, NEW s \in Session
  PROVE  PromptsKeep(s)
<1> USE DEF requests, pool, agents
<1>1. Seated
  BY SeatedHolds
<1>2. ASSUME UNCHANGED <<at, sess, active, run>> PROVE PromptsKeep(s)
  BY <1>2, PromptsStay DEF PoolSeats
<1>3. ASSUME NEW c \in Request, NEW k \in Key, Ask(c, k) PROVE PromptsKeep(s)
  <2>1. /\ at[c] = "none" /\ at' = [at EXCEPT ![c] = "resolving"]
        /\ \E n : sess' = [sess EXCEPT ![c] = n]
        /\ active' = active /\ run' = run
    BY <1>3 DEF Ask, Goes
  <2>2. \A d \in Request \ {c} : at'[d] = at[d] /\ sess'[d] = sess[d]
    BY <1>1, <2>1 DEF Seated
  <2>3. PlaceOf(at[c]) = "out" /\ PlaceOf(at'[c]) = "out"
    BY <1>1, <2>1, PlacesAre DEF Seated
  <2>4. PoolSeats(s)' = PoolSeats(s)
    BY <2>2, <2>3 DEF PoolSeats
  <2> QED BY <2>1, <2>4, PromptsStay
<1>4. ASSUME NEW c \in Request, Resume(c) PROVE PromptsKeep(s)
  <2>1. PICK to \in {"done", "preflight"} : Goes(c, "resolving", to)
    BY <1>4 DEF Resume
  <2>2. sess' = sess /\ active' = active /\ run' = run
    BY <1>4 DEF Resume
  <2>3. PlaceOf("resolving") = PlaceOf(to)
    BY PlacesAre
  <2>4. PoolSeats(s)' = PoolSeats(s)
    BY <1>1, <2>1, <2>2, <2>3, PoolReseats
  <2> QED BY <2>2, <2>4, PromptsStay
<1>5. ASSUME NEW c \in Request, Enter(c) PROVE PromptsKeep(s)
  <2>1. sess' = sess /\ active' = active /\ run' = run
    BY <1>5 DEF Enter
  <2>2. CASE ~active[sess[c]] /\ Goes(c, "preflight", "entered")
    <3>1. /\ s # sess[c] => PromptsKeep(s)
          /\ s = sess[c] => Prompts(s)!Goes(c, "out", "let in")
      BY <1>1, <2>1, <2>2, PromptMoves, PlacesAre DEF Goes
    <3>2. s = sess[c] => Prompts(s)!Pass(c)
      BY <2>1, <2>2, <3>1 DEF Prompts!Pass
    <3> QED BY <3>1, <3>2 DEF PromptsKeep, Prompts!Next
  <2>3. CASE Goes(c, "preflight", "done")
    <3>1. PlaceOf("preflight") = PlaceOf("done")
      BY PlacesAre
    <3>2. PoolSeats(s)' = PoolSeats(s)
      BY <1>1, <2>1, <2>3, <3>1, PoolReseats
    <3> QED BY <2>1, <3>2, PromptsStay
  <2> QED BY <1>5, <2>2, <2>3 DEF Enter
<1>6. ASSUME NEW c \in Request, Begin(c) PROVE PromptsKeep(s)
  <2>1. /\ Runs(c, "entered") /\ sess' = sess /\ at[c] # "none"
        /\ active' = [active EXCEPT ![sess[c]] = TRUE]
    BY <1>6 DEF Begin, Runs, Goes
  <2>2. CASE s # sess[c]
    BY <1>1, <2>1, <2>2, RunsElsewhere DEF Seated
  <2>3. CASE s = sess[c]
    <3>1. Prompts(s)!Runs(c, "let in")
      BY <1>1, <2>1, <2>3, PoolRuns, PlacesAre
    <3>2. active'[s] = TRUE
      BY <1>1, <2>1, <2>3 DEF Seated
    <3>3. Prompts(s)!Begin(c)
      BY <3>1, <3>2 DEF Prompts!Begin
    <3> QED BY <3>3 DEF PromptsKeep, Prompts!Next
  <2> QED BY <2>2, <2>3
<1>7. ASSUME NEW c \in Request, Continue(c) PROVE PromptsKeep(s)
  <2>1. PICK from \in {"backoff", "post"} : Runs(c, from)
    BY <1>7 DEF Continue
  <2>2. sess' = sess /\ active' = active /\ at[c] # "none"
    BY <1>7, <2>1 DEF Continue, Runs, Goes
  <2>3. CASE s # sess[c]
    BY <1>1, <2>1, <2>2, <2>3, RunsElsewhere
  <2>4. CASE s = sess[c]
    <3>1. Prompts(s)!Runs(c, "between")
      BY <1>1, <2>1, <2>2, <2>4, PoolRuns, PlacesAre
    <3>2. Prompts(s)!Continue(c)
      BY <2>2, <3>1 DEF Prompts!Continue
    <3> QED BY <3>2 DEF PromptsKeep, Prompts!Next
  <2> QED BY <2>3, <2>4
<1>8. ASSUME NEW c \in Request, Fail(c) \/ PromptSettles(c) PROVE PromptsKeep(s)
  <2>1. PICK from \in {"failing", "broken", "backoff", "post"} : Goes(c, from, "done")
    BY <1>8 DEF Fail, PromptSettles
  <2>2. /\ sess' = sess /\ run' = run /\ at[c] # "none"
        /\ active' = [active EXCEPT ![sess[c]] = FALSE]
    BY <1>8, <2>1 DEF Fail, PromptSettles, Goes
  <2>3. s # sess[c] => active'[s] = active[s] /\ run'[s] = run[s]
    BY <1>1, <2>2 DEF Seated
  <2>4. /\ s # sess[c] => PromptsKeep(s)
        /\ s = sess[c] => Prompts(s)!Goes(c, PlaceOf(from), PlaceOf("done"))
    BY <1>1, <2>1, <2>2, <2>3, PromptMoves
  <2>5. ASSUME s = sess[c] PROVE PromptsKeep(s)
    <3>1. \E p \in {"between", "failing"} : Prompts(s)!Goes(c, p, "out")
      BY <2>4, <2>5, PlacesAre
    <3>2. active'[s] = FALSE
      BY <1>1, <2>2, <2>5 DEF Seated
    <3>3. Prompts(s)!Leave(c)
      BY <2>2, <3>1, <3>2 DEF Prompts!Leave
    <3> QED BY <3>3 DEF PromptsKeep, Prompts!Next
  <2> QED BY <2>4, <2>5
<1>12. ASSUME NEW c \in Request, PostThrows(c) PROVE PromptsKeep(s)
  <2>1. PICK from \in {"backoff", "post"} : Goes(c, from, "broken")
    BY <1>12 DEF PostThrows
  <2>2. sess' = sess /\ active' = active /\ run' = run
    BY <1>12 DEF PostThrows
  <2>3. PlaceOf(from) = PlaceOf("broken")
    BY PlacesAre
  <2>4. PoolSeats(s)' = PoolSeats(s)
    BY <1>1, <2>1, <2>2, <2>3, PoolReseats
  <2> QED BY <2>2, <2>4, PromptsStay
<1>9. ASSUME NEW t \in Session, AgentEnd(t) \/ RunRejects(t) PROVE PromptsKeep(s)
  <2>1. /\ run[t] \in Request /\ sess[run[t]] = t /\ sess' = sess /\ active' = active
        /\ run' = [run EXCEPT ![t] = None]
    BY <1>1, <1>9 DEF AgentEnd, RunRejects, Seated
  <2>2. PICK to \in {"post", "backoff", "broken"} : Goes(run[t], "run", to)
    BY <1>9 DEF AgentEnd, RunRejects
  <2>3. s # t => run'[s] = run[s]
    BY <1>1, <2>1 DEF Seated
  <2>4. /\ s # t => PromptsKeep(s)
        /\ s = t => Prompts(s)!Goes(run[t], "run", "between")
    BY <1>1, <2>1, <2>2, <2>3, PromptMoves, PlacesAre DEF Goes
  <2>5. ASSUME s = t PROVE PromptsKeep(s)
    <3>1. {run[s]} \ {None} = {run[t]} /\ {run'[s]} \ {None} = {}
      BY <1>1, <2>1, <2>5 DEF Seated
    <3>2. Prompts(s)!RunEnds(run[t])
      BY <2>1, <2>4, <2>5, <3>1 DEF Prompts!RunEnds
    <3> QED BY <2>1, <3>2 DEF PromptsKeep, Prompts!Next
  <2> QED BY <2>4, <2>5
<1>10. ASSUME NEW c \in Turn, Interrupt(c) PROVE PromptsKeep(s)
  BY <1>2, <1>10 DEF Interrupt
<1>11. CASE UNCHANGED <<at, sess, active, run>>
  BY <1>2, <1>11
<1> QED BY <1>3, <1>4, <1>5, <1>6, <1>7, <1>8, <1>9, <1>10, <1>11, <1>12
        DEF PoolNext, Proceeds, Makes, Created, CreateFails, Age, Reap, Dispose, DisposeAll,
            poolVars

(* Each session of the pool, with its reduced prompts, keeps the promise    *)
(* that AgentSession keeps with the whole ones (PromptsRefinement of        *)
(* AgentProofs): turns and soft jobs of a conversation may overlap, runs of *)
(* a session do not, and the flag is lowered by a prompt that is done       *)
(* (turn.ts, session-pool.ts).                                              *)
THEOREM PoolPromptsRefinement == PoolSpec => ImplementPrompts
<1>1. ASSUME PoolInit, NEW s \in Session PROVE Prompts(s)!Init
  <2>1. [c \in Request |-> IF sess[c] = s THEN PlaceOf(at[c]) ELSE "out"]
          = [c \in Request |-> "out"]
    BY <1>1, PlacesAre DEF PoolInit
  <2>2. active[s] = FALSE /\ {run[s]} \ {None} = {}
    BY <1>1 DEF PoolInit
  <2> QED BY <2>1, <2>2 DEF Prompts!Init
<1>2. PoolInit => \A s \in Session : Prompts(s)!Init
  BY <1>1
<1>3. PoolInv /\ [PoolNext]_poolVars => \A s \in Session : PromptsKeep(s)
  BY PromptsKept DEF PoolInv
<1> QED BY <1>2, <1>3, PoolInvHolds, PTL DEF PoolSpec, ImplementPrompts
=============================================================================
