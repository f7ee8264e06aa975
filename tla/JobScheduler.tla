---------------------------- MODULE JobScheduler ----------------------------
(***************************************************************************)
(* packages/chat/src/scheduler.ts: ChatScheduler, the timed tasks of the   *)
(* chat, and their JSON file.                                              *)
(*                                                                         *)
(* A tick fires the due jobs one after the other.  A fire first claims the *)
(* job in memory, by its next time or by disabling it, then awaits the     *)
(* generated text (soft jobs) and the delivery, and then writes the file.  *)
(* Ticks overlap while they await, the tools of the agent schedule, cancel *)
(* and remove jobs meanwhile, and the process may stop or crash anywhere.  *)
(* Time is counted in intervals: an every job is due one later.            *)
(*                                                                         *)
(* Left out: the parsing of times, and writes of the file that fail.       *)
(***************************************************************************)
EXTENDS Integers, FiniteSets

CONSTANTS MaxJobs,     \* bound: jobs scheduled
          Tick,        \* bound: ticks that overlap
          MaxTime,     \* bound: intervals
          MaxCrashes,  \* bound: ends of the process
          Faults       \* what may go wrong: "busy", "undelivered"

ASSUME SchedulerAssumption == /\ {MaxJobs, MaxTime, MaxCrashes} \subseteq Nat
                              /\ Faults \subseteq {"busy", "undelivered"}

Job  == 1..MaxJobs      \* in the order of the map and of the file
Slot == 0..(MaxTime + 1)

VARIABLES up, timer,   \* the process runs; the interval is set
          now,
          born,        \* jobs scheduled so far; ids are never used again
          kind,        \* tier and trigger of each job
          mem, disk,   \* the map, and the file
          tick,        \* where each tick awaits, and in which job
          sent,        \* history: deliveries of each job by their slot
          dropped,     \* history: jobs that fired and had nothing delivered
          ended,       \* history: jobs cancelled or removed
          saved,       \* history: jobs whose claim the file got while they fired
          crashes

vars == <<up, timer, now, born, kind, mem, disk, tick, sent, dropped, ended, saved,
          crashes>>
jobs == <<born, kind>>

Absent == [state |-> "absent", at |-> 0]
On(t)  == [state |-> "on", at |-> t]
Idle   == [stage |-> "idle", now |-> 0, job |-> 0, slot |-> 0]

Stages == {"idle", "scan", "generate", "deliver", "delivered", "empty", "failed"}

TypeOK ==
  /\ {up, timer} \subseteq BOOLEAN /\ now \in 0..MaxTime /\ born \in 0..MaxJobs
  /\ kind \in [Job -> [soft : BOOLEAN, every : BOOLEAN]]
  /\ {mem, disk} \subseteq [Job -> [state : {"absent", "on", "off"}, at : Slot]]
  /\ tick \in [Tick -> [stage : Stages, now : 0..MaxTime, job : 0..MaxJobs, slot : Slot]]
  /\ sent \in [Job -> [Slot -> Nat]]
  /\ dropped \subseteq Job /\ ended \subseteq Job /\ saved \subseteq Job
  /\ crashes \in 0..MaxCrashes

Init == /\ up = TRUE /\ timer = TRUE /\ now = 0 /\ born = 0
        /\ kind = [j \in Job |-> [soft |-> FALSE, every |-> FALSE]]
        /\ mem = [j \in Job |-> Absent] /\ disk = [j \in Job |-> Absent]
        /\ tick = [t \in Tick |-> Idle]
        /\ sent = [j \in Job |-> [s \in Slot |-> 0]]
        /\ dropped = {} /\ ended = {} /\ saved = {}
        /\ crashes = 0

(* Jobs a fire has claimed and not settled.                                 *)
InFire == {tick[t].job : t \in {u \in Tick : tick[u].stage \notin {"idle", "scan"}}}
Due(j) == mem[j].state = "on" /\ mem[j].at <= now
-----------------------------------------------------------------------------
(* Mutant: the file is written by the next change.                          *)
PersistLater(m, firing) == UNCHANGED <<disk, saved>>

(* persist: the whole map, with what the fires in progress have claimed.    *)
Persist(m, firing) == /\ disk' = m
                      /\ saved' = saved \cup (firing \cap {j \in Job : m[j].state # "absent"})

Clock == /\ now < MaxTime /\ now' = now + 1
         /\ UNCHANGED <<up, timer, jobs, mem, disk, tick, sent, dropped, ended, saved,
                        crashes>>

(* schedule, with the parsed time one interval away.                        *)
Schedule(j) ==
  /\ up /\ j = born + 1 /\ born' = j
  /\ kind' \in {[kind EXCEPT ![j] = [soft |-> s, every |-> e]] : s, e \in BOOLEAN}
  /\ mem' = [mem EXCEPT ![j] = On(now + 1)]
  /\ Persist(mem', InFire)
  /\ UNCHANGED <<up, timer, now, tick, sent, dropped, ended, crashes>>

Cancel(j) == /\ up /\ mem[j].state = "on"
             /\ mem' = [mem EXCEPT ![j].state = "off"]
             /\ Persist(mem', InFire)
             /\ ended' = ended \cup {j}
             /\ UNCHANGED <<up, timer, now, jobs, tick, sent, dropped, crashes>>

Remove(j) == /\ up /\ mem[j] # Absent
             /\ mem' = [mem EXCEPT ![j] = Absent]
             /\ Persist(mem', InFire)
             /\ ended' = ended \cup {j}
             /\ UNCHANGED <<up, timer, now, jobs, tick, sent, dropped, crashes>>
-----------------------------------------------------------------------------
(* fireDue and fire                                                         *)

StartTick(t) ==
  /\ up /\ timer /\ tick[t] = Idle
  /\ \E j \in Job : Due(j)
  /\ tick' = [tick EXCEPT ![t] = [Idle EXCEPT !.stage = "scan", !.now = now]]
  /\ UNCHANGED <<up, timer, now, jobs, mem, disk, sent, dropped, ended, saved, crashes>>

(* Mutant: a job that is due exactly now waits.                             *)
DueLater(t) == {j \in Job : /\ j > tick[t].job /\ mem[j].state = "on"
                            /\ mem[j].at < tick[t].now}

DueFor(t) == {j \in Job : /\ j > tick[t].job /\ mem[j].state = "on"
                          /\ mem[j].at <= tick[t].now}

Fires(t, j) ==
  tick' = [tick EXCEPT ![t] = [@ EXCEPT !.job = j, !.slot = mem[j].at,
                                        !.stage = IF kind[j].soft THEN "generate"
                                                                  ELSE "deliver"]]

(* Mutant: the job keeps its time until it has fired.                       *)
Unclaimed(t) ==
  /\ tick[t].stage = "scan"
  /\ \E j \in DueFor(t) :
       /\ \A i \in DueFor(t) : j <= i
       /\ Fires(t, j)
       /\ UNCHANGED mem
  /\ UNCHANGED <<up, timer, now, jobs, disk, sent, dropped, ended, saved, crashes>>

(* The next due job of the tick: its next time, from the time of the tick,  *)
(* or its end is claimed at once.                                           *)
Claim(t) ==
  /\ tick[t].stage = "scan"
  /\ \E j \in DueFor(t) :
       /\ \A i \in DueFor(t) : j <= i
       /\ Fires(t, j)
       /\ mem' = [mem EXCEPT ![j] = IF kind[j].every THEN On(tick[t].now + 1)
                                                     ELSE [@ EXCEPT !.state = "off"]]
  /\ UNCHANGED <<up, timer, now, jobs, disk, sent, dropped, ended, saved, crashes>>

EndTick(t) ==
  /\ tick[t].stage = "scan" /\ DueFor(t) = {}
  /\ tick' = [tick EXCEPT ![t] = Idle]
  /\ UNCHANGED <<up, timer, now, jobs, mem, disk, sent, dropped, ended, saved, crashes>>

Moves(t, from, to) == /\ tick[t].stage = from
                      /\ tick' = [tick EXCEPT ![t].stage = to]
                      /\ UNCHANGED <<up, timer, now, jobs, mem, disk, ended, saved, crashes>>

(* generateSoft: no text when the session is busy or the generation fails.  *)
Generate(t) == \/ /\ Moves(t, "generate", "deliver")
                  /\ UNCHANGED <<sent, dropped>>
               \/ /\ "busy" \in Faults /\ Moves(t, "generate", "empty")
                  /\ dropped' = dropped \cup {tick[t].job}
                  /\ UNCHANGED sent

Deliver(t) == \/ /\ Moves(t, "deliver", "delivered")
                 /\ sent' = [sent EXCEPT ![tick[t].job][tick[t].slot] = @ + 1]
                 /\ UNCHANGED dropped
              \/ /\ "undelivered" \in Faults /\ Moves(t, "deliver", "failed")
                 /\ dropped' = dropped \cup {tick[t].job}
                 /\ UNCHANGED sent

(* Whatever came of it, the file is written and the tick goes on.           *)
Settle(t) ==
  /\ tick[t].stage \in {"delivered", "empty", "failed"}
  /\ tick' = [tick EXCEPT ![t] = [@ EXCEPT !.stage = "scan", !.slot = 0]]
  /\ Persist(mem, {tick[u].job : u \in {v \in Tick \ {t} :
                                          tick[v].stage \notin {"idle", "scan"}}})
  /\ UNCHANGED <<up, timer, now, jobs, mem, sent, dropped, ended, crashes>>
-----------------------------------------------------------------------------
(* The process: stop() leaves the fires in progress where they are.         *)

Stop == /\ up /\ timer
        /\ timer' = FALSE
        /\ Persist(mem, InFire)
        /\ UNCHANGED <<up, now, jobs, mem, tick, sent, dropped, ended, crashes>>

Crash == /\ up /\ crashes < MaxCrashes
         /\ up' = FALSE /\ timer' = FALSE /\ crashes' = crashes + 1
         /\ mem' = [j \in Job |-> Absent]
         /\ tick' = [t \in Tick |-> Idle]
         /\ UNCHANGED <<now, jobs, disk, sent, dropped, ended, saved>>

(* Mutant: a time that has passed while the process was down is skipped.    *)
RestartLater ==
  /\ ~up
  /\ up' = TRUE /\ timer' = TRUE
  /\ mem' = [j \in Job |-> IF disk[j].state = "on" /\ disk[j].at > now THEN disk[j]
                                                                      ELSE Absent]
  /\ UNCHANGED <<now, jobs, disk, tick, sent, dropped, ended, saved, crashes>>

(* load takes the enabled jobs from the file.                               *)
Restart == /\ ~up
           /\ up' = TRUE /\ timer' = TRUE
           /\ mem' = [j \in Job |-> IF disk[j].state = "on" THEN disk[j] ELSE Absent]
           /\ UNCHANGED <<now, jobs, disk, tick, sent, dropped, ended, saved, crashes>>

Works(t) == Claim(t) \/ EndTick(t) \/ Generate(t) \/ Deliver(t) \/ Settle(t)

Next == \/ Clock \/ Stop \/ Crash \/ Restart
        \/ \E j \in Job : Schedule(j) \/ Cancel(j) \/ Remove(j)
        \/ \E t \in Tick : StartTick(t) \/ Works(t)

Spec == Init /\ [][Next]_vars

(* The interval ticks, the model and the channel answer, and a supervisor   *)
(* starts the process again.                                                *)
FairSpec == /\ Spec
            /\ WF_vars(Restart) /\ WF_vars(\E t \in Tick : StartTick(t))
            /\ \A t \in Tick : WF_vars(Works(t))
-----------------------------------------------------------------------------
(* Each time of a job is delivered once, and once more at most per end of   *)
(* the process, although ticks overlap and jobs fire late (fire).           *)
OncePerSlot == \A j \in Job, s \in Slot : sent[j][s] <= 1 + crashes

(* A one-shot job that is not ended is delivered, still to come, firing, or *)
(* is one of the cases the file loses: dropped, or claimed in the file      *)
(* while it was firing.  In particular a crash alone loses none.            *)
OneShotKept ==
  \A j \in 1..born :
    ~kind[j].every =>
       \/ j \in ended \cup dropped \cup saved
       \/ \E s \in Slot : sent[j][s] > 0
       \/ disk[j].state = "on"

Enabled(m) == {<<j, m[j].at>> : j \in {i \in Job : m[i].state = "on"}}

(* With no fire in progress the file has the times of the map: what the     *)
(* tools answered is what a restart finds.                                  *)
FileIsMap == up /\ InFire = {} => Enabled(disk) = Enabled(mem)

(* A cancelled or removed job does not come back, not even by a restart.    *)
EndedStaysEnded == \A j \in ended : mem[j].state # "on" /\ disk[j].state # "on"

(* A due job is fired, unless it is ended or the scheduler stopped: a job   *)
(* that takes long holds up its own tick only.                              *)
DueFires == \A j \in Job : Due(j) ~> (~Due(j) \/ ~timer)

(* The map and the file are consistent at every await.                      *)
Consistent == TypeOK /\ FileIsMap /\ EndedStaysEnded
=============================================================================
