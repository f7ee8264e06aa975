---------------------------- MODULE GatewayHost -----------------------------
(***************************************************************************)
(* packages/chat/src/index.ts, runChatModule: a gateway process takes the  *)
(* instance lock (InstanceLock) before it opens any state file, and        *)
(* releases it as the last thing it does, at stop or when its start fails. *)
(* While it runs it changes the state files in transactions (FileLock).    *)
(*                                                                         *)
(* Stopping waits for the turns, not for a push on its way: sdk.send goes  *)
(* on after the channels are stopped and then writes its receipt.  So a    *)
(* stopped gateway may begin a transaction until its process exits.        *)
(*                                                                         *)
(* One state file stands for all of them.                                  *)
(***************************************************************************)
EXTENDS FileLock

VARIABLES gate, file, seen, attempt,  \* of InstanceLock: gate is its pc,
          raced, killed,              \* ... raced its contended, killed its crashes
          late                        \* history: a stopped gateway wrote on

Gate == INSTANCE InstanceLock WITH Pid <- Process, pc <- gate,
                                   contended <- raced, crashes <- killed

ASSUME HostAssumption == Gate!InstanceAssumption

gates    == <<gate, file, seen, attempt, raced, killed>>
hostVars == <<vars, gates, late>>

HostTypeOK == TypeOK /\ Gate!TypeOK /\ late \in BOOLEAN

HostInit == Init /\ Gate!Init /\ late = FALSE

(* Mutant: the state files are opened before the lock is taken.             *)
MayBeginEarly(p) == gate[p] # "new"

(* From the lock to the exit of the process: what a stopped gateway writes  *)
(* is the receipt of a send that was on its way.                            *)
MayBegin(p) == gate[p] \in {"running", "stopped"}

HostBegin(p) == /\ MayBegin(p) /\ Begin(p)
                /\ late' = (late \/ gate[p] = "stopped")
                /\ UNCHANGED gates

(* A process runs one piece of synchronous code at a time: a transaction,   *)
(* acquire, or release.                                                     *)
Gates(p) == /\ pc[p] = "idle"
            /\ Gate!Start(p) \/ Gate!Acquires(p) \/ Gate!Stop(p) \/ Gate!Releases(p)
            /\ UNCHANGED <<vars, late>>

Transacts(p) == (Acquires(p) \/ Sleep(p) \/ Works(p)) /\ UNCHANGED <<gates, late>>

(* The process dies with both locks as they are.                            *)
HostCrash(p) == /\ Crash(p)
                /\ Gate!Crash(p) \/ (gate[p] = "stopped" /\ UNCHANGED gates)
                /\ UNCHANGED late

HostNext == \/ \E p \in Process : HostBegin(p) \/ Gates(p) \/ Transacts(p) \/ HostCrash(p)
            \/ Age /\ UNCHANGED <<gates, late>>

HostSpec == HostInit /\ [][HostNext]_hostVars
-----------------------------------------------------------------------------
(* Each lock makes up for what the other cannot do: a takeover of the file  *)
(* lock from a live process needs a second gateway, or a stopped one that   *)
(* writes on; and the instance lock is not held by the one that writes on.  *)
Unguarded == raced \/ (late /\ contended)

(* However long a transaction takes (SlowHolders), two are never in it at   *)
(* once, and the state file shows every one that was written:               *)
(* file-state.ts:18, "A lock older than this is assumed to belong to a      *)
(* crashed process", is sound under the instance lock.                      *)
OneTransaction == ~Unguarded => Cardinality(Holding) <= 1 /\ value = writes

(* One gateway runs at a time, and its file and record stay in place.       *)
OneGateway   == Gate!OneGateway /\ Gate!FileIsOwners

(* A gateway that stopped or was refused leaves no lock to its successor.   *)
LeftOnlyByCrash == Gate!LeftOnlyByCrash

(* The host as a whole: types, and the two statements above.                *)
Consistent == HostTypeOK /\ OneGateway /\ LeftOnlyByCrash
=============================================================================
