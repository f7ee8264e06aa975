---------------------------- MODULE InstanceLock ----------------------------
(***************************************************************************)
(* packages/gateway/src/instance.ts: GatewayInstanceLock, which keeps a    *)
(* second gateway from starting on the same directory.                     *)
(*                                                                         *)
(* A gateway creates the lock file and then writes its pid and a token in  *)
(* it.  One that finds the file inspects it, and when the process in it    *)
(* is gone removes the file, if the token is still the one it saw, and     *)
(* tries once more.  A process here is one start of a gateway: it creates  *)
(* the file at most once, so its pid stands for its token too.             *)
(*                                                                         *)
(* Left out: a pid used again by another program, files that are symbolic  *)
(* links, a file that goes between the lstat and the read of one look at   *)
(* it, and the readiness file.                                             *)
(***************************************************************************)
EXTENDS Integers

CONSTANTS Pid,         \* starts of a gateway
          None,        \* no lock file
          MaxCrashes   \* bound: gateways that crash

(* What the theorems assume of the constants; GatewayHost states it.        *)
InstanceAssumption == /\ MaxCrashes \in Nat
                      /\ None \notin [by : Pid, written : BOOLEAN]

VARIABLES pc,         \* where each gateway is
          file,       \* the lock file: who created it, whether the record is in it
          seen,       \* whose record each one found, or itself
          attempt,    \* of its two attempts
          contended,  \* history: two gateways went to remove a file at once
          crashes

vars == <<pc, file, seen, attempt, contended, crashes>>

Gone     == {"refused", "stopped", "crashed"}
Removing == {"recheck", "remove"}
Owners   == {p \in Pid : pc[p] = "running"}

TypeOK == /\ pc \in [Pid -> {"new", "open", "inspect", "write", "unwritten", "running",
                             "closed", "unlink"} \cup Removing \cup Gone]
          /\ file \in [by : Pid, written : BOOLEAN] \cup {None}
          /\ seen \in [Pid -> Pid] /\ attempt \in [Pid -> 1..3]
          /\ contended \in BOOLEAN /\ crashes \in 0..MaxCrashes

Init == /\ pc = [p \in Pid |-> "new"]
        /\ file = None
        /\ seen = [p \in Pid |-> p] /\ attempt = [p \in Pid |-> 1]
        /\ contended = FALSE /\ crashes = 0

Goes(p, from, to) == pc[p] = from /\ pc' = [pc EXCEPT ![p] = to]
Looked == <<seen, attempt, contended>>

(* process.kill(pid, 0)                                                     *)
Exists(p) == pc[p] \notin Gone
-----------------------------------------------------------------------------
(* acquire                                                                  *)

Start(p) == /\ Goes(p, "new", "open")
            /\ UNCHANGED <<file, Looked, crashes>>

(* A third attempt is none: the loop ends with an error.                    *)
Open(p) == /\ \/ /\ attempt[p] < 3 /\ file = None
                 /\ Goes(p, "open", "write")
                 /\ file' = [by |-> p, written |-> FALSE]
              \/ /\ attempt[p] < 3 /\ file # None
                 /\ Goes(p, "open", "inspect")
                 /\ UNCHANGED file
              \/ /\ attempt[p] = 3
                 /\ Goes(p, "open", "refused")
                 /\ UNCHANGED file
           /\ UNCHANGED <<Looked, crashes>>

Retries(p) == attempt' = [attempt EXCEPT ![p] = @ + 1]

(* Mutant: the process in the record is not looked for.                     *)
InspectAny(p) ==
  /\ \/ /\ file # None => ~file.written
        /\ Goes(p, "inspect", "refused")
        /\ UNCHANGED Looked
     \/ /\ file # None /\ file.written
        /\ Goes(p, "inspect", "recheck")
        /\ seen' = [seen EXCEPT ![p] = file.by]
        /\ contended' = (contended \/ \E q \in Pid \ {p} : pc[q] \in Removing)
        /\ UNCHANGED attempt
  /\ UNCHANGED <<file, crashes>>

(* inspectLock and what acquire does with it: a file without a record and a *)
(* record of a living process refuse the start.                             *)
Inspect(p) ==
  /\ \/ /\ file = None
        /\ Goes(p, "inspect", "open") /\ Retries(p)
        /\ UNCHANGED <<seen, contended>>
     \/ /\ file # None /\ (file.written => Exists(file.by))
        /\ Goes(p, "inspect", "refused")
        /\ UNCHANGED Looked
     \/ /\ file # None /\ file.written /\ ~Exists(file.by)
        /\ Goes(p, "inspect", "recheck")
        /\ seen' = [seen EXCEPT ![p] = file.by]
        /\ contended' = (contended \/ \E q \in Pid \ {p} : pc[q] \in Removing)
        /\ UNCHANGED attempt
  /\ UNCHANGED <<file, crashes>>

(* removeStaleLock: look again for the token, then unlink by name.          *)
Recheck(p) ==
  /\ \/ /\ file # None /\ file.written /\ file.by = seen[p]
        /\ Goes(p, "recheck", "remove")
        /\ UNCHANGED attempt
     \/ /\ file = None \/ (file # None /\ (file.written => file.by # seen[p]))
        /\ Goes(p, "recheck", "open") /\ Retries(p)
  /\ UNCHANGED <<file, seen, contended, crashes>>

Remove(p) == /\ Goes(p, "remove", "open") /\ Retries(p)
             /\ file' = None
             /\ UNCHANGED <<seen, contended, crashes>>

(* The record goes to the file that was created, whatever has the name now. *)
Write(p) == /\ Goes(p, "write", "running")
            /\ file' = IF file # None /\ file.by = p THEN [file EXCEPT !.written = TRUE]
                                                     ELSE file
            /\ UNCHANGED <<Looked, crashes>>

(* The record cannot be written: the file is unlinked and acquire throws.   *)
WriteFails(p) == /\ Goes(p, "write", "unwritten")
                 /\ UNCHANGED <<file, Looked, crashes>>
Withdraw(p)   == /\ Goes(p, "unwritten", "refused")
                 /\ file' = None
                 /\ UNCHANGED <<Looked, crashes>>
-----------------------------------------------------------------------------
(* release, and the machine                                                 *)

Stop(p) == /\ Goes(p, "running", "closed")
           /\ UNCHANGED <<file, Looked, crashes>>

(* The token in the file is compared with the gateway's own ...             *)
Compare(p) == /\ \/ /\ file # None /\ file.written /\ file.by = p
                    /\ Goes(p, "closed", "unlink")
                 \/ /\ file = None \/ (file # None /\ (file.written => file.by # p))
                    /\ Goes(p, "closed", "stopped")
              /\ UNCHANGED <<file, Looked, crashes>>

(* ... and only then is the file unlinked.                                  *)
Unlink(p) == /\ Goes(p, "unlink", "stopped")
             /\ file' = None
             /\ UNCHANGED <<Looked, crashes>>

Crash(p) == /\ pc[p] \notin Gone \cup {"new"} /\ crashes < MaxCrashes
            /\ pc' = [pc EXCEPT ![p] = "crashed"] /\ crashes' = crashes + 1
            /\ UNCHANGED <<file, Looked>>

Acquires(p) == \/ Open(p) \/ Inspect(p) \/ Recheck(p) \/ Remove(p)
               \/ Write(p) \/ WriteFails(p) \/ Withdraw(p)
Releases(p) == Compare(p) \/ Unlink(p)

Next == \E p \in Pid : Start(p) \/ Acquires(p) \/ Stop(p) \/ Releases(p) \/ Crash(p)

Spec == Init /\ [][Next]_vars
-----------------------------------------------------------------------------
(* Unless two gateways remove a left file at once, one gateway runs at a    *)
(* time, across crashes and takeovers (GatewayInstanceLock.acquire).        *)
OneGateway == contended \/ \A p, q \in Owners : p = q

(* ... because a running gateway's file and record stay in place: neither a *)
(* release nor a takeover unlinks the file of another gateway.              *)
FileIsOwners == contended \/ \A p \in Owners : file = [by |-> p, written |-> TRUE]

(* What a gateway leaves behind, unless it crashed, is no lock: the next    *)
(* start is not refused by one that stopped or was refused itself.          *)
LeftOnlyByCrash == file # None => pc[file.by] \notin {"stopped", "refused"}
=============================================================================
