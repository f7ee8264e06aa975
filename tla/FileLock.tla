------------------------------ MODULE FileLock ------------------------------
(***************************************************************************)
(* packages/gateway/src/file-state.ts: the lock file under which the       *)
(* gateway's stores read, change and rewrite their state file.             *)
(*                                                                         *)
(* The processes share two files.  A transaction creates the lock file,    *)
(* reads the state, renames a new state over the old one, closes and       *)
(* unlinks the lock.  A process that finds the lock there looks at its age *)
(* and waits, gives up, or takes it for the lock of a crashed process and  *)
(* unlinks it, by its name, before it tries again.  Within a process a     *)
(* transaction is synchronous, so each process runs one at a time.         *)
(*                                                                         *)
(* Left out: paths that are symbolic links and errors of the file system   *)
(* other than "exists" and "missing".                                      *)
(***************************************************************************)
EXTENDS Integers, FiniteSets

CONSTANTS Process,      \* the gateway processes
          None,         \* no lock file
          MaxRuns,      \* bound: transactions begun, in all
          MaxCrashes,   \* bound: processes that crash
          SlowHolders   \* whether a live transaction may outlast staleLockMs

ASSUME LockAssumption == /\ MaxRuns \in Nat /\ MaxCrashes \in Nat
                         /\ SlowHolders \in BOOLEAN
                         /\ None \notin [by : Process, old : BOOLEAN]

VARIABLES pc,        \* where each process is
          lock,      \* the lock file: who created it, and whether it is stale
          value,     \* the state file: how many transactions it shows
          copy,      \* what each process read
          writes,    \* history: transactions whose rename was done
          contended, \* history: a live process's lock became stale, or two
                     \* processes went to remove a stale lock at once
          runs, crashes

counts == <<runs, crashes>>
vars == <<pc, lock, value, copy, writes, contended, counts>>

Holding == {p \in Process : pc[p] \in {"locked", "read", "done"}}
Waiting == {"open", "look", "young", "stale"}

TypeOK == /\ pc \in [Process -> {"idle", "locked", "read", "done", "crashed"} \cup Waiting]
          /\ lock \in [by : Process, old : BOOLEAN] \cup {None}
          /\ value \in Nat /\ copy \in [Process -> Nat]
          /\ writes \in Nat /\ contended \in BOOLEAN
          /\ runs \in 0..MaxRuns /\ crashes \in 0..MaxCrashes

Init == /\ pc = [p \in Process |-> "idle"]
        /\ lock = None
        /\ value = 0 /\ copy = [p \in Process |-> 0]
        /\ writes = 0 /\ contended = FALSE
        /\ runs = 0 /\ crashes = 0

Goes(p, from, to) == pc[p] = from /\ pc' = [pc EXCEPT ![p] = to]
Files   == <<lock, contended>>
Content == <<value, copy, writes>>
-----------------------------------------------------------------------------
(* acquireLock                                                              *)

Begin(p) == /\ Goes(p, "idle", "open")
            /\ runs < MaxRuns /\ runs' = runs + 1
            /\ UNCHANGED <<Files, Content, crashes>>

(* openSync(lockPath, "wx"): exactly one process creates the file.          *)
Open(p) == /\ lock = None
           /\ Goes(p, "open", "locked")
           /\ lock' = [by |-> p, old |-> FALSE]
           /\ UNCHANGED <<contended, Content, counts>>

Exists(p) == /\ lock # None
             /\ Goes(p, "open", "look")
             /\ UNCHANGED <<Files, Content, counts>>

(* existingStat and its age; the file may be gone or another one by now.    *)
Look(p) == /\ \/ /\ \/ lock = None /\ Goes(p, "look", "open")
                    \/ lock # None /\ ~lock.old /\ Goes(p, "look", "young")
                 /\ UNCHANGED contended
              \/ /\ lock # None /\ lock.old /\ Goes(p, "look", "stale")
                 /\ contended' = (contended \/ \E q \in Process \ {p} : pc[q] = "stale")
           /\ UNCHANGED <<lock, Content, counts>>

(* The deadline has passed, and the caller gets the error; or it sleeps.    *)
GiveUp(p) == /\ Goes(p, "young", "idle")
             /\ UNCHANGED <<Files, Content, counts>>
Sleep(p)  == /\ Goes(p, "young", "open")
             /\ UNCHANGED <<Files, Content, counts>>

(* unlinkSync(lockPath): whatever file has the name now.                    *)
Unlink(p) == /\ Goes(p, "stale", "open")
             /\ lock' = None
             /\ UNCHANGED <<contended, Content, counts>>
-----------------------------------------------------------------------------
(* withFileStateLock: the operation, and its finally                        *)

Read(p) == /\ Goes(p, "locked", "read")
           /\ copy' = [copy EXCEPT ![p] = value]
           /\ UNCHANGED <<Files, value, writes, counts>>

(* atomicWriteJson: the rename makes the change visible at once.            *)
Write(p) == /\ Goes(p, "read", "done")
            /\ value' = copy[p] + 1
            /\ writes' = writes + 1
            /\ UNCHANGED <<Files, copy, counts>>

(* The operation returns without a change, or throws.                       *)
Skip(p) == /\ \/ Goes(p, "locked", "done")
              \/ Goes(p, "read", "done")
           /\ UNCHANGED <<Files, Content, counts>>

(* closeSync and unlinkIfPresent: again whatever file has the name.         *)
Release(p) == /\ Goes(p, "done", "idle")
              /\ lock' = None
              /\ UNCHANGED <<contended, Content, counts>>
-----------------------------------------------------------------------------
(* The machine                                                              *)

(* A crash leaves the lock file where it is.                                *)
Crash(p) == /\ pc[p] # "crashed" /\ crashes < MaxCrashes
            /\ pc' = [pc EXCEPT ![p] = "crashed"] /\ crashes' = crashes + 1
            /\ UNCHANGED <<Files, Content, runs>>

(* staleLockMs after its creation the lock is stale; a transaction is       *)
(* shorter than that, unless its process is suspended (SlowHolders).        *)
Age == /\ lock # None /\ ~lock.old
       /\ SlowHolders \/ pc[lock.by] = "crashed"
       /\ lock' = [lock EXCEPT !.old = TRUE]
       /\ contended' = (contended \/ pc[lock.by] # "crashed")
       /\ UNCHANGED <<pc, Content, counts>>

Acquires(p) == Open(p) \/ Exists(p) \/ Look(p) \/ GiveUp(p) \/ Unlink(p)
Works(p)    == Read(p) \/ Write(p) \/ Skip(p) \/ Release(p)

Next == \/ \E p \in Process : Begin(p) \/ Acquires(p) \/ Sleep(p) \/ Works(p) \/ Crash(p)
        \/ Age

Spec == Init /\ [][Next]_vars
-----------------------------------------------------------------------------
(* As long as stale locks are those of crashed processes and are removed by *)
(* one process at a time, the transactions exclude each other, across       *)
(* crashes and takeovers (withFileStateLock).                               *)
Serialized == contended \/ Cardinality(Holding) <= 1

(* ... and none of them is lost: the state file shows every one that was    *)
(* written.  A crash between the read and the rename changes nothing.       *)
NoLostUpdate == contended \/ value = writes

(* ... because the lock file of a transaction stays until it releases it,   *)
(* and a lock file outlives its transaction only in a crash.                *)
FileIsHolders == \/ contended
                 \/ /\ \A p \in Holding : lock # None /\ lock.by = p
                    /\ lock # None => pc[lock.by] \in {"locked", "read", "done", "crashed"}
=============================================================================
