------------------------- MODULE GatewayHostProofs --------------------------
(***************************************************************************)
(* FileLock, InstanceLock and their composition GatewayHost, for any       *)
(* number of processes, transactions and crashes.  Each lock excludes by   *)
(* itself, up to the race its protocol has; the host implements both, so   *)
(* what is proved of each holds of it, and together they exclude what      *)
(* neither excludes alone.                                                 *)
(***************************************************************************)
EXTENDS GatewayHost, FiniteSetTheorems, TLAPS
-----------------------------------------------------------------------------
(* The file lock                                                            *)

(* Who holds the lock created the file and is alone; who removes a stale    *)
(* one is alone with it, and its creator crashed.                           *)
Owned == contended \/
  /\ \A p \in Holding : lock # None /\ lock.by = p
  /\ lock # None => pc[lock.by] \in {"locked", "read", "done", "crashed"}
  /\ lock # None /\ lock.old => pc[lock.by] = "crashed"
  /\ \A p \in Process : pc[p] = "stale" => lock # None /\ lock.old
  /\ \A p, q \in Process : pc[p] = "stale" /\ pc[q] = "stale" => p = q

(* What the one that holds the lock has read is still what the file says.   *)
Counted == contended \/
  /\ value = writes
  /\ \A p \in Process : pc[p] = "read" => copy[p] = value

IInv == TypeOK /\ Owned /\ Counted

(* A lock file is something.                                                *)
LEMMA Created == \A p \in Process, b \in BOOLEAN :
                   /\ [by |-> p, old |-> b] # None
                   /\ [by |-> p, old |-> b] \in [by : Process, old : BOOLEAN]
<1> TAKE p \in Process, b \in BOOLEAN
<1>1. [by |-> p, old |-> b] \in [by : Process, old : BOOLEAN]
  OBVIOUS
<1> QED BY <1>1, LockAssumption

LEMMA InitIInv == ASSUME Init PROVE IInv
<1>1. TypeOK
  <2>1. 0 \in 0..MaxRuns /\ 0 \in 0..MaxCrashes
    BY LockAssumption
  <2>2. lock \in [by : Process, old : BOOLEAN] \cup {None}
    BY DEF Init
  <2>3. pc \in [Process -> {"idle", "locked", "read", "done", "crashed"} \cup Waiting]
    BY DEF Init
  <2> QED BY <2>1, <2>2, <2>3 DEF Init, TypeOK
<1>2. Owned
  BY DEF Init, Owned, Holding
<1>3. Counted
  BY DEF Init, Counted
<1> QED BY <1>1, <1>2, <1>3 DEF IInv

(* Types, step by step.                                                     *)
LEMMA TypeStep == ASSUME TypeOK, [Next]_vars PROVE TypeOK'
<1> USE LockAssumption, Created DEF TypeOK, Waiting, Goes, Files, Content, counts
<1>1. CASE UNCHANGED vars
  BY <1>1 DEF vars
<1>2. ASSUME NEW p \in Process, Begin(p) \/ Acquires(p) \/ Sleep(p) \/ Works(p) \/ Crash(p)
      PROVE TypeOK'
  <2>1. CASE Begin(p) \/ Sleep(p) \/ Crash(p)
    <3>1. CASE Begin(p)
      BY <3>1 DEF Begin
    <3>2. CASE Sleep(p)
      BY <3>2 DEF Sleep
    <3>3. CASE Crash(p)
      BY <3>3 DEF Crash
    <3> QED BY <2>1, <3>1, <3>2, <3>3
  <2>2. CASE Acquires(p)
    BY <2>2 DEF Acquires, Open, Exists, Look, GiveUp, Unlink
  <2>3. CASE Works(p)
    BY <2>3 DEF Works, Read, Write, Skip, Release
  <2> QED BY <1>2, <2>1, <2>2, <2>3
<1>3. CASE Age
  BY <1>3 DEF Age
<1> QED BY <1>1, <1>2, <1>3 DEF Next

(* Ownership of the file, step by step: only Unlink and Release remove it.  *)
LEMMA OwnedStep == ASSUME TypeOK, Owned, [Next]_vars PROVE Owned'
<1> USE LockAssumption DEF TypeOK, Owned, Holding, Waiting, Goes, Files, counts
<1>1. CASE UNCHANGED vars
  BY <1>1 DEF vars
<1>2. ASSUME NEW p \in Process, Acquires(p) PROVE Owned'
  <2>1. CASE Open(p)
    <3>1. contended \/ (Holding = {} /\ \A q \in Process : pc[q] # "stale")
      BY <2>1 DEF Open
    <3>2. lock' = [by |-> p, old |-> FALSE] /\ lock' # None
      BY <2>1, Created DEF Open
    <3>3. pc' = [pc EXCEPT ![p] = "locked"] /\ contended' = contended
      BY <2>1 DEF Open
    <3> QED BY <3>1, <3>2, <3>3
  <2>2. CASE Exists(p) \/ GiveUp(p)
    BY <2>2 DEF Exists, GiveUp
  <2>3. CASE Look(p)
    BY <2>3 DEF Look
  <2>4. CASE Unlink(p)
    BY <2>4 DEF Unlink
  <2> QED BY <1>2, <2>1, <2>2, <2>3, <2>4 DEF Acquires
<1>3. ASSUME NEW p \in Process, Works(p) PROVE Owned'
  <2>1. CASE Read(p) \/ Write(p) \/ Skip(p)
    BY <2>1 DEF Read, Write, Skip
  <2>2. CASE Release(p)
    BY <2>2 DEF Release
  <2> QED BY <1>3, <2>1, <2>2 DEF Works
<1>4. ASSUME NEW p \in Process, Begin(p) \/ Sleep(p) \/ Crash(p) PROVE Owned'
  BY <1>4 DEF Begin, Sleep, Crash
<1>5. CASE Age
  BY <1>5 DEF Age
<1> QED BY <1>1, <1>2, <1>3, <1>4, <1>5 DEF Next

(* The content of the file: a rename is based on what was last written.     *)
LEMMA CountedStep == ASSUME TypeOK, Owned, Counted, [Next]_vars PROVE Counted'
<1> USE LockAssumption DEF TypeOK, Counted, Waiting, Goes, Files, Content, counts
<1>1. CASE UNCHANGED vars
  BY <1>1 DEF vars
<1>2. ASSUME NEW p \in Process, Acquires(p) PROVE Counted'
  BY <1>2 DEF Acquires, Open, Exists, Look, GiveUp, Unlink
<1>3. ASSUME NEW p \in Process, Read(p) \/ Skip(p) \/ Release(p) PROVE Counted'
  BY <1>3 DEF Read, Skip, Release
<1>4. ASSUME NEW p \in Process, Write(p) PROVE Counted'
  <2>1. \A q \in Process \ {p} : contended \/ pc[q] # "read"
    BY <1>4 DEF Write, Owned, Holding
  <2> QED BY <1>4, <2>1 DEF Write
<1>5. ASSUME NEW p \in Process, Begin(p) \/ Sleep(p) \/ Crash(p) PROVE Counted'
  BY <1>5 DEF Begin, Sleep, Crash
<1>6. CASE Age
  BY <1>6 DEF Age
<1> QED BY <1>1, <1>2, <1>3, <1>4, <1>5, <1>6 DEF Next, Works

(* The invariant of every behaviour of the specification.                   *)
LEMMA Invariant == Spec => []IInv
<1>1. Init => IInv
  BY InitIInv
<1>2. IInv /\ [Next]_vars => IInv'
  BY TypeStep, OwnedStep, CountedStep DEF IInv
<1> QED BY <1>1, <1>2, PTL DEF Spec

(* The variables of the model keep their types.                             *)
THEOREM FileTypeCorrect == Spec => []TypeOK
BY Invariant, PTL DEF IInv

(* Transactions exclude each other across crashes and takeovers, unless a   *)
(* takeover was contended: withFileStateLock's promise and its limit.       *)
THEOREM FileExclusive == Spec => []Serialized
<1>1. IInv => Serialized
  <2> SUFFICES ASSUME IInv, ~contended PROVE Cardinality(Holding) <= 1
    BY DEF Serialized
  <2>1. \A p, q \in Holding : p = q
    BY DEF IInv, Owned, Holding
  <2>2. CASE Holding = {}
    BY <2>2, FS_EmptySet
  <2>3. ASSUME NEW p \in Holding PROVE Cardinality(Holding) <= 1
    <3>1. Holding = {p}
      BY <2>1
    <3>2. Cardinality({p}) = 1
      BY FS_Singleton
    <3> QED BY <3>1, <3>2
  <2> QED BY <2>2, <2>3
<1> QED BY <1>1, Invariant, PTL

(* Every transaction that was written shows in the state file, and the lock *)
(* file is that of the transaction in progress.                             *)
THEOREM NothingLost == Spec => [](NoLostUpdate /\ FileIsHolders)
<1>1. IInv => NoLostUpdate /\ FileIsHolders
  BY DEF IInv, Owned, Counted, NoLostUpdate, FileIsHolders
<1> QED BY <1>1, Invariant, PTL
-----------------------------------------------------------------------------
(* The instance lock                                                        *)

(* The file belongs to the gateway that is on its way through acquire or    *)
(* release, or to one that crashed there, and one gateway removes it.       *)
Placed == raced \/
  /\ \A p \in Process : gate[p] \in {"running", "closed", "unlink"}
                      => file # None /\ file.by = p /\ file.written
  /\ \A p \in Process : gate[p] \in {"write", "unwritten"}
                      => file # None /\ file.by = p /\ ~file.written
  /\ file # None => \/ gate[file.by] = "crashed"
                    \/ file.written /\ gate[file.by] \in {"running", "closed", "unlink"}
                    \/ ~file.written /\ gate[file.by] \in {"write", "unwritten"}
  /\ \A p \in Process : gate[p] \in Gate!Removing
                      => file # None /\ file.written /\ gate[file.by] = "crashed"
  /\ \A p, q \in Process : gate[p] \in Gate!Removing /\ gate[q] \in Gate!Removing => p = q

GateInv == Gate!TypeOK /\ Placed

LEMMA GateInit == ASSUME Gate!Init PROVE GateInv
<1>1. Gate!TypeOK
  <2>1. 0 \in 0..MaxCrashes /\ 1 \in 1..3
    BY HostAssumption DEF Gate!InstanceAssumption
  <2>2. file \in [by : Process, written : BOOLEAN] \cup {None}
    BY DEF Gate!Init
  <2>3. seen \in [Process -> Process] /\ attempt \in [Process -> 1..3]
    BY <2>1 DEF Gate!Init
  <2> QED BY <2>1, <2>2, <2>3 DEF Gate!Init, Gate!TypeOK
<1>2. Placed
  BY DEF Gate!Init, Placed, Gate!Removing
<1> QED BY <1>1, <1>2 DEF GateInv

(* A lock file is something.                                                *)
LEMMA GateCreated == \A p \in Process, b \in BOOLEAN :
                   /\ [by |-> p, written |-> b] # None
                   /\ [by |-> p, written |-> b] \in [by : Process, written : BOOLEAN]
<1> TAKE p \in Process, b \in BOOLEAN
<1>1. [by |-> p, written |-> b] \in [by : Process, written : BOOLEAN]
  OBVIOUS
<1> QED BY <1>1, HostAssumption DEF Gate!InstanceAssumption

(* Types, step by step.  An attempt is counted only below the third.        *)
Attempts == \A p \in Process : gate[p] \in {"inspect"} \cup Gate!Removing => attempt[p] < 3

LEMMA GateTypes ==
  ASSUME Gate!TypeOK, Attempts, [Gate!Next]_(Gate!vars) PROVE Gate!TypeOK' /\ Attempts'
<1> USE GateCreated, HostAssumption
        DEF Gate!InstanceAssumption, Gate!TypeOK, Attempts, Gate!Goes, Gate!Looked,
            Gate!Gone, Gate!Removing, Gate!Retries
<1>1. CASE UNCHANGED Gate!vars
  BY <1>1 DEF Gate!vars
<1>2. ASSUME NEW p \in Process, Gate!Start(p) \/ Gate!Stop(p) \/ Gate!Releases(p) \/ Gate!Crash(p)
      PROVE Gate!TypeOK' /\ Attempts'
  <2>1. CASE Gate!Start(p) \/ Gate!Stop(p)
    BY <2>1 DEF Gate!Start, Gate!Stop
  <2>2. CASE Gate!Crash(p)
    BY <2>2 DEF Gate!Crash
  <2>3. CASE Gate!Releases(p)
    BY <2>3 DEF Gate!Releases, Gate!Compare, Gate!Unlink
  <2> QED BY <1>2, <2>1, <2>2, <2>3
<1>3. ASSUME NEW p \in Process, Gate!Acquires(p) PROVE Gate!TypeOK' /\ Attempts'
  <2>1. CASE Gate!Open(p)
    BY <2>1 DEF Gate!Open
  <2>2. CASE Gate!Inspect(p)
    BY <2>2 DEF Gate!Inspect
  <2>3. CASE Gate!Recheck(p) \/ Gate!Remove(p)
    BY <2>3 DEF Gate!Recheck, Gate!Remove
  <2>4. CASE Gate!Write(p)
    BY <2>4 DEF Gate!Write
  <2>5. CASE Gate!WriteFails(p) \/ Gate!Withdraw(p)
    BY <2>5 DEF Gate!WriteFails, Gate!Withdraw
  <2> QED BY <1>3, <2>1, <2>2, <2>3, <2>4, <2>5 DEF Gate!Acquires
<1> QED BY <1>1, <1>2, <1>3 DEF Gate!Next

(* Ownership, step by step: Remove, Withdraw and Unlink remove the file.    *)
LEMMA PlacedStep == ASSUME Gate!TypeOK, Placed, [Gate!Next]_(Gate!vars) PROVE Placed'
<1> USE GateCreated, HostAssumption
        DEF Gate!InstanceAssumption, Gate!TypeOK, Placed, Gate!Goes, Gate!Looked, Gate!Gone, Gate!Removing
<1>1. CASE UNCHANGED Gate!vars
  BY <1>1 DEF Gate!vars
<1>2. ASSUME NEW p \in Process, Gate!Start(p) \/ Gate!Stop(p) \/ Gate!Releases(p) \/ Gate!Crash(p)
      PROVE  Placed'
  <2>1. CASE Gate!Start(p) \/ Gate!Stop(p)
    BY <2>1 DEF Gate!Start, Gate!Stop
  <2>2. CASE Gate!Crash(p)
    BY <2>2 DEF Gate!Crash
  <2>3. CASE Gate!Compare(p)
    BY <2>3 DEF Gate!Compare
  <2>4. CASE Gate!Unlink(p)
    BY <2>4 DEF Gate!Unlink
  <2> QED BY <1>2, <2>1, <2>2, <2>3, <2>4 DEF Gate!Releases
<1>3. ASSUME NEW p \in Process, Gate!Acquires(p) PROVE Placed'
  <2>1. CASE Gate!Open(p)
    <3>1. CASE gate'[p] \in {"inspect", "refused"}
      BY <2>1, <3>1 DEF Gate!Open
    <3>2. CASE gate'[p] = "write"
      <4>1. file = None /\ file' = [by |-> p, written |-> FALSE] /\ file' # None
        BY <2>1, <3>2, GateCreated DEF Gate!Open
      <4>2. raced' = raced /\ gate' = [gate EXCEPT ![p] = "write"]
        BY <2>1, <3>2 DEF Gate!Open
      <4>3. raced \/ \A q \in Process : gate[q] \notin {"running", "closed", "unlink", "write",
                                                      "unwritten"} \cup Gate!Removing
        BY <4>1
      <4> QED BY <4>1, <4>2, <4>3
    <3> QED BY <2>1, <3>1, <3>2 DEF Gate!Open
  <2>2. CASE Gate!Inspect(p)
    <3>1. CASE gate'[p] \in {"open", "refused"}
      BY <2>2, <3>1 DEF Gate!Inspect
    <3>2. CASE gate'[p] = "recheck"
      <4>1. raced' \/ \A q \in Process \ {p} : gate[q] \notin Gate!Removing
        BY <2>2, <3>2 DEF Gate!Inspect
      <4>2. file # None /\ file.written /\ gate[file.by] \in Gate!Gone
        BY <2>2, <3>2 DEF Gate!Inspect, Gate!Exists
      <4>3. file' = file /\ gate' = [gate EXCEPT ![p] = "recheck"] /\ gate[p] = "inspect"
        BY <2>2, <3>2 DEF Gate!Inspect
      <4>4. raced => raced'
        BY <2>2, <3>2 DEF Gate!Inspect
      <4> QED BY <4>1, <4>2, <4>3, <4>4
    <3> QED BY <2>2, <3>1, <3>2 DEF Gate!Inspect
  <2>3. CASE Gate!Recheck(p) \/ Gate!Remove(p)
    BY <2>3 DEF Gate!Recheck, Gate!Remove
  <2>4. CASE Gate!Write(p)
    <3>1. raced \/ (file # None /\ file.by = p /\ file' = [by |-> p, written |-> TRUE])
      BY <2>4 DEF Gate!Write
    <3>2. [by |-> p, written |-> TRUE] # None
      BY GateCreated
    <3>3. gate[p] = "write" /\ gate' = [gate EXCEPT ![p] = "running"] /\ raced' = raced
      BY <2>4 DEF Gate!Write
    <3> QED BY <3>1, <3>2, <3>3
  <2>5. CASE Gate!WriteFails(p) \/ Gate!Withdraw(p)
    BY <2>5 DEF Gate!WriteFails, Gate!Withdraw
  <2> QED BY <1>3, <2>1, <2>2, <2>3, <2>4, <2>5 DEF Gate!Acquires
<1> QED BY <1>1, <1>2, <1>3 DEF Gate!Next

(* The invariant of every behaviour of the specification.                   *)
LEMMA GateInvariant == Gate!Spec => [](GateInv /\ Attempts)
<1>1. Gate!Init => GateInv /\ Attempts
  BY GateInit DEF Gate!Init, Attempts, Gate!Removing
<1>2. GateInv /\ Attempts /\ [Gate!Next]_(Gate!vars) => (GateInv /\ Attempts)'
  BY GateTypes, PlacedStep DEF GateInv
<1> QED BY <1>1, <1>2, PTL DEF Gate!Spec

(* A file belongs to a gateway that has yet to write its record, to one     *)
(* that has and still holds it, or to one that crashed, contended or not.   *)
Tidy == file # None => \/ gate[file.by] \in {"crashed", "write", "unwritten"}
                       \/ file.written /\ gate[file.by] \in {"running", "closed", "unlink"}

LEMMA TidyStep == ASSUME Gate!TypeOK, Tidy, [Gate!Next]_(Gate!vars) PROVE Tidy'
<1> USE GateCreated, HostAssumption
        DEF Gate!InstanceAssumption, Gate!TypeOK, Tidy, Gate!Goes, Gate!Looked, Gate!Gone, Gate!Removing
<1>1. CASE UNCHANGED Gate!vars
  BY <1>1 DEF Gate!vars
<1>2. ASSUME NEW p \in Process, Gate!Start(p) \/ Gate!Stop(p) \/ Gate!Crash(p) PROVE Tidy'
  BY <1>2 DEF Gate!Start, Gate!Stop, Gate!Crash
<1>3. ASSUME NEW p \in Process, Gate!Releases(p) PROVE Tidy'
  BY <1>3 DEF Gate!Releases, Gate!Compare, Gate!Unlink
<1>4. ASSUME NEW p \in Process, Gate!Open(p) \/ Gate!Inspect(p) \/ Gate!Recheck(p) \/ Gate!Remove(p)
      PROVE  Tidy'
  BY <1>4 DEF Gate!Open, Gate!Inspect, Gate!Recheck, Gate!Remove, Gate!Retries
<1>5. ASSUME NEW p \in Process, Gate!Write(p) \/ Gate!WriteFails(p) \/ Gate!Withdraw(p) PROVE Tidy'
  BY <1>5 DEF Gate!Write, Gate!WriteFails, Gate!Withdraw
<1> QED BY <1>1, <1>2, <1>3, <1>4, <1>5 DEF Gate!Next, Gate!Acquires

(* The variables of the model keep their types.                             *)
THEOREM GateTypeCorrect == Gate!Spec => []Gate!TypeOK
BY GateInvariant, PTL DEF GateInv

(* One gateway runs at a time and its record stays in the file, unless a    *)
(* takeover was contended: acquire's promise and its limit.                 *)
THEOREM GateExclusive == Gate!Spec => [](Gate!OneGateway /\ Gate!FileIsOwners)
<1>1. GateInv => Gate!FileIsOwners
  <2> SUFFICES ASSUME GateInv, ~raced, NEW p \in Gate!Owners
               PROVE file = [by |-> p, written |-> TRUE]
    BY DEF Gate!FileIsOwners
  <2>1. file # None /\ file.by = p /\ file.written
    BY DEF GateInv, Placed, Gate!Owners
  <2>2. file \in [by : Process, written : BOOLEAN]
    BY <2>1 DEF GateInv, Gate!TypeOK
  <2> QED BY <2>1, <2>2
<1>2. GateInv => Gate!OneGateway
  BY DEF GateInv, Placed, Gate!OneGateway, Gate!Owners
<1> QED BY <1>1, <1>2, GateInvariant, PTL

(* Only a crash leaves a lock file behind: a gateway that stopped or was    *)
(* refused has none, contended or not.                                      *)
THEOREM NoneLeft == Gate!Spec => []Gate!LeftOnlyByCrash
<1>1. Gate!Init => Tidy
  BY DEF Gate!Init, Tidy
<1>2. GateInv /\ Tidy /\ [Gate!Next]_(Gate!vars) => Tidy'
  BY TidyStep DEF GateInv
<1>3. Tidy => Gate!LeftOnlyByCrash
  BY DEF Tidy, Gate!LeftOnlyByCrash
<1> QED BY <1>1, <1>2, <1>3, GateInvariant, PTL DEF Gate!Spec
-----------------------------------------------------------------------------
(* The host                                                                 *)

(* Until a stopped gateway writes on, a transaction is a running gateway's. *)
Within == late \/ \A p \in Process : pc[p] \notin {"idle", "crashed"} => gate[p] = "running"

(* While the locks guard it, what a transaction has read is what the file   *)
(* still says.                                                              *)
Current == Unguarded \/ /\ value = writes
                        /\ \A p \in Process : pc[p] = "read" => copy[p] = value

(* What the two locks say, each by itself.                                  *)
Locks == /\ IInv
         /\ Gate!TypeOK /\ Gate!OneGateway /\ Gate!FileIsOwners

(* Every step of the host is one of the file lock, or none.                 *)
LEMMA Transaction == HostSpec => Spec
<1>1. HostInit => Init
  BY DEF HostInit
<1>2. [HostNext]_hostVars => [Next]_vars
  BY DEF HostNext, hostVars, Next, HostBegin, Gates, Transacts, HostCrash
<1> QED BY <1>1, <1>2, PTL DEF HostSpec, Spec

(* Every step of the host is one of the instance lock, or none.             *)
LEMMA Gateway == HostSpec => Gate!Spec
<1>1. HostInit => Gate!Init
  BY DEF HostInit
<1>2. [HostNext]_hostVars => [Gate!Next]_(Gate!vars)
  <2> SUFFICES ASSUME [HostNext]_hostVars PROVE [Gate!Next]_(Gate!vars)
    OBVIOUS
  <2>1. ASSUME NEW p \in Process, Gates(p) PROVE Gate!Next
    BY <2>1 DEF Gates, Gate!Next
  <2>2. ASSUME NEW p \in Process, HostBegin(p) \/ Transacts(p) PROVE UNCHANGED Gate!vars
    BY <2>2 DEF HostBegin, Transacts, gates, Gate!vars
  <2>3. ASSUME NEW p \in Process, HostCrash(p) PROVE Gate!Next \/ UNCHANGED Gate!vars
    BY <2>3 DEF HostCrash, Gate!Next, gates, Gate!vars
  <2>4. (Age /\ UNCHANGED <<gates, late>>) \/ UNCHANGED hostVars => UNCHANGED Gate!vars
    BY DEF hostVars, gates, Gate!vars
  <2> QED BY <2>1, <2>2, <2>3, <2>4 DEF HostNext
<1> QED BY <1>1, <1>2, PTL DEF HostSpec, Gate!Spec

(* What holds of each lock holds under the host.                            *)
LEMMA BothLocks == HostSpec => []Locks
BY GateExclusive, GateTypeCorrect, Gateway, Transaction, Invariant, PTL DEF Locks

(* A gateway changes its own place only.                                    *)
LEMMA OwnPlace == ASSUME NEW p \in Process, Gates(p) \/ HostCrash(p)
                  PROVE  \E to : gate' = [gate EXCEPT ![p] = to] \/ gate' = gate
BY SMT DEF Gates, HostCrash, gates, Gate!Goes, Gate!Start, Gate!Acquires, Gate!Open, Gate!Inspect,
       Gate!Recheck, Gate!Remove, Gate!Write, Gate!WriteFails, Gate!Withdraw, Gate!Stop,
       Gate!Releases, Gate!Compare, Gate!Unlink, Gate!Crash

LEMMA WithinStep == ASSUME Locks, Within, [HostNext]_hostVars PROVE Within'
<1> USE DEF Within, Locks, IInv, TypeOK, Gate!TypeOK
<1>1. ASSUME NEW p \in Process, HostBegin(p) PROVE Within'
  BY <1>1 DEF HostBegin, MayBegin, Begin, Goes, gates
<1>2. ASSUME NEW p \in Process, Gates(p) PROVE Within'
  <2>1. pc[p] = "idle" /\ pc' = pc /\ late' = late
    BY <1>2 DEF Gates, vars
  <2>2. \A q \in Process \ {p} : gate'[q] = gate[q]
    BY <1>2, OwnPlace
  <2> QED BY <2>1, <2>2
<1>3. ASSUME NEW p \in Process, Transacts(p) PROVE Within'
  <2>1. pc[p] \notin {"idle", "crashed"} /\ \A q \in Process \ {p} : pc'[q] = pc[q]
    BY <1>3 DEF Transacts, Acquires, Works, Sleep, Open, Exists, Look, GiveUp, Unlink, Read, Write,
                Skip, Release, Goes
  <2>2. gate' = gate /\ late' = late
    BY <1>3 DEF Transacts, gates
  <2> QED BY <2>1, <2>2
<1>4. ASSUME NEW p \in Process, HostCrash(p) PROVE Within'
  <2>1. pc' = [pc EXCEPT ![p] = "crashed"] /\ late' = late
    BY <1>4 DEF HostCrash, Crash
  <2>2. \A q \in Process \ {p} : gate'[q] = gate[q]
    BY <1>4, OwnPlace
  <2> QED BY <2>1, <2>2
<1>5. CASE Age /\ UNCHANGED <<gates, late>>
  BY <1>5 DEF Age, gates
<1>6. CASE UNCHANGED hostVars
  BY <1>6 DEF hostVars, vars, gates
<1> QED BY <1>1, <1>2, <1>3, <1>4, <1>5, <1>6 DEF HostNext

(* Two transactions at once need an unguarded state: either lock suffices.  *)
LEMMA AtMostOne == ASSUME Locks, Within, ~Unguarded
                   PROVE  \A p, q \in Holding : p = q
<1>1. CASE ~contended
  BY <1>1 DEF Locks, IInv, Owned, Holding
<1>2. CASE ~late
  <2>1. ~raced
    BY DEF Unguarded
  <2>2. \A p \in Holding : gate[p] = "running" /\ p \in Process
    BY <1>2 DEF Within, Holding
  <2>3. \A p \in Holding : file = [by |-> p, written |-> TRUE]
    BY <2>1, <2>2 DEF Locks, Gate!FileIsOwners, Gate!Owners
  <2>4. \A p \in Holding : file.by = p
    BY <2>3
  <2> QED BY <2>4
<1> QED BY <1>1, <1>2 DEF Unguarded

(* Once unguarded, always.                                                  *)
LEMMA UnguardedStays == ASSUME [HostNext]_hostVars, Unguarded PROVE Unguarded'
<1>1. ASSUME NEW p \in Process, Gates(p) \/ HostCrash(p) PROVE raced => raced'
  <2>1. CASE Gate!Inspect(p)
    BY <2>1 DEF Gate!Inspect, Gate!Looked
  <2>2. CASE ~Gate!Inspect(p)
    <3>1. raced' = raced
      BY <1>1, <2>2, Zenon DEF Gates, HostCrash, gates, Gate!Looked, Gate!Start, Gate!Acquires,
         Gate!Open, Gate!Recheck, Gate!Remove, Gate!Write, Gate!WriteFails, Gate!Withdraw,
         Gate!Stop, Gate!Releases, Gate!Compare, Gate!Unlink, Gate!Crash
    <3> QED BY <3>1
  <2> QED BY <2>1, <2>2
<1>2. ASSUME NEW p \in Process, Acquires(p) \/ Works(p) \/ Begin(p) \/ Sleep(p) \/ Crash(p)
      PROVE contended => contended'
  BY <1>2 DEF Acquires, Works, Begin, Sleep, Open, Exists, Look, GiveUp, Unlink, Read, Write,
              Skip, Release, Crash, Files
<1>3. raced => raced'
  BY <1>1 DEF HostNext, hostVars, HostBegin, Transacts, gates
<1>4. contended => contended'
  BY <1>2 DEF HostNext, hostVars, vars, HostBegin, Gates, Transacts, HostCrash, Age
<1>5. late => late'
  BY DEF HostNext, hostVars, HostBegin, Gates, Transacts, HostCrash
<1> QED BY <1>3, <1>4, <1>5 DEF Unguarded

(* A rename is based on what was written last: nobody else has read.        *)
LEMMA CurrentStep == ASSUME Locks, Within, Current, [HostNext]_hostVars PROVE Current'
<1> SUFFICES ASSUME ~Unguarded'
             PROVE  value' = writes' /\ \A p \in Process : pc'[p] = "read" => copy'[p] = value'
  BY DEF Current
<1> USE DEF Locks, IInv, TypeOK, Content
<1>1. ~Unguarded
  BY UnguardedStays
<1>2. value = writes /\ \A p \in Process : pc[p] = "read" => copy[p] = value
  BY <1>1 DEF Current
<1>3. ASSUME NEW p \in Process, Begin(p) \/ Acquires(p) \/ Sleep(p) \/ Crash(p)
      PROVE  Current'
  BY <1>2, <1>3 DEF Current, Begin, Acquires, Sleep, Crash, Open, Exists, Look, GiveUp, Unlink, Goes
<1>4. ASSUME NEW p \in Process, Read(p) \/ Skip(p) \/ Release(p) PROVE Current'
  BY <1>2, <1>4 DEF Current, Read, Skip, Release, Goes
<1>5. ASSUME NEW p \in Process, Write(p) PROVE Current'
  <2>1. \A q \in Process \ {p} : pc[q] # "read"
    BY <1>1, <1>5, AtMostOne DEF Write, Goes, Holding
  <2> QED BY <1>2, <1>5, <2>1 DEF Current, Write, Goes
<1>6. CASE Age \/ UNCHANGED vars
  BY <1>2, <1>6 DEF Current, Age, vars
<1> QED BY <1>3, <1>4, <1>5, <1>6 DEF Current, HostNext, hostVars, HostBegin, Gates, Transacts,
           HostCrash, Works

LEMMA HostInvariant == HostSpec => [](Locks /\ Within /\ Current)
<1>1. HostInit => Within /\ Current
  BY DEF HostInit, Init, Within, Current
<1>2. Locks /\ Within /\ Current /\ [HostNext]_hostVars => Within' /\ Current'
  BY WithinStep, CurrentStep
<1> QED BY <1>1, <1>2, BothLocks, PTL DEF HostSpec

(* Two transactions are never under way at once, however long each takes    *)
(* and whoever crashes, and none is lost from the state file, unless both   *)
(* locks failed: the instance lock makes the staleness of the file lock     *)
(* sound (withFileStateLock under runChatModule).                           *)
THEOREM Excluded == HostSpec => []OneTransaction
<1>1. Locks /\ Within /\ Current => OneTransaction
  <2> SUFFICES ASSUME Locks, Within, Current, ~Unguarded
               PROVE  Cardinality(Holding) <= 1 /\ value = writes
    BY DEF OneTransaction
  <2>1. \A p, q \in Holding : p = q
    BY AtMostOne
  <2>2. CASE Holding = {}
    BY <2>2, FS_EmptySet DEF Current
  <2>3. ASSUME NEW p \in Holding PROVE Cardinality(Holding) <= 1 /\ value = writes
    <3>1. Holding = {p}
      BY <2>1
    <3>2. Cardinality({p}) = 1
      BY FS_Singleton
    <3> QED BY <3>1, <3>2 DEF Current
  <2> QED BY <2>2, <2>3
<1> QED BY <1>1, HostInvariant, PTL

(* One gateway runs at a time, with its file in place, whatever happens to  *)
(* its transactions.                                                        *)
THEOREM GatewayAlone == HostSpec => []OneGateway
BY BothLocks, PTL DEF OneGateway, Locks

(* The variables of the host keep their types.                              *)
THEOREM HostTypeCorrect == HostSpec => []HostTypeOK
<1> DEFINE LateOK == late \in BOOLEAN
<1>1. HostInit => LateOK
  BY DEF HostInit
<1>2. LateOK /\ [HostNext]_hostVars => LateOK'
  BY DEF HostNext, hostVars, HostBegin, Gates, Transacts, HostCrash
<1>3. HostSpec => []LateOK
  <2> HIDE DEF LateOK
  <2> QED BY <1>1, <1>2, PTL DEF HostSpec
<1>4. Locks /\ LateOK => HostTypeOK
  BY DEF Locks, IInv, HostTypeOK
<1> QED BY <1>3, <1>4, BothLocks, PTL

(* No start is refused by the lock of a gateway that has stopped.           *)
LEMMA NoLockLeft == HostSpec => []LeftOnlyByCrash
BY NoneLeft, Gateway, PTL DEF LeftOnlyByCrash

(* The host as a whole: one gateway, no lock left behind, and the types.    *)
THEOREM HostConsistent == HostSpec => []Consistent
BY HostTypeCorrect, GatewayAlone, NoLockLeft, PTL DEF Consistent
=============================================================================
