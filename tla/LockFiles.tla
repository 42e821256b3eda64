----------------------------- MODULE LockFiles -----------------------------
(***************************************************************************)
(* The lock file with which programs that use RXTX on Linux keep a serial  *)
(* port to themselves (SerialImp.c: fhs_lock, is_device_locked,            *)
(* fhs_unlock), one port and one thread per program.  Every system call    *)
(* that another program can notice is a step.  open() of the lock file and *)
(* the read after it are one step.                                         *)
(*                                                                         *)
(* Lock directories other than LOCKDIR hold nothing for this port, LOCKDIR *)
(* is there and writable: otherwise every attempt ends at once.            *)
(***************************************************************************)
EXTENDS Naturals, FiniteSets

CONSTANTS
  Pids,        \* the programs that use the port
  Others,      \* programs that run all the time and leave the port alone
  NoPid,       \* a number that is no running program's
  Parent,      \* the program that started each of Pids
  Garbage,     \* what scanning the buffer yields when the read filled nothing
  MaxDeaths,   \* bound: how many programs end without closing the port
  NoFile, Empty

Number == Pids \cup Others \cup {NoPid}

ASSUME DistinctAssumption ==
  /\ Pids \cap Others = {} /\ NoPid \notin Pids \cup Others
  /\ Empty \notin Number
ASSUME ParentAssumption == Parent \in [Pids -> Others]
ASSUME GarbageAssumption == Garbage \subseteq Number
ASSUME NoFileAssumption == NoFile \notin [maker : Pids, text : Pids \cup {Empty}]

VARIABLES
  file,     \* the lock file: who created it, and the pid in it
  pc,       \* where each program is
  task,     \* what it locks for: RXTXPort.open or RXTXCommDriver.testRead
  seen,     \* the pid it read from the lock file
  opened    \* the programs with a descriptor of the port

vars == <<file, pc, task, seen, opened>>

LockStep   == {"stat", "read", "judge", "remove", "create", "write"}
Held       == {"locked", "using", "probing", "check", "unlink"}
PC         == {"idle", "closing", "dead"} \cup LockStep \cup Held
LockFile   == [maker : Pids, text : Pids \cup {Empty}]

TypeOK ==
  /\ file \in LockFile \cup {NoFile}
  /\ pc \in [Pids -> PC]
  /\ task \in [Pids -> {"open", "test"}]
  /\ seen \in [Pids -> Number]
  /\ opened \in SUBSET Pids

Init ==
  /\ file = NoFile
  /\ pc = [p \in Pids |-> "idle"]
  /\ task = [p \in Pids |-> "open"]
  /\ seen = [p \in Pids |-> NoPid]
  /\ opened = {}

Dead == {p \in Pids : pc[p] = "dead"}

Go(p, here, there) == pc[p] = here /\ pc' = [pc EXCEPT ![p] = there]

-----------------------------------------------------------------------------
(* is_device_locked: is there a lock file, and is it stale?                *)

Start(p, t) == /\ Go(p, "idle", "stat")
               /\ task' = [task EXCEPT ![p] = t]
               /\ UNCHANGED <<file, seen, opened>>

Stat(p) == /\ Go(p, "stat", IF file = NoFile THEN "create" ELSE "read")
           /\ UNCHANGED <<file, task, seen, opened>>

(* A read of an empty file returns 0, not an error, and leaves the buffer  *)
(* and the number scanned from it uninitialised.                           *)
Contents == IF file.text = Empty THEN Garbage ELSE {file.text}

ReadPid(p) ==
  /\ \/ /\ file = NoFile
        /\ Go(p, "read", "idle")
        /\ UNCHANGED seen
     \/ /\ file # NoFile
        /\ Go(p, "read", "judge")
        /\ \E n \in Contents : seen' = [seen EXCEPT ![p] = n]
  /\ UNCHANGED <<file, task, opened>>

(* Faulty variant of NotRunning: pids that kill(2) refuses are not stale.  *)
NotRunningKnown(n) == n = NoPid

(* Faulty variant of NotRunning: any error of kill(2) will do, and another *)
(* user's program is taken for dead.                                       *)
NotRunningRefused(n) == n \in Pids \cup {NoPid}

(* kill(pid, 0) with ESRCH.  A lock that is not stale does not end the     *)
(* attempt here: is_device_locked returns 0 for it too.                    *)
NotRunning(n) == n \in Dead \cup {NoPid}

Judge(p) == /\ Go(p, "judge", IF NotRunning(seen[p]) THEN "remove" ELSE "create")
            /\ seen' = [seen EXCEPT ![p] = NoPid]    \* not read again
            /\ UNCHANGED <<file, task, opened>>

(* unlink fails when another program was faster. *)
Remove(p) == /\ Go(p, "remove", IF file = NoFile THEN "idle" ELSE "create")
             /\ file' = NoFile
             /\ UNCHANGED <<task, seen, opened>>

-----------------------------------------------------------------------------
(* fhs_lock: O_EXCL, then the pid.                                         *)

(* Faulty variant of Create: without O_EXCL, an existing file is reopened. *)
CreateShared(p) ==
  /\ Go(p, "create", "write")
  /\ file' = [maker |-> p, text |-> Empty]
  /\ UNCHANGED <<task, seen, opened>>

(* Faulty variant of Create: testRead goes to its end without the lock. *)
CreateOrEnd(p) ==
  /\ \/ /\ file = NoFile
        /\ Go(p, "create", "write")
        /\ file' = [maker |-> p, text |-> Empty]
     \/ /\ file # NoFile
        /\ Go(p, "create", IF task[p] = "test" THEN "check" ELSE "idle")
        /\ UNCHANGED file
  /\ UNCHANGED <<task, seen, opened>>

Create(p) ==
  /\ \/ /\ file = NoFile
        /\ Go(p, "create", "write")
        /\ file' = [maker |-> p, text |-> Empty]
     \/ /\ file # NoFile
        /\ Go(p, "create", "idle")
        /\ UNCHANGED file
  /\ UNCHANGED <<task, seen, opened>>

Mine(p) == file # NoFile /\ file.maker = p

(* Faulty variant of WritePid: the number of no program is written. *)
WritePidUnset(p) ==
  /\ Go(p, "write", "locked")
  /\ file' = IF Mine(p) THEN [file EXCEPT !.text = NoPid] ELSE file
  /\ UNCHANGED <<task, seen, opened>>

(* The write goes to the file that was created, even if it was unlinked.   *)
WritePid(p) ==
  /\ \/ /\ Go(p, "write", "locked")
        /\ file' = IF Mine(p) THEN [file EXCEPT !.text = p] ELSE file
     \/ /\ Go(p, "write", "idle")      \* the write fails: the file stays
        /\ UNCHANGED file
  /\ UNCHANGED <<task, seen, opened>>

-----------------------------------------------------------------------------
(* RXTXPort.open, nativeClose and testRead, holding the lock.              *)

(* Faulty variant of OpenPort: a failed open gives the lock back, even if  *)
(* the device stays open.                                                  *)
OpenPortUnlocks(p) ==
  /\ pc[p] = "locked" /\ task[p] = "open"
  /\ \/ /\ pc' = [pc EXCEPT ![p] = "using"]
        /\ opened' = opened \cup {p}
        /\ UNCHANGED file
     \/ /\ pc' = [pc EXCEPT ![p] = "idle"]
        /\ opened' \in {opened, opened \cup {p}}
        /\ file' = NoFile
  /\ UNCHANGED <<task, seen>>

(* Opening or configuring the device may fail; the lock file stays then,   *)
(* and a device that could not be configured stays open.                   *)
OpenPort(p) ==
  /\ pc[p] = "locked" /\ task[p] = "open"
  /\ \/ /\ pc' = [pc EXCEPT ![p] = "using"]
        /\ opened' = opened \cup {p}
     \/ /\ pc' = [pc EXCEPT ![p] = "idle"]
        /\ opened' \in {opened, opened \cup {p}}
  /\ UNCHANGED <<file, task, seen>>

ClosePort(p) == /\ Go(p, "using", "check")
                /\ opened' = opened \ {p}
                /\ UNCHANGED <<file, task, seen>>

TestOpen(p) ==
  /\ pc[p] = "locked" /\ task[p] = "test"
  /\ \/ /\ pc' = [pc EXCEPT ![p] = "probing"]
        /\ opened' = opened \cup {p}
     \/ /\ pc' = [pc EXCEPT ![p] = "check"]
        /\ UNCHANGED opened
  /\ UNCHANGED <<file, task, seen>>

(* Settings saved, one byte read, settings restored. *)
TestDone(p) == /\ Go(p, "probing", "check")
               /\ UNCHANGED <<file, task, seen, opened>>

(* testRead closes the device after it has unlocked it. *)
TestClose(p) == /\ Go(p, "closing", "idle")
                /\ opened' = opened \ {p}
                /\ UNCHANGED <<file, task, seen>>

-----------------------------------------------------------------------------
(* fhs_unlock: check_lock_pid, then unlink.                                *)

AfterUnlock(p) == IF task[p] = "test" THEN "closing" ELSE "idle"

CheckPid(p) ==
  /\ \/ /\ file # NoFile
        /\ \E n \in Contents :
             Go(p, "check", IF n \in {p, Parent[p]} THEN "unlink" ELSE AfterUnlock(p))
     \/ /\ file = NoFile
        /\ Go(p, "check", AfterUnlock(p))
  /\ UNCHANGED <<file, task, seen, opened>>

Unlink(p) == /\ Go(p, "unlink", AfterUnlock(p))
             /\ file' = NoFile
             /\ UNCHANGED <<task, seen, opened>>

(* The program ends, killed or having never closed the port: the kernel    *)
(* closes its descriptors and its lock file stays.                         *)
Die(p) == /\ pc[p] # "dead" /\ Cardinality(Dead) < MaxDeaths
          /\ pc' = [pc EXCEPT ![p] = "dead"]
          /\ opened' = opened \ {p}
          /\ seen' = [seen EXCEPT ![p] = NoPid]
          /\ UNCHANGED <<file, task>>

-----------------------------------------------------------------------------
(* Every step but the removal of a stale lock. *)
Other(p) ==
  \/ \E t \in {"open", "test"} : Start(p, t)
  \/ Stat(p) \/ ReadPid(p) \/ Judge(p) \/ Create(p) \/ WritePid(p)
  \/ OpenPort(p) \/ ClosePort(p) \/ TestOpen(p) \/ TestDone(p) \/ TestClose(p)
  \/ CheckPid(p) \/ Unlink(p)
  \/ Die(p)

Next == \E p \in Pids : Remove(p) \/ Other(p)

Spec == Init /\ [][Next]_vars

(* A lock attempt that was begun runs on. *)
Locking(p) == Stat(p) \/ ReadPid(p) \/ Judge(p) \/ Remove(p) \/ Create(p) \/ WritePid(p)

FairSpec == Spec /\ \A p \in Pids : WF_vars(Locking(p))

-----------------------------------------------------------------------------
Accessing == {p \in Pids : pc[p] \in {"using", "probing"}}

(* INSTALL, line 646: lock files prevent more than one program accessing a *)
(* port at a time.                                                         *)
OneUser == \A p, q \in Accessing : p = q

(* The file a program that died has left does not outlive an attempt by    *)
(* another one: it is found stale and removed (is_device_locked, "if there *)
(* is a stale lock, remove it").                                           *)
StaleIsRemoved ==
  \A p, d \in Pids :
    (pc[p] = "stat" /\ pc[d] = "dead" /\ file = [maker |-> d, text |-> d])
      ~> (pc[p] = "dead" \/ file # [maker |-> d, text |-> d])
=============================================================================
