-------------------------- MODULE LockFilesHistory --------------------------
(***************************************************************************)
(* LockFiles with history variables that tell whether a lock file that     *)
(* still protected something was ever removed as stale, and whether an     *)
(* empty one was taken for a stale one.                                    *)
(***************************************************************************)
EXTENDS LockFiles

VARIABLES
  robbed,    \* the lock file of a living program was removed as stale
  misread    \* an empty lock file was read, and a pid that is not running scanned

hvars == <<vars, robbed, misread>>

HInit == Init /\ robbed = FALSE /\ misread = FALSE

(* What p removes is not the file of a program that died. *)
Robs(p) == file # NoFile /\ file.maker \notin Dead

Misreads(p) ==
  /\ pc[p] = "read" /\ pc'[p] = "judge"
  /\ file.text = Empty /\ NotRunning(seen'[p])

HRemove(p) == Remove(p) /\ robbed' = (robbed \/ Robs(p)) /\ UNCHANGED misread

HOther(p) == Other(p) /\ misread' = (misread \/ Misreads(p)) /\ UNCHANGED robbed

HNext == \E p \in Pids : HRemove(p) \/ HOther(p)

HSpec == HInit /\ [][HNext]_hvars

HFairSpec == HSpec /\ \A p \in Pids : WF_hvars(Locking(p) /\ HNext)

-----------------------------------------------------------------------------
(* Whatever the programs do and whenever they die, and whatever is scanned *)
(* from an empty lock file: the port has at most one user until the lock   *)
(* of a living program has been removed as stale (the unlink at            *)
(* SerialImp.c, line 5928, of a file judged by an earlier read).           *)
OneUserUntilRobbed == robbed \/ OneUser

(* Only a death or an empty file, read between its creation and the write  *)
(* of its pid, leads to that: until then the port has one user, whatever   *)
(* the order of the system calls (fhs_lock, is_device_locked).             *)
OneUserUntilStale == Dead # {} \/ misread \/ OneUser

(* Until a living program's lock is removed, the lock file belongs to      *)
(* whoever is past creating it, and carries its pid unless that is still   *)
(* to be written.                                                          *)
HeldMeansFile ==
  robbed \/ \A p \in Pids :
              /\ pc[p] = "write" => file = [maker |-> p, text |-> Empty]
              /\ pc[p] \in Held => file = [maker |-> p, text |-> p]

(* And until then a descriptor of the port is under its owner's lock, the  *)
(* one a failed open leaves behind included (RXTXPort.open, line 687); the *)
(* one testRead closes after it has given up its lock (line 4472) is not.  *)
OpenMeansLocked ==
  robbed \/ \A p \in opened :
              pc[p] # "closing" => file = [maker |-> p, text |-> p]
=============================================================================
