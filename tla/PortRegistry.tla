---------------------------- MODULE PortRegistry ----------------------------
(***************************************************************************)
(* The identifiers of RXTX inside one program (CommPortIdentifier.java,    *)
(* CommPort.java, RXTXCommDriver.java), for one port: who owns an          *)
(* identifier, which identifier is listed, and what re-enumeration does to *)
(* both while other threads open and close.                                *)
(*                                                                         *)
(* The lock file is what LockFiles makes of it between programs; between   *)
(* the threads of one program it is O_EXCL that keeps a second one out.    *)
(* Ownership listeners are told but do nothing here; an owner that closes  *)
(* because it was asked to closes like any other.                          *)
(***************************************************************************)
EXTENDS Naturals

CONSTANTS
  Threads,     \* the threads that use the port
  Ids,         \* identifier objects, recycled once nothing refers to them
  Ports,       \* RXTXPort objects, likewise
  None

ASSUME NoneAssumption == None \notin Threads \cup Ids \cup Ports \cup {"probe", "leaked"}
ASSUME PortsAssumption == Ports \cap {"probe", "leaked"} = {}

VARIABLES
  available, owner, commport,   \* the fields of each identifier
  listed,                       \* the identifier in the list CommPortIndex
  oldPorts,                     \* the one an enumeration will put back
  sync,                         \* the thread in CommPortIdentifier.Sync
  lock,                         \* who has the lock file of the port
  pc,                           \* where each thread is
  ref,                          \* the identifier a thread holds
  port                          \* the port a thread has opened

idVars == <<available, owner, commport>>
listVars == <<listed, oldPorts, sync>>
vars == <<idVars, listVars, lock, pc, ref, port>>

Enumerating == {"probe", "probing", "found", "lost"}
Owning      == {"owned", "failed", "opened"}
PC == {"idle", "requested", "waiting", "closing", "releasing"} \cup Enumerating \cup Owning

TypeOK ==
  /\ available \in [Ids -> BOOLEAN]
  /\ owner \in [Ids -> Threads \cup {None}]
  /\ commport \in [Ids -> Ports \cup {None}]
  /\ listed \in Ids \cup {None} /\ oldPorts \in Ids \cup {None}
  /\ sync \in Threads \cup {None}
  /\ lock \in Ports \cup {None, "probe", "leaked"}
  /\ pc \in [Threads -> PC]
  /\ \A t \in Threads : pc[t] \in Enumerating => sync = t
  /\ ref \in [Threads -> Ids \cup {None}]
  /\ port \in [Threads -> Ports \cup {None}]

Init ==
  /\ available = [i \in Ids |-> TRUE]
  /\ owner = [i \in Ids |-> None]
  /\ commport = [i \in Ids |-> None]
  /\ listed = None /\ oldPorts = None /\ sync = None /\ lock = None
  /\ pc = [t \in Threads |-> "idle"]
  /\ ref = [t \in Threads |-> None]
  /\ port = [t \in Threads |-> None]

Go(t, here, there) == pc[t] = here /\ pc' = [pc EXCEPT ![t] = there]

-----------------------------------------------------------------------------
(* getPortIdentifiers(), with Sync held throughout: the list is emptied,   *)
(* the ports named by the property gnu.io.rxtx.SerialPorts are tried, and  *)
(* old identifiers replace new ones of the same name.                      *)

(* Faulty variant of EnumBegin: without synchronized(Sync). *)
EnumBeginUnlocked(t) ==
  /\ \/ Go(t, "idle", "probe")
     \/ Go(t, "idle", "lost")
  /\ sync' = t
  /\ oldPorts' = listed /\ listed' = None
  /\ UNCHANGED <<idVars, lock, ref, port>>

EnumBegin(t) ==
  /\ sync = None
  /\ \/ Go(t, "idle", "probe")
     \/ Go(t, "idle", "lost")      \* the property names other ports
  /\ sync' = t
  /\ oldPorts' = listed /\ listed' = None
  /\ UNCHANGED <<idVars, lock, ref, port>>

(* testRead: a port that is locked, by this program too, is not found. *)
ProbeLock(t) ==
  /\ \/ /\ lock = None
        /\ Go(t, "probe", "probing")
        /\ lock' = "probe"
     \/ /\ lock # None
        /\ Go(t, "probe", "lost")
        /\ UNCHANGED lock
  /\ UNCHANGED <<idVars, listVars, ref, port>>

ProbeEnd(t) ==
  /\ \/ Go(t, "probing", "found")
     \/ Go(t, "probing", "lost")   \* no such device, or it cannot be read
  /\ lock' = None
  /\ UNCHANGED <<idVars, listVars, ref, port>>

Unreferenced(i) == i # listed /\ i # oldPorts /\ \A t \in Threads : ref[t] # i

NewId == CHOOSE i \in Ids : Unreferenced(i)

(* A new identifier for a port that was not listed before.  Bound: Ids     *)
(* must have one that nothing refers to.                                   *)
AddPortName ==
  /\ \E i \in Ids : Unreferenced(i)
  /\ available' = [available EXCEPT ![NewId] = TRUE]
  /\ owner' = [owner EXCEPT ![NewId] = None]
  /\ commport' = [commport EXCEPT ![NewId] = None]
  /\ listed' = NewId

EnumEnd(t) ==
  /\ \/ /\ Go(t, "found", "idle") /\ oldPorts # None
        /\ listed' = oldPorts
        /\ UNCHANGED idVars
     \/ /\ Go(t, "found", "idle") /\ oldPorts = None
        /\ AddPortName
     \/ /\ Go(t, "lost", "idle")
        /\ listed' = None
        /\ UNCHANGED idVars
  /\ sync' = None /\ oldPorts' = None
  /\ UNCHANGED <<lock, ref, port>>

(* getPortIdentifier(String) and CommPortEnumerator.nextElement(). *)
GetPortIdentifier(t) ==
  /\ pc[t] = "idle" /\ port[t] = None
  /\ sync = None /\ listed # None
  /\ ref' = [ref EXCEPT ![t] = listed]
  /\ UNCHANGED <<idVars, listVars, lock, pc, port>>

-----------------------------------------------------------------------------
(* open(): ownership first, waiting for it up to a deadline, and then the  *)
(* port.                                                                   *)

Own(t) == /\ available' = [available EXCEPT ![ref[t]] = FALSE]
          /\ owner' = [owner EXCEPT ![ref[t]] = t]

Open(t) ==
  /\ ref[t] # None /\ port[t] = None
  /\ \/ /\ Go(t, "idle", "owned") /\ available[ref[t]]
        /\ Own(t)
     \/ /\ Go(t, "idle", "requested") /\ ~available[ref[t]]
        /\ UNCHANGED <<available, owner>>
  /\ UNCHANGED <<commport, listVars, lock, ref, port>>

(* The waiting loop is entered, or run again after a notifyAll. *)
Wait(t) ==
  /\ \/ /\ Go(t, "requested", "owned") /\ available[ref[t]]
        /\ Own(t)
     \/ /\ Go(t, "requested", "waiting") /\ ~available[ref[t]]
        /\ UNCHANGED <<available, owner>>
  /\ UNCHANGED <<commport, listVars, lock, ref, port>>

(* Faulty variant of Deadline: Available is not looked at again. *)
DeadlineBlind(t) ==
  /\ pc[t] \in {"requested", "waiting"}
  /\ pc' = [pc EXCEPT ![t] = "owned"]
  /\ Own(t)
  /\ UNCHANGED <<commport, listVars, lock, ref, port>>

(* Faulty variant of Deadline: every notifyAll grants the full time again. *)
DeadlineRenewed(t) ==
  /\ \/ /\ Go(t, "waiting", "owned") /\ available[ref[t]]
        /\ Own(t)
     \/ /\ Go(t, "waiting", "idle") /\ ~available[ref[t]]
        /\ UNCHANGED <<available, owner>>
  /\ UNCHANGED <<commport, listVars, lock, ref, port>>

(* The deadline, or an interrupt: Available is looked at once more.  It    *)
(* comes while the thread waits or when it is back at the loop's test.     *)
Deadline(t) ==
  /\ pc[t] \in {"requested", "waiting"}
  /\ \/ /\ available[ref[t]]
        /\ pc' = [pc EXCEPT ![t] = "owned"]
        /\ Own(t)
     \/ /\ ~available[ref[t]]
        /\ pc' = [pc EXCEPT ![t] = "idle"]
        /\ UNCHANGED <<available, owner>>
  /\ UNCHANGED <<commport, listVars, lock, ref, port>>

Unused(p) == /\ p # lock
             /\ \A i \in Ids : commport[i] # p
             /\ \A t \in Threads : port[t] # p

NewPort == CHOOSE p \in Ports : Unused(p)

(* Faulty variant of GetCommPort: RXTXPort.open without the lock file. *)
GetCommPortUnlocked(t) ==
  /\ Go(t, "owned", "opened")
  /\ \E p \in Ports : Unused(p)
  /\ lock' = NewPort
  /\ commport' = [commport EXCEPT ![ref[t]] = NewPort]
  /\ UNCHANGED <<available, owner, listVars, ref, port>>

(* RXTXCommDriver.getCommPort(): RXTXPort.open takes the lock file, unless *)
(* it is taken, and opens the device.  If that fails the lock file stays.  *)
GetCommPort(t) ==
  /\ \/ /\ Go(t, "owned", "opened") /\ lock = None
        /\ \E p \in Ports : Unused(p)    \* bound
        /\ lock' = NewPort
        /\ commport' = [commport EXCEPT ![ref[t]] = NewPort]
     \/ /\ Go(t, "owned", "failed") /\ lock = None
        /\ lock' = "leaked"
        /\ UNCHANGED commport
     \/ /\ Go(t, "owned", "failed") /\ lock # None
        /\ UNCHANGED <<lock, commport>>
  /\ UNCHANGED <<available, owner, listVars, ref, port>>

Return(t) ==
  /\ Go(t, "opened", "idle")
  /\ port' = [port EXCEPT ![t] = commport[ref[t]]]
  /\ UNCHANGED <<idVars, listVars, lock, ref>>

(* Faulty variant of Unown: the identifier stays owned. *)
UnownNot(t) ==
  /\ Go(t, "failed", "idle")
  /\ UNCHANGED <<idVars, listVars, lock, ref, port>>

(* The finally block; nobody who waits is notified. *)
Unown(t) ==
  /\ Go(t, "failed", "idle")
  /\ available' = [available EXCEPT ![ref[t]] = TRUE]
  /\ owner' = [owner EXCEPT ![ref[t]] = None]
  /\ UNCHANGED <<commport, listVars, lock, ref, port>>

-----------------------------------------------------------------------------
(* RXTXPort.close(): the device and its lock file, then the identifier,    *)
(* which is looked up by its port, twice.                                  *)

NativeClose(t) ==
  /\ port[t] # None
  /\ Go(t, "idle", "closing")
  /\ lock' = IF lock = port[t] THEN None ELSE lock
  /\ UNCHANGED <<idVars, listVars, ref, port>>

Finds(t) == listed # None /\ commport[listed] = port[t]

Forget(t) == port' = [port EXCEPT ![t] = None]

(* Faulty variant of Lookup: it is repeated until the port is found. *)
LookupRepeated(t) ==
  /\ sync = None
  /\ \/ /\ Finds(t)
        /\ Go(t, "closing", "releasing")
     \/ /\ ~Finds(t)
        /\ Go(t, "closing", "closing")
  /\ UNCHANGED <<idVars, listVars, lock, ref, port>>

Lookup(t) ==
  /\ sync = None
  /\ \/ /\ Finds(t)
        /\ Go(t, "closing", "releasing")
        /\ UNCHANGED port
     \/ /\ ~Finds(t)
        /\ Go(t, "closing", "idle")
        /\ Forget(t)
  /\ UNCHANGED <<idVars, listVars, lock, ref>>

(* Whoever waits for identifier i runs its loop again. *)
NotifyAll(t, i) ==
  pc' = [u \in Threads |-> IF u = t THEN "idle"
                           ELSE IF pc[u] = "waiting" /\ ref[u] = i THEN "requested"
                           ELSE pc[u]]

InternalClosePort(t) ==
  /\ pc[t] = "releasing" /\ sync = None
  /\ \/ /\ Finds(t)
        /\ owner' = [owner EXCEPT ![listed] = None]
        /\ available' = [available EXCEPT ![listed] = TRUE]
        /\ commport' = [commport EXCEPT ![listed] = None]
        /\ NotifyAll(t, listed)
     \/ /\ ~Finds(t)
        /\ pc' = [pc EXCEPT ![t] = "idle"]
        /\ UNCHANGED idVars
  /\ Forget(t)
  /\ UNCHANGED <<listVars, lock, ref>>

-----------------------------------------------------------------------------
(* What runs by itself once a call was made; calls are the client's. *)
Running(t) ==
  \/ ProbeLock(t) \/ ProbeEnd(t) \/ EnumEnd(t)
  \/ Wait(t) \/ Deadline(t) \/ GetCommPort(t) \/ Return(t) \/ Unown(t)
  \/ Lookup(t) \/ InternalClosePort(t)

Call(t) == EnumBegin(t) \/ GetPortIdentifier(t) \/ Open(t) \/ NativeClose(t)

Next == \E t \in Threads : Running(t) \/ Call(t)

Spec == Init /\ [][Next]_vars

(* Deadlines pass, and a thread that runs alone gets on. *)
FairSpec == Spec /\ \A t \in Threads : WF_vars(Running(t)) /\ WF_vars(Deadline(t))

-----------------------------------------------------------------------------
(* t owns identifier i: it is between the two ends of open, or has what i  *)
(* opened and not closed it.                                               *)
Holds(t, i) == \/ ref[t] = i /\ pc[t] \in Owning
               \/ port[t] # None /\ commport[i] = port[t]

(* Two threads never own the same identifier, however open, its deadline,  *)
(* a close and an enumeration interleave: the one that does is its Owner   *)
(* (CommPortIdentifier.open, "assume ownership inside the synchronized     *)
(* block").                                                                *)
OneOwner ==
  \A i \in Ids, t \in Threads : Holds(t, i) => ~available[i] /\ owner[i] = t

(* A thread that was given a port has the device to itself, even where an  *)
(* enumeration has left two identifiers of the port in use.                *)
OpenPortIsLocked ==
  \A t \in Threads : port[t] # None /\ pc[t] \notin {"closing", "releasing"}
                       => lock = port[t]

(* An identifier that is still listed is not lost: while it is not         *)
(* available somebody owns it and will give it back.                       *)
ListedIsOwned == listed # None /\ ~available[listed] => \E t \in Threads : Holds(t, listed)

(* CommPortIdentifier.open, line 406: "PortInUseException if in use".      *)
(* An identifier that somebody holds is unavailable only while it is owned.*)
UnavailableIsOwned ==
  \A t \in Threads : LET i == ref[t] IN
    i # None /\ ~available[i] => \E u \in Threads : Holds(u, i)

(* Nobody waits for an identifier past the deadline (lines 424-449), however *)
(* often it changes hands in the meantime.                                 *)
WaitEnds == \A t \in Threads :
  pc[t] \in {"requested", "waiting"} ~> pc[t] \notin {"requested", "waiting"}

(* Nothing waits in a circle: when the clients make no more calls, those   *)
(* that are under way return.                                              *)
CallsReturn == <>[][\A t \in Threads : ~Call(t)]_vars
                 => <>[](\A t \in Threads : pc[t] = "idle")
=============================================================================
