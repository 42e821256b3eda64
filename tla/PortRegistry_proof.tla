------------------------- MODULE PortRegistry_proof -------------------------
(***************************************************************************)
(* Ownership of identifiers and of the open port, for any number of        *)
(* threads, identifiers and port objects.                                  *)
(***************************************************************************)
EXTENDS PortRegistry, TLAPS

(* Where a thread is tells what it has. *)
PlaceInv ==
  \A t \in Threads :
    /\ pc[t] = "probing" => lock = "probe"
    /\ pc[t] \in Owning \cup {"requested", "waiting"} => ref[t] # None /\ port[t] = None
    /\ pc[t] \in {"closing", "releasing"} => port[t] # None

(* A port object is in one identifier and with one thread. *)
UniqueInv ==
  /\ \A i, j \in Ids : commport[i] = commport[j] /\ commport[i] # None => i = j
  /\ \A t, u \in Threads : port[t] = port[u] /\ port[t] # None => t = u

(* What owning an identifier means for its fields. *)
OwningInv ==
  /\ \A i \in Ids : available[i] => commport[i] = None
  /\ \A i \in Ids, t \in Threads :
       commport[i] = port[t] /\ port[t] # None => owner[i] = t
  /\ \A t \in Threads : pc[t] \in Owning =>
       /\ ~available[ref[t]] /\ owner[ref[t]] = t
       /\ pc[t] = "opened" => commport[ref[t]] # None /\ lock = commport[ref[t]]
       /\ pc[t] # "opened" => commport[ref[t]] = None
       /\ \A u \in Threads : port[u] # None => commport[ref[t]] # port[u]

RegistryInv == TypeOK /\ PlaceInv /\ UniqueInv /\ OwningInv /\ OpenPortIsLocked

LEMMA NewIdIsFree ==
  ASSUME \E i \in Ids : Unreferenced(i)
  PROVE  NewId \in Ids /\ Unreferenced(NewId)
  BY DEF NewId

LEMMA NewPortIsFree ==
  ASSUME \E p \in Ports : Unused(p)
  PROVE  NewPort \in Ports /\ Unused(NewPort)
  BY DEF NewPort

LEMMA OwnTyped ==
  ASSUME TypeOK, NEW t \in Threads, ref[t] \in Ids, Own(t)
  PROVE  available' \in [Ids -> BOOLEAN] /\ owner' \in [Ids -> Threads \cup {None}]
  BY DEF TypeOK, Own

LEMMA InitInv == Init => RegistryInv
  BY DEF Init, RegistryInv, TypeOK, PlaceInv, UniqueInv, OwningInv, OpenPortIsLocked,
         PC, Enumerating, Owning

LEMMA NextTypeOK ==
  ASSUME RegistryInv, NEW t \in Threads, Running(t) \/ Call(t)
  PROVE  TypeOK'
<1> USE NoneAssumption, PortsAssumption
    DEF RegistryInv, TypeOK, PlaceInv, UniqueInv, OwningInv, OpenPortIsLocked,
        PC, Enumerating, Owning, Go, idVars, listVars
<1>1. CASE EnumBegin(t)
  BY <1>1 DEF EnumBegin
<1>2. CASE ProbeLock(t)
  BY <1>2 DEF ProbeLock
<1>3. CASE ProbeEnd(t)
  BY <1>3 DEF ProbeEnd
<1>4. CASE EnumEnd(t)
  <2>1. CASE AddPortName
    <3>1. NewId \in Ids
      BY <2>1, NewIdIsFree DEF AddPortName
    <3>2. available' \in [Ids -> BOOLEAN]
      BY <2>1, <3>1 DEF AddPortName
    <3>3. owner' \in [Ids -> Threads \cup {None}] /\ commport' \in [Ids -> Ports \cup {None}]
      BY <2>1, <3>1 DEF AddPortName
    <3>4. listed' \in Ids
      BY <2>1, <3>1 DEF AddPortName
    <3> QED BY <1>4, <3>2, <3>3, <3>4 DEF EnumEnd
  <2>2. CASE UNCHANGED idVars
    BY <1>4, <2>2, NewIdIsFree DEF EnumEnd, AddPortName
  <2> QED BY <1>4, <2>1, <2>2 DEF EnumEnd
<1>5. CASE GetPortIdentifier(t)
  BY <1>5 DEF GetPortIdentifier
<1>6. CASE Open(t)
  <2>1. ref[t] \in Ids
    BY <1>6 DEF Open
  <2>2. CASE Own(t)
    BY <1>6, <2>1, <2>2, OwnTyped DEF Open
  <2>3. CASE UNCHANGED <<available, owner>>
    BY <1>6, <2>3 DEF Open
  <2> QED BY <1>6, <2>2, <2>3 DEF Open
<1>7. CASE Wait(t)
  <2>1. ref[t] \in Ids
    BY <1>7 DEF Wait
  <2>2. CASE Own(t)
    BY <1>7, <2>1, <2>2, OwnTyped DEF Wait
  <2>3. CASE UNCHANGED <<available, owner>>
    BY <1>7, <2>3 DEF Wait
  <2> QED BY <1>7, <2>2, <2>3 DEF Wait
<1>8. CASE Deadline(t)
  <2>1. ref[t] \in Ids
    BY <1>8 DEF Deadline
  <2>2. CASE Own(t)
    BY <1>8, <2>1, <2>2, OwnTyped DEF Deadline
  <2>3. CASE UNCHANGED <<available, owner>>
    BY <1>8, <2>3 DEF Deadline
  <2> QED BY <1>8, <2>2, <2>3 DEF Deadline
<1>9. CASE GetCommPort(t)
  BY <1>9, NewPortIsFree DEF GetCommPort, Unused
<1>10. CASE Return(t)
  BY <1>10 DEF Return
<1>11. CASE Unown(t)
  BY <1>11 DEF Unown
<1>12. CASE NativeClose(t)
  BY <1>12 DEF NativeClose
<1>13. CASE Lookup(t)
  BY <1>13 DEF Lookup, Finds, Forget
<1>14. CASE InternalClosePort(t)
  <2>1. /\ pc' \in [Threads -> PC]
        /\ \A u \in Threads : pc'[u] \in Enumerating => sync' = u
    BY <1>14 DEF InternalClosePort, NotifyAll
  <2>2. CASE Finds(t)
    <3>0. listed \in Ids /\ available' = [available EXCEPT ![listed] = TRUE]
      BY <1>14, <2>2 DEF InternalClosePort, Finds
    <3>1. available' \in [Ids -> BOOLEAN]
      BY <3>0
    <3>2. owner' \in [Ids -> Threads \cup {None}]
      BY <1>14, <2>2 DEF InternalClosePort, Finds
    <3>3. commport' \in [Ids -> Ports \cup {None}]
      BY <1>14, <2>2 DEF InternalClosePort, Finds
    <3> QED BY <1>14, <2>1, <3>1, <3>2, <3>3 DEF InternalClosePort, Forget
  <2>3. CASE ~Finds(t)
    BY <1>14, <2>1, <2>3 DEF InternalClosePort, Forget
  <2> QED BY <2>2, <2>3
<1> QED BY <1>1, <1>2, <1>3, <1>4, <1>5, <1>6, <1>7, <1>8, <1>9, <1>10, <1>11, <1>12, <1>13, <1>14 DEF Running, Call

LEMMA NextPlaceInv ==
  ASSUME RegistryInv, NEW t \in Threads, Running(t) \/ Call(t)
  PROVE  PlaceInv'
<1> USE NoneAssumption, PortsAssumption
    DEF RegistryInv, TypeOK, PlaceInv, UniqueInv, OwningInv, OpenPortIsLocked,
        PC, Enumerating, Owning, Go, idVars, listVars
<1>1. CASE EnumBegin(t)
  BY <1>1 DEF EnumBegin
<1>2. CASE ProbeLock(t)
  BY <1>2 DEF ProbeLock
<1>3. CASE ProbeEnd(t)
  BY <1>3 DEF ProbeEnd
<1>4. CASE EnumEnd(t)
  BY <1>4, NewIdIsFree DEF EnumEnd, AddPortName, Unreferenced
<1>5. CASE GetPortIdentifier(t)
  BY <1>5 DEF GetPortIdentifier
<1>6. CASE Open(t)
  BY <1>6 DEF Open, Own
<1>7. CASE Wait(t)
  BY <1>7 DEF Wait, Own
<1>8. CASE Deadline(t)
  BY <1>8 DEF Deadline, Own
<1>9. CASE GetCommPort(t)
  BY <1>9, NewPortIsFree DEF GetCommPort, Unused
<1>10. CASE Return(t)
  BY <1>10 DEF Return
<1>11. CASE Unown(t)
  BY <1>11 DEF Unown
<1>12. CASE NativeClose(t)
  BY <1>12 DEF NativeClose
<1>13. CASE Lookup(t)
  BY <1>13 DEF Lookup, Finds, Forget
<1>14. CASE InternalClosePort(t)
  BY <1>14 DEF InternalClosePort, Finds, Forget, NotifyAll
<1> QED BY <1>1, <1>2, <1>3, <1>4, <1>5, <1>6, <1>7, <1>8, <1>9, <1>10, <1>11, <1>12, <1>13, <1>14 DEF Running, Call

LEMMA NextUniqueInv ==
  ASSUME RegistryInv, NEW t \in Threads, Running(t) \/ Call(t)
  PROVE  UniqueInv'
<1> USE NoneAssumption, PortsAssumption
    DEF RegistryInv, TypeOK, PlaceInv, UniqueInv, OwningInv, OpenPortIsLocked,
        PC, Enumerating, Owning, Go, idVars, listVars
<1>1. CASE EnumBegin(t)
  BY <1>1 DEF EnumBegin
<1>2. CASE ProbeLock(t)
  BY <1>2 DEF ProbeLock
<1>3. CASE ProbeEnd(t)
  BY <1>3 DEF ProbeEnd
<1>4. CASE EnumEnd(t)
  BY <1>4, NewIdIsFree DEF EnumEnd, AddPortName, Unreferenced
<1>5. CASE GetPortIdentifier(t)
  BY <1>5 DEF GetPortIdentifier
<1>6. CASE Open(t)
  BY <1>6 DEF Open, Own
<1>7. CASE Wait(t)
  BY <1>7 DEF Wait, Own
<1>8. CASE Deadline(t)
  BY <1>8 DEF Deadline, Own
<1>9. CASE GetCommPort(t)
  BY <1>9, NewPortIsFree DEF GetCommPort, Unused
<1>10. CASE Return(t)
  BY <1>10 DEF Return
<1>11. CASE Unown(t)
  BY <1>11 DEF Unown
<1>12. CASE NativeClose(t)
  BY <1>12 DEF NativeClose
<1>13. CASE Lookup(t)
  BY <1>13 DEF Lookup, Finds, Forget
<1>14. CASE InternalClosePort(t)
  BY <1>14 DEF InternalClosePort, Finds, Forget, NotifyAll
<1> QED BY <1>1, <1>2, <1>3, <1>4, <1>5, <1>6, <1>7, <1>8, <1>9, <1>10, <1>11, <1>12, <1>13, <1>14 DEF Running, Call

LEMMA NextOwningInv ==
  ASSUME RegistryInv, NEW t \in Threads, Running(t) \/ Call(t)
  PROVE  OwningInv'
<1> USE NoneAssumption, PortsAssumption
    DEF RegistryInv, TypeOK, PlaceInv, UniqueInv, OwningInv, OpenPortIsLocked,
        PC, Enumerating, Owning, Go, idVars, listVars
<1>1. CASE EnumBegin(t)
  BY <1>1 DEF EnumBegin
<1>2. CASE ProbeLock(t)
  BY <1>2 DEF ProbeLock
<1>3. CASE ProbeEnd(t)
  BY <1>3 DEF ProbeEnd
<1>4. CASE EnumEnd(t)
  BY <1>4, NewIdIsFree DEF EnumEnd, AddPortName, Unreferenced
<1>5. CASE GetPortIdentifier(t)
  BY <1>5 DEF GetPortIdentifier
<1>6. CASE Open(t)
  BY <1>6 DEF Open, Own
<1>7. CASE Wait(t)
  BY <1>7 DEF Wait, Own
<1>8. CASE Deadline(t)
  BY <1>8 DEF Deadline, Own
<1>9. CASE GetCommPort(t)
  BY <1>9, NewPortIsFree DEF GetCommPort, Unused
<1>10. CASE Return(t)
  BY <1>10 DEF Return
<1>11. CASE Unown(t)
  BY <1>11 DEF Unown
<1>12. CASE NativeClose(t)
  BY <1>12 DEF NativeClose
<1>13. CASE Lookup(t)
  BY <1>13 DEF Lookup, Finds, Forget
<1>14. CASE InternalClosePort(t)
  <2>1. \A u \in Threads : pc'[u] \in Owning => pc'[u] = pc[u] /\ u # t
    BY <1>14 DEF InternalClosePort, NotifyAll
  <2>2. CASE Finds(t)
    <3>1. \A u \in Threads : pc[u] \in Owning => ref[u] # listed
      BY <1>14, <2>2 DEF InternalClosePort, Finds
    <3> QED BY <1>14, <2>1, <2>2, <3>1 DEF InternalClosePort, Finds, Forget
  <2>3. CASE ~Finds(t)
    BY <1>14, <2>1, <2>3 DEF InternalClosePort, Forget
  <2> QED BY <2>2, <2>3
<1> QED BY <1>1, <1>2, <1>3, <1>4, <1>5, <1>6, <1>7, <1>8, <1>9, <1>10, <1>11, <1>12, <1>13, <1>14 DEF Running, Call

LEMMA NextOpenPortIsLocked ==
  ASSUME RegistryInv, NEW t \in Threads, Running(t) \/ Call(t)
  PROVE  OpenPortIsLocked'
<1> USE NoneAssumption, PortsAssumption
    DEF RegistryInv, TypeOK, PlaceInv, UniqueInv, OwningInv, OpenPortIsLocked,
        PC, Enumerating, Owning, Go, idVars, listVars
<1>1. CASE EnumBegin(t)
  BY <1>1 DEF EnumBegin
<1>2. CASE ProbeLock(t)
  BY <1>2 DEF ProbeLock
<1>3. CASE ProbeEnd(t)
  BY <1>3 DEF ProbeEnd
<1>4. CASE EnumEnd(t)
  BY <1>4, NewIdIsFree DEF EnumEnd, AddPortName, Unreferenced
<1>5. CASE GetPortIdentifier(t)
  BY <1>5 DEF GetPortIdentifier
<1>6. CASE Open(t)
  BY <1>6 DEF Open, Own
<1>7. CASE Wait(t)
  BY <1>7 DEF Wait, Own
<1>8. CASE Deadline(t)
  BY <1>8 DEF Deadline, Own
<1>9. CASE GetCommPort(t)
  BY <1>9, NewPortIsFree DEF GetCommPort, Unused
<1>10. CASE Return(t)
  BY <1>10 DEF Return
<1>11. CASE Unown(t)
  BY <1>11 DEF Unown
<1>12. CASE NativeClose(t)
  BY <1>12 DEF NativeClose
<1>13. CASE Lookup(t)
  BY <1>13 DEF Lookup, Finds, Forget
<1>14. CASE InternalClosePort(t)
  BY <1>14 DEF InternalClosePort, Finds, Forget, NotifyAll
<1> QED BY <1>1, <1>2, <1>3, <1>4, <1>5, <1>6, <1>7, <1>8, <1>9, <1>10, <1>11, <1>12, <1>13, <1>14 DEF Running, Call

LEMMA NextInv == RegistryInv /\ [Next]_vars => RegistryInv'
<1> SUFFICES ASSUME RegistryInv, [Next]_vars PROVE RegistryInv'
  OBVIOUS
<1>1. CASE UNCHANGED vars
  BY <1>1 DEF vars, idVars, listVars, RegistryInv, TypeOK, PlaceInv, UniqueInv,
              OwningInv, OpenPortIsLocked
<1>2. ASSUME NEW t \in Threads, Running(t) \/ Call(t) PROVE RegistryInv'
  BY <1>2, NextTypeOK, NextPlaceInv, NextUniqueInv, NextOwningInv, NextOpenPortIsLocked
     DEF RegistryInv
<1> QED BY <1>1, <1>2 DEF Next

(* Where every thread is, what it refers to and what the identifiers say   *)
(* fit together, whatever open, close and enumerations do at once.         *)
THEOREM RegistryInvariant == Spec => []RegistryInv
  BY InitInv, NextInv, PTL DEF Spec

(* Every field keeps its type, and an enumeration runs only in the thread  *)
(* that has CommPortIdentifier.Sync.                                       *)
THEOREM RegistryTypeCorrect == Spec => []TypeOK
<1>1. RegistryInv => TypeOK
  BY DEF RegistryInv
<1> QED BY <1>1, RegistryInvariant, PTL

(* A port that open() returned keeps the lock file until it is closed, so  *)
(* no two threads ever have the device open (CommPortIdentifier.open,      *)
(* RXTXPort.close), whatever enumerations do to the list.                  *)
THEOREM OpenPortExclusive == Spec => []OpenPortIsLocked
<1>1. RegistryInv => OpenPortIsLocked
  BY DEF RegistryInv
<1> QED BY <1>1, RegistryInvariant, PTL

(* No two threads own one identifier (CommPortIdentifier.open).            *)
THEOREM OneOwnerAlways == Spec => []OneOwner
<1>1. RegistryInv => OneOwner
  BY DEF RegistryInv, OneOwner, OwningInv, Holds
<1> QED BY <1>1, RegistryInvariant, PTL

-----------------------------------------------------------------------------
(* An identifier that is listed, or that an enumeration will list again,   *)
(* is owned while it is not available.  Only an enumeration hides one from *)
(* the close that looks it up, and Sync keeps that close out.              *)
Held(i) == \E t \in Threads : Holds(t, i)

ListInv ==
  /\ sync = None => oldPorts = None
  /\ \A i \in Ids : i \in {listed, oldPorts} /\ ~available[i] => Held(i)

LEMMA InitListInv == Init => ListInv
  BY DEF Init, ListInv

LEMMA NextListInv ==
  ASSUME RegistryInv, ListInv, NEW t \in Threads, Running(t) \/ Call(t)
  PROVE  ListInv'
<1> USE NoneAssumption, PortsAssumption
    DEF RegistryInv, TypeOK, PlaceInv, UniqueInv, OwningInv, ListInv, Held, Holds,
        PC, Enumerating, Owning, Go, idVars, listVars
<1>1. CASE EnumBegin(t)
  BY <1>1 DEF EnumBegin
<1>2. CASE ProbeLock(t)
  BY <1>2 DEF ProbeLock
<1>3. CASE ProbeEnd(t)
  BY <1>3 DEF ProbeEnd
<1>4. CASE EnumEnd(t)
  BY <1>4, NewIdIsFree DEF EnumEnd, AddPortName, Unreferenced
<1>5. CASE GetPortIdentifier(t)
  BY <1>5 DEF GetPortIdentifier
<1>6. CASE Open(t)
  BY <1>6 DEF Open, Own
<1>7. CASE Wait(t)
  BY <1>7 DEF Wait, Own
<1>8. CASE Deadline(t)
  BY <1>8 DEF Deadline, Own
<1>9. CASE GetCommPort(t)
  BY <1>9, NewPortIsFree DEF GetCommPort, Unused
<1>10. CASE Return(t)
  BY <1>10 DEF Return
<1>11. CASE Unown(t)
  BY <1>11 DEF Unown
<1>12. CASE NativeClose(t)
  BY <1>12 DEF NativeClose
<1>13. CASE Lookup(t)
  BY <1>13 DEF Lookup, Finds, Forget
<1>14. CASE InternalClosePort(t)
  BY <1>14 DEF InternalClosePort, Finds, Forget, NotifyAll
<1> QED BY <1>1, <1>2, <1>3, <1>4, <1>5, <1>6, <1>7, <1>8, <1>9, <1>10, <1>11, <1>12, <1>13, <1>14 DEF Running, Call

(* An identifier that is still listed is not lost, whatever enumerations   *)
(* and closes interleave (CommPortIdentifier.getPortIdentifiers and        *)
(* internalClosePort).                                                     *)
THEOREM ListedIdentifiersComeBack == Spec => []ListedIsOwned
<1>1. ListInv /\ RegistryInv /\ [Next]_vars => ListInv'
  <2> SUFFICES ASSUME ListInv, RegistryInv, [Next]_vars PROVE ListInv'
    OBVIOUS
  <2>1. CASE UNCHANGED vars
    BY <2>1 DEF vars, idVars, listVars, ListInv, Held, Holds
  <2>2. ASSUME NEW t \in Threads, Running(t) \/ Call(t) PROVE ListInv'
    BY <2>2, NextListInv
  <2> QED BY <2>1, <2>2 DEF Next
<1>2. ListInv /\ RegistryInv => ListedIsOwned
  BY DEF ListInv, Held, ListedIsOwned, RegistryInv, TypeOK
<1> QED BY <1>1, <1>2, InitListInv, RegistryInvariant, PTL DEF Spec
=============================================================================
