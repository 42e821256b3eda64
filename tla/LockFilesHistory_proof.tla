----------------------- MODULE LockFilesHistory_proof -----------------------
(***************************************************************************)
(* The lock files of any number of programs, with any number of deaths and *)
(* any outcome of scanning an empty lock file.                             *)
(***************************************************************************)
EXTENDS LockFilesHistory, FiniteSetTheorems, TLAPS

HTypeOK == TypeOK /\ robbed \in BOOLEAN /\ misread \in BOOLEAN

LEMMA NoFileHasNoMaker ==
  ASSUME TypeOK, file # NoFile
  PROVE  file \in LockFile
  BY DEF TypeOK

(***************************************************************************)
(* Type correctness.                                                       *)
(***************************************************************************)
LEMMA InitTyped == HInit => HTypeOK
  BY DEF HInit, Init, HTypeOK, TypeOK, PC, LockStep, Held, Number, LockFile

LEMMA NextTyped == HTypeOK /\ [HNext]_hvars => HTypeOK'
<1> SUFFICES ASSUME HTypeOK, [HNext]_hvars PROVE HTypeOK'
  OBVIOUS
<1> USE DEF HTypeOK, TypeOK, PC, LockStep, Held, Number
<1>1. CASE UNCHANGED hvars
  BY <1>1 DEF hvars, vars
<1>2. ASSUME NEW p \in Pids, HRemove(p) PROVE HTypeOK'
  BY <1>2 DEF HRemove, Remove, Go
<1>3. ASSUME NEW p \in Pids, HOther(p) PROVE HTypeOK'
  <2>0. misread' \in BOOLEAN /\ robbed' = robbed /\ Other(p)
    BY <1>3 DEF HOther
  <2>1. CASE \E t \in {"open", "test"} : Start(p, t)
    BY <2>0, <2>1 DEF Start, Go
  <2>2. CASE Stat(p)
    BY <2>0, <2>2 DEF Stat, Go
  <2>3. CASE ReadPid(p)
    <3>1. file # NoFile => Contents \subseteq Number
      BY GarbageAssumption, NoFileHasNoMaker DEF Contents, LockFile
    <3> QED BY <2>0, <2>3, <3>1 DEF ReadPid, Go
  <2>4. CASE Judge(p)
    BY <2>0, <2>4 DEF Judge, Go
  <2>5. CASE Create(p)
    BY <2>0, <2>5 DEF Create, Go, LockFile
  <2>6. CASE WritePid(p)
    BY <2>0, <2>6, NoFileHasNoMaker DEF WritePid, Go, Mine, LockFile
  <2>7. CASE OpenPort(p) \/ ClosePort(p) \/ TestOpen(p) \/ TestDone(p) \/ TestClose(p)
    BY <2>0, <2>7 DEF OpenPort, ClosePort, TestOpen, TestDone, TestClose, Go
  <2>8. CASE CheckPid(p) \/ Unlink(p)
    BY <2>0, <2>8 DEF CheckPid, Unlink, AfterUnlock, Go
  <2>9. CASE Die(p)
    BY <2>0, <2>9 DEF Die
  <2> QED BY <2>0, <2>1, <2>2, <2>3, <2>4, <2>5, <2>6, <2>7, <2>8, <2>9 DEF Other
<1> QED BY <1>1, <1>2, <1>3 DEF HNext

LEMMA AlwaysTyped == HSpec => []HTypeOK
  BY InitTyped, NextTyped, PTL DEF HSpec

(* The variables stay in their types (SerialImp.c, fhs_lock to fhs_unlock). *)
THEOREM LockTypeCorrect == HSpec => []TypeOK
<1>1. HTypeOK => TypeOK
  BY DEF HTypeOK
<1> QED BY <1>1, AlwaysTyped, PTL

-----------------------------------------------------------------------------
(***************************************************************************)
(* HeldMeansFile is inductive.  The file of p disappears in two ways.      *)
(* Another program removes it as stale: then p is not dead, as it is past  *)
(* Create, and the removal robs.  Or a program unlinks what it takes for   *)
(* its own: then it holds the lock itself, and the file is not that of p.  *)
(***************************************************************************)
LEMMA HeldIsNotDead ==
  ASSUME NEW p \in Pids, pc[p] \in Held \cup {"write"}
  PROVE  p \notin Dead
  BY DEF Held, Dead

LEMMA InitHeld == HInit => HeldMeansFile
  BY DEF HInit, Init, HeldMeansFile, Held

LEMMA NextHeld == HTypeOK /\ HeldMeansFile /\ [HNext]_hvars => HeldMeansFile'
<1> SUFFICES ASSUME HTypeOK, HeldMeansFile, [HNext]_hvars
             PROVE  HeldMeansFile'
  OBVIOUS
<1>1. CASE UNCHANGED hvars
  BY <1>1 DEF hvars, vars, HeldMeansFile
<1>2. CASE robbed
  BY <1>2 DEF HNext, HRemove, HOther, HeldMeansFile, hvars
<1>3. ASSUME ~robbed, NEW p \in Pids, HRemove(p) PROVE HeldMeansFile'
  <2>1. CASE Robs(p)
    BY <1>3, <2>1 DEF HRemove, HeldMeansFile
  <2>2. CASE ~Robs(p)
    <3>1. \A q \in Pids : pc[q] \notin Held \cup {"write"}
      <4> SUFFICES ASSUME NEW q \in Pids, pc[q] \in Held \cup {"write"} PROVE FALSE
        OBVIOUS
      <4>1. file # NoFile /\ file.maker = q
        BY <1>3, NoFileAssumption DEF HeldMeansFile
      <4> QED BY <2>2, <4>1, HeldIsNotDead DEF Robs
    <3> QED BY <1>3, <3>1 DEF HRemove, Remove, Go, HTypeOK, TypeOK, HeldMeansFile, Held
  <2> QED BY <2>1, <2>2
<1>4. ASSUME ~robbed, NEW p \in Pids, HOther(p) PROVE HeldMeansFile'
  <2> SUFFICES ASSUME NEW q \in Pids
               PROVE  /\ pc'[q] = "write" => file' = [maker |-> q, text |-> Empty]
                      /\ pc'[q] \in Held => file' = [maker |-> q, text |-> q]
    BY DEF HeldMeansFile
  <2>0. /\ pc[q] = "write" => file = [maker |-> q, text |-> Empty]
        /\ pc[q] \in Held => file = [maker |-> q, text |-> q]
    BY <1>4 DEF HeldMeansFile
  <2> USE <1>4, <2>0 DEF HTypeOK, TypeOK, Go, Held
  <2>1. CASE \E t \in {"open", "test"} : Start(p, t)
    BY <2>1 DEF Start
  <2>2. CASE Stat(p)
    BY <2>2 DEF Stat
  <2>3. CASE ReadPid(p)
    BY <2>3 DEF ReadPid
  <2>4. CASE Judge(p)
    BY <2>4 DEF Judge
  <2>5. CASE Create(p)
    BY <2>5, NoFileAssumption DEF Create
  <2>6. CASE WritePid(p)
    BY <2>6, NoFileAssumption DEF WritePid, Mine, HeldMeansFile
  <2>7. CASE OpenPort(p) \/ ClosePort(p)
    BY <2>7 DEF OpenPort, ClosePort
  <2>8. CASE TestOpen(p) \/ TestDone(p) \/ TestClose(p)
    BY <2>8 DEF TestOpen, TestDone, TestClose
  <2>9. CASE CheckPid(p)
    BY <2>9 DEF CheckPid, AfterUnlock
  <2>10. CASE Unlink(p)
    <3>1. file = [maker |-> p, text |-> p]
      BY <2>10 DEF Unlink, HeldMeansFile
    <3> QED BY <2>10, <3>1 DEF Unlink, AfterUnlock
  <2>11. CASE Die(p)
    BY <2>11 DEF Die
  <2> QED BY <2>1, <2>2, <2>3, <2>4, <2>5, <2>6, <2>7, <2>8, <2>9, <2>10, <2>11
          DEF HOther, Other
<1> QED BY <1>1, <1>2, <1>3, <1>4 DEF HNext, HTypeOK

(* Until a living program's lock is removed as stale, who holds the lock   *)
(* is who the lock file names (SerialImp.c, fhs_lock, fhs_unlock).         *)
THEOREM LockFileNamesHolder == HSpec => []HeldMeansFile
  BY InitTyped, NextTyped, InitHeld, NextHeld, PTL DEF HSpec

(* Hence the port has one user at most until then (INSTALL, line 646).     *)
THEOREM ExclusionUntilRobbed == HSpec => []OneUserUntilRobbed
<1>1. HeldMeansFile => OneUserUntilRobbed
  BY DEF HeldMeansFile, OneUserUntilRobbed, OneUser, Accessing, Held
<1> QED BY <1>1, LockFileNamesHolder, PTL

-----------------------------------------------------------------------------
(***************************************************************************)
(* OpenMeansLocked is inductive together with HeldMeansFile and with where *)
(* a program may have a descriptor: not when it is dead, and not when it   *)
(* unlocks a port it has opened rather than probed.                        *)
(***************************************************************************)
DescriptorPlace ==
  \A p \in Pids :
    /\ pc[p] = "dead" => p \notin opened
    /\ pc[p] = "probing" => task[p] = "test"
    /\ pc[p] \in {"check", "unlink"} /\ task[p] = "open" => p \notin opened

LEMMA InitDescriptors == HInit => DescriptorPlace /\ OpenMeansLocked
  BY DEF HInit, Init, DescriptorPlace, OpenMeansLocked

LEMMA NextPlace == HTypeOK /\ DescriptorPlace /\ [HNext]_hvars => DescriptorPlace'
<1> SUFFICES ASSUME HTypeOK, DescriptorPlace, [HNext]_hvars, NEW q \in Pids
             PROVE  /\ pc'[q] = "dead" => q \notin opened'
                    /\ pc'[q] = "probing" => task'[q] = "test"
                    /\ pc'[q] \in {"check", "unlink"} /\ task'[q] = "open"
                         => q \notin opened'
  BY DEF DescriptorPlace
<1> USE DEF HTypeOK, TypeOK, DescriptorPlace, Go
<1>1. CASE UNCHANGED hvars
  BY <1>1 DEF hvars, vars
<1>2. ASSUME NEW p \in Pids, HRemove(p)
      PROVE  /\ pc'[q] \in {pc[q], "idle", "create"}
             /\ task' = task /\ opened' = opened
  BY <1>2 DEF HRemove, Remove
<1>3. ASSUME NEW p \in Pids, HOther(p)
      PROVE  /\ pc'[q] = "dead" => q \notin opened'
             /\ pc'[q] = "probing" => task'[q] = "test"
             /\ pc'[q] \in {"check", "unlink"} /\ task'[q] = "open" => q \notin opened'
  <2> USE <1>3
  <2>1. CASE \E t \in {"open", "test"} : Start(p, t)
    BY <2>1 DEF Start
  <2>2. CASE Stat(p) \/ ReadPid(p) \/ Judge(p)
    BY <2>2 DEF Stat, ReadPid, Judge
  <2>3. CASE Create(p) \/ WritePid(p)
    BY <2>3 DEF Create, WritePid
  <2>4. CASE OpenPort(p) \/ ClosePort(p)
    BY <2>4 DEF OpenPort, ClosePort
  <2>5. CASE TestOpen(p) \/ TestDone(p) \/ TestClose(p)
    BY <2>5 DEF TestOpen, TestDone, TestClose
  <2>6. CASE CheckPid(p) \/ Unlink(p)
    BY <2>6 DEF CheckPid, Unlink, AfterUnlock
  <2>7. CASE Die(p)
    BY <2>7 DEF Die
  <2> QED BY <2>1, <2>2, <2>3, <2>4, <2>5, <2>6, <2>7 DEF HOther, Other
<1> QED BY <1>1, <1>2, <1>3 DEF HNext

LEMMA NextDescriptors ==
  HTypeOK /\ HeldMeansFile /\ DescriptorPlace /\ OpenMeansLocked /\ [HNext]_hvars
    => OpenMeansLocked'
<1> SUFFICES ASSUME HTypeOK, HeldMeansFile, DescriptorPlace, OpenMeansLocked, [HNext]_hvars
             PROVE  OpenMeansLocked'
  OBVIOUS
<1>1. CASE UNCHANGED hvars
  BY <1>1 DEF hvars, vars, OpenMeansLocked
<1>2. CASE robbed
  BY <1>2 DEF HNext, HRemove, HOther, OpenMeansLocked, hvars
<1>3. ASSUME ~robbed, NEW p \in Pids, HRemove(p) PROVE OpenMeansLocked'
  <2>1. CASE Robs(p)
    BY <1>3, <2>1 DEF HRemove, OpenMeansLocked
  <2>2. ASSUME ~Robs(p), NEW q \in opened', pc'[q] # "closing" PROVE FALSE
    <3>1. q \in Pids /\ q \in opened /\ pc[q] # "closing"
      BY <1>3, <2>2 DEF HRemove, Remove, Go, HTypeOK, TypeOK
    <3>2. file = [maker |-> q, text |-> q]
      BY <1>3, <3>1 DEF OpenMeansLocked
    <3>3. file # NoFile /\ file.maker = q
      BY <3>1, <3>2, NoFileAssumption
    <3> QED BY <2>2, <3>1, <3>3 DEF Robs, Dead, DescriptorPlace
  <2> QED BY <2>1, <2>2 DEF OpenMeansLocked
<1>4. ASSUME ~robbed, NEW p \in Pids, HOther(p) PROVE OpenMeansLocked'
  <2> SUFFICES ASSUME NEW q \in opened', pc'[q] # "closing"
               PROVE  file' = [maker |-> q, text |-> q]
    BY DEF OpenMeansLocked
  <2>0. /\ q \in Pids
        /\ q \in opened /\ pc[q] # "closing" => file = [maker |-> q, text |-> q]
    <3>1. HTypeOK'
      BY NextTyped
    <3> QED BY <1>4, <3>1 DEF OpenMeansLocked, HTypeOK, TypeOK
  <2>00. /\ pc[p] = "write" => file = [maker |-> p, text |-> Empty]
         /\ pc[p] \in Held => file = [maker |-> p, text |-> p]
    BY <1>4 DEF HeldMeansFile
  <2> USE <1>4, <2>0 DEF HTypeOK, TypeOK, Go
  <2>1. CASE \E t \in {"open", "test"} : Start(p, t)
    BY <2>1 DEF Start
  <2>2. CASE Stat(p) \/ ReadPid(p) \/ Judge(p)
    BY <2>2 DEF Stat, ReadPid, Judge
  <2>3. CASE Create(p)
    BY <2>3, NoFileAssumption DEF Create
  <2>4. CASE WritePid(p)
    <3>1. [maker |-> q, text |-> q] # [maker |-> p, text |-> Empty]
      BY DistinctAssumption DEF Number
    <3> QED BY <2>00, <2>4, <3>1 DEF WritePid
  <2>5. CASE OpenPort(p) \/ ClosePort(p)
    BY <2>00, <2>5 DEF OpenPort, ClosePort, Held
  <2>6. CASE TestOpen(p)
    BY <2>00, <2>6 DEF TestOpen, Held
  <2>7. CASE TestDone(p) \/ TestClose(p)
    BY <2>7 DEF TestDone, TestClose
  <2>8. CASE CheckPid(p)
    BY <2>8 DEF CheckPid, AfterUnlock
  <2>9. CASE Unlink(p)
    <3>1. file = [maker |-> p, text |-> p] /\ pc[p] = "unlink" /\ opened' = opened
      BY <2>00, <2>9 DEF Unlink, Held
    <3>2. q = p => task[p] = "test" /\ pc'[p] = "closing"
      BY <2>9, <3>1 DEF Unlink, AfterUnlock, DescriptorPlace
    <3>3. q # p => pc'[q] = pc[q] /\ file = [maker |-> q, text |-> q]
      BY <2>9, <3>1 DEF Unlink
    <3>4. q # p => q = p
      BY <3>1, <3>3
    <3> QED BY <3>2, <3>4
  <2>10. CASE Die(p)
    BY <2>10 DEF Die
  <2> QED BY <2>1, <2>2, <2>3, <2>4, <2>5, <2>6, <2>7, <2>8, <2>9, <2>10
          DEF HOther, Other
<1> QED BY <1>1, <1>2, <1>3, <1>4 DEF HNext

(* Until a living program's lock is removed, every descriptor of the port  *)
(* is under its owner's lock, but for the one testRead is about to close   *)
(* (RXTXPort.open, line 687; testRead, line 4472).                         *)
THEOREM DescriptorsAreLocked == HSpec => []OpenMeansLocked
  BY InitTyped, NextTyped, InitHeld, NextHeld, InitDescriptors, NextPlace, NextDescriptors,
     PTL DEF HSpec

-----------------------------------------------------------------------------
(***************************************************************************)
(* As long as nobody has died and no empty file was misread, every pid     *)
(* that is read is that of a running program, and nothing is removed.      *)
(***************************************************************************)
NothingStale ==
  Dead = {} /\ ~misread =>
    /\ ~robbed
    /\ \A p \in Pids : /\ pc[p] # "remove"
                       /\ pc[p] = "judge" => seen[p] \in Pids \cup Others

LEMMA DeadStayDead == HTypeOK /\ [HNext]_hvars => Dead \subseteq Dead'
<1> SUFFICES ASSUME HTypeOK, [HNext]_hvars, NEW q \in Dead PROVE pc'[q] = "dead"
  BY DEF Dead
<1>0. q \in Pids /\ pc[q] = "dead" /\ pc \in [Pids -> PC]
  BY DEF Dead, HTypeOK, TypeOK
<1>1. CASE UNCHANGED hvars
  BY <1>0, <1>1 DEF hvars, vars
<1>2. ASSUME NEW p \in Pids, HRemove(p) PROVE pc'[q] = "dead"
  BY <1>0, <1>2 DEF HRemove, Remove, Go
<1>3. ASSUME NEW p \in Pids, HOther(p) PROVE pc'[q] = "dead"
  BY <1>0, <1>3
     DEF HOther, Other, Start, Stat, ReadPid, Judge, Create, WritePid, OpenPort, ClosePort,
         TestOpen, TestDone, TestClose, CheckPid, Unlink, Die, Go
<1> QED BY <1>1, <1>2, <1>3 DEF HNext

LEMMA NextNothingStale == HTypeOK /\ NothingStale /\ [HNext]_hvars => NothingStale'
<1> SUFFICES ASSUME HTypeOK, NothingStale, [HNext]_hvars, Dead' = {}, ~misread'
             PROVE  /\ ~robbed'
                    /\ \A p \in Pids : /\ pc'[p] # "remove"
                                       /\ pc'[p] = "judge" => seen'[p] \in Pids \cup Others
  BY DEF NothingStale
<1>0. Dead = {} /\ ~misread
  <2>1. Dead = {}
    BY DeadStayDead
  <2>2. ~misread
    BY DEF HNext, HRemove, HOther, hvars
  <2> QED BY <2>1, <2>2
<1>00. /\ ~robbed
       /\ \A p \in Pids : /\ pc[p] # "remove"
                          /\ pc[p] = "judge" => seen[p] \in Pids \cup Others
  BY <1>0 DEF NothingStale
<1> USE <1>00 DEF HTypeOK, TypeOK, Go
<1>1. CASE UNCHANGED hvars
  BY <1>1 DEF hvars, vars
<1>2. ASSUME NEW p \in Pids, HRemove(p) PROVE FALSE
  BY <1>2 DEF HRemove, Remove
<1>3. ASSUME NEW p \in Pids, HOther(p)
      PROVE  /\ ~robbed'
             /\ \A q \in Pids : /\ pc'[q] # "remove"
                                /\ pc'[q] = "judge" => seen'[q] \in Pids \cup Others
  <2>0. ~robbed' /\ Other(p)
    BY <1>3 DEF HOther
  <2>1. CASE \E t \in {"open", "test"} : Start(p, t)
    BY <2>0, <2>1 DEF Start
  <2>2. CASE Stat(p)
    BY <2>0, <2>2 DEF Stat
  <2>3. CASE ReadPid(p)
    <3>1. CASE pc'[p] = "judge"
      <4>1. file # NoFile /\ file \in LockFile /\ pc[p] = "read" /\ seen'[p] \in Contents
        BY <2>3, <3>1 DEF ReadPid
      <4>2. seen'[p] \in Pids \cup Others
        <5>1. CASE file.text = Empty
          <6>1. ~NotRunning(seen'[p])
            BY <1>3, <3>1, <4>1, <5>1 DEF HOther, Misreads
          <6>2. seen'[p] \in Number
            BY <4>1, <5>1, GarbageAssumption DEF Contents
          <6> QED BY <6>1, <6>2 DEF NotRunning, Number
        <5>2. CASE file.text # Empty
          BY <4>1, <5>2 DEF Contents, LockFile
        <5> QED BY <5>1, <5>2
      <4> QED BY <2>0, <2>3, <4>2 DEF ReadPid
    <3>2. CASE pc'[p] # "judge"
      BY <2>0, <2>3, <3>2 DEF ReadPid
    <3> QED BY <3>1, <3>2
  <2>4. CASE Judge(p)
    <3>1. seen[p] \in Pids \cup Others /\ ~NotRunning(seen[p])
      BY <1>0, <2>4, DistinctAssumption DEF Judge, NotRunning
    <3> QED BY <2>0, <2>4, <3>1 DEF Judge
  <2>5. CASE Create(p) \/ WritePid(p)
    BY <2>0, <2>5 DEF Create, WritePid
  <2>6. CASE OpenPort(p) \/ ClosePort(p) \/ TestOpen(p) \/ TestDone(p) \/ TestClose(p)
    BY <2>0, <2>6 DEF OpenPort, ClosePort, TestOpen, TestDone, TestClose
  <2>7. CASE CheckPid(p) \/ Unlink(p)
    BY <2>0, <2>7 DEF CheckPid, Unlink, AfterUnlock
  <2>8. CASE Die(p)
    BY <2>0, <2>8 DEF Die, Dead
  <2> QED BY <2>0, <2>1, <2>2, <2>3, <2>4, <2>5, <2>6, <2>7, <2>8 DEF Other
<1> QED BY <1>1, <1>2, <1>3 DEF HNext

(* Two programs can have the port at once only when one has died before or *)
(* an empty lock file was taken for a stale one, for any number of them    *)
(* and whatever the order of their system calls (SerialImp.c, fhs_lock).   *)
THEOREM ExclusionUntilStale == HSpec => []OneUserUntilStale
<1>1. HInit => NothingStale
  BY DEF HInit, Init, NothingStale
<1>2. NothingStale /\ OneUserUntilRobbed => OneUserUntilStale
  BY DEF NothingStale, OneUserUntilRobbed, OneUserUntilStale
<1> QED BY <1>1, <1>2, InitTyped, NextTyped, NextNothingStale, ExclusionUntilRobbed, PTL
        DEF HSpec
=============================================================================
