------------------------- MODULE ServoPipeline_proof -------------------------
(***************************************************************************)
(* Proofs for every ring size, set of positions and capacity of the        *)
(* queues.  First about ArduinoManager alone: what the timer's thread      *)
(* never meets, that the command of every scan lies within what the frames *)
(* reported while it ran, and that ring, scan and write are a sliding      *)
(* average.  Then about the whole path to the servo: until a byte is lost  *)
(* the line is a channel of whole commands.                                *)
(***************************************************************************)
EXTENDS ArduinoManagerHistory, ServoPipeline, SequenceTheorems, WellFoundedInduction, TLAPS

(***************************************************************************)
(* The mean of a non-empty collection of positive entries is a positive    *)
(* natural, and its line is a sequence of bytes.                           *)
(***************************************************************************)
LEMMA MeanIsNat ==
  ASSUME NEW t \in Nat, NEW n \in Nat, n > 0
  PROVE  t \div n \in Nat
  OBVIOUS

LEMMA NewlineIsByte == NL \in Byte
  BY DEF Byte

LEMMA LineType ==
  ASSUME NEW v \in Nat, v <= MaxAngle
  PROVE  Line(v) \in Seq(Byte)
<1>1. CASE v < 10
  BY <1>1 DEF Line, Decimal, Byte, Digit, NL
<1>2. CASE v >= 10 /\ v < 100
  <2>1. v \div 10 \in Digit /\ v % 10 \in Digit
    BY <1>2 DEF Digit
  <2>2. <<v \div 10, v % 10>> \in Seq(Byte)
    BY <2>1 DEF Byte
  <2> QED BY <1>2, <2>2, NewlineIsByte, AppendProperties DEF Line, Decimal
<1>3. CASE v >= 100
  <2>1. v \div 100 \in Digit /\ (v \div 10) % 10 \in Digit /\ v % 10 \in Digit
    BY <1>3 DEF Digit, MaxAngle
  <2>2. <<v \div 100, (v \div 10) % 10, v % 10>> \in Seq(Byte)
    BY <2>1 DEF Byte
  <2> QED BY <1>3, <2>2, NewlineIsByte, AppendProperties DEF Line, Decimal
<1> QED BY <1>1, <1>2, <1>3

LEMMA CommandType ==
  ASSUME total \in Nat, count \in Nat, count > 0
  PROVE  Command \in 0..MaxAngle
  BY MeanIsNat DEF Command, Capped, MaxAngle

LEMMA InitTyped == Init => TypeOK
<1> SUFFICES ASSUME Init PROVE TypeOK
  OBVIOUS
<1>1. unsent \in Seq(Byte) /\ wire \in Seq(Byte)
  BY EmptySeq DEF Init
<1>2. positions \in [Index -> Nat] /\ nextPosition \in Index /\ slot \in 0..Slots
  BY SlotsAssumption DEF Init, Index
<1> QED BY <1>1, <1>2 DEF Init, TypeOK

LEMMA NextTyped == TypeOK /\ [Next]_vars => TypeOK'
<1> SUFFICES ASSUME TypeOK, [Next]_vars PROVE TypeOK'
  OBVIOUS
<1> USE SlotsAssumption, PositionsAssumption DEF TypeOK, Index,
        mainVars, ringVars, scanVars, linkVars
<1>1. CASE InitTimer
  BY <1>1 DEF InitTimer
<1>2. CASE NewHandler
  BY <1>2 DEF NewHandler
<1>3. CASE OpenPort
  BY <1>3 DEF OpenPort
<1>4. CASE InitializeFails
  BY <1>4 DEF InitializeFails
<1>5. CASE Enable
  BY <1>5 DEF Enable
<1>6. ASSUME NEW p \in Positions, UpdatePosition(p)
      PROVE  TypeOK'
  BY <1>6 DEF UpdatePosition
<1>7. CASE StreamEnds
  BY <1>7 DEF StreamEnds
<1>8. CASE BeginScan
  BY <1>8 DEF BeginScan
<1>9. CASE ReadSlot
  BY <1>9 DEF ReadSlot
<1>10. CASE SkipSend
  BY <1>10 DEF SkipSend, TaskEnds
<1>11. CASE SendData
  <2>1. ASSUME count > 0 PROVE Line(Command) \in Seq(Byte)
    <3>1. Command \in 0..MaxAngle
      BY <2>1, CommandType
    <3>2. Command \in Nat /\ Command <= MaxAngle
      BY <3>1 DEF MaxAngle
    <3> QED BY <3>2, LineType
  <2> QED BY <1>11, <2>1 DEF SendData
<1>12. CASE TakeByte
  BY <1>12 DEF TakeByte
<1>13. CASE WriteReturns
  BY <1>13 DEF WriteReturns, TaskEnds
<1>14. CASE ShortWrite
  BY <1>14 DEF ShortWrite, TaskEnds
<1>15. CASE WriteFails
  BY <1>15 DEF WriteFails, TaskEnds
<1>16. CASE Unplug
  BY <1>16 DEF Unplug
<1>17. CASE Transmit
  BY <1>17 DEF Transmit
<1>18. CASE UNCHANGED vars
  BY <1>18 DEF vars
<1> QED BY <1>1, <1>2, <1>3, <1>4, <1>5, <1>6, <1>7, <1>8, <1>9, <1>10,
           <1>11, <1>12, <1>13, <1>14, <1>15, <1>16, <1>17, <1>18
        DEF Next, Main, Timer

(***************************************************************************)
(* Type correctness of ArduinoManager.                                     *)
(***************************************************************************)
THEOREM TypeCorrect == Spec => []TypeOK
  BY InitTyped, NextTyped, PTL DEF Spec

-----------------------------------------------------------------------------
(***************************************************************************)
(* Why the timer may run before the handler and the port exist: nothing is *)
(* recorded until `enabled` is set, at the very end of the constructor, so *)
(* until then every scan sums to zero.                                     *)
(***************************************************************************)
SafeInv ==
  /\ TypeOK
  /\ handler <=> (main \notin {"start", "timed"})
  /\ enabled => main \in {"frames", "ended"}
  /\ ~enabled => \A i \in Index : positions[i] = 0
  /\ total > 0 => enabled /\ count > 0
  /\ timer = "write" => total > 0
  /\ timer # "dead"

LEMMA SafeStart == Init => SafeInv
<1> SUFFICES ASSUME Init PROVE SafeInv
  OBVIOUS
<1>1. \A i \in Index : positions[i] = 0
  BY DEF Init
<1> QED BY <1>1, InitTyped DEF Init, SafeInv

LEMMA SafeStep == SafeInv /\ [Next]_vars => SafeInv'
<1> SUFFICES ASSUME SafeInv, [Next]_vars, TypeOK' PROVE SafeInv'
  BY NextTyped DEF SafeInv
<1> USE SlotsAssumption, PositionsAssumption DEF SafeInv, TypeOK, Index,
        mainVars, ringVars, scanVars, linkVars
<1>1. CASE InitTimer
  BY <1>1 DEF InitTimer
<1>2. CASE NewHandler
  BY <1>2 DEF NewHandler
<1>3. CASE OpenPort
  BY <1>3 DEF OpenPort
<1>4. CASE InitializeFails
  BY <1>4 DEF InitializeFails
<1>5. CASE Enable
  BY <1>5 DEF Enable
<1>6. ASSUME NEW p \in Positions, UpdatePosition(p)
      PROVE  SafeInv'
  BY <1>6 DEF UpdatePosition
<1>7. CASE StreamEnds
  BY <1>7 DEF StreamEnds
<1>8. CASE BeginScan
  BY <1>8 DEF BeginScan
<1>9. CASE ReadSlot
  BY <1>9 DEF ReadSlot
<1>10. CASE SkipSend
  BY <1>10 DEF SkipSend, TaskEnds
<1>11. CASE SendData
  BY <1>11 DEF SendData, Motion
<1>12. CASE TakeByte
  BY <1>12 DEF TakeByte
<1>13. CASE WriteReturns
  BY <1>13 DEF WriteReturns, TaskEnds
<1>14. CASE ShortWrite
  BY <1>14 DEF ShortWrite, TaskEnds
<1>15. CASE WriteFails
  BY <1>15 DEF WriteFails, TaskEnds
<1>16. CASE Unplug
  BY <1>16 DEF Unplug
<1>17. CASE Transmit
  BY <1>17 DEF Transmit
<1>18. CASE UNCHANGED vars
  BY <1>18 DEF vars
<1> QED BY <1>1, <1>2, <1>3, <1>4, <1>5, <1>6, <1>7, <1>8, <1>9, <1>10,
           <1>11, <1>12, <1>13, <1>14, <1>15, <1>16, <1>17, <1>18
        DEF Next, Main, Timer

LEMMA SafeAlways == Spec => []SafeInv
  BY SafeStart, SafeStep, PTL DEF Spec

(***************************************************************************)
(* The timer's thread survives: sendData never divides by a count of zero  *)
(* and never calls through a handler that is null.                         *)
(***************************************************************************)
THEOREM TimerIsSafe == Spec => []TimerSurvives
<1>1. SafeInv => TimerSurvives
  BY DEF SafeInv, TimerSurvives
<1> QED BY <1>1, SafeAlways, PTL

(***************************************************************************)
(* It writes only to a port whose initialize() returned true, though the   *)
(* timer runs before there is one.                                         *)
(***************************************************************************)
THEOREM OnlyReadyPortsAreWritten == Spec => []WriteOnlyWhenEnabled
<1>1. SafeInv => WriteOnlyWhenEnabled
  BY DEF SafeInv, WriteOnlyWhenEnabled
<1> QED BY <1>1, SafeAlways, PTL

-----------------------------------------------------------------------------
(***************************************************************************)
(* Integer division by a positive number, the only fact about \div used.   *)
(***************************************************************************)
LEMMA Quotient ==
  ASSUME NEW t \in Nat, NEW n \in Nat, n > 0
  PROVE  /\ t \div n \in Nat
         /\ n * (t \div n) <= t
         /\ t < n * ((t \div n) + 1)
  OBVIOUS

LEMMA OneMore ==
  ASSUME NEW n \in Nat, NEW a \in Nat
  PROVE  (n + 1) * a = n * a + a
  OBVIOUS

(***************************************************************************)
(* Where in `recent` the entry of slot i is: the slot about to be          *)
(* overwritten holds the oldest position.                                  *)
(***************************************************************************)
Age(i) == IF i >= nextPosition THEN i - nextPosition + 1
                               ELSE i - nextPosition + 1 + Slots

RingIsRecent == \A i \in Index : positions[i] = recent[Age(i)]

SeenEndsWithRecent == timer = "scan" => seen[Len(seen)] = recent

HistTypeOK ==
  /\ recent \in [1..Slots -> Nat]
  /\ seen \in Seq([1..Slots -> Nat])
  /\ seen # <<>>

(***************************************************************************)
(* Any bound on what was seen bounds the scan's mean: stated without       *)
(* division, as a bound on the sum.                                        *)
(***************************************************************************)
SumBounded ==
  /\ \A lo \in Nat : (\A p \in SeenMotion : lo <= p) => count * lo <= total
  /\ \A hi \in Nat : (\A p \in SeenMotion : p <= hi) => total <= count * hi

HistInv ==
  /\ SafeInv
  /\ HistTypeOK
  /\ RingIsRecent
  /\ SeenEndsWithRecent
  /\ SumBounded

-----------------------------------------------------------------------------
(* The history only observes. *)
LEMMA HistoryStep == HNext => Next
  BY DEF HNext, RecordPosition, LookAtRing, Other, Next, Main, Timer

LEMMA HistoryStart == HInit => HistInv
<1> SUFFICES ASSUME HInit PROVE HistInv
  OBVIOUS
<1> USE SlotsAssumption
<1>1. SafeInv
  BY SafeStart DEF HInit
<1>2. HistTypeOK
  <2>1. recent \in [1..Slots -> Nat]
    BY DEF HInit
  <2> QED BY <2>1 DEF HInit, HistTypeOK
<1>3. RingIsRecent
  <2> SUFFICES ASSUME NEW i \in Index PROVE positions[i] = recent[Age(i)]
    BY DEF RingIsRecent
  <2>1. Age(i) \in 1..Slots
    BY DEF HInit, Init, Age, Index
  <2> QED BY <2>1 DEF HInit, Init
<1>4. SeenEndsWithRecent
  BY DEF HInit, Init, SeenEndsWithRecent
<1>5. SumBounded
  BY DEF HInit, Init, SumBounded
<1> QED BY <1>1, <1>2, <1>3, <1>4, <1>5 DEF HistInv

(***************************************************************************)
(* A recorded position moves every entry one place towards the oldest, and *)
(* nextPosition moves with it.                                             *)
(***************************************************************************)
LEMMA RingAfterRecord ==
  ASSUME HistInv, NEW p \in Positions, RecordPosition(p)
  PROVE  RingIsRecent'
<1> USE SlotsAssumption DEF HistInv, SafeInv, TypeOK, HistTypeOK
<1> SUFFICES ASSUME NEW i \in Index PROVE positions'[i] = recent'[Age(i)']
  BY DEF RingIsRecent, Index
<1>1. /\ nextPosition \in 0..Slots - 1
      /\ nextPosition' = IF nextPosition + 1 >= Slots THEN 0 ELSE nextPosition + 1
      /\ positions' = [positions EXCEPT ![nextPosition] = p]
      /\ recent' = [k \in 1..Slots |-> IF k = Slots THEN p ELSE recent[k + 1]]
  BY DEF RecordPosition, UpdatePosition, Index
<1>2. CASE i = nextPosition
  <2>1. Age(i)' = Slots
    BY <1>1, <1>2 DEF Age, Index
  <2> QED BY <1>1, <1>2, <2>1 DEF Index
<1>3. CASE i # nextPosition
  <2>1. /\ Age(i)' \in 1..Slots - 1
        /\ Age(i) = Age(i)' + 1
    <3>1. i \in 0..Slots - 1 /\ Slots \in Nat
      BY DEF Index
    <3>2. CASE nextPosition + 1 >= Slots
      <4>1. nextPosition' = 0 /\ nextPosition = Slots - 1 /\ i < nextPosition
        BY <1>1, <1>3, <3>1, <3>2
      <4>2. Age(i)' = i + 1 /\ Age(i) = i + 2
        BY <3>1, <4>1 DEF Age
      <4> QED BY <3>1, <4>1, <4>2
    <3>3. CASE ~(nextPosition + 1 >= Slots)
      <4>1. nextPosition' = nextPosition + 1
        BY <1>1, <3>3
      <4>2. CASE i > nextPosition
        <5>1. i >= nextPosition /\ i >= nextPosition + 1
          BY <1>1, <3>1, <4>2
        <5>2. Age(i) = i - nextPosition + 1
          BY <5>1 DEF Age
        <5>3. Age(i)' = i - (nextPosition + 1) + 1
          BY <4>1, <5>1 DEF Age
        <5>4. Age(i)' = i - nextPosition /\ Age(i) = i - nextPosition + 1
          BY <1>1, <3>1, <5>2, <5>3
        <5> QED BY <1>1, <3>1, <4>2, <5>4
      <4>3. CASE i < nextPosition
        <5>1. /\ Age(i)' = i - nextPosition + Slots
              /\ Age(i) = i - nextPosition + Slots + 1
          BY <1>1, <3>1, <4>1, <4>3 DEF Age
        <5> QED BY <1>1, <3>1, <4>3, <5>1
      <4> QED BY <1>1, <1>3, <3>1, <4>2, <4>3
    <3> QED BY <3>2, <3>3
  <2>2. recent'[Age(i)'] = recent[Age(i)]
    BY <1>1, <2>1
  <2>3. positions'[i] = positions[i]
    BY <1>1, <1>3
  <2> QED BY <2>2, <2>3 DEF RingIsRecent
<1> QED BY <1>2, <1>3

(* An entry of a window seen that is not 0 is motion seen, and conversely. *)
LEMMA SeenEntry ==
  ASSUME NEW i \in 1..Len(seen), NEW k \in 1..Slots, seen[i][k] # 0
  PROVE  seen[i][k] \in SeenMotion
  BY DEF SeenMotion

LEMMA SeenFrom ==
  ASSUME NEW p \in SeenMotion
  PROVE  \E i \in 1..Len(seen), k \in 1..Slots : p = seen[i][k] /\ p # 0
  BY DEF SeenMotion

(* Seeing more windows only weakens what a bound has to bound. *)
LEMMA MoreSeen ==
  ASSUME SumBounded, SeenMotion \subseteq SeenMotion',
         UNCHANGED <<total, count>>
  PROVE  SumBounded'
  BY DEF SumBounded

(***************************************************************************)
(* Reading a slot adds a value of the window being read now.               *)
(***************************************************************************)
LEMMA SumAfterRead ==
  ASSUME HistInv, ReadSlot, UNCHANGED histVars
  PROVE  SumBounded'
<1> USE SlotsAssumption DEF HistInv, SafeInv, TypeOK, HistTypeOK
<1> DEFINE q == positions[slot]
<1>1. slot \in Index /\ q \in Nat
  BY DEF ReadSlot, Index
<1>2. q > 0 => q \in SeenMotion
  <2>1. Age(slot) \in 1..Slots
    BY <1>1 DEF Age, Index
  <2>2. q = seen[Len(seen)][Age(slot)]
    BY <1>1 DEF RingIsRecent, SeenEndsWithRecent, ReadSlot
  <2>3. Len(seen) \in 1..Len(seen)
    OBVIOUS
  <2>4. seen[Len(seen)][Age(slot)] # 0
        => seen[Len(seen)][Age(slot)] \in SeenMotion
    BY <2>1, <2>3, SeenEntry
  <2> HIDE DEF q
  <2> QED BY <1>1, <2>2, <2>4
<1>3. SeenMotion' = SeenMotion
  BY DEF SeenMotion, histVars
<1>4. CASE q > 0
  <2>1. total' = total + q /\ count' = count + 1
    BY <1>4 DEF ReadSlot
  <2>2. ASSUME NEW lo \in Nat, \A p \in SeenMotion : lo <= p
        PROVE  count' * lo <= total'
    <3>1. count * lo <= total /\ lo <= q
      BY <2>2, <1>2, <1>4 DEF SumBounded
    <3>2. count' * lo = count * lo + lo
      BY <2>1, OneMore
    <3>3. count * lo \in Nat
      OBVIOUS
    <3> QED BY <3>1, <3>2, <3>3, <2>1, <1>1
  <2>3. ASSUME NEW hi \in Nat, \A p \in SeenMotion : p <= hi
        PROVE  total' <= count' * hi
    <3>1. total <= count * hi /\ q <= hi
      BY <2>3, <1>2, <1>4 DEF SumBounded
    <3>2. count' * hi = count * hi + hi
      BY <2>1, OneMore
    <3>3. count * hi \in Nat
      OBVIOUS
    <3> QED BY <3>1, <3>2, <3>3, <2>1, <1>1
  <2> QED BY <2>2, <2>3, <1>3 DEF SumBounded
<1>5. CASE ~(q > 0)
  <2>1. total' = total /\ count' = count
    BY <1>5 DEF ReadSlot
  <2> QED BY <2>1, <1>3 DEF SumBounded
<1> QED BY <1>4, <1>5

LEMMA HistInvStep == HistInv /\ [HNext]_hvars => HistInv'
<1> SUFFICES ASSUME HistInv, [HNext]_hvars PROVE HistInv'
  OBVIOUS
<1> USE SlotsAssumption, PositionsAssumption
<1>1. SafeInv'
  BY HistoryStep, SafeStep DEF HistInv, hvars
<1>2. ASSUME NEW p \in Positions, RecordPosition(p)
      PROVE  HistInv'
  <2>1. recent' \in [1..Slots -> Nat]
    BY <1>2 DEF RecordPosition, HistInv, HistTypeOK
  <2>2. CASE timer = "scan"
    <3>1. seen' = Append(seen, recent') /\ timer' = "scan"
      BY <1>2, <2>2 DEF RecordPosition, UpdatePosition
    <3> DEFINE W == [1..Slots -> Nat]
    <3>2. /\ seen' \in Seq(W) /\ seen' # <<>>
          /\ seen'[Len(seen')] = recent'
          /\ Len(seen') = Len(seen) + 1
          /\ \A i \in 1..Len(seen) : seen'[i] = seen[i]
      <4>1. seen \in Seq(W) /\ recent' \in W
        BY <2>1 DEF HistInv, HistTypeOK
      <4> HIDE DEF W
      <4> QED BY <3>1, <4>1, AppendProperties
    <3>3. SeenMotion \subseteq SeenMotion'
      <4> SUFFICES ASSUME NEW x \in SeenMotion PROVE x \in SeenMotion'
        OBVIOUS
      <4>1. PICK i \in 1..Len(seen), k \in 1..Slots : x = seen[i][k] /\ x # 0
        BY SeenFrom
      <4>2. Len(seen) \in Nat
        BY DEF HistInv, HistTypeOK
      <4>3. i \in 1..Len(seen')
        BY <3>2, <4>1, <4>2
      <4>4. x = seen'[i][k]
        BY <3>2, <4>1
      <4> QED BY <4>1, <4>3, <4>4 DEF SeenMotion
    <3>4. SumBounded'
      BY <1>2, <3>3, MoreSeen
         DEF HistInv, RecordPosition, UpdatePosition, scanVars
    <3> QED BY <1>1, <1>2, <2>1, <3>2, <3>4, RingAfterRecord
            DEF HistInv, HistTypeOK, SeenEndsWithRecent
  <2>3. CASE timer # "scan"
    <3>1. seen' = seen /\ timer' = timer
      BY <1>2, <2>3 DEF RecordPosition, UpdatePosition
    <3>2. SeenMotion' = SeenMotion
      BY <3>1 DEF SeenMotion
    <3>3. SumBounded'
      BY <1>2, <3>2, MoreSeen
         DEF HistInv, RecordPosition, UpdatePosition, scanVars
    <3> QED BY <1>1, <1>2, <2>1, <2>3, <3>1, <3>3, RingAfterRecord
            DEF HistInv, HistTypeOK, SeenEndsWithRecent
  <2> QED BY <2>2, <2>3
<1>3. CASE LookAtRing
  <2> USE <1>3 DEF LookAtRing, BeginScan, HistInv
  <2>1. HistTypeOK'
    BY DEF HistTypeOK
  <2>2. RingIsRecent'
    BY DEF RingIsRecent, Age, ringVars
  <2>3. SeenEndsWithRecent'
    BY <2>1 DEF SeenEndsWithRecent
  <2>4. SumBounded'
    BY DEF SumBounded
  <2> QED BY <1>1, <2>1, <2>2, <2>3, <2>4
<1>4. CASE Other
  <2>1. /\ UNCHANGED histVars
        /\ UNCHANGED ringVars
        /\ timer' = "scan" => timer = "scan"
    BY <1>4 DEF Other, InitTimer, NewHandler, OpenPort, InitializeFails,
         Enable, StreamEnds, ReadSlot, SkipSend, SendData, TakeByte,
         WriteReturns, ShortWrite, WriteFails, Unplug, Transmit, TaskEnds
  <2>2. HistTypeOK' /\ RingIsRecent' /\ SeenEndsWithRecent'
    BY <2>1 DEF HistInv, HistTypeOK, RingIsRecent, SeenEndsWithRecent, Age,
         histVars, ringVars
  <2>3. SeenMotion' = SeenMotion
    BY <2>1 DEF SeenMotion, histVars
  <2>4. SumBounded'
    <3>1. CASE ReadSlot
      BY <3>1, <2>1, SumAfterRead
    <3>2. CASE total' = 0 /\ count' = 0
      BY <3>2 DEF SumBounded
    <3>3. CASE UNCHANGED <<total, count>>
      BY <3>3, <2>3, MoreSeen DEF HistInv
    <3> QED BY <1>4, <3>1, <3>2, <3>3
            DEF Other, InitTimer, NewHandler, OpenPort, InitializeFails,
              Enable, StreamEnds, SkipSend, SendData, TakeByte, WriteReturns,
              ShortWrite, WriteFails, Unplug, Transmit, TaskEnds, scanVars
  <2> QED BY <1>1, <2>2, <2>4 DEF HistInv
<1>5. CASE UNCHANGED hvars
  <2> USE <1>5 DEF hvars, vars, histVars, ringVars, scanVars, HistInv
  <2>1. HistTypeOK' /\ RingIsRecent' /\ SeenEndsWithRecent'
    BY DEF HistTypeOK, RingIsRecent, SeenEndsWithRecent, Age
  <2>2. SeenMotion' = SeenMotion
    BY DEF SeenMotion
  <2>3. SumBounded'
    BY <2>2, MoreSeen
  <2> QED BY <1>1, <2>1, <2>3
<1> QED BY <1>2, <1>3, <1>4, <1>5 DEF HNext

-----------------------------------------------------------------------------
(***************************************************************************)
(* From bounds on the sum to bounds on the quotient: if everything seen    *)
(* were above (below) the command, so would be the mean.                   *)
(***************************************************************************)
LEMMA BoundsCommand == HistInv => CommandWithinSeen
<1> SUFFICES ASSUME HistInv, timer = "write"
             PROVE  /\ \E p \in SeenMotion : Capped(p) <= Command
                    /\ \E p \in SeenMotion : Command <= p
  BY DEF CommandWithinSeen
<1> DEFINE q == total \div count
<1>1. total \in Nat /\ count \in Nat /\ total > 0 /\ count > 0
  BY DEF HistInv, SafeInv, TypeOK
<1>2. q \in Nat /\ count * q <= total /\ total < count * (q + 1)
  BY <1>1, Quotient
<1>3. SeenMotion \subseteq Nat
  <2> SUFFICES ASSUME NEW p \in SeenMotion PROVE p \in Nat
    OBVIOUS
  <2>1. PICK i \in 1..Len(seen), k \in 1..Slots : p = seen[i][k]
    BY SeenFrom
  <2>2. seen[i] \in [1..Slots -> Nat]
    BY <2>1 DEF HistInv, HistTypeOK
  <2> QED BY <2>1, <2>2
<1>4. Command = Capped(q)
  BY DEF Command
<1> HIDE DEF q
<1>5. \E p \in SeenMotion : p <= q
  <2> SUFFICES ASSUME \A p \in SeenMotion : ~(p <= q) PROVE FALSE
    OBVIOUS
  <2>1. \A p \in SeenMotion : q + 1 <= p
    BY <1>2, <1>3
  <2>2. count * (q + 1) <= total
    BY <1>2, <2>1 DEF HistInv, SumBounded
  <2>3. count * (q + 1) \in Nat
    BY <1>1, <1>2
  <2> QED BY <1>1, <1>2, <2>2, <2>3
<1>6. \E p \in SeenMotion : q <= p
  <2> SUFFICES ASSUME \A p \in SeenMotion : ~(q <= p) PROVE FALSE
    OBVIOUS
  <2>1. q > 0
    <3>1. PICK p \in SeenMotion : p <= q
      BY <1>5
    <3> QED BY <3>1, <1>2, <1>3
  <2>2. q - 1 \in Nat /\ \A p \in SeenMotion : p <= q - 1
    BY <1>2, <1>3, <2>1
  <2>3. total <= count * (q - 1)
    BY <2>2 DEF HistInv, SumBounded
  <2>4. count * q = count * (q - 1) + count
    BY <1>1, <1>2
  <2>5. count * q \in Nat /\ count * (q - 1) \in Nat
    BY <1>1, <1>2, <2>2
  <2> QED BY <1>1, <1>2, <2>3, <2>4, <2>5
<1>7. \E p \in SeenMotion : Capped(p) <= Command
  <2>1. PICK p \in SeenMotion : p <= q
    BY <1>5
  <2> QED BY <2>1, <1>2, <1>3, <1>4 DEF Capped, MaxAngle
<1>8. \E p \in SeenMotion : Command <= p
  <2>1. PICK p \in SeenMotion : q <= p
    BY <1>6
  <2> QED BY <2>1, <1>2, <1>3, <1>4 DEF Capped, MaxAngle
<1> QED BY <1>7, <1>8

(***************************************************************************)
(* Every command lies between two positions reported in the last Slots     *)
(* frames before, or during, the scan that produced it.                    *)
(***************************************************************************)
THEOREM CommandsFollowMotion == HSpec => []CommandWithinSeen
  BY HistoryStart, HistInvStep, BoundsCommand, PTL DEF HSpec

-----------------------------------------------------------------------------
(* Induction over an initial part of the naturals, from the least element  *)
(* at which it would fail.                                                 *)
LEMMA LeastElement ==
  ASSUME NEW T, T \subseteq Nat, T # {}
  PROVE  \E n \in T : \A m \in T : n <= m
<1>1. PICK n \in T : \A m \in T : ~ (<<m, n>> \in OpToRel(<, Nat))
  BY NatLessThanWellFounded, WFMin
<1>2. ASSUME NEW m \in T PROVE n <= m
  <2>1. ~ (m < n)
    BY <1>1 DEF OpToRel
  <2> QED BY <2>1
<1> QED BY <1>2

LEMMA Induction ==
  ASSUME NEW n \in Nat, NEW P,
         0 \in P, \A k \in 1..n : k - 1 \in P => k \in P
  PROVE  \A k \in 0..n : k \in P
<1> DEFINE T == (0..n) \ P
<1>1. SUFFICES ASSUME T # {} PROVE FALSE
  OBVIOUS
<1>2. PICK k \in T : \A m \in T : k <= m
  <2>1. T \subseteq Nat  OBVIOUS
  <2> HIDE DEF T
  <2> QED BY <1>1, <2>1, LeastElement
<1>3. k \in 1..n
  OBVIOUS
<1>4. k - 1 \in 0..n /\ ~ (k <= k - 1)
  BY <1>3
<1>5. k - 1 \in P
  BY <1>2, <1>4
<1> QED BY <1>3, <1>5

-----------------------------------------------------------------------------
(***************************************************************************)
(* The sliding average.  Sums of an entry after the other: Partial(f, k) is*)
(* the sum of the first k values of f.                                     *)
(***************************************************************************)
Entries == [1..Slots -> Nat]

IsTotals(g, f, n) ==
  g = [k \in 0..n |-> IF k = 0 THEN 0 ELSE g[k - 1] + f[k]]

Totals(f)     == CHOOSE g : IsTotals(g, f, Slots)
Partial(f, k) == Totals(f)[k]
Marks(f)      == Average!Moved(f)

LEMMA TotalsExist ==
  ASSUME NEW f, NEW n \in Nat
  PROVE  \E g : IsTotals(g, f, n)
<1> DEFINE P == {m \in Nat : \E g : IsTotals(g, f, m)}
<1>1. 0 \in P
  <2>1. IsTotals([k \in 0..0 |-> 0], f, 0)
    BY DEF IsTotals
  <2> QED BY <2>1
<1>2. ASSUME NEW m \in 1..n, m - 1 \in P PROVE m \in P
  <2>1. PICK h : IsTotals(h, f, m - 1)
    BY <1>2
  <2> DEFINE g == [k \in 0..m |-> IF k = m THEN h[m - 1] + f[m] ELSE h[k]]
  <2>2. ASSUME NEW k \in 0..m
        PROVE  g[k] = IF k = 0 THEN 0 ELSE g[k - 1] + f[k]
    <3>1. CASE k = m
      <4>1. m # 0 /\ m - 1 \in 0..m /\ m - 1 # m
        OBVIOUS
      <4> QED BY <3>1, <4>1
    <3>2. CASE k # m
      <4>1. k \in 0..m-1 /\ (k # 0 => k - 1 \in 0..m /\ k - 1 # m)
        BY <3>2
      <4>2. h[k] = IF k = 0 THEN 0 ELSE h[k - 1] + f[k]
        BY <2>1, <4>1 DEF IsTotals
      <4> QED BY <3>2, <4>1, <4>2
    <3> QED BY <3>1, <3>2
  <2>3. g = [k \in 0..m |-> g[k]]
    OBVIOUS
  <2>4. IsTotals(g, f, m)
    <3> HIDE DEF g
    <3> QED BY <2>2, <2>3 DEF IsTotals
  <2> QED BY <2>4
<1>3. n \in P
  <2> HIDE DEF P
  <2> QED BY <1>1, <1>2, Induction
<1> QED BY <1>3

LEMMA PartialSteps ==
  ASSUME NEW f \in Entries
  PROVE  /\ Partial(f, 0) = 0
         /\ \A k \in 1..Slots : Partial(f, k) = Partial(f, k - 1) + f[k]
         /\ \A k \in 0..Slots : Partial(f, k) \in Nat
         /\ Average!Total(f) = Partial(f, Slots)
<1>1. Slots \in Nat /\ 0 \in 0..Slots /\ \A k \in 1..Slots : k \in 0..Slots /\ k # 0
  BY SlotsAssumption
<1>2. IsTotals(Totals(f), f, Slots)
  BY <1>1, TotalsExist DEF Totals
<1>3. Average!Total(f) = Totals(f)[Slots]
  BY DEF Average!Total, Totals, IsTotals
<1>4. /\ Totals(f)[0] = 0
      /\ \A k \in 1..Slots : Totals(f)[k] = Totals(f)[k - 1] + f[k]
  BY <1>1, <1>2 DEF IsTotals
<1>5. \A k \in 0..Slots : Totals(f)[k] \in Nat
  <2> DEFINE P == {k \in 0..Slots : Totals(f)[k] \in Nat}
  <2>1. 0 \in P
    BY <1>1, <1>4
  <2>2. ASSUME NEW k \in 1..Slots, k - 1 \in P PROVE k \in P
    BY <1>1, <1>4, <2>2 DEF Entries
  <2>3. \A k \in 0..Slots : k \in P
    <3> HIDE DEF P
    <3> QED BY <1>1, <2>1, <2>2, Induction
  <2> QED BY <2>3
<1> QED BY <1>3, <1>4, <1>5 DEF Partial

LEMMA MarksTyped ==
  ASSUME NEW f \in Entries
  PROVE  /\ Marks(f) \in Entries
         /\ \A k \in 1..Slots : Marks(f)[k] = IF f[k] > 0 THEN 1 ELSE 0
BY DEF Marks, Average!Moved, Entries

(* One entry more or less: sums up to it are the same, the others differ by*)
(* what the entries differ by.                                             *)
LEMMA SumAfterChange ==
  ASSUME NEW f \in Entries, NEW g \in Entries, NEW j \in 1..Slots,
         \A k \in 1..Slots : k # j => f[k] = g[k]
  PROVE  \A k \in 0..Slots : IF k < j THEN Partial(f, k) = Partial(g, k)
                             ELSE Partial(f, k) + g[j] = Partial(g, k) + f[j]
<1> DEFINE P == {k \in 0..Slots : IF k < j THEN Partial(f, k) = Partial(g, k)
                                  ELSE Partial(f, k) + g[j] = Partial(g, k) + f[j]}
<1>0. Slots \in Nat
  BY SlotsAssumption
<1>1. 0 \in P
  BY <1>0, PartialSteps
<1>2. ASSUME NEW k \in 1..Slots, k - 1 \in P PROVE k \in P
  <2>1. /\ Partial(f, k) = Partial(f, k - 1) + f[k]
        /\ Partial(g, k) = Partial(g, k - 1) + g[k]
        /\ Partial(f, k - 1) \in Nat /\ Partial(g, k - 1) \in Nat
        /\ f[k] \in Nat /\ g[k] \in Nat /\ f[j] \in Nat /\ g[j] \in Nat
    <3>1. k - 1 \in 0..Slots
      BY <1>0
    <3> QED BY <3>1, PartialSteps DEF Entries
  <2>2. CASE k < j
    BY <1>0, <1>2, <2>1, <2>2
  <2>3. CASE k = j
    BY <1>0, <1>2, <2>1, <2>3
  <2>4. CASE k > j
    BY <1>0, <1>2, <2>1, <2>4
  <2> QED BY <2>2, <2>3, <2>4
<1>3. \A k \in 0..Slots : k \in P
  <2> HIDE DEF P
  <2> QED BY <1>0, <1>1, <1>2, Induction
<1> QED BY <1>3

(* A window moved on by one entry. *)
LEMMA SumAfterShift ==
  ASSUME NEW f \in Entries, NEW g \in Entries,
         \A k \in 1..Slots - 1 : g[k] = f[k + 1]
  PROVE  Partial(g, Slots) + f[1] = Partial(f, Slots) + g[Slots]
<1> DEFINE P == {k \in 0..Slots - 1 : Partial(g, k) + f[1] = Partial(f, k + 1)}
<1>0. Slots \in Nat /\ Slots - 1 \in Nat /\ 1 \in 1..Slots /\ Slots \in 1..Slots
  BY SlotsAssumption
<1>1. 0 \in P
  <2>1. Partial(f, 0 + 1) = Partial(f, 0) + f[1] /\ Partial(f, 0) = 0 /\ Partial(g, 0) = 0
    BY <1>0, PartialSteps
  <2> QED BY <1>0, <2>1 DEF Entries
<1>2. ASSUME NEW k \in 1..Slots - 1, k - 1 \in P PROVE k \in P
  <2>1. /\ Partial(g, k) = Partial(g, k - 1) + g[k]
        /\ Partial(f, k + 1) = Partial(f, k) + f[k + 1]
        /\ Partial(g, k - 1) \in Nat /\ Partial(f, k) \in Nat
        /\ f[1] \in Nat /\ g[k] \in Nat /\ g[k] = f[k + 1]
    <3>1. /\ k \in 1..Slots /\ k + 1 \in 1..Slots /\ (k + 1) - 1 = k
          /\ k - 1 \in 0..Slots /\ k \in 0..Slots
      BY <1>0
    <3>2. Partial(f, k + 1) = Partial(f, (k + 1) - 1) + f[k + 1]
      BY <3>1, PartialSteps
    <3> QED BY <1>0, <3>1, <3>2, PartialSteps DEF Entries
  <2>2. Partial(g, k - 1) + f[1] = Partial(f, k)
    <3>1. (k - 1) + 1 = k
      BY <1>0
    <3> QED BY <1>2, <3>1
  <2> QED BY <2>1, <2>2
<1>3. Slots - 1 \in P
  <2> HIDE DEF P
  <2>1. Slots - 1 \in 0..Slots - 1
    BY <1>0
  <2> QED BY <1>0, <1>1, <1>2, <2>1, Induction
<1>4. Partial(g, Slots - 1) + f[1] = Partial(f, Slots)
  <2>1. (Slots - 1) + 1 = Slots
    BY <1>0
  <2> QED BY <1>3, <2>1
<1>5. /\ Partial(g, Slots) = Partial(g, Slots - 1) + g[Slots]
      /\ Partial(g, Slots - 1) \in Nat /\ f[1] \in Nat /\ g[Slots] \in Nat
  <2>1. Slots - 1 \in 0..Slots
    BY <1>0
  <2> QED BY <1>0, <2>1, PartialSteps DEF Entries
<1> QED BY <1>4, <1>5

(* A sum holds every entry that was added. *)
LEMMA SumHoldsEntries ==
  ASSUME NEW f \in Entries, NEW j \in 1..Slots
  PROVE  f[j] <= Partial(f, Slots)
<1> DEFINE P == {k \in 0..Slots : j <= k => f[j] <= Partial(f, k)}
<1>0. Slots \in Nat
  BY SlotsAssumption
<1>1. 0 \in P
  BY <1>0
<1>2. ASSUME NEW k \in 1..Slots, k - 1 \in P PROVE k \in P
  <2>1. /\ Partial(f, k) = Partial(f, k - 1) + f[k]
        /\ Partial(f, k - 1) \in Nat /\ f[k] \in Nat /\ f[j] \in Nat
    <3>1. k - 1 \in 0..Slots
      BY <1>0
    <3> QED BY <3>1, PartialSteps DEF Entries
  <2> QED BY <1>0, <1>2, <2>1
<1>3. \A k \in 0..Slots : k \in P
  <2> HIDE DEF P
  <2> QED BY <1>0, <1>1, <1>2, Induction
<1> QED BY <1>0, <1>3

LEMMA SameSums ==
  ASSUME NEW f \in Entries, NEW g \in Entries, NEW n \in 0..Slots,
         \A k \in 1..n : f[k] = g[k]
  PROVE  Partial(f, n) = Partial(g, n)
<1> DEFINE P == {k \in 0..n : Partial(f, k) = Partial(g, k)}
<1>0. Slots \in Nat /\ n \in Nat
  BY SlotsAssumption
<1>1. 0 \in P
  BY <1>0, PartialSteps
<1>2. ASSUME NEW k \in 1..n, k - 1 \in P PROVE k \in P
  <2>1. k \in 1..Slots
    BY <1>0
  <2>2. Partial(f, k) = Partial(f, k - 1) + f[k] /\ Partial(g, k) = Partial(g, k - 1) + g[k]
    BY <2>1, PartialSteps
  <2> QED BY <1>2, <2>2
<1>3. n \in P
  <2> HIDE DEF P
  <2>1. n \in 0..n
    BY <1>0
  <2> QED BY <1>0, <1>1, <1>2, <2>1, Induction
<1> QED BY <1>3

-----------------------------------------------------------------------------
(* The ring in the order in which a scan reads it, and the same window in  *)
(* the order of age: the sums agree.                                       *)
Ring == [k \in 1..Slots |-> positions[k - 1]]

SumsAgree(f, g) ==
  /\ Partial(f, Slots) = Partial(g, Slots)
  /\ Partial(Marks(f), Slots) = Partial(Marks(g), Slots)

RingSums == SumsAgree(Ring, recent)

(* Until a second position is recorded during a scan, what it has read is  *)
(* the beginning of one of the at most two rings there were, and it will   *)
(* read the rest of that ring.                                             *)
Reads(r, i) ==
  /\ SumsAgree(r, seen[i])
  /\ total = Partial(r, slot) /\ count = Partial(Marks(r), slot)
  /\ \A k \in slot + 1..Slots : r[k] = Ring[k]
  /\ Len(seen) = 1 => r = Ring

ScanReadsOne ==
  timer = "scan" /\ Len(seen) <= 2 =>
    \E r \in Entries, i \in 1..Len(seen) : Reads(r, i)

NotStarted == main = "start" => timer = "off"

AvgInv == HistInv /\ RingSums /\ ScanReadsOne /\ NotStarted

LEMMA RingTyped ==
  ASSUME TypeOK
  PROVE  /\ Ring \in Entries
         /\ \A i \in Index : Ring[i + 1] = positions[i]
BY SlotsAssumption DEF TypeOK, Ring, Entries, Index

(* A recorded position replaces the oldest entry of the ring, and of the   *)
(* window: both sums change by the same.                                   *)
LEMMA RecordSums ==
  ASSUME HistInv, RingSums, NEW p \in Positions, RecordPosition(p)
  PROVE  RingSums'
<1> USE SlotsAssumption
<1> DEFINE j == nextPosition + 1
<1>1. /\ TypeOK /\ TypeOK' /\ recent \in Entries /\ recent' \in Entries
      /\ Ring \in Entries /\ Ring' \in Entries /\ j \in 1..Slots /\ p \in Nat
  <2>1. TypeOK /\ TypeOK' /\ recent \in Entries
    BY NextTyped, HistoryStep DEF HistInv, SafeInv, HistTypeOK, Entries, HNext
  <2>2. recent' \in Entries
    BY <2>1, PositionsAssumption DEF RecordPosition, Entries
  <2>3. Ring \in Entries
    BY <2>1, RingTyped
  <2>4. Ring' \in Entries
    <3>1. positions' \in [0..Slots - 1 -> Nat]
      BY <2>1 DEF TypeOK, Index
    <3> QED BY <3>1 DEF Ring, Entries
  <2> QED BY <2>1, <2>2, <2>3, <2>4, PositionsAssumption DEF TypeOK, Index
<1>2. /\ Ring'[j] = p /\ Ring[j] = recent[1]
      /\ \A k \in 1..Slots : k # j => Ring'[k] = Ring[k]
  <2>1. positions' = [positions EXCEPT ![nextPosition] = p]
    BY DEF RecordPosition, UpdatePosition
  <2>2. Ring'[j] = p /\ \A k \in 1..Slots : k # j => Ring'[k] = Ring[k]
    BY <1>1, <2>1 DEF Ring, TypeOK, Index
  <2>3. Age(nextPosition) = 1
    BY <1>1 DEF Age, TypeOK, Index
  <2>4. positions[nextPosition] = recent[1]
    BY <1>1, <2>3 DEF HistInv, RingIsRecent, TypeOK
  <2> QED BY <1>1, <2>2, <2>4, RingTyped DEF TypeOK
<1>3. recent'[Slots] = p /\ \A k \in 1..Slots - 1 : recent'[k] = recent[k + 1]
  BY DEF RecordPosition
<1> HIDE DEF j
<1>4. Partial(Ring', Slots) = Partial(recent', Slots)
  <2>1. Partial(Ring', Slots) + Ring[j] = Partial(Ring, Slots) + Ring'[j]
    <3>1. Slots \in 0..Slots /\ ~(Slots < j)
      BY <1>1
    <3> QED BY <1>1, <1>2, <3>1, SumAfterChange
  <2>2. Partial(recent', Slots) + recent[1] = Partial(recent, Slots) + recent'[Slots]
    BY <1>1, <1>3, SumAfterShift
  <2>3. /\ Partial(Ring', Slots) \in Nat /\ Partial(Ring, Slots) \in Nat
        /\ Partial(recent', Slots) \in Nat /\ Partial(recent, Slots) \in Nat
        /\ recent[1] \in Nat
    <3>1. Slots \in 0..Slots /\ 1 \in 1..Slots
      OBVIOUS
    <3> QED BY <1>1, <3>1, PartialSteps DEF Entries
  <2>4. Partial(Ring, Slots) = Partial(recent, Slots)
    BY DEF RingSums, SumsAgree
  <2> QED BY <1>1, <1>2, <1>3, <2>1, <2>2, <2>3, <2>4
<1>5. Partial(Marks(Ring'), Slots) = Partial(Marks(recent'), Slots)
  <2> DEFINE a == Marks(Ring)
             b == Marks(Ring')
             c == Marks(recent)
             d == Marks(recent')
  <2>0. /\ a \in Entries /\ \A k \in 1..Slots : a[k] = IF Ring[k] > 0 THEN 1 ELSE 0
        /\ b \in Entries /\ \A k \in 1..Slots : b[k] = IF Ring'[k] > 0 THEN 1 ELSE 0
        /\ c \in Entries /\ \A k \in 1..Slots : c[k] = IF recent[k] > 0 THEN 1 ELSE 0
        /\ d \in Entries /\ \A k \in 1..Slots : d[k] = IF recent'[k] > 0 THEN 1 ELSE 0
    BY <1>1, MarksTyped
  <2>1. Partial(a, Slots) = Partial(c, Slots)
    BY DEF RingSums, SumsAgree
  <2> HIDE DEF a, b, c, d
  <2>2. /\ a[j] = c[1] /\ b[j] = d[Slots]
        /\ \A k \in 1..Slots : k # j => b[k] = a[k]
        /\ \A k \in 1..Slots - 1 : d[k] = c[k + 1]
    BY <1>1, <1>2, <1>3, <2>0
  <2>3. Partial(b, Slots) + a[j] = Partial(a, Slots) + b[j]
    <3>1. Slots \in 0..Slots /\ ~(Slots < j)
      BY <1>1
    <3> QED BY <1>1, <2>0, <2>2, <3>1, SumAfterChange
  <2>4. Partial(d, Slots) + c[1] = Partial(c, Slots) + d[Slots]
    BY <2>0, <2>2, SumAfterShift
  <2>5. /\ Partial(a, Slots) \in Nat /\ Partial(b, Slots) \in Nat
        /\ Partial(c, Slots) \in Nat /\ Partial(d, Slots) \in Nat
        /\ c[1] \in Nat /\ d[Slots] \in Nat
    <3>1. Slots \in 0..Slots /\ 1 \in 1..Slots /\ Slots \in 1..Slots
      OBVIOUS
    <3> QED BY <2>0, <3>1, PartialSteps DEF Entries
  <2>6. Partial(b, Slots) = Partial(d, Slots)
    BY <2>1, <2>2, <2>3, <2>4, <2>5
  <2> QED BY <2>6 DEF b, d
<1> QED BY <1>4, <1>5 DEF RingSums, SumsAgree, Marks, Average!Moved, Partial, Totals, IsTotals

LEMMA RecordReads ==
  ASSUME AvgInv, RingSums', NEW p \in Positions, RecordPosition(p)
  PROVE  ScanReadsOne'
<1> USE SlotsAssumption
<1> SUFFICES ASSUME timer' = "scan", Len(seen') <= 2
             PROVE  \E r \in Entries, i \in 1..Len(seen') : Reads(r, i)'
  BY DEF ScanReadsOne, Entries
<1> DEFINE j == nextPosition + 1
<1>1. /\ timer = "scan" /\ seen' = Append(seen, recent') /\ UNCHANGED <<slot, total, count>>
      /\ positions' = [positions EXCEPT ![nextPosition] = p]
  BY DEF RecordPosition, UpdatePosition, scanVars
<1>2. TypeOK /\ TypeOK' /\ HistTypeOK
  BY NextTyped, HistoryStep DEF AvgInv, HistInv, SafeInv, HNext
<1>3. /\ Len(seen) = 1 /\ Len(seen') = 2 /\ seen'[1] = seen[1] /\ seen'[2] = recent'
  <2>1. seen \in Seq(Entries) /\ seen # << >> /\ recent' \in Entries
    BY <1>2, PositionsAssumption DEF HistTypeOK, RecordPosition, Entries
  <2>2. /\ Len(seen') = Len(seen) + 1 /\ Len(seen) \in Nat /\ Len(seen) >= 1
        /\ seen'[Len(seen) + 1] = recent'
        /\ \A k \in 1..Len(seen) : seen'[k] = seen[k]
    BY <1>1, <2>1, AppendProperties
  <2>3. Len(seen) = 1
    <3>1. \A n \in Nat : n >= 1 /\ n + 1 <= 2 => n = 1
      OBVIOUS
    <3>2. Len(seen) + 1 <= 2
      BY <2>2
    <3> QED BY <2>2, <3>1, <3>2
  <2> QED BY <2>2, <2>3
<1>4. PICK r \in Entries : Reads(r, 1)
  BY <1>1, <1>3 DEF AvgInv, ScanReadsOne
<1>5. r = Ring /\ SumsAgree(r, seen[1]) /\ total = Partial(r, slot) /\ count = Partial(Marks(r), slot)
  BY <1>3, <1>4 DEF Reads
<1>6. /\ j \in 1..Slots /\ slot \in 0..Slots /\ Ring' \in Entries
      /\ \A k \in 1..Slots : k # j => Ring'[k] = Ring[k]
  <2>1. nextPosition \in 0..Slots - 1 /\ slot \in 0..Slots
        /\ positions \in [0..Slots - 1 -> Nat] /\ positions' \in [0..Slots - 1 -> Nat]
    BY <1>2 DEF TypeOK, Index
  <2> QED BY <1>1, <2>1 DEF Ring, Entries
<1> HIDE DEF j
<1>7. CASE j <= slot
  <2>1. \A k \in slot + 1..Slots : r[k] = Ring'[k]
    BY <1>5, <1>6, <1>7
  <2>2. Reads(r, 1)'
    BY <1>1, <1>3, <1>5, <2>1 DEF Reads, SumsAgree, Partial, Totals, IsTotals, Marks, Average!Moved
  <2> QED BY <1>3, <2>2
<1>8. CASE slot < j
  <2>1. \A k \in 1..slot : Ring'[k] = Ring[k]
    BY <1>6, <1>8
  <2>2. PICK q \in Entries : q = Ring'
    BY <1>6
  <2>3. total = Partial(q, slot)
    BY <1>5, <1>6, <2>1, <2>2, SameSums
  <2>4. count = Partial(Marks(q), slot)
    <3>1. /\ Marks(r) \in Entries /\ Marks(q) \in Entries
          /\ \A k \in 1..slot : Marks(r)[k] = Marks(q)[k]
      BY <1>5, <1>6, <2>1, <2>2, MarksTyped
    <3> QED BY <1>5, <1>6, <3>1, SameSums
  <2>5. SumsAgree(q, seen[2])'
    BY <1>3, <2>2 DEF RingSums, SumsAgree, Partial, Totals, IsTotals, Marks, Average!Moved
  <2>6. Reads(q, 2)'
    BY <1>1, <1>3, <2>2, <2>3, <2>4, <2>5
       DEF Reads, Partial, Totals, IsTotals, Marks, Average!Moved
  <2> QED BY <1>3, <2>6
<1> QED BY <1>6, <1>7, <1>8 DEF TypeOK

LEMMA ScanReads ==
  ASSUME AvgInv, ReadSlot, UNCHANGED histVars
  PROVE  ScanReadsOne'
<1> USE SlotsAssumption
<1> SUFFICES ASSUME Len(seen) <= 2
             PROVE  \E r \in Entries, i \in 1..Len(seen') : Reads(r, i)'
  BY DEF ScanReadsOne, Entries, histVars
<1>1. /\ seen' = seen /\ Ring' = Ring /\ timer = "scan"
      /\ slot' = slot + 1 /\ slot \in Index
      /\ total' = IF positions[slot] > 0 THEN total + positions[slot] ELSE total
      /\ count' = IF positions[slot] > 0 THEN count + 1 ELSE count
  BY DEF ReadSlot, histVars, ringVars, Ring, AvgInv, HistInv, SafeInv, TypeOK, Index
<1>2. PICK r \in Entries, i \in 1..Len(seen) : Reads(r, i)
  BY <1>1 DEF AvgInv, ScanReadsOne
<1>3. slot + 1 \in 1..Slots /\ (slot + 1) - 1 = slot /\ slot \in 0..Slots /\ slot + 1 \in 0..Slots
  BY <1>1 DEF Index
<1>4. r[slot + 1] = positions[slot] /\ positions[slot] \in Nat
  BY <1>1, <1>2, <1>3, RingTyped DEF Reads, AvgInv, HistInv, SafeInv, TypeOK
<1>5. total' = Partial(r, slot + 1)
  <2>1. Partial(r, slot + 1) = Partial(r, slot) + r[slot + 1] /\ Partial(r, slot) \in Nat
    BY <1>3, PartialSteps
  <2> QED BY <1>1, <1>2, <1>4, <2>1 DEF Reads
<1>6. count' = Partial(Marks(r), slot + 1)
  <2>1. /\ Marks(r) \in Entries
        /\ Marks(r)[slot + 1] = IF r[slot + 1] > 0 THEN 1 ELSE 0
    BY <1>3, MarksTyped
  <2>2. /\ Partial(Marks(r), slot + 1) = Partial(Marks(r), slot) + Marks(r)[slot + 1]
        /\ Partial(Marks(r), slot) \in Nat
    BY <1>3, <2>1, PartialSteps
  <2> QED BY <1>1, <1>2, <1>4, <2>1, <2>2 DEF Reads
<1>7. \A k \in slot' + 1..Slots : r[k] = Ring[k]
  BY <1>1, <1>2, <1>3 DEF Reads
<1>8. Reads(r, i)'
  BY <1>1, <1>2, <1>5, <1>6, <1>7
     DEF Reads, SumsAgree, Partial, Totals, IsTotals, Marks, Average!Moved
<1> QED BY <1>1, <1>8

LEMMA AvgStart == HInit => AvgInv
<1> SUFFICES ASSUME HInit PROVE AvgInv
  OBVIOUS
<1>1. Ring = recent
  BY SlotsAssumption DEF HInit, Init, Ring, Index
<1>2. RingSums
  BY <1>1 DEF RingSums, SumsAgree
<1> QED BY <1>2, HistoryStart DEF AvgInv, ScanReadsOne, NotStarted, HInit, Init

LEMMA AvgStep == AvgInv /\ [HNext]_hvars => AvgInv'
<1> SUFFICES ASSUME AvgInv, [HNext]_hvars PROVE AvgInv'
  OBVIOUS
<1> USE SlotsAssumption
<1>0. HistInv /\ HistInv'
  BY HistInvStep DEF AvgInv
<1>1. ASSUME NEW p \in Positions, RecordPosition(p) PROVE AvgInv'
  <2>1. NotStarted'
    BY <1>1 DEF RecordPosition, UpdatePosition, mainVars, NotStarted
  <2> QED BY <1>0, <1>1, <2>1, RecordSums, RecordReads DEF AvgInv
<1>2. ASSUME UNCHANGED <<recent, positions>> PROVE RingSums'
  BY <1>2 DEF AvgInv, RingSums, SumsAgree, Ring, Partial, Totals, IsTotals, Marks, Average!Moved
<1>3. CASE LookAtRing
  <2>1. RingSums'
    BY <1>2, <1>3 DEF LookAtRing, BeginScan, ringVars
  <2>2. PICK q \in Entries : q = Ring' /\ q = Ring
    BY <1>0, <1>3, RingTyped DEF HistInv, SafeInv, LookAtRing, BeginScan, ringVars, Ring
  <2>3. /\ seen' = <<recent>> /\ Len(seen') = 1 /\ seen'[1] = recent /\ recent' = recent
        /\ slot' = 0 /\ total' = 0 /\ count' = 0
    BY <1>3 DEF LookAtRing, BeginScan
  <2>4. total' = Partial(q, slot') /\ count' = Partial(Marks(q), slot')
    BY <2>3, PartialSteps, MarksTyped
  <2>5. SumsAgree(q, seen[1])'
    BY <2>1, <2>2, <2>3
       DEF RingSums, SumsAgree, Partial, Totals, IsTotals, Marks, Average!Moved
  <2>6. Reads(q, 1)'
    BY <2>2, <2>3, <2>4, <2>5 DEF Reads, Partial, Totals, IsTotals, Marks, Average!Moved
  <2>7. ScanReadsOne'
    BY <2>3, <2>6 DEF ScanReadsOne, Entries
  <2>8. NotStarted'
    BY <1>3 DEF LookAtRing, BeginScan, mainVars, AvgInv, NotStarted
  <2> QED BY <1>0, <2>1, <2>7, <2>8 DEF AvgInv
<1>4. ASSUME UNCHANGED <<recent, seen, positions>>,
             timer' = "scan" => timer = "scan" /\ UNCHANGED scanVars, NotStarted'
      PROVE  AvgInv'
  <2>1. RingSums'
    BY <1>2, <1>4
  <2>2. ScanReadsOne'
    <3> SUFFICES ASSUME timer' = "scan", Len(seen') <= 2
                 PROVE  \E r \in Entries, i \in 1..Len(seen') : Reads(r, i)'
      BY DEF ScanReadsOne, Entries
    <3>1. PICK r \in Entries, i \in 1..Len(seen) : Reads(r, i)
      BY <1>4 DEF AvgInv, ScanReadsOne
    <3>2. slot' = slot /\ total' = total /\ count' = count /\ seen' = seen /\ Ring' = Ring
      BY <1>4 DEF scanVars, Ring
    <3>3. Reads(r, i)'
      BY <3>1, <3>2
         DEF Reads, SumsAgree, Partial, Totals, IsTotals, Marks, Average!Moved
    <3> QED BY <3>2, <3>3
  <2> QED BY <1>0, <1>4, <2>1, <2>2 DEF AvgInv
<1>5. CASE Other
  <2>1. CASE ReadSlot
    <3>1. UNCHANGED <<recent, seen, positions>>
      BY <1>5, <2>1 DEF Other, histVars, ReadSlot, ringVars
    <3>2. NotStarted'
      BY <2>1 DEF ReadSlot, mainVars, AvgInv, NotStarted
    <3> QED BY <1>0, <1>2, <2>1, <3>1, <3>2, ScanReads DEF AvgInv, histVars
  <2>2. CASE ~ReadSlot
    <3>1. UNCHANGED <<recent, seen, positions>>
      BY <1>5 DEF Other, histVars, ringVars, InitTimer, NewHandler, OpenPort, InitializeFails,
           Enable, StreamEnds, ReadSlot, SkipSend, SendData, TakeByte,
           WriteReturns, ShortWrite, WriteFails, Unplug, Transmit
    <3>2. timer' = "scan" => timer = "scan" /\ UNCHANGED scanVars
      BY <1>5, <2>2 DEF Other, InitTimer, NewHandler, OpenPort, InitializeFails,
           Enable, StreamEnds, SkipSend, SendData, TakeByte, TaskEnds,
           WriteReturns, ShortWrite, WriteFails, Unplug, Transmit
    <3>3. NotStarted'
      BY <1>5, <2>2 DEF Other, InitTimer, NewHandler, OpenPort, InitializeFails,
           Enable, StreamEnds, SkipSend, SendData, TakeByte, TaskEnds, mainVars,
           WriteReturns, ShortWrite, WriteFails, Unplug, Transmit, AvgInv, NotStarted
    <3> QED BY <1>4, <3>1, <3>2, <3>3
  <2> QED BY <2>1, <2>2
<1>6. CASE UNCHANGED hvars
  <2>1. NotStarted'
    BY <1>6 DEF hvars, vars, mainVars, AvgInv, NotStarted
  <2> QED BY <1>4, <1>6, <2>1 DEF hvars, vars, histVars, ringVars
<1> QED BY <1>1, <1>3, <1>5, <1>6 DEF HNext

-----------------------------------------------------------------------------
(* The refinement mapping. *)
Window == [k \in 1..Slots |-> positions[(nextPosition + k - 1) % Slots]]
Answer == IF timer = "write" THEN Command ELSE 0

LEMMA Wrapped ==
  ASSUME NEW m \in Nat, NEW n \in Nat, n > 0, m < 2 * n
  PROVE  m % n = IF m < n THEN m ELSE m - n
OBVIOUS

LEMMA WindowIsRecent == HistInv => Window = recent
<1> SUFFICES ASSUME HistInv PROVE Window = recent
  OBVIOUS
<1> USE SlotsAssumption
<1>1. nextPosition \in 0..Slots - 1 /\ recent \in Entries
  BY DEF HistInv, SafeInv, TypeOK, HistTypeOK, Index, Entries
<1>2. ASSUME NEW k \in 1..Slots
      PROVE  positions[(nextPosition + k - 1) % Slots] = recent[k]
  <2> DEFINE m == nextPosition + k - 1
             i == m % Slots
  <2>1. m \in Nat /\ Slots \in Nat /\ Slots > 0 /\ m < 2 * Slots
    BY <1>1
  <2>2. i = IF m < Slots THEN m ELSE m - Slots
    <3> HIDE DEF m
    <3> QED BY <2>1, Wrapped
  <2>3. i \in Index /\ Age(i) = k
    <3> HIDE DEF i
    <3>1. CASE m < Slots
      BY <1>1, <2>2, <3>1 DEF Index, Age
    <3>2. CASE ~(m < Slots)
      BY <1>1, <2>2, <3>2 DEF Index, Age
    <3> QED BY <3>1, <3>2
  <2> QED BY <2>3 DEF HistInv, RingIsRecent
<1> QED BY <1>1, <1>2 DEF Window, Entries

LEMMA WindowStaysRecent == (HistInv => Window = recent)'
  BY WindowIsRecent, PTL

LEMMA AverageOfWindow ==
  ASSUME NEW w \in Entries
  PROVE  /\ Partial(w, Slots) > 0 =>
              Average!Average(w) = Capped(Partial(w, Slots) \div Partial(Marks(w), Slots))
         /\ ~(Partial(w, Slots) > 0) => Average!Average(w) = 0
<1> USE SlotsAssumption
<1>1. Slots \in 0..Slots /\ Partial(w, Slots) \in Nat /\ \A k \in 1..Slots : w[k] \in Nat
  BY PartialSteps DEF Entries
<1>2. /\ Average!Total(w) = Partial(w, Slots)
      /\ Average!Total(Average!Moved(w)) = Partial(Marks(w), Slots)
  BY PartialSteps, MarksTyped DEF Marks
<1>3. (\A k \in 1..Slots : w[k] = 0) <=> ~(Partial(w, Slots) > 0)
  <2>1. ASSUME \A k \in 1..Slots : w[k] = 0 PROVE Partial(w, Slots) = 0
    <3> DEFINE P == {k \in 0..Slots : Partial(w, k) = 0}
    <3>1. 0 \in P
      BY PartialSteps
    <3>2. ASSUME NEW k \in 1..Slots, k - 1 \in P PROVE k \in P
      BY <2>1, <3>2, PartialSteps
    <3>3. Slots \in P
      <4> HIDE DEF P
      <4> QED BY <1>1, <3>1, <3>2, Induction
    <3> QED BY <3>3
  <2>2. ASSUME ~(Partial(w, Slots) > 0), NEW k \in 1..Slots PROVE w[k] = 0
    BY <1>1, <2>2, SumHoldsEntries
  <2> QED BY <1>1, <2>1, <2>2
<1> QED BY <1>2, <1>3 DEF Average!Average, Average!Capped, Capped

(* What a scan that is over sends is an answer. *)
LEMMA CommandAnswers ==
  ASSUME AvgInv, timer = "scan", slot = Slots,
         total > 0 => Command \in 1..MaxAngle /\ CommandWithinSeen'
                      /\ seen' = seen /\ timer' = "write" /\ Command' = Command
  PROVE  (IF total > 0 THEN Command ELSE 0) \in Average!Answers(seen)
<1> USE SlotsAssumption
<1> DEFINE a == IF total > 0 THEN Command ELSE 0
<1>1. CASE Len(seen) <= 2
  <2>1. PICK r \in Entries, i \in 1..Len(seen) : Reads(r, i)
    BY <1>1 DEF AvgInv, ScanReadsOne
  <2>2. seen[i] \in Entries
    BY DEF AvgInv, HistInv, HistTypeOK, Entries
  <2>3. total = Partial(seen[i], Slots) /\ count = Partial(Marks(seen[i]), Slots)
    BY <2>1 DEF Reads, SumsAgree
  <2>4. a = Average!Average(seen[i])
    BY <2>2, <2>3, AverageOfWindow DEF Command
  <2>5. a \in Average!Answers(seen)
    <3> HIDE DEF a
    <3> QED BY <1>1, <2>4 DEF Average!Answers
  <2> QED BY <2>5
<1>2. CASE ~(Len(seen) <= 2)
  <2>1. CASE total > 0
    <3>1. /\ \E p \in SeenMotion : Capped(p) <= Command
          /\ \E p \in SeenMotion : Command <= p
      BY <2>1 DEF CommandWithinSeen, SeenMotion
    <3>2. SeenMotion = Average!ViewedMotion(seen)
      BY DEF SeenMotion, Average!ViewedMotion
    <3> QED BY <1>2, <2>1, <3>1, <3>2 DEF Average!Answers, Average!Capped, Capped
  <2>2. CASE ~(total > 0)
    BY <1>2, <2>2 DEF Average!Answers
  <2> QED BY <2>1, <2>2
<1> QED BY <1>1, <1>2

LEMMA CommandIsMotion ==
  HistInv /\ timer = "write" => Command \in 1..MaxAngle /\ CommandWithinSeen
<1> SUFFICES ASSUME HistInv, timer = "write"
             PROVE  Command \in 1..MaxAngle /\ CommandWithinSeen
  OBVIOUS
<1>1. CommandWithinSeen
  BY BoundsCommand
<1>2. Command \in 0..MaxAngle
  BY CommandType DEF HistInv, SafeInv, TypeOK
<1>3. PICK p \in SeenMotion : Capped(p) <= Command
  BY <1>1 DEF CommandWithinSeen
<1>4. p \in Nat /\ p # 0
  <2>1. PICK i \in 1..Len(seen), k \in 1..Slots : p = seen[i][k] /\ p # 0
    BY SeenFrom
  <2>2. seen[i] \in [1..Slots -> Nat]
    BY <2>1 DEF HistInv, HistTypeOK
  <2> QED BY <2>1, <2>2
<1> QED BY <1>1, <1>2, <1>3, <1>4 DEF Capped, MaxAngle

LEMMA CommandWillBeMotion ==
  (HistInv /\ timer = "write" => Command \in 1..MaxAngle /\ CommandWithinSeen)'
  BY CommandIsMotion, PTL

LEMMA AverageStarts == HInit => Average!AInit
<1> SUFFICES ASSUME HInit PROVE Average!AInit
  OBVIOUS
<1>1. Window = recent
  BY HistoryStart, WindowIsRecent DEF HistInv
<1> QED BY <1>1 DEF HInit, Init, Average!AInit, Window

LEMMA AverageStep ==
  AvgInv /\ AvgInv' /\ [HNext]_hvars => [Average!ANext]_(Average!avars)
<1> SUFFICES ASSUME AvgInv, AvgInv', [HNext]_hvars
             PROVE  Average!ANext \/ UNCHANGED Average!avars
  OBVIOUS
<1> USE SlotsAssumption
<1>0. Window = recent /\ Window' = recent'
  <2>1. Window = recent
    BY WindowIsRecent DEF AvgInv
  <2>2. Window' = recent'
    BY WindowStaysRecent DEF AvgInv
  <2> QED BY <2>1, <2>2
<1>1. ASSUME UNCHANGED <<recent, seen>>,
             (timer' = "scan") = (timer = "scan"), Answer' = Answer
      PROVE  UNCHANGED Average!avars
  BY <1>0, <1>1 DEF Average!avars, Window, Answer
<1>2. ASSUME NEW p \in Positions, RecordPosition(p) PROVE Average!ANext
  <2>1. /\ recent' = [k \in 1..Slots |-> IF k = Slots THEN p ELSE recent[k + 1]]
        /\ seen' = IF timer = "scan" THEN Append(seen, recent') ELSE seen
        /\ timer' = timer /\ Answer' = Answer
    BY <1>2 DEF RecordPosition, UpdatePosition, scanVars, Answer, Command
  <2>2. Average!Report(p)
    BY <1>0, <2>1 DEF Average!Report, Window, Answer
  <2> QED BY <2>2 DEF Average!ANext
<1>3. CASE LookAtRing
  <2>1. /\ timer = "idle" /\ timer' = "scan" /\ seen' = <<recent>> /\ recent' = recent
        /\ Answer = 0 /\ Answer' = 0
    BY <1>3 DEF LookAtRing, BeginScan, Answer
  <2>2. Average!Look
    BY <1>0, <2>1 DEF Average!Look, Window, Answer
  <2> QED BY <2>2 DEF Average!ANext
<1>4. CASE Other
  <2>0. recent' = recent /\ seen' = seen
    BY <1>4 DEF Other, histVars
  <2>1. CASE SkipSend \/ SendData
    <3>1. timer = "scan" /\ slot = Slots /\ timer' # "scan" /\ (Motion <=> total > 0)
      BY <2>1 DEF SkipSend, SendData, TaskEnds, Motion
    <3>2. total > 0 => /\ timer' = "write" /\ Command' = Command
                       /\ Command \in 1..MaxAngle /\ CommandWithinSeen'
      <4> SUFFICES ASSUME total > 0
                   PROVE  /\ timer' = "write" /\ Command' = Command
                          /\ Command \in 1..MaxAngle /\ CommandWithinSeen'
        OBVIOUS
      <4>1. SendData /\ count > 0 /\ handler
        BY <2>1, <3>1 DEF SkipSend, AvgInv, HistInv, SafeInv
      <4>2. timer' = "write" /\ Command' = Command
        BY <4>1 DEF SendData, scanVars, Command
      <4>3. Command' \in 1..MaxAngle /\ CommandWithinSeen'
        BY <4>2, CommandWillBeMotion DEF AvgInv
      <4> QED BY <4>2, <4>3
    <3>3. Answer' = IF total > 0 THEN Command ELSE 0
      <4>1. ~(total > 0) => timer' # "write"
        BY <2>1, <3>1 DEF SkipSend, SendData, TaskEnds
      <4> QED BY <3>2, <4>1 DEF Answer
    <3>4. Answer' \in Average!Answers(seen)
      <4>1. (IF total > 0 THEN Command ELSE 0) \in Average!Answers(seen)
        BY <2>0, <3>1, <3>2, CommandAnswers
      <4> QED BY <3>3, <4>1
    <3>5. Average!Answer
      BY <1>0, <2>0, <3>1, <3>4 DEF Average!Answer, Window, Answer
    <3> QED BY <3>5 DEF Average!ANext
  <2>2. CASE WriteReturns \/ ShortWrite \/ WriteFails
    <3>1. timer = "write" /\ timer' = "idle"
      BY <2>2 DEF WriteReturns, ShortWrite, WriteFails, TaskEnds
    <3>2. Answer # 0 /\ Answer' = 0
      <4>1. Command \in 1..MaxAngle
        BY <3>1, CommandIsMotion DEF AvgInv
      <4> QED BY <3>1, <4>1 DEF Answer
    <3>3. Average!Command
      BY <1>0, <2>0, <3>1, <3>2 DEF Average!Command, Window, Answer
    <3> QED BY <3>3 DEF Average!ANext
  <2>3. CASE InitTimer
    <3>1. timer = "off" /\ timer' = "idle"
      BY <2>3 DEF InitTimer, AvgInv, NotStarted
    <3> QED BY <1>1, <2>0, <3>1 DEF Answer
  <2>4. CASE ReadSlot
    <3>1. timer = "scan" /\ timer' = "scan"
      BY <2>4 DEF ReadSlot
    <3> QED BY <1>1, <2>0, <3>1 DEF Answer
  <2>5. CASE TakeByte \/ NewHandler \/ OpenPort \/ InitializeFails \/ Enable \/ StreamEnds
             \/ Unplug \/ Transmit
    <3>1. timer' = timer /\ Answer' = Answer
      BY <2>5 DEF TakeByte, NewHandler, OpenPort, InitializeFails, Enable, StreamEnds,
                  Unplug, Transmit, scanVars, Answer, Command
    <3> QED BY <1>1, <2>0, <3>1
  <2> QED BY <1>4, <2>1, <2>2, <2>3, <2>4, <2>5 DEF Other
<1>5. CASE UNCHANGED hvars
  <2>1. recent' = recent /\ seen' = seen /\ timer' = timer /\ Answer' = Answer
    BY <1>5 DEF hvars, vars, histVars, scanVars, Answer, Command
  <2> QED BY <1>1, <2>1
<1> QED BY <1>2, <1>3, <1>4, <1>5 DEF HNext

(***************************************************************************)
(* The ring, the unsynchronised scan and the write implement the sliding   *)
(* average, for every ring and set of positions: with at most one position *)
(* recorded during a scan the command is the average of the window before  *)
(* or of the one after, whichever slots the scan had read by then          *)
(* (ArduinoManager.java, updatePosition and the TimerTask).                *)
(***************************************************************************)
THEOREM RingIsAnAverage == HSpec => ImplementsAverage
<1>1. HInit => AvgInv /\ Average!AInit
  BY AvgStart, AverageStarts
<1>2. AvgInv /\ [HNext]_hvars => AvgInv'
  BY AvgStep
<1>3. AvgInv /\ AvgInv' /\ [HNext]_hvars => [Average!ANext]_(Average!avars)
  BY AverageStep
<1> QED BY <1>1, <1>2, <1>3, PTL DEF HSpec, ImplementsAverage, Average!ASpec

-----------------------------------------------------------------------------
(* The recursive functions exist: Sums, the one of Reading, that of ToInt. *)
IsSums(f, n) ==
  f = [k \in 0..n |-> IF k = 0 THEN {0} ELSE OneMoreAdded(f[k - 1])]

IsRead(f, s, n) ==
  f = [k \in 0..n |-> IF k = 0 THEN Nothing ELSE After(f[k - 1], s[k])]

IsValue(f, s, n) ==
  f = [k \in 0..n |-> IF k = 0 THEN 0 ELSE 10 * f[k - 1] + s[k]]

Read(s) == CHOOSE f : IsRead(f, s, Len(s))
Value(s) == CHOOSE f : IsValue(f, s, Len(s))

LEMMA SumsDefined ==
  /\ Sums[0] = {0}
  /\ \A k \in 1..Slots : Sums[k] = OneMoreAdded(Sums[k - 1])
<1> DEFINE P == {m \in Nat : \E f : IsSums(f, m)}
<1>1. 0 \in P
  <2>1. IsSums([k \in 0..0 |-> {0}], 0)
    BY DEF IsSums
  <2> QED BY <2>1
<1>2. ASSUME NEW m \in 1..Slots, m - 1 \in P PROVE m \in P
  <2>1. PICK f : IsSums(f, m - 1)
    BY <1>2
  <2> DEFINE g == [k \in 0..m |-> IF k = m THEN OneMoreAdded(f[m - 1])
                                  ELSE f[k]]
  <2>2. ASSUME NEW k \in 0..m
        PROVE  g[k] = IF k = 0 THEN {0} ELSE OneMoreAdded(g[k - 1])
    <3>1. CASE k = m
      <4>1. m # 0 /\ m - 1 \in 0..m /\ m - 1 # m
        OBVIOUS
      <4> QED BY <3>1, <4>1
    <3>2. CASE k # m
      <4>1. k \in 0..m-1 /\ (k # 0 => k - 1 \in 0..m /\ k - 1 # m)
        BY <3>2
      <4>2. f[k] = IF k = 0 THEN {0} ELSE OneMoreAdded(f[k - 1])
        BY <2>1, <4>1 DEF IsSums
      <4> QED BY <3>2, <4>1, <4>2
    <3> QED BY <3>1, <3>2
  <2>3. g = [k \in 0..m |-> g[k]]
    OBVIOUS
  <2>4. IsSums(g, m)
    <3> HIDE DEF g
    <3> QED BY <2>2, <2>3 DEF IsSums
  <2> QED BY <2>4
<1>3. Slots \in 0..Slots /\ Slots \in Nat
  BY SlotsAssumption
<1>4. Slots \in P
  <2> HIDE DEF P
  <2> QED BY <1>1, <1>2, <1>3, Induction
<1>5. IsSums(CHOOSE f : IsSums(f, Slots), Slots)
  BY <1>4
<1>6. IsSums(Sums, Slots)
  BY <1>5 DEF IsSums, Sums
<1>7. 0 \in 0..Slots /\ \A k \in 1..Slots : k \in 0..Slots /\ k # 0
  BY <1>3
<1> QED BY <1>6, <1>7 DEF IsSums

LEMMA ReadExists ==
  ASSUME NEW s, NEW n \in Nat
  PROVE  \E f : IsRead(f, s, n)
<1> DEFINE P == {m \in Nat : \E f : IsRead(f, s, m)}
<1>1. 0 \in P
  <2>1. IsRead([k \in 0..0 |-> Nothing], s, 0)
    BY DEF IsRead
  <2> QED BY <2>1
<1>2. ASSUME NEW m \in 1..n, m - 1 \in P PROVE m \in P
  <2>1. PICK f : IsRead(f, s, m - 1)
    BY <1>2
  <2> DEFINE g == [k \in 0..m |-> IF k = m THEN After(f[m - 1], s[m]) ELSE f[k]]
  <2>2. ASSUME NEW k \in 0..m
        PROVE  g[k] = IF k = 0 THEN Nothing ELSE After(g[k - 1], s[k])
    <3>1. CASE k = m
      <4>1. m # 0 /\ m - 1 \in 0..m /\ m - 1 # m
        OBVIOUS
      <4> QED BY <3>1, <4>1
    <3>2. CASE k # m
      <4>1. k \in 0..m-1 /\ (k # 0 => k - 1 \in 0..m /\ k - 1 # m)
        BY <3>2
      <4>2. f[k] = IF k = 0 THEN Nothing ELSE After(f[k - 1], s[k])
        BY <2>1, <4>1 DEF IsRead
      <4> QED BY <3>2, <4>1, <4>2
    <3> QED BY <3>1, <3>2
  <2>3. g = [k \in 0..m |-> g[k]]
    OBVIOUS
  <2>4. IsRead(g, s, m)
    <3> HIDE DEF g
    <3> QED BY <2>2, <2>3 DEF IsRead
  <2> QED BY <2>4
<1>3. n \in P
  <2> HIDE DEF P
  <2> QED BY <1>1, <1>2, Induction
<1> QED BY <1>3

LEMMA ReadDefined ==
  ASSUME NEW S, NEW s \in Seq(S)
  PROVE  /\ Read(s)[0] = Nothing
         /\ \A k \in 1..Len(s) : Read(s)[k] = After(Read(s)[k - 1], s[k])
         /\ Reading(s) = Read(s)[Len(s)]
<1>1. Len(s) \in Nat /\ 0 \in 0..Len(s) /\ \A k \in 1..Len(s) : k \in 0..Len(s) /\ k # 0
  OBVIOUS
<1>2. IsRead(Read(s), s, Len(s))
  BY <1>1, ReadExists DEF Read
<1>3. Reading(s) = Read(s)[Len(s)]
  BY DEF Reading, Read, IsRead
<1>4. /\ Read(s)[0] = Nothing
      /\ \A k \in 1..Len(s) : Read(s)[k] = After(Read(s)[k - 1], s[k])
  BY <1>1, <1>2 DEF IsRead
<1> QED BY <1>3, <1>4

LEMMA ValueExists ==
  ASSUME NEW s, NEW n \in Nat
  PROVE  \E f : IsValue(f, s, n)
<1> DEFINE P == {m \in Nat : \E f : IsValue(f, s, m)}
<1>1. 0 \in P
  <2>1. IsValue([k \in 0..0 |-> 0], s, 0)
    BY DEF IsValue
  <2> QED BY <2>1
<1>2. ASSUME NEW m \in 1..n, m - 1 \in P PROVE m \in P
  <2>1. PICK f : IsValue(f, s, m - 1)
    BY <1>2
  <2> DEFINE g == [k \in 0..m |-> IF k = m THEN 10 * f[m - 1] + s[m] ELSE f[k]]
  <2>2. ASSUME NEW k \in 0..m
        PROVE  g[k] = IF k = 0 THEN 0 ELSE 10 * g[k - 1] + s[k]
    <3>1. CASE k = m
      <4>1. m # 0 /\ m - 1 \in 0..m /\ m - 1 # m
        OBVIOUS
      <4> QED BY <3>1, <4>1
    <3>2. CASE k # m
      <4>1. k \in 0..m-1 /\ (k # 0 => k - 1 \in 0..m /\ k - 1 # m)
        BY <3>2
      <4>2. f[k] = IF k = 0 THEN 0 ELSE 10 * f[k - 1] + s[k]
        BY <2>1, <4>1 DEF IsValue
      <4> QED BY <3>2, <4>1, <4>2
    <3> QED BY <3>1, <3>2
  <2>3. g = [k \in 0..m |-> g[k]]
    OBVIOUS
  <2>4. IsValue(g, s, m)
    <3> HIDE DEF g
    <3> QED BY <2>2, <2>3 DEF IsValue
  <2> QED BY <2>4
<1>3. n \in P
  <2> HIDE DEF P
  <2> QED BY <1>1, <1>2, Induction
<1> QED BY <1>3

LEMMA ValueDefined ==
  ASSUME NEW S, NEW s \in Seq(S)
  PROVE  /\ Value(s)[0] = 0
         /\ \A k \in 1..Len(s) : Value(s)[k] = 10 * Value(s)[k - 1] + s[k]
         /\ ToInt(s) = Value(s)[Len(s)]
<1>1. Len(s) \in Nat /\ 0 \in 0..Len(s) /\ \A k \in 1..Len(s) : k \in 0..Len(s) /\ k # 0
  OBVIOUS
<1>2. IsValue(Value(s), s, Len(s))
  BY <1>1, ValueExists DEF Value
<1>3. ToInt(s) = Value(s)[Len(s)]
  BY DEF ToInt, Value, IsValue
<1>4. /\ Value(s)[0] = 0
      /\ \A k \in 1..Len(s) : Value(s)[k] = 10 * Value(s)[k - 1] + s[k]
  BY <1>1, <1>2 DEF IsValue
<1> QED BY <1>3, <1>4

-----------------------------------------------------------------------------
(* What reading is: bytes read one after the other, a digit or a newline.  *)
Readings == [value : Nat, lines : Seq(Nat)]

LEMMA AfterTyped ==
  ASSUME NEW r \in Readings, NEW b \in Byte
  PROVE  After(r, b) \in Readings
<1>1. r.value \in Nat /\ r.lines \in Seq(Nat) /\ b \in Nat
  BY DEF Readings, Byte, Digit, NL
<1>2. 10 * r.value + b \in Nat /\ Append(r.lines, r.value) \in Seq(Nat)
  BY <1>1
<1> QED BY <1>1, <1>2 DEF After, Readings

LEMMA ReadTyped ==
  ASSUME NEW s \in Seq(Byte)
  PROVE  (\A k \in 0..Len(s) : Read(s)[k] \in Readings) /\ Reading(s) \in Readings
<1> DEFINE P == {k \in 0..Len(s) : Read(s)[k] \in Readings}
<1>0. Len(s) \in Nat /\ Len(s) \in 0..Len(s)
  OBVIOUS
<1>1. 0 \in P
  <2>1. Nothing \in Readings
    BY DEF Nothing, Readings
  <2> QED BY <1>0, <2>1, ReadDefined
<1>2. ASSUME NEW k \in 1..Len(s), k - 1 \in P PROVE k \in P
  <2>1. s[k] \in Byte /\ Read(s)[k - 1] \in Readings /\ k \in 0..Len(s)
    BY <1>0, <1>2
  <2>2. Read(s)[k] = After(Read(s)[k - 1], s[k])
    BY ReadDefined
  <2> QED BY <2>1, <2>2, AfterTyped
<1>3. \A k \in 0..Len(s) : k \in P
  <2> HIDE DEF P
  <2> QED BY <1>0, <1>1, <1>2, Induction
<1> QED BY <1>0, <1>3, ReadDefined

LEMMA ReadLocal ==
  ASSUME NEW S, NEW s \in Seq(S), NEW t \in Seq(S), NEW n \in 0..Len(s), n <= Len(t),
         \A k \in 1..n : s[k] = t[k]
  PROVE  Read(s)[n] = Read(t)[n]
<1> DEFINE P == {k \in 0..n : Read(s)[k] = Read(t)[k]}
<1>0. n \in Nat /\ n \in 0..n
  OBVIOUS
<1>1. 0 \in P
  BY <1>0, ReadDefined
<1>2. ASSUME NEW k \in 1..n, k - 1 \in P PROVE k \in P
  <2>1. k \in 1..Len(s) /\ k \in 1..Len(t) /\ k \in 0..n
    OBVIOUS
  <2>2. Read(s)[k] = After(Read(s)[k - 1], s[k]) /\ Read(t)[k] = After(Read(t)[k - 1], t[k])
    BY <2>1, ReadDefined
  <2> QED BY <1>2, <2>1, <2>2
<1>3. \A k \in 0..n : k \in P
  <2> HIDE DEF P
  <2> QED BY <1>0, <1>1, <1>2, Induction
<1> QED BY <1>0, <1>3

LEMMA AppendBehind ==
  ASSUME NEW S, NEW s \in Seq(S), NEW t \in Seq(S), NEW b \in S
  PROVE  Append(s \o t, b) = s \o Append(t, b) /\ Append(t, b) \in Seq(S)
<1>1. Append(s \o t, b) = (s \o t) \o <<b>> /\ Append(t, b) = t \o <<b>>
  BY ConcatProperties, AppendIsConcat
<1>2. <<b>> \in Seq(S) /\ Append(t, b) \in Seq(S)
  OBVIOUS
<1> QED BY <1>1, <1>2, ConcatAssociative

LEMMA ReadingEmpty == Reading(<< >>) = Nothing
<1>1. << >> \in Seq(Byte) /\ Len(<< >>) = 0
  OBVIOUS
<1> QED BY <1>1, ReadDefined

LEMMA ReadingAppend ==
  ASSUME NEW s \in Seq(Byte), NEW b \in Byte
  PROVE  Reading(Append(s, b)) = After(Reading(s), b)
<1> DEFINE t == Append(s, b)
<1>1. /\ t \in Seq(Byte) /\ Len(t) = Len(s) + 1 /\ t[Len(s) + 1] = b
      /\ Len(s) \in 0..Len(s) /\ \A k \in 1..Len(s) : s[k] = t[k]
      /\ Len(s) + 1 \in 1..Len(t) /\ Len(s) <= Len(t) /\ (Len(s) + 1) - 1 = Len(s)
  OBVIOUS
<1> HIDE DEF t
<1>2. Read(t)[Len(s)] = Read(s)[Len(s)]
  BY <1>1, ReadLocal
<1>3. Reading(t) = Read(t)[Len(s) + 1] /\ Reading(s) = Read(s)[Len(s)]
  BY <1>1, ReadDefined
<1>4. Read(t)[Len(s) + 1] = After(Read(t)[Len(s)], b)
  BY <1>1, ReadDefined
<1> QED BY <1>2, <1>3, <1>4 DEF t

(* What comes behind changes no command that is there. *)
LEMMA ReadingPrefix ==
  ASSUME NEW s \in Seq(Byte), NEW t \in Seq(Byte)
  PROVE  \E q \in Seq(Nat) : Reading(s \o t).lines = Reading(s).lines \o q
<1> DEFINE u == s \o t
           old == Reading(s).lines
           P == {k \in 0..Len(t) : \E q \in Seq(Nat) : Read(u)[Len(s) + k].lines = old \o q}
<1>0. /\ u \in Seq(Byte) /\ Len(u) = Len(s) + Len(t) /\ Len(s) \in Nat /\ Len(t) \in Nat
      /\ \A k \in 1..Len(s) : s[k] = u[k]
      /\ Len(s) \in 0..Len(s) /\ Len(s) <= Len(u) /\ Len(t) \in 0..Len(t)
  OBVIOUS
<1> HIDE DEF u
<1>1. old \in Seq(Nat)
  BY ReadTyped DEF Readings
<1>2. 0 \in P
  <2>0. Read(u)[Len(s)] = Read(s)[Len(s)]
    BY <1>0, ReadLocal
  <2>1. Read(u)[Len(s)] = Reading(s)
    BY <2>0, ReadDefined
  <2>2. << >> \in Seq(Nat) /\ old \o << >> = old /\ Len(s) + 0 = Len(s)
    BY <1>0, <1>1
  <2>3. Read(u)[Len(s) + 0].lines = old \o << >>
    BY <2>1, <2>2
  <2>4. 0 \in 0..Len(t)
    BY <1>0
  <2> HIDE DEF old
  <2> QED BY <2>2, <2>3, <2>4
<1>3. ASSUME NEW k \in 1..Len(t), k - 1 \in P PROVE k \in P
  <2>1. PICK q \in Seq(Nat) : Read(u)[Len(s) + (k - 1)].lines = old \o q
    BY <1>3
  <2> DEFINE i == Len(s) + k
             r == Read(u)[i - 1]
  <2>2. i \in 1..Len(u) /\ i - 1 = Len(s) + (k - 1) /\ i - 1 \in 0..Len(u) /\ k \in 0..Len(t)
    BY <1>0
  <2>3. r.lines = old \o q
    BY <2>1, <2>2
  <2>4. r.value \in Nat
    BY <1>0, <2>2, ReadTyped DEF Readings
  <2>5. Read(u)[i] = After(r, u[i])
    BY <1>0, <2>2, ReadDefined
  <2> HIDE DEF i, r, old
  <2>6. After(r, u[i]).lines = r.lines \/ After(r, u[i]).lines = Append(r.lines, r.value)
    BY DEF After
  <2>7. Append(old \o q, r.value) = old \o Append(q, r.value) /\ Append(q, r.value) \in Seq(Nat)
    BY <1>1, <2>4, AppendBehind
  <2>8. \E p \in Seq(Nat) : Read(u)[i].lines = old \o p
    BY <2>3, <2>5, <2>6, <2>7
  <2> QED BY <2>2, <2>8 DEF i
<1>4. \A k \in 0..Len(t) : k \in P
  <2> HIDE DEF P
  <2> QED BY <1>0, <1>2, <1>3, Induction
<1>5. Reading(u) = Read(u)[Len(s) + Len(t)]
  BY <1>0, ReadDefined
<1> QED BY <1>0, <1>4, <1>5 DEF u

(* Where a line ends reading begins anew. *)
LEMMA ReadingConcat ==
  ASSUME NEW s \in Seq(Byte), NEW t \in Seq(Byte), Reading(s).value = 0
  PROVE  Reading(s \o t) = [value |-> Reading(t).value,
                            lines |-> Reading(s).lines \o Reading(t).lines]
<1> DEFINE u == s \o t
           old == Reading(s).lines
           P == {k \in 0..Len(t) : Read(u)[Len(s) + k] =
                   [value |-> Read(t)[k].value, lines |-> old \o Read(t)[k].lines]}
<1>0. /\ u \in Seq(Byte) /\ Len(u) = Len(s) + Len(t) /\ Len(s) \in Nat /\ Len(t) \in Nat
      /\ \A k \in 1..Len(s) : s[k] = u[k]
      /\ \A k \in 1..Len(t) : t[k] = u[Len(s) + k]
      /\ Len(s) \in 0..Len(s) /\ Len(s) <= Len(u) /\ Len(t) \in 0..Len(t)
  OBVIOUS
<1> HIDE DEF u
<1>1. old \in Seq(Nat)
  BY ReadTyped DEF Readings
<1>6. Reading(s) = [value |-> 0, lines |-> old]
  BY ReadTyped DEF Readings
<1> HIDE DEF old
<1>2. 0 \in P
  <2>0. Read(u)[Len(s)] = Read(s)[Len(s)]
    BY <1>0, ReadLocal
  <2>1. Read(u)[Len(s)] = Reading(s)
    BY <2>0, ReadDefined
  <2>2. Read(t)[0].value = 0 /\ Read(t)[0].lines = << >>
    BY ReadDefined DEF Nothing
  <2>3. old \o << >> = old /\ Len(s) + 0 = Len(s)
    BY <1>0, <1>1
  <2>4. Read(u)[Len(s) + 0] = [value |-> Read(t)[0].value, lines |-> old \o Read(t)[0].lines]
    BY <1>6, <2>1, <2>2, <2>3
  <2>5. 0 \in 0..Len(t)
    BY <1>0
  <2> QED BY <2>4, <2>5
<1>3. ASSUME NEW k \in 1..Len(t), k - 1 \in P PROVE k \in P
  <2> DEFINE i == Len(s) + k
             r == Read(t)[k - 1]
  <2>1. Read(u)[Len(s) + (k - 1)] = [value |-> r.value, lines |-> old \o r.lines]
    BY <1>3
  <2>2. /\ i \in 1..Len(u) /\ i - 1 = Len(s) + (k - 1) /\ k \in 0..Len(t)
        /\ k - 1 \in 0..Len(t) /\ u[i] = t[k]
    BY <1>0
  <2>3. Read(u)[i] = After([value |-> r.value, lines |-> old \o r.lines], t[k])
    <3>1. Read(u)[i] = After(Read(u)[i - 1], u[i])
      BY <1>0, <2>2, ReadDefined
    <3> HIDE DEF i, r
    <3> QED BY <2>1, <2>2, <3>1
  <2>4. Read(t)[k] = After(r, t[k])
    BY ReadDefined
  <2>5. r.value \in Nat /\ r.lines \in Seq(Nat)
    BY <2>2, ReadTyped DEF Readings
  <2> HIDE DEF r
  <2>6. /\ Append(old \o r.lines, r.value) = old \o Append(r.lines, r.value)
        /\ Append(r.lines, r.value) \in Seq(Nat)
    BY <1>1, <2>5, AppendBehind
  <2>7. After([value |-> r.value, lines |-> old \o r.lines], t[k])
          = [value |-> After(r, t[k]).value, lines |-> old \o After(r, t[k]).lines]
    BY <2>6 DEF After
  <2> QED BY <2>2, <2>3, <2>4, <2>7
<1>4. \A k \in 0..Len(t) : k \in P
  <2> HIDE DEF P
  <2> QED BY <1>0, <1>2, <1>3, Induction
<1>5. Reading(u) = Read(u)[Len(s) + Len(t)] /\ Reading(t) = Read(t)[Len(t)]
  BY <1>0, ReadDefined
<1> QED BY <1>0, <1>4, <1>5 DEF u, old

(* Digits read without a newline are the number String::toInt makes of them. *)
LEMMA ReadingDigits ==
  ASSUME NEW s \in Seq(Digit)
  PROVE  ToInt(s) \in Nat /\ Reading(s) = [value |-> ToInt(s), lines |-> << >>]
<1> DEFINE P == {k \in 0..Len(s) : /\ Value(s)[k] \in Nat
                                   /\ Read(s)[k] = [value |-> Value(s)[k], lines |-> << >>]}
<1>0. Len(s) \in Nat /\ Len(s) \in 0..Len(s) /\ 0 \in 0..Len(s)
  OBVIOUS
<1>1. 0 \in P
  <2>1. Read(s)[0] = Nothing /\ Value(s)[0] = 0
    BY ReadDefined, ValueDefined
  <2> QED BY <1>0, <2>1 DEF Nothing
<1>2. ASSUME NEW k \in 1..Len(s), k - 1 \in P PROVE k \in P
  <2>1. Value(s)[k - 1] \in Nat /\ Read(s)[k - 1] = [value |-> Value(s)[k - 1], lines |-> << >>]
    BY <1>2
  <2>2. s[k] \in Nat /\ s[k] # NL /\ k \in 0..Len(s)
    BY <1>0 DEF Digit, NL
  <2>3. Value(s)[k] = 10 * Value(s)[k - 1] + s[k] /\ Read(s)[k] = After(Read(s)[k - 1], s[k])
    BY ReadDefined, ValueDefined
  <2>4. Read(s)[k] = [value |-> 10 * Value(s)[k - 1] + s[k], lines |-> << >>]
    BY <2>1, <2>2, <2>3 DEF After
  <2> QED BY <2>1, <2>2, <2>3, <2>4
<1>3. \A k \in 0..Len(s) : k \in P
  <2> HIDE DEF P
  <2> QED BY <1>0, <1>1, <1>2, Induction
<1>4. ToInt(s) = Value(s)[Len(s)] /\ Reading(s) = Read(s)[Len(s)]
  BY ReadDefined, ValueDefined
<1> QED BY <1>0, <1>3, <1>4

(* A whole line in front is one command, and reading begins anew behind.   *)
LEMMA ReadingHead ==
  ASSUME NEW s \in Seq(Digit), NEW t \in Seq(Byte)
  PROVE  Reading(Append(s, NL) \o t) = [value |-> Reading(t).value,
                                        lines |-> <<ToInt(s)>> \o Reading(t).lines]
<1>1. s \in Seq(Byte) /\ NL \in Byte
  BY DEF Byte
<1>2. Reading(Append(s, NL)) = After(Reading(s), NL)
  BY <1>1, ReadingAppend
<1>3. Reading(s) = [value |-> ToInt(s), lines |-> << >>]
  BY ReadingDigits
<1>4. Append(<< >>, ToInt(s)) = <<ToInt(s)>>
  OBVIOUS
<1>5. Reading(Append(s, NL)) = [value |-> 0, lines |-> <<ToInt(s)>>]
  BY <1>2, <1>3, <1>4 DEF After
<1>6. Append(s, NL) \in Seq(Byte)
  BY <1>1
<1> DEFINE u == Append(s, NL)
<1>7. u \in Seq(Byte) /\ Reading(u).value = 0 /\ Reading(u).lines = <<ToInt(s)>>
  BY <1>5, <1>6
<1> HIDE DEF u
<1>8. Reading(u \o t) = [value |-> Reading(t).value, lines |-> Reading(u).lines \o Reading(t).lines]
  BY <1>7, ReadingConcat
<1> QED BY <1>7, <1>8 DEF u

LEMMA ReadingOneDigit ==
  ASSUME NEW s \in Seq(Byte), NEW b \in Digit, NEW v \in Nat,
         Reading(s) = [value |-> v, lines |-> << >>]
  PROVE  /\ Append(s, b) \in Seq(Byte)
         /\ Reading(Append(s, b)) = [value |-> 10 * v + b, lines |-> << >>]
<1>1. b \in Byte /\ b # NL
  BY DEF Byte, Digit, NL
<1>2. Reading(Append(s, b)) = After(Reading(s), b)
  BY <1>1, ReadingAppend
<1> QED BY <1>1, <1>2 DEF After

(* The text of a command reads as the command. *)
LEMMA ReadingDecimal ==
  ASSUME NEW c \in 0..MaxAngle
  PROVE  /\ Decimal(c) \in Seq(Byte)
         /\ Reading(Decimal(c)) = [value |-> c, lines |-> << >>]
<1> DEFINE e == << >>
<1>0. e \in Seq(Byte) /\ Reading(e) = [value |-> 0, lines |-> << >>]
  BY ReadingEmpty DEF Nothing
<1>1. CASE c < 10
  <2>1. c \in Digit /\ Decimal(c) = Append(e, c) /\ 10 * 0 + c = c
    BY <1>1 DEF Digit, Decimal, MaxAngle
  <2> HIDE DEF e
  <2> QED BY <1>0, <2>1, ReadingOneDigit
<1>2. CASE c >= 10 /\ c < 100
  <2> DEFINE a == c \div 10
             b == c % 10
             s == Append(e, a)
  <2>1. a \in Digit /\ a \in Nat /\ b \in Digit /\ 10 * a + b = c /\ 10 * 0 + a = a
    BY <1>2 DEF Digit, MaxAngle
  <2>2. Decimal(c) = Append(s, b)
    BY <1>2 DEF Decimal, MaxAngle
  <2> HIDE DEF a, b, e
  <2>3. s \in Seq(Byte) /\ Reading(s) = [value |-> a, lines |-> << >>]
    BY <1>0, <2>1, ReadingOneDigit
  <2> HIDE DEF s
  <2> QED BY <2>1, <2>2, <2>3, ReadingOneDigit
<1>3. CASE c >= 100
  <2> DEFINE h == c \div 100
             a == (c \div 10) % 10
             b == c % 10
             s == Append(e, h)
             t == Append(s, a)
  <2>1. /\ h \in Digit /\ h \in Nat /\ a \in Digit /\ b \in Digit /\ 10 * h + a \in Nat
        /\ 10 * 0 + h = h
    BY <1>3 DEF Digit, MaxAngle
  <2>2. 10 * (10 * h + a) + b = c
    BY <1>3 DEF MaxAngle
  <2>3. Decimal(c) = Append(t, b)
    BY <1>3 DEF Decimal, MaxAngle
  <2> HIDE DEF a, b, h, e
  <2>4. s \in Seq(Byte) /\ Reading(s) = [value |-> h, lines |-> << >>]
    BY <1>0, <2>1, ReadingOneDigit
  <2> HIDE DEF s
  <2>5. t \in Seq(Byte) /\ Reading(t) = [value |-> 10 * h + a, lines |-> << >>]
    BY <2>1, <2>4, ReadingOneDigit
  <2> HIDE DEF t
  <2> QED BY <2>1, <2>2, <2>3, <2>5, ReadingOneDigit
<1> QED BY <1>1, <1>2, <1>3 DEF MaxAngle

LEMMA ReadingLine ==
  ASSUME NEW s \in Seq(Byte), Reading(s).value = 0, NEW c \in 0..MaxAngle
  PROVE  Reading(s \o Line(c)) = [value |-> 0, lines |-> Append(Reading(s).lines, c)]
<1>1. NL \in Byte
  BY DEF Byte
<1>2. Decimal(c) \in Seq(Byte) /\ Reading(Decimal(c)) = [value |-> c, lines |-> << >>]
  BY ReadingDecimal
<1>3. Line(c) \in Seq(Byte) /\ Reading(Line(c)) = After(Reading(Decimal(c)), NL)
  BY <1>1, <1>2, ReadingAppend DEF Line
<1>4. Append(<< >>, c) = <<c>>
  OBVIOUS
<1>5. Reading(Line(c)) = [value |-> 0, lines |-> <<c>>]
  BY <1>2, <1>3, <1>4 DEF After
<1>9. Reading(s \o Line(c)) = [value |-> Reading(Line(c)).value,
                              lines |-> Reading(s).lines \o Reading(Line(c)).lines]
  BY <1>3, ReadingConcat
<1>6. Reading(s \o Line(c)) = [value |-> 0, lines |-> Reading(s).lines \o <<c>>]
  BY <1>5, <1>9
<1>7. Reading(s).lines \in Seq(Nat) /\ c \in Nat
  BY ReadTyped DEF Readings
<1>8. Reading(s).lines \o <<c>> = Append(Reading(s).lines, c)
  BY <1>7, AppendIsConcat
<1> QED BY <1>6, <1>8

(* `pos` is a 16-bit int: every number has a value in it, a command its own. *)
LEMMA SixteenBits ==
  ASSUME NEW n \in Nat
  PROVE  Int16(n) \in Int16s
<1>2. Int16(n) \in Int
  BY SMT DEF Int16
<1>3. -32768 <= Int16(n)
  BY SMT DEF Int16
<1>4. Int16(n) <= 32767
  BY SMT DEF Int16
<1> QED BY <1>2, <1>3, <1>4, SMT DEF Int16s

LEMMA SixteenBitsOfCommand ==
  ASSUME NEW n \in 0..MaxAngle
  PROVE  Int16(n) = n
BY DEF Int16, MaxAngle

-----------------------------------------------------------------------------
(* The invariant of the pipeline.  What a scan has summed is a sum of      *)
(* positions; nothing is left to write when no write is under way, and     *)
(* nothing is written before there was a port.                             *)
SumsOK ==
  /\ \A i \in Index : positions[i] \in Positions \cup {0}
  /\ count <= slot /\ total \in Sums[count]

LineOK ==
  /\ timer # "write" => unsent = << >>
  /\ main \in {"start", "timed", "built"} => port = "none"
  /\ main = "settling" \/ enabled => port # "none"

(* Until a byte is lost the bytes in flight read as commands, and while    *)
(* the board is there they end where a command ends.                       *)
FlowOK ==
  losses = 0 => /\ Reading(InFlight).lines \in Seq(Means)
                /\ port # "gone" => Reading(InFlight).value = 0

PipeInv == SweepTypeOK /\ losses \in 0..LossLimit /\ SafeInv /\ SumsOK /\ LineOK /\ FlowOK

LEMMA PipelineStep == [PNext]_pvars => [Next]_vars
BY DEF PNext, pvars, MainStep, TimerStep, CutShort, Deliver, Removal, Firmware,
       Next, Main, Timer, vars

LEMMA PipeStart == PInit => PipeInv
<1> SUFFICES ASSUME PInit PROVE PipeInv
  OBVIOUS
<1>1. Init /\ SweepInit /\ losses = 0
  BY DEF PInit
<1>2. SafeInv
  BY <1>1, SafeStart
<1>3. SweepTypeOK
  BY <1>1 DEF SweepInit, SweepTypeOK, Int16s
<1>4. losses \in 0..LossLimit
  BY <1>1, LossAssumption
<1>5. SumsOK
  <2>1. Sums[0] = {0}
    BY SumsDefined
  <2> QED BY <1>1, <2>1 DEF Init, SumsOK
<1>6. LineOK
  BY <1>1 DEF Init, LineOK
<1>7. FlowOK
  <2>1. InFlight = << >>
    BY <1>1 DEF Init, SweepInit, InFlight
  <2>2. Reading(InFlight) = [value |-> 0, lines |-> << >>]
    BY <2>1, ReadingEmpty DEF Nothing
  <2> QED BY <2>2 DEF FlowOK
<1> QED BY <1>2, <1>3, <1>4, <1>5, <1>6, <1>7 DEF PipeInv

LEMMA PipeTyped == PipeInv /\ [PNext]_pvars => SweepTypeOK' /\ (losses \in 0..LossLimit)'
<1> SUFFICES ASSUME PipeInv, [PNext]_pvars
             PROVE  SweepTypeOK' /\ losses' \in 0..LossLimit
  OBVIOUS
<1>0. /\ rx \in Seq(Byte) /\ input \in Seq(Digit) /\ pos \in Int16s /\ wire \in Seq(Byte)
      /\ losses \in 0..LossLimit
  BY DEF PipeInv, SweepTypeOK, SafeInv, TypeOK
<1>1. CASE UNCHANGED <<sweepVars, losses>>
  BY <1>0, <1>1 DEF sweepVars, SweepTypeOK
<1>2. CASE CutShort
  BY <1>0, <1>2, LossAssumption DEF CutShort, CountLoss, sweepVars, SweepTypeOK
<1>3. CASE Deliver
  <2>1. wire # << >> /\ Head(wire) \in Byte
    BY <1>0, <1>3 DEF Deliver, Transmit
  <2>2. rx' \in Seq(Byte)
    BY <1>0, <1>3, <2>1 DEF Deliver, Receive
  <2>3. losses' \in 0..LossLimit
    BY <1>0, <1>3, LossAssumption DEF Deliver, CountLoss
  <2> QED BY <1>0, <1>3, <2>2, <2>3 DEF Deliver, SweepTypeOK
<1>4. CASE Firmware
  <2>1. CASE ReadDigit
    <3>1. Head(rx) \in Digit /\ Tail(rx) \in Seq(Byte)
      BY <1>0, <2>1 DEF ReadDigit, Byte
    <3> QED BY <1>0, <1>4, <2>1, <3>1 DEF Firmware, ReadDigit, SweepTypeOK
  <2>2. CASE ReadNewline
    <3>1. Tail(rx) \in Seq(Byte)
      BY <1>0, <2>2 DEF ReadNewline
    <3>2. pos' \in Int16s
      BY <1>0, <2>2, ReadingDigits, SixteenBits DEF ReadNewline
    <3> QED BY <1>0, <1>4, <2>2, <3>1, <3>2 DEF Firmware, ReadNewline, SweepTypeOK
  <2> QED BY <1>4, <2>1, <2>2 DEF Firmware, Loop
<1>5. CASE MainStep \/ TimerStep \/ Removal \/ UNCHANGED pvars
  BY <1>1, <1>5 DEF MainStep, TimerStep, Removal, pvars
<1> QED BY <1>2, <1>3, <1>4, <1>5 DEF PNext

(* A scan adds one entry more, which is no position or a positive one.     *)
LEMMA SumGrows ==
  ASSUME NEW n \in Nat, n + 1 \in 1..Slots, NEW t \in Sums[n], NEW p \in Positions, p > 0
  PROVE  t + p \in Sums[n + 1]
<1>1. Sums[n + 1] = OneMoreAdded(Sums[(n + 1) - 1])
  BY SumsDefined
<1>2. (n + 1) - 1 = n /\ p \in Positions \ {0}
  BY PositionsAssumption
<1> QED BY <1>1, <1>2 DEF OneMoreAdded

LEMMA SumsStep == SafeInv /\ SumsOK /\ [Next]_vars => SumsOK'
<1> SUFFICES ASSUME SafeInv, SumsOK, [Next]_vars PROVE SumsOK'
  OBVIOUS
<1>0. /\ positions \in [Index -> Nat] /\ nextPosition \in Index /\ slot \in 0..Slots
      /\ total \in Nat /\ count \in Nat
  BY DEF SafeInv, TypeOK
<1>1. CASE UNCHANGED <<positions, slot, total, count>>
  BY <1>1 DEF SumsOK
<1>2. CASE \E p \in Positions : UpdatePosition(p)
  <2>1. PICK p \in Positions : UpdatePosition(p)
    BY <1>2
  <2>2. \A i \in Index : positions'[i] \in Positions \cup {0}
    BY <1>0, <2>1 DEF UpdatePosition, SumsOK
  <2>3. UNCHANGED <<slot, total, count>>
    BY <2>1 DEF UpdatePosition, scanVars
  <2> QED BY <2>2, <2>3 DEF SumsOK
<1>3. CASE slot' = 0 /\ total' = 0 /\ count' = 0 /\ UNCHANGED positions
  <2>1. 0 \in Sums[0]
    BY SumsDefined
  <2> QED BY <1>3, <2>1 DEF SumsOK
<1>4. CASE ReadSlot
  <2>1. /\ slot \in Index /\ slot' = slot + 1 /\ positions' = positions
        /\ positions[slot] \in Positions \cup {0} /\ positions[slot] \in Nat
        /\ count <= slot /\ slot + 1 <= Slots /\ Slots \in Nat
    BY <1>0, <1>4, SlotsAssumption DEF ReadSlot, Index, SumsOK, ringVars
  <2>2. CASE positions[slot] > 0
    <3>1. total' = total + positions[slot] /\ count' = count + 1
      BY <1>4, <2>2 DEF ReadSlot
    <3>2. positions[slot] \in Positions /\ count + 1 \in 1..Slots /\ count + 1 <= slot + 1
      BY <1>0, <2>1, <2>2
    <3>3. total \in Sums[count]
      BY DEF SumsOK
    <3>4. total + positions[slot] \in Sums[count + 1]
      BY <1>0, <2>2, <3>2, <3>3, SumGrows
    <3> QED BY <2>1, <3>1, <3>2, <3>4 DEF SumsOK
  <2>3. CASE ~ (positions[slot] > 0)
    <3>1. total' = total /\ count' = count
      BY <1>4, <2>3 DEF ReadSlot
    <3>2. count <= slot + 1
      BY <1>0, <2>1
    <3> QED BY <2>1, <3>1, <3>2 DEF SumsOK
  <2> QED BY <2>2, <2>3
<1>5. CASE BeginScan \/ SkipSend \/ WriteReturns \/ ShortWrite \/ WriteFails
  BY <1>3, <1>5 DEF BeginScan, SkipSend, WriteReturns, ShortWrite, WriteFails, TaskEnds, ringVars
<1>6. CASE \/ InitTimer \/ NewHandler \/ OpenPort \/ InitializeFails \/ Enable \/ StreamEnds
           \/ SendData \/ TakeByte \/ Unplug \/ Transmit \/ UNCHANGED vars
  BY <1>1, <1>6 DEF InitTimer, NewHandler, OpenPort, InitializeFails, Enable, StreamEnds,
       SendData, TakeByte, Unplug, Transmit, vars, ringVars, scanVars
<1> QED BY <1>2, <1>4, <1>5, <1>6 DEF Next, Main, Timer

LEMMA LineStep == SafeInv /\ LineOK /\ [Next]_vars => LineOK'
<1> SUFFICES ASSUME SafeInv, LineOK, [Next]_vars PROVE LineOK'
  OBVIOUS
<1>0. enabled \in BOOLEAN /\ (enabled => main \in {"frames", "ended"})
  BY DEF SafeInv, TypeOK
<1> USE DEF LineOK, mainVars, ringVars, scanVars, linkVars
<1>1. CASE InitTimer \/ NewHandler
  <2>1. main \in {"start", "timed"} /\ main' \in {"timed", "built"} /\ ~enabled
    BY <1>0, <1>1 DEF InitTimer, NewHandler
  <2>2. ~enabled'
    BY <1>1, <2>1, Zenon DEF InitTimer, NewHandler
  <2>3. UNCHANGED <<port, unsent>>
    BY <1>1 DEF InitTimer, NewHandler
  <2>4. timer # "write"
    BY <2>1 DEF SafeInv
  <2> QED BY <2>1, <2>2, <2>3, <2>4
<1>2. CASE OpenPort \/ InitializeFails
  BY <1>0, <1>2 DEF OpenPort, InitializeFails
<1>3. CASE Enable \/ StreamEnds
  BY <1>0, <1>3 DEF Enable, StreamEnds
<1>4. CASE \E p \in Positions : UpdatePosition(p)
  BY <1>4 DEF UpdatePosition
<1>5. CASE BeginScan \/ ReadSlot \/ SkipSend \/ SendData
  BY <1>5 DEF BeginScan, ReadSlot, SkipSend, SendData, TaskEnds
<1>6. CASE TakeByte \/ WriteReturns \/ ShortWrite \/ WriteFails
  BY <1>6 DEF TakeByte, WriteReturns, ShortWrite, WriteFails, TaskEnds
<1>7. CASE Unplug \/ Transmit
  BY <1>7 DEF Unplug, Transmit
<1>8. CASE UNCHANGED vars
  BY <1>8 DEF vars
<1> QED BY <1>1, <1>2, <1>3, <1>4, <1>5, <1>6, <1>7, <1>8 DEF Next, Main, Timer

-----------------------------------------------------------------------------
(* The steps of the channel.  Moving a byte on changes nothing in flight.  *)
LEMMA ByteMoves ==
  ASSUME NEW s \in Seq(Byte), NEW t \in Seq(Byte), t # << >>
  PROVE  Append(s, Head(t)) \o Tail(t) = s \o t
  OBVIOUS

LEMMA SameFlow ==
  ASSUME FlowOK, InFlight' = InFlight, pos' = pos, (port' = "gone") <=> (port = "gone"),
         losses' = losses
  PROVE  FlowOK' /\ UNCHANGED Channel!cvars
<1>1. Reading(InFlight)' = Reading(InFlight)
  OBVIOUS
<1>2. FlowOK'
  BY <1>1 DEF FlowOK
<1>3. (port' # "gone") = (port # "gone")
  OBVIOUS
<1>4. Channel!cvars' = Channel!cvars
  BY <1>1, <1>3 DEF Channel!cvars
<1> QED BY <1>2, <1>4
(* The parts of what is in flight. *)
Behind == IF port = "gone" THEN << >> ELSE unsent

LEMMA FlowTyped ==
  ASSUME SweepTypeOK, TypeOK
  PROVE  /\ input \in Seq(Digit) /\ input \in Seq(Byte) /\ rx \in Seq(Byte)
         /\ wire \in Seq(Byte) /\ Behind \in Seq(Byte)
         /\ InFlight = ((input \o rx) \o wire) \o Behind /\ InFlight \in Seq(Byte)
<1>1. input \in Seq(Digit) /\ rx \in Seq(Byte) /\ wire \in Seq(Byte) /\ unsent \in Seq(Byte)
  BY DEF SweepTypeOK, TypeOK
<1>2. input \in Seq(Byte)
  BY <1>1 DEF Byte
<1>3. Behind \in Seq(Byte)
  BY <1>1 DEF Behind
<1>4. InFlight = ((input \o rx) \o wire) \o Behind
  BY DEF InFlight, Behind
<1> QED BY <1>1, <1>2, <1>3, <1>4

(* The mean a scan sends is one of Means. *)
LEMMA CommandIsMean ==
  ASSUME SafeInv, SumsOK, count > 0
  PROVE  Command \in Means /\ Command \in 0..MaxAngle
<1>1. count \in Nat /\ total \in Nat /\ slot \in 0..Slots
  BY DEF SafeInv, TypeOK
<1>2. count \in 1..Slots /\ total \in Sums[count]
  BY <1>1, SlotsAssumption DEF SumsOK
<1>3. Command = Capped(total \div count)
  BY DEF Command
<1>4. Command \in Means
  BY <1>2, <1>3 DEF Means
<1> QED BY <1>1, <1>4, CommandType

LEMMA MeansAreCommands == Means \subseteq 0..MaxAngle
<1> SUFFICES ASSUME NEW n \in 1..Slots, NEW t \in Sums[n]
             PROVE  Capped(t \div n) \in 0..MaxAngle
  BY DEF Means
<1> DEFINE P == {k \in 0..Slots : Sums[k] \subseteq Nat}
<1>0. Slots \in Nat
  BY SlotsAssumption
<1>1. 0 \in P
  BY <1>0, SumsDefined
<1>2. ASSUME NEW k \in 1..Slots, k - 1 \in P PROVE k \in P
  <2>1. Sums[k] = OneMoreAdded(Sums[k - 1])
    BY SumsDefined
  <2>2. Sums[k - 1] \subseteq Nat /\ k \in 0..Slots
    BY <1>0, <1>2
  <2>3. OneMoreAdded(Sums[k - 1]) \subseteq Nat
    BY <2>2, PositionsAssumption DEF OneMoreAdded
  <2> QED BY <2>1, <2>2, <2>3
<1>3. \A k \in 0..Slots : k \in P
  <2> HIDE DEF P
  <2> QED BY <1>0, <1>1, <1>2, Induction
<1>4. t \in Nat /\ n \in Nat /\ n > 0
  BY <1>0, <1>3
<1>5. t \div n \in Nat
  BY <1>4, MeanIsNat
<1> QED BY <1>5 DEF Capped, MaxAngle

(* sendData: a line behind the whole commands in flight. *)
LEMMA SendingFlows ==
  ASSUME PipeInv, SendData, UNCHANGED <<sweepVars, losses>>
  PROVE  FlowOK' /\ [losses' > 0 \/ Channel!CNext]_(Channel!cvars)
<1>0. SafeInv /\ SumsOK /\ LineOK /\ FlowOK /\ TypeOK /\ SweepTypeOK
  BY DEF PipeInv, SafeInv
<1>1. count > 0 /\ handler /\ unsent' = Line(Command)
  <2>1. total > 0
    BY DEF SendData, Motion
  <2>2. count > 0 /\ handler
    BY <1>0, <2>1 DEF SafeInv
  <2> QED BY <2>2 DEF SendData
<1>2. UNCHANGED <<input, rx, pos, wire, port, losses>>
  BY DEF SendData, sweepVars
<1>3. CASE port = "gone" \/ losses # 0
  <2>1. CASE port = "gone"
    <3>1. InFlight' = InFlight
      BY <1>2, <2>1 DEF InFlight
    <3> QED BY <1>0, <1>2, <3>1, SameFlow
  <2>2. CASE losses # 0
    <3>1. losses' > 0
      BY <1>2, <2>2 DEF PipeInv
    <3> QED BY <1>2, <2>2, <3>1 DEF FlowOK
  <2> QED BY <1>3, <2>1, <2>2
<1>4. CASE port # "gone" /\ losses = 0
  <2>1. unsent = << >>
    BY <1>0 DEF LineOK, SendData
  <2>2. InFlight' = InFlight \o Line(Command) /\ InFlight \in Seq(Byte)
    <3>1. /\ input \in Seq(Byte) /\ rx \in Seq(Byte) /\ wire \in Seq(Byte)
          /\ InFlight \in Seq(Byte)
      BY <1>0, FlowTyped
    <3>2. Line(Command) \in Seq(Byte)
      <4>1. Command \in 0..MaxAngle
        BY <1>0, <1>1, CommandIsMean
      <4>2. Command \in Nat /\ Command <= MaxAngle
        BY <4>1 DEF MaxAngle
      <4> QED BY <4>2, LineType
    <3>3. InFlight = ((input \o rx) \o wire) \o << >>
      BY <1>4, <2>1 DEF InFlight
    <3>4. InFlight' = ((input \o rx) \o wire) \o Line(Command)
      BY <1>1, <1>2, <1>4 DEF InFlight
    <3> QED BY <3>1, <3>2, <3>3, <3>4
  <2>3. Reading(InFlight).lines \in Seq(Means) /\ Reading(InFlight).value = 0
    BY <1>0, <1>4 DEF FlowOK
  <2>4. Command \in Means /\ Command \in 0..MaxAngle
    BY <1>0, <1>1, CommandIsMean
  <2>5. Reading(InFlight)' = [value |-> 0, lines |-> Append(Reading(InFlight).lines, Command)]
    BY <2>2, <2>3, <2>4, ReadingLine
  <2>6. Append(Reading(InFlight).lines, Command) \in Seq(Means)
    BY <2>3, <2>4
  <2>7. FlowOK'
    BY <2>5, <2>6 DEF FlowOK
  <2>8. Channel!Send
    <3>1. (port' # "gone") = (port # "gone")
      BY <1>2
    <3>2. Reading(InFlight)'.lines = Append(Reading(InFlight).lines, Command)
      BY <2>5
    <3> QED BY <1>2, <1>4, <2>4, <3>1, <3>2 DEF Channel!Send
  <2> QED BY <2>7, <2>8 DEF Channel!CNext
<1> QED BY <1>3, <1>4
(* A byte goes into the transmit queue, over the line, into the line that  *)
(* the firmware gathers.                                                   *)
LEMMA MovingFlows ==
  ASSUME PipeInv,
         \/ TakeByte /\ UNCHANGED <<sweepVars, losses>>
         \/ Deliver /\ Len(rx) < RxLimit
         \/ ReadDigit /\ UNCHANGED <<vars, losses>>
  PROVE  FlowOK' /\ [losses' > 0 \/ Channel!CNext]_(Channel!cvars)
<1>0. TypeOK /\ SweepTypeOK /\ FlowOK
  BY DEF PipeInv, SafeInv
<1> DEFINE front == input \o rx
<1>1. /\ input \in Seq(Digit) /\ input \in Seq(Byte) /\ rx \in Seq(Byte)
      /\ wire \in Seq(Byte) /\ Behind \in Seq(Byte) /\ unsent \in Seq(Byte)
      /\ InFlight = (front \o wire) \o Behind /\ front \in Seq(Byte)
  BY <1>0, FlowTyped DEF TypeOK
<1>2. CASE TakeByte /\ UNCHANGED <<sweepVars, losses>>
  <2>1. /\ port = "open" /\ unsent # << >> /\ wire' = Append(wire, Head(unsent))
        /\ unsent' = Tail(unsent) /\ UNCHANGED <<input, rx, pos, port, losses>>
    BY <1>2 DEF TakeByte, sweepVars
  <2>2. Head(unsent) \in Byte
    BY <1>1, <2>1
  <2>3. InFlight = (front \o wire) \o unsent
    BY <1>1, <2>1 DEF Behind
  <2>4. InFlight' = (front \o Append(wire, Head(unsent))) \o Tail(unsent)
    BY <2>1 DEF InFlight
  <2> HIDE DEF front
  <2>5. Append(front \o wire, Head(unsent)) = front \o Append(wire, Head(unsent))
        /\ Append(wire, Head(unsent)) \in Seq(Byte)
    BY <1>1, <2>2, AppendBehind
  <2>6. front \o wire \in Seq(Byte)
    BY <1>1
  <2>7. InFlight' = InFlight
    BY <1>1, <2>1, <2>3, <2>4, <2>5, <2>6, ByteMoves
  <2> QED BY <1>0, <2>1, <2>7, SameFlow
<1>3. CASE Deliver /\ Len(rx) < RxLimit
  <2>1. /\ wire # << >> /\ wire' = Tail(wire) /\ rx' = Append(rx, Head(wire))
        /\ UNCHANGED <<input, pos, port, unsent, losses>>
    BY <1>3 DEF Deliver, Transmit, Receive
  <2>2. Head(wire) \in Byte
    BY <1>1, <2>1
  <2>3. InFlight' = ((input \o Append(rx, Head(wire))) \o Tail(wire)) \o Behind
    BY <2>1 DEF InFlight, Behind
  <2>4. Append(front, Head(wire)) = input \o Append(rx, Head(wire))
        /\ Append(rx, Head(wire)) \in Seq(Byte)
    <3>1. input \in Seq(Byte) /\ rx \in Seq(Byte) /\ Head(wire) \in Byte
      BY <1>1, <2>2
    <3>2. Append(input \o rx, Head(wire)) = input \o Append(rx, Head(wire))
          /\ Append(rx, Head(wire)) \in Seq(Byte)
      <4> HIDE DEF front
      <4> DEFINE b == Head(wire)
      <4>1. b \in Byte
        BY <3>1
      <4> HIDE DEF b
      <4>2. Append(input \o rx, b) = input \o Append(rx, b) /\ Append(rx, b) \in Seq(Byte)
        BY <3>1, <4>1, AppendBehind
      <4> QED BY <4>2 DEF b
    <3> QED BY <3>2
  <2> HIDE DEF front
  <2>5. Append(front, Head(wire)) \o Tail(wire) = front \o wire
    BY <1>1, <2>1, ByteMoves
  <2>6. InFlight' = InFlight
    BY <1>1, <2>3, <2>4, <2>5
  <2> QED BY <1>0, <2>1, <2>6, SameFlow
<1>4. CASE ReadDigit /\ UNCHANGED <<vars, losses>>
  <2>1. /\ rx # << >> /\ rx' = Tail(rx) /\ input' = Append(input, Head(rx))
        /\ UNCHANGED <<pos, port, unsent, wire, losses>>
    BY <1>4 DEF ReadDigit, vars, linkVars
  <2>2. InFlight' = ((Append(input, Head(rx)) \o Tail(rx)) \o wire) \o Behind
    BY <2>1 DEF InFlight, Behind
  <2>3. Append(input, Head(rx)) \o Tail(rx) = front
    BY <1>1, <2>1, ByteMoves
  <2> HIDE DEF front
  <2>4. InFlight' = InFlight
    BY <1>1, <2>2, <2>3
  <2> QED BY <1>0, <2>1, <2>4, SameFlow
<1> QED BY <1>2, <1>3, <1>4
(* At the newline the firmware executes the oldest command.                *)
LEMMA ExecutingFlows ==
  ASSUME PipeInv, ReadNewline, UNCHANGED <<vars, losses>>
  PROVE  FlowOK' /\ [losses' > 0 \/ Channel!CNext]_(Channel!cvars)
<1>0. TypeOK /\ SweepTypeOK /\ FlowOK /\ losses \in Nat /\ losses' = losses
  BY LossAssumption DEF PipeInv, SafeInv
<1> DEFINE rest == (Tail(rx) \o wire) \o Behind
<1>1. /\ input \in Seq(Digit) /\ input \in Seq(Byte) /\ rx \in Seq(Byte)
      /\ wire \in Seq(Byte) /\ Behind \in Seq(Byte)
      /\ InFlight = ((input \o rx) \o wire) \o Behind
  BY <1>0, FlowTyped
<1>2. /\ rx # << >> /\ Head(rx) = NL /\ pos' = Int16(ToInt(input)) /\ input' = << >>
      /\ rx' = Tail(rx) /\ UNCHANGED <<wire, unsent, port>>
  BY DEF ReadNewline, vars, linkVars
<1>3. InFlight' = rest /\ rest \in Seq(Byte)
  <2>1. Tail(rx) \in Seq(Byte)
    BY <1>1, <1>2
  <2>2. InFlight' = ((<< >> \o Tail(rx)) \o wire) \o Behind
    BY <1>2 DEF InFlight, Behind
  <2> QED BY <1>1, <2>1, <2>2
<1>4. InFlight = Append(input, NL) \o rest
  <2>1. input \o rx = Append(input, NL) \o Tail(rx)
    BY <1>1, <1>2, ByteMoves
  <2>2. Append(input, NL) \in Seq(Byte) /\ Tail(rx) \in Seq(Byte)
    BY <1>1, <1>2, NewlineIsByte
  <2>3. Tail(rx) \o wire \in Seq(Byte)
    BY <1>1, <2>2
  <2>4. (Append(input, NL) \o Tail(rx)) \o wire = Append(input, NL) \o (Tail(rx) \o wire)
    BY <1>1, <2>2, ConcatAssociative
  <2>5. (Append(input, NL) \o (Tail(rx) \o wire)) \o Behind = Append(input, NL) \o rest
    <3> DEFINE u == Append(input, NL)
               v == Tail(rx) \o wire
    <3>1. u \in Seq(Byte) /\ v \in Seq(Byte) /\ Behind \in Seq(Byte)
      BY <1>1, <2>2, <2>3
    <3> HIDE DEF u, v
    <3>2. (u \o v) \o Behind = u \o (v \o Behind)
      BY <3>1, ConcatAssociative
    <3> QED BY <3>2 DEF u, v
  <2> QED BY <1>1, <2>1, <2>4, <2>5
<1> HIDE DEF rest
<1>5. Reading(InFlight) = [value |-> Reading(rest).value,
                           lines |-> <<ToInt(input)>> \o Reading(rest).lines]
  BY <1>1, <1>3, <1>4, ReadingHead
<1>6. Reading(InFlight)' = Reading(rest)
  BY <1>3
<1>7. CASE losses # 0
  <2>1. losses' > 0
    BY <1>0, <1>7
  <2> QED BY <1>0, <2>1 DEF FlowOK
<1>8. CASE losses = 0
  <2> DEFINE c == ToInt(input)
             lines == Reading(rest).lines
  <2>1. c \in Nat
    BY <1>1, ReadingDigits
  <2>2. lines \in Seq(Nat)
    BY <1>3, ReadTyped DEF Readings
  <2>3. Reading(InFlight).lines \in Seq(Means)
    BY <1>0, <1>8 DEF FlowOK
  <2>4. Reading(InFlight).lines = <<c>> \o lines
    BY <1>5
  <2> HIDE DEF c, lines
  <2>5. /\ <<c>> \o lines # << >> /\ Head(<<c>> \o lines) = c /\ Tail(<<c>> \o lines) = lines
    BY <2>1, <2>2
  <2>6. c \in Means /\ lines \in Seq(Means)
    BY <2>3, <2>4, <2>5
  <2>7. pos' = c
    <3>1. c \in 0..MaxAngle
      BY <2>6, MeansAreCommands
    <3> QED BY <1>2, <3>1, SixteenBitsOfCommand DEF c
  <2>8. FlowOK'
    <3>1. Reading(InFlight)'.lines \in Seq(Means)
      BY <1>6, <2>6 DEF lines
    <3>2. port # "gone" => Reading(rest).value = 0
      BY <1>0, <1>5, <1>8 DEF FlowOK
    <3> QED BY <1>2, <1>6, <3>1, <3>2 DEF FlowOK
  <2>9. Channel!Execute
    <3>1. (port' # "gone") = (port # "gone")
      BY <1>2
    <3>2. Reading(InFlight)'.lines = lines
      BY <1>6 DEF lines
    <3> QED BY <2>4, <2>5, <2>7, <3>1, <3>2 DEF Channel!Execute
  <2> QED BY <2>8, <2>9 DEF Channel!CNext
<1> QED BY <1>7, <1>8

(* The board is removed: what it has received it executes, no more.        *)
LEMMA UnpluggingFlows ==
  ASSUME PipeInv, Removal
  PROVE  FlowOK' /\ [losses' > 0 \/ Channel!CNext]_(Channel!cvars)
<1>0. TypeOK /\ SweepTypeOK /\ FlowOK /\ losses \in Nat /\ losses' = losses
  BY LossAssumption DEF PipeInv, SafeInv, Removal
<1> DEFINE left == input \o rx
           lost == wire \o Behind
<1>1. /\ input \in Seq(Byte) /\ rx \in Seq(Byte)
      /\ wire \in Seq(Byte) /\ Behind \in Seq(Byte)
      /\ InFlight = ((input \o rx) \o wire) \o Behind
  BY <1>0, FlowTyped
<1>2. port = "open" /\ port' = "gone" /\ wire' = << >> /\ UNCHANGED <<input, rx, pos>>
  BY DEF Removal, Unplug, sweepVars
<1>3. left \in Seq(Byte) /\ lost \in Seq(Byte)
  BY <1>1
<1>4. InFlight' = left
  <2>1. InFlight' = ((input \o rx) \o << >>) \o << >>
    BY <1>2 DEF InFlight
  <2> QED BY <1>1, <2>1
<1>5. InFlight = left \o lost
  <2> HIDE DEF left
  <2>1. (left \o wire) \o Behind = left \o lost
    BY <1>1, <1>3, ConcatAssociative
  <2> QED BY <1>1, <2>1 DEF left
<1> HIDE DEF left, lost
<1>6. PICK q \in Seq(Nat) : Reading(InFlight).lines = Reading(left).lines \o q
  BY <1>3, <1>5, ReadingPrefix
<1>7. Reading(InFlight)' = Reading(left)
  BY <1>4
<1> DEFINE lines == Reading(left).lines
<1>8. lines \in Seq(Nat)
  BY <1>3, ReadTyped DEF Readings
<1> HIDE DEF lines
<1>9. Len(lines) \in 0..Len(lines \o q) /\ SubSeq(lines \o q, 1, Len(lines)) = lines
  BY <1>8
<1>10. Channel!Unplugged
  <2>1. (port # "gone") = TRUE /\ (port' # "gone") = FALSE
    BY <1>2
  <2>2. lines \in Channel!Prefixes(lines \o q)
    BY <1>9 DEF Channel!Prefixes
  <2> QED BY <1>2, <1>6, <1>7, <2>1, <2>2 DEF Channel!Unplugged, lines
<1>11. FlowOK'
  <2>1. ASSUME losses = 0 PROVE lines \in Seq(Means)
    <3>1. lines \o q \in Seq(Means)
      BY <1>0, <1>6, <2>1 DEF FlowOK, lines
    <3>2. SubSeq(lines \o q, 1, Len(lines)) \in Seq(Means)
      BY <1>9, <3>1
    <3> QED BY <1>9, <3>2
  <2> QED BY <1>0, <1>2, <1>7, <2>1 DEF FlowOK, lines
<1> QED BY <1>10, <1>11 DEF Channel!CNext
LEMMA FlowStep ==
  ASSUME PipeInv, [PNext]_pvars
  PROVE  FlowOK' /\ [losses' > 0 \/ Channel!CNext]_(Channel!cvars)
<1>0. TypeOK /\ SafeInv /\ LineOK /\ FlowOK /\ losses \in Nat
  BY LossAssumption DEF PipeInv, SafeInv
<1>1. CASE /\ input' = input /\ rx' = rx /\ wire' = wire /\ pos' = pos /\ losses' = losses
           /\ (port' = "gone") <=> (port = "gone")
           /\ port = "gone" \/ unsent' = unsent
  <2>1. InFlight' = InFlight
    BY <1>1 DEF InFlight
  <2> QED BY <1>0, <1>1, <2>1, SameFlow
<1>2. CASE losses' > 0
  BY <1>2, <1>0 DEF FlowOK
<1>3. CASE MainStep
  <2>1. /\ UNCHANGED <<input, rx, wire, unsent, pos, losses>>
        /\ port' = port \/ (main = "built" /\ port' \in {"none", "open"})
    BY <1>3 DEF MainStep, Main, InitTimer, NewHandler, OpenPort, InitializeFails, Enable,
         UpdatePosition, StreamEnds, mainVars, linkVars, sweepVars
  <2>2. main = "built" => port = "none"
    BY <1>0 DEF LineOK
  <2> QED BY <1>1, <2>1, <2>2
<1>4. CASE TimerStep
  <2>0. UNCHANGED <<sweepVars, losses>>
    BY <1>4 DEF TimerStep
  <2>1. CASE SendData
    BY <2>0, <2>1, SendingFlows
  <2>2. CASE TakeByte
    BY <2>0, <2>2, MovingFlows
  <2>3. CASE BeginScan \/ ReadSlot \/ SkipSend \/ WriteReturns
    BY <1>1, <2>0, <2>3 DEF BeginScan, ReadSlot, SkipSend, WriteReturns, linkVars, sweepVars
  <2>4. CASE WriteFails
    <3>1. port # "none" /\ port \in {"none", "open", "gone"}
      BY <1>0, <2>4 DEF WriteFails, SafeInv, LineOK, TypeOK
    <3> QED BY <1>1, <2>0, <2>4, <3>1 DEF WriteFails, sweepVars
  <2> QED BY <1>4, <2>1, <2>2, <2>3, <2>4 DEF TimerStep
<1>5. CASE CutShort
  BY <1>0, <1>2, <1>5 DEF CutShort, CountLoss
<1>6. CASE Deliver
  <2>1. CASE Len(rx) < RxLimit
    BY <1>6, <2>1, MovingFlows
  <2>2. CASE ~ (Len(rx) < RxLimit)
    BY <1>0, <1>2, <1>6, <2>2 DEF Deliver, CountLoss
  <2> QED BY <2>1, <2>2
<1>7. CASE Removal
  BY <1>7, UnpluggingFlows
<1>8. CASE Firmware
  BY <1>8, MovingFlows, ExecutingFlows DEF Firmware, Loop
<1>9. CASE UNCHANGED pvars
  BY <1>1, <1>9 DEF pvars, vars, linkVars, sweepVars
<1> QED BY <1>3, <1>4, <1>5, <1>6, <1>7, <1>8, <1>9 DEF PNext

LEMMA PipeStep == PipeInv /\ [PNext]_pvars => PipeInv'
<1> SUFFICES ASSUME PipeInv, [PNext]_pvars PROVE PipeInv'
  OBVIOUS
<1>1. [Next]_vars
  BY PipelineStep
<1>2. SafeInv'
  BY <1>1, SafeStep DEF PipeInv
<1>3. SumsOK' /\ LineOK'
  BY <1>1, SumsStep, LineStep DEF PipeInv
<1> QED BY <1>2, <1>3, PipeTyped, FlowStep DEF PipeInv

LEMMA PipeAlways == PSpec => []PipeInv
BY PipeStart, PipeStep, PTL DEF PSpec

(***************************************************************************)
(* The variables of the firmware and of the line keep their types, `pos`   *)
(* its 16 bits whatever digits come (Sweep.ino, loop).                     *)
(***************************************************************************)
THEOREM PipelineTypeCorrect == PSpec => []PTypeOK
<1>1. PipeInv => PTypeOK
  BY DEF PipeInv, SafeInv, PTypeOK
<1> QED BY <1>1, PipeAlways, PTL

(***************************************************************************)
(* Until a byte is lost, every command sent is executed once, whole and in *)
(* the order of sending, and is the mean of positions; a removal of the    *)
(* board takes the newest ones only: for every ring, set of positions and  *)
(* capacity of the queues (ArduinoManager.sendData, Sweep.ino).            *)
(***************************************************************************)
THEOREM LineIsAChannel == PSpec => ImplementsChannel
<1>1. PInit => Channel!CInit
  <2> SUFFICES ASSUME PInit PROVE Channel!CInit
    OBVIOUS
  <2>1. InFlight = << >> /\ pos = 0 /\ port = "none"
    BY DEF PInit, Init, SweepInit, InFlight
  <2>2. Reading(InFlight).lines = << >>
    BY <2>1, ReadingEmpty DEF Nothing
  <2>3. (port # "gone") = TRUE
    BY <2>1
  <2> QED BY <2>1, <2>2, <2>3 DEF Channel!CInit
<1>2. PipeInv /\ [PNext]_pvars => [losses' > 0 \/ Channel!CNext]_(Channel!cvars)
  BY FlowStep
<1> QED BY <1>1, <1>2, PipeAlways, PTL DEF PSpec, ImplementsChannel
==============================================================================
