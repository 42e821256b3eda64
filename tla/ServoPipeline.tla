--------------------------- MODULE ServoPipeline ---------------------------
(***************************************************************************)
(* The path from a frame to the servo: ArduinoManager's two threads, the   *)
(* serial line, and the firmware on the board.  The line may lose bytes in *)
(* three ways: a write cut short by a signal, an overrun of the board's    *)
(* receive buffer, and the removal of the board.                           *)
(***************************************************************************)
EXTENDS ArduinoManager, Sweep

CONSTANT LossLimit              \* lossy steps in one behaviour

ASSUME LossAssumption == LossLimit \in Nat

VARIABLE losses                 \* lossy steps so far

pvars == <<vars, sweepVars, losses>>

PTypeOK ==
  /\ TypeOK
  /\ SweepTypeOK
  /\ losses \in 0..LossLimit

PInit ==
  /\ Init
  /\ SweepInit
  /\ losses = 0

CountLoss == losses < LossLimit /\ losses' = losses + 1

(* The oldest byte of the transmit queue reaches the board. *)
Deliver ==
  /\ Transmit
  /\ Receive(Head(wire))
  /\ IF Len(rx) < RxLimit THEN UNCHANGED losses ELSE CountLoss
  /\ UNCHANGED <<input, pos>>

CutShort == ShortWrite /\ CountLoss /\ UNCHANGED sweepVars

MainStep == Main /\ UNCHANGED <<sweepVars, losses>>

TimerStep ==
  /\ \/ BeginScan \/ ReadSlot \/ SkipSend \/ SendData
     \/ TakeByte \/ WriteReturns \/ WriteFails
  /\ UNCHANGED <<sweepVars, losses>>

Removal == Unplug /\ UNCHANGED <<sweepVars, losses>>

Firmware == Loop /\ UNCHANGED <<vars, losses>>

PNext == MainStep \/ TimerStep \/ CutShort \/ Deliver \/ Removal \/ Firmware

(* The timer fires every `delay` milliseconds and its thread runs, the     *)
(* UART shifts bytes out by itself, and loop() is called for ever.         *)
PFairness ==
  /\ WF_pvars(TimerStep)
  /\ WF_pvars(Deliver)
  /\ WF_pvars(Firmware)

PSpec == PInit /\ [][PNext]_pvars /\ PFairness

-----------------------------------------------------------------------------
(* What the firmware makes of bytes, one after the other: the value of the *)
(* digits since the last newline, and the commands before it.              *)
Nothing == [value |-> 0, lines |-> <<>>]

After(r, b) ==
  IF b = NL THEN [value |-> 0, lines |-> Append(r.lines, r.value)]
            ELSE [value |-> 10 * r.value + b, lines |-> r.lines]

Reading(s) ==
  LET read[k \in 0..Len(s)] == IF k = 0 THEN Nothing ELSE After(read[k - 1], s[k])
  IN  read[Len(s)]

InFlight == input \o rx \o wire \o (IF port = "gone" THEN <<>> ELSE unsent)

(* The sums that n positive positions can have, and the commands for them. *)
OneMoreAdded(T) == {t + p : t \in T, p \in Positions \ {0}}

Sums[n \in 0..Slots] == IF n = 0 THEN {0} ELSE OneMoreAdded(Sums[n - 1])

Means == UNION {{Capped(t \div n) : t \in Sums[n]} : n \in 1..Slots}

Channel == INSTANCE CommandChannel WITH
  Commands <- Means,
  queue <- Reading(InFlight).lines, servo <- pos, plugged <- port # "gone"

(***************************************************************************)
(* The bytes between the program and the servo, read as the firmware will  *)
(* read them, are the commands sent and not yet executed: until a byte is  *)
(* lost, digits of two commands never mix, and no command is executed      *)
(* twice or out of order, and each is the mean of positions.               *)
(***************************************************************************)
ImplementsChannel ==
  Channel!CInit /\ [][losses' > 0 \/ Channel!CNext]_(Channel!cvars)
=============================================================================
