--------------------------- MODULE ArduinoManager ---------------------------
(***************************************************************************)
(* ArduinoManager.java, with the calls it makes on ArduinoHandler.java.    *)
(*                                                                         *)
(* Two threads share the ring `positions`.  The main thread builds the     *)
(* singleton (timer first, then the handler, then the port) and afterwards *)
(* records one position per video frame through the synchronized           *)
(* updatePosition.  The timer thread scans the ring every `delay`          *)
(* milliseconds WITHOUT taking the monitor, one slot at a time, and sends  *)
(* the mean of the positive entries.  A write on the serial port hands its *)
(* bytes to the driver's transmit queue and blocks while that is full.     *)
(***************************************************************************)
EXTENDS Commands

CONSTANTS
  Slots,        \* positions.length, 30 in the code
  Positions,    \* the servo positions frames report; 0 means "no change seen"
  TxLimit       \* capacity of the driver's transmit queue

ASSUME SlotsAssumption     == Slots \in Nat \ {0}
ASSUME PositionsAssumption == Positions \subseteq Nat
ASSUME TxLimitAssumption   == TxLimit \in Nat \ {0}

VARIABLES
  main,          \* where the main thread is: constructor, frame loop, ended
  handler,       \* field `arduino` refers to an ArduinoHandler
  port,          \* its serial port: "none", "open", or "gone" (unplugged)
  enabled,       \* field `enabled`
  positions,     \* field `positions`
  nextPosition,  \* field `nextPosition`
  timer,         \* what the timer thread is doing
  slot,          \* the scan's loop index
  total, count,  \* the scan's sum and number of positive entries
  unsent,        \* bytes of the current write the driver has not taken yet
  wire           \* the driver's transmit queue

mainVars  == <<main, handler, enabled>>
ringVars  == <<positions, nextPosition>>
scanVars  == <<slot, total, count>>
linkVars  == <<unsent, wire>>
vars == <<mainVars, port, ringVars, timer, scanVars, linkVars>>

Index == 0 .. Slots - 1

TypeOK ==
  /\ main \in {"start", "timed", "built", "settling", "frames", "ended"}
  /\ handler \in BOOLEAN
  /\ port \in {"none", "open", "gone"}
  /\ enabled \in BOOLEAN
  /\ positions \in [Index -> Nat]
  /\ nextPosition \in Index
  /\ timer \in {"off", "idle", "scan", "write", "dead"}
  /\ slot \in 0..Slots
  /\ total \in Nat
  /\ count \in Nat
  /\ unsent \in Seq(Byte)
  /\ wire \in Seq(Byte)

Init ==
  /\ main = "start"
  /\ handler = FALSE
  /\ port = "none"
  /\ enabled = FALSE
  /\ positions = [i \in Index |-> 0]
  /\ nextPosition = 0
  /\ timer = "off"
  /\ slot = 0
  /\ total = 0
  /\ count = 0
  /\ unsent = <<>>
  /\ wire = <<>>

-----------------------------------------------------------------------------
(* The main thread: the constructor, then one updatePosition per frame.    *)

(* initTimer(): from here on the timer task may run. *)
InitTimer ==
  /\ main = "start"
  /\ main' = "timed"
  /\ timer' = "idle"
  /\ UNCHANGED <<handler, port, enabled, ringVars, scanVars, linkVars>>

(* arduino = new ArduinoHandler() *)
NewHandler ==
  /\ main = "timed"
  /\ main' = "built"
  /\ handler' = TRUE
  /\ UNCHANGED <<port, enabled, ringVars, timer, scanVars, linkVars>>

(* initialize() finds a port, opens it and registers the listener; it then *)
(* sleeps two seconds before it returns true.                              *)
OpenPort ==
  /\ main = "built"
  /\ main' = "settling"
  /\ port' = "open"
  /\ UNCHANGED <<handler, enabled, ringVars, timer, scanVars, linkVars>>

(* initialize() returns false: no port matched or open() threw (the port   *)
(* stays "none"), or a call after open() threw (the port stays open).      *)
InitializeFails ==
  /\ main = "built"
  /\ main' = "frames"
  /\ port' \in {"none", "open"}
  /\ UNCHANGED <<handler, enabled, ringVars, timer, scanVars, linkVars>>

(* initialize() returns true and the constructor stores it in `enabled`. *)
Enable ==
  /\ main = "settling"
  /\ main' = "frames"
  /\ enabled' = TRUE
  /\ UNCHANGED <<handler, port, ringVars, timer, scanVars, linkVars>>

(* Faulty variants of updatePosition: it wraps one slot late, and it does  *)
(* not look at `enabled`.                                                  *)
UpdatePositionLateWrap(p) ==
  /\ main = "frames"
  /\ enabled
  /\ positions' = [positions EXCEPT ![nextPosition] = p]
  /\ nextPosition' = IF nextPosition + 1 > Slots THEN 0 ELSE nextPosition + 1
  /\ UNCHANGED <<mainVars, port, timer, scanVars, linkVars>>

UpdatePositionUnguarded(p) ==
  /\ main = "frames"
  /\ positions' = [positions EXCEPT ![nextPosition] = p]
  /\ nextPosition' = IF nextPosition + 1 >= Slots THEN 0 ELSE nextPosition + 1
  /\ UNCHANGED <<mainVars, port, timer, scanVars, linkVars>>

(* updatePosition(p) on behalf of a frame; it returns at once if disabled. *)
UpdatePosition(p) ==
  /\ main = "frames"
  /\ enabled
  /\ positions' = [positions EXCEPT ![nextPosition] = p]
  /\ nextPosition' = IF nextPosition + 1 >= Slots THEN 0 ELSE nextPosition + 1
  /\ UNCHANGED <<mainVars, port, timer, scanVars, linkVars>>

(* The video stream ends: no more frames, but the window keeps the process *)
(* and with it the timer thread alive.                                     *)
StreamEnds ==
  /\ main = "frames"
  /\ main' = "ended"
  /\ UNCHANGED <<handler, port, enabled, ringVars, timer, scanVars, linkVars>>

-----------------------------------------------------------------------------
(* The timer thread. *)

(* Faulty variant: the timer is scheduled without a period. *)
TaskEndsOneShot == timer' = "off" /\ slot' = 0 /\ total' = 0 /\ count' = 0

(* run() returns; its locals slot, total and count cease to exist and are  *)
(* modelled as 0 until the next run.                                       *)
TaskEnds == timer' = "idle" /\ slot' = 0 /\ total' = 0 /\ count' = 0

BeginScan ==
  /\ timer = "idle"
  /\ timer' = "scan"
  /\ slot' = 0
  /\ total' = 0
  /\ count' = 0
  /\ UNCHANGED <<mainVars, port, ringVars, linkVars>>

(* Faulty variant: entries without motion are counted too. *)
ReadSlotCountsAll ==
  /\ timer = "scan"
  /\ slot < Slots
  /\ slot' = slot + 1
  /\ total' = total + positions[slot]
  /\ count' = count + 1
  /\ UNCHANGED <<mainVars, port, ringVars, timer, linkVars>>

(* One iteration of the loop over `positions`, without the monitor. *)
ReadSlot ==
  /\ timer = "scan"
  /\ slot < Slots
  /\ slot' = slot + 1
  /\ total' = IF positions[slot] > 0 THEN total + positions[slot] ELSE total
  /\ count' = IF positions[slot] > 0 THEN count + 1 ELSE count
  /\ UNCHANGED <<mainVars, port, ringVars, timer, linkVars>>

(* Faulty variant: a quiet ring is sent too. *)
MotionOrNot == total >= 0

Motion == total > 0

Capped(v) == IF v > MaxAngle THEN MaxAngle ELSE v

(* Faulty variant: the mean is taken over the whole ring. *)
CommandOverRing == Capped(total \div Slots)

(* data, capped at 180 *)
Command == Capped(total \div count)

SkipSend ==
  /\ timer = "scan"
  /\ slot = Slots
  /\ ~Motion
  /\ TaskEnds
  /\ UNCHANGED <<mainVars, port, ringVars, linkVars>>

(* arduino.sendData(...) is called.  A division by zero or a call through  *)
(* a null `arduino` is thrown outside sendData's try block and ends the    *)
(* Timer's thread for good.                                                *)
SendData ==
  /\ timer = "scan"
  /\ slot = Slots
  /\ Motion
  /\ IF count > 0 /\ handler
       THEN timer' = "write" /\ unsent' = Line(Command)
       ELSE timer' = "dead" /\ unsent' = unsent
  /\ UNCHANGED <<mainVars, port, ringVars, scanVars, wire>>

(* The driver takes the next byte of the blocking write. *)
TakeByte ==
  /\ timer = "write"
  /\ port = "open"
  /\ unsent # <<>>
  /\ Len(wire) < TxLimit
  /\ wire' = Append(wire, Head(unsent))
  /\ unsent' = Tail(unsent)
  /\ UNCHANGED <<mainVars, port, ringVars, timer, scanVars>>

(* Faulty variant: sendData writes the same line again and again. *)
WriteReturnsAgain ==
  /\ timer = "write"
  /\ unsent = <<>>
  /\ unsent' = Line(Command)
  /\ UNCHANGED <<mainVars, port, ringVars, timer, scanVars, wire>>

WriteReturns ==
  /\ timer = "write"
  /\ unsent = <<>>
  /\ TaskEnds
  /\ UNCHANGED <<mainVars, port, ringVars, linkVars>>

(* A signal cuts the write(2) short after its first byte: writeArray loops *)
(* only on EINTR, so it returns normally and the rest is never written.    *)
ShortWrite ==
  /\ timer = "write"
  /\ port = "open"
  /\ unsent # <<>>
  /\ unsent # Line(Command)
  /\ TaskEnds
  /\ unsent' = <<>>
  /\ UNCHANGED <<mainVars, port, ringVars, wire>>

(* write() throws (no port, or the device is gone); sendData logs it and   *)
(* returns, so the command is dropped and the timer goes on.               *)
WriteFails ==
  /\ timer = "write"
  /\ port # "open"
  /\ unsent # <<>>
  /\ TaskEnds
  /\ unsent' = <<>>
  /\ UNCHANGED <<mainVars, port, ringVars, wire>>

-----------------------------------------------------------------------------
(* The environment: the board is unplugged, and the driver's queue with    *)
(* it; the UART shifts a byte out.                                         *)

Unplug ==
  /\ port = "open"
  /\ port' = "gone"
  /\ wire' = <<>>
  /\ UNCHANGED <<mainVars, ringVars, timer, scanVars, unsent>>

Transmit ==
  /\ wire # <<>>
  /\ wire' = Tail(wire)
  /\ UNCHANGED <<mainVars, port, ringVars, timer, scanVars, unsent>>

Main  == \/ InitTimer \/ NewHandler \/ OpenPort \/ InitializeFails \/ Enable
         \/ (\E p \in Positions : UpdatePosition(p))
         \/ StreamEnds
Timer == \/ BeginScan \/ ReadSlot \/ SkipSend \/ SendData
         \/ TakeByte \/ WriteReturns \/ ShortWrite \/ WriteFails

Next == Main \/ Timer \/ Unplug \/ Transmit

Spec == Init /\ [][Next]_vars

-----------------------------------------------------------------------------
(***************************************************************************)
(* The timer's thread survives every scan: sendData is never reached with  *)
(* an empty mean (ArithmeticException) nor while `arduino` is still null   *)
(* (the constructor starts the timer before it creates the handler); both  *)
(* would end the Timer and with it every later command.                    *)
(***************************************************************************)
TimerSurvives == timer # "dead"

(***************************************************************************)
(* Nothing is written to a port whose initialize() did not run to its end, *)
(* the two seconds given to the board included, although the timer has     *)
(* been running since before the port was looked for.                      *)
(***************************************************************************)
WriteOnlyWhenEnabled ==
  timer = "write" => enabled /\ handler /\ main \in {"frames", "ended"}
=============================================================================
