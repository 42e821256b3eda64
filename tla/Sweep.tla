------------------------------- MODULE Sweep -------------------------------
(***************************************************************************)
(* The firmware arduino/Sweep/Sweep.ino: loop() rebuilds a line digit by   *)
(* digit and, at the newline, writes its integer value to the servo.       *)
(* Bytes arrive in the receive buffer of the board's serial driver, which  *)
(* drops what does not fit (the link has no flow control).                 *)
(***************************************************************************)
EXTENDS Commands

CONSTANT RxLimit                \* capacity of the board's receive buffer

ASSUME RxLimitAssumption == RxLimit \in Nat \ {0}

VARIABLES
  rx,      \* the serial driver's receive buffer
  input,   \* the String `input`: digits since the last newline
  pos      \* the global `pos`: the last value given to myservo.write

sweepVars == <<rx, input, pos>>

Int16s == {n \in Int : -32768 <= n /\ n <= 32767}

SweepTypeOK ==
  /\ rx \in Seq(Byte)
  /\ input \in Seq(Digit)
  /\ pos \in Int16s

SweepInit ==
  /\ rx = <<>>
  /\ input = <<>>
  /\ pos = 0

(* String::toInt() of the digits gathered; `pos` is a 16-bit int. *)
ToInt(s) ==
  LET value[k \in 0..Len(s)] == IF k = 0 THEN 0 ELSE 10 * value[k - 1] + s[k]
  IN  value[Len(s)]

Int16(n) == ((n + 32768) % 65536) - 32768

(* A byte arrives from the line. *)
Receive(b) == rx' = IF Len(rx) < RxLimit THEN Append(rx, b) ELSE rx

(* Faulty variant: the line is not cleared after a newline. *)
ReadNewlineKeepsInput ==
  /\ rx # <<>>
  /\ Head(rx) = NL
  /\ pos' = Int16(ToInt(input))
  /\ rx' = Tail(rx)
  /\ UNCHANGED input

(* Serial.read() returns a digit: input += (char)data *)
ReadDigit ==
  /\ rx # <<>>
  /\ Head(rx) # NL
  /\ input' = Append(input, Head(rx))
  /\ rx' = Tail(rx)
  /\ UNCHANGED pos

(* Serial.read() returns the newline: the servo moves. *)
ReadNewline ==
  /\ rx # <<>>
  /\ Head(rx) = NL
  /\ pos' = Int16(ToInt(input))
  /\ input' = <<>>
  /\ rx' = Tail(rx)

Loop == ReadDigit \/ ReadNewline
=============================================================================
