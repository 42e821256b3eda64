------------------------------ MODULE Commands ------------------------------
(***************************************************************************)
(* The line protocol between the program and the board: the decimal text   *)
(* of a position followed by a newline.  ArduinoManager builds the line    *)
(* (""+data+"\n"), Sweep.ino takes it apart again.                         *)
(***************************************************************************)
EXTENDS Integers, Sequences

MaxAngle == 180                 \* ArduinoManager caps every command at 180

Digit == 0..9
NL    == 10                     \* '\n' is the byte 10; a digit stands for its character
Byte  == Digit \cup {NL}

(* The text of v, for the values 0..999 a command can have. *)
Decimal(v) ==
  IF v < 10 THEN <<v>>
  ELSE IF v < 100 THEN <<v \div 10, v % 10>>
  ELSE <<v \div 100, (v \div 10) % 10, v % 10>>

Line(v) == Append(Decimal(v), NL)
=============================================================================
