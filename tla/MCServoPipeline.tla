-------------------------- MODULE MCServoPipeline --------------------------
(***************************************************************************)
(* ServoPipeline checked on a small ring and short queues: where does the  *)
(* servo end after a lossy step, and what does it execute before one?      *)
(***************************************************************************)
EXTENDS ServoPipeline, SequencesExt

(***************************************************************************)
(* When the stream has ended the timer goes on sending the average of what *)
(* is left in the ring, so the servo ends up there and stays, whatever the *)
(* bytes lost and the lines merged before: the newline resynchronises the  *)
(* firmware, an error in a write does not end the timer, and no two        *)
(* parties wait for each other.  Only a removed board excuses the servo.   *)
(***************************************************************************)
Left == {i \in Index : positions[i] > 0}

Target ==
  IF Left = {} THEN 0
  ELSE SumFunctionOnSet(positions, Left) \div Cardinality(Left)

ServoSettles ==
  main = "ended" /\ Left # {} ~> [](port = "gone" \/ pos = Target)

(***************************************************************************)
(* With nothing left in the ring, no more commands: the servo is not sent  *)
(* to 0, it holds the last commanded position.                             *)
(***************************************************************************)
QuietHolds ==
  main = "ended" /\ Left = {} ~> [](unsent \o wire \o rx = <<>>)
=============================================================================
