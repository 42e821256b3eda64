--------------------------- MODULE CommandChannel ---------------------------
(***************************************************************************)
(* What the line and the firmware promise while no byte is lost: every     *)
(* command sent is executed once, whole, in the order of sending, until    *)
(* the board is removed, which may discard the newest ones.                *)
(***************************************************************************)
EXTENDS Integers, Sequences, SequencesExt

CONSTANT Commands              \* the commands that may be sent

VARIABLES queue, servo, plugged

cvars == <<queue, servo, plugged>>

CInit == queue = <<>> /\ servo = 0 /\ plugged = TRUE

Send ==
  /\ plugged
  /\ \E c \in Commands : queue' = Append(queue, c)
  /\ UNCHANGED <<servo, plugged>>

Execute ==
  /\ queue # <<>>
  /\ servo' = Head(queue)
  /\ queue' = Tail(queue)
  /\ UNCHANGED plugged

Unplugged ==
  /\ plugged
  /\ plugged' = FALSE
  /\ queue' \in Prefixes(queue)
  /\ UNCHANGED servo

CNext == Send \/ Execute \/ Unplugged

CSpec == CInit /\ [][CNext]_cvars
=============================================================================
