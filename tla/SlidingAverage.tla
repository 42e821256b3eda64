--------------------------- MODULE SlidingAverage ---------------------------
(***************************************************************************)
(* What ArduinoManager promises, without a ring, a timer or a port:        *)
(* "buffering position updates and periodically updating the arduino with  *)
(* a new position" (ArduinoManager.java:2).                                *)
(*                                                                         *)
(* The window holds the last Slots positions.  From time to time someone   *)
(* looks at it and answers.  If at most one position is recorded meanwhile *)
(* the answer is the average of a window that existed, the one before or   *)
(* the one after; if more are recorded it may mix windows, but it stays    *)
(* between the smallest and the largest position seen while looking.  An   *)
(* answer 0 means "nothing moved": no command.                             *)
(***************************************************************************)
EXTENDS Integers, Sequences

CONSTANTS Slots, Positions, MaxAngle

VARIABLES window, looking, views, answer

avars == <<window, looking, views, answer>>

Capped(v) == IF v > MaxAngle THEN MaxAngle ELSE v

Total(f) ==
  LET sum[k \in 0..Slots] == IF k = 0 THEN 0 ELSE sum[k - 1] + f[k]
  IN  sum[Slots]

(* The average of the entries that moved, 0 when none did. *)
Moved(w) == [k \in 1..Slots |-> IF w[k] > 0 THEN 1 ELSE 0]

Average(w) ==
  IF \A k \in 1..Slots : w[k] = 0 THEN 0 ELSE Capped(Total(w) \div Total(Moved(w)))

ViewedMotion(vs) == {vs[i][k] : i \in 1..Len(vs), k \in 1..Slots} \ {0}

Answers(vs) ==
  IF Len(vs) <= 2
    THEN {Average(vs[i]) : i \in 1..Len(vs)}
    ELSE {0} \cup {a \in 1..MaxAngle :
           /\ \E p \in ViewedMotion(vs) : Capped(p) <= a
           /\ \E p \in ViewedMotion(vs) : a <= p}

AInit ==
  /\ window = [k \in 1..Slots |-> 0]
  /\ looking = FALSE
  /\ views = <<window>>
  /\ answer = 0

Report(p) ==
  /\ window' = [k \in 1..Slots |-> IF k = Slots THEN p ELSE window[k + 1]]
  /\ views' = IF looking THEN Append(views, window') ELSE views
  /\ UNCHANGED <<looking, answer>>

Look ==
  /\ ~looking
  /\ answer = 0
  /\ looking' = TRUE
  /\ views' = <<window>>
  /\ UNCHANGED <<window, answer>>

Answer ==
  /\ looking
  /\ looking' = FALSE
  /\ answer' \in Answers(views)
  /\ UNCHANGED <<window, views>>

Command ==
  /\ answer # 0
  /\ answer' = 0
  /\ UNCHANGED <<window, looking, views>>

ANext == (\E p \in Positions : Report(p)) \/ Look \/ Answer \/ Command

ASpec == AInit /\ [][ANext]_avars
=============================================================================
