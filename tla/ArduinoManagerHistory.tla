------------------------ MODULE ArduinoManagerHistory ------------------------
(***************************************************************************)
(* ArduinoManager with two history variables, to state what a scan of the  *)
(* unsynchronised ring may return:                                         *)
(*   recent - the last Slots positions recorded, oldest first              *)
(*   seen   - the values `recent` has had since the current scan began,    *)
(*            in order                                                     *)
(* They restrict nothing: every action below is an action of the module    *)
(* ArduinoManager together with what it adds to the history.               *)
(***************************************************************************)
EXTENDS ArduinoManager

CONSTANT OverlapLimit   \* updates recorded while one scan runs

ASSUME OverlapAssumption == OverlapLimit \in Nat

VARIABLES recent, seen

histVars == <<recent, seen>>
hvars    == <<vars, histVars>>

HInit ==
  /\ Init
  /\ recent = [i \in 1..Slots |-> 0]
  /\ seen = <<recent>>

RecordPosition(p) ==
  /\ UpdatePosition(p)
  /\ recent' = [i \in 1..Slots |-> IF i = Slots THEN p ELSE recent[i + 1]]
  /\ IF timer = "scan"
       THEN Len(seen) <= OverlapLimit /\ seen' = Append(seen, recent')
       ELSE UNCHANGED seen

LookAtRing == BeginScan /\ seen' = <<recent>> /\ UNCHANGED recent

Other ==
  /\ \/ InitTimer \/ NewHandler \/ OpenPort \/ InitializeFails \/ Enable
     \/ StreamEnds \/ ReadSlot \/ SkipSend \/ SendData \/ TakeByte
     \/ WriteReturns \/ ShortWrite \/ WriteFails \/ Unplug \/ Transmit
  /\ UNCHANGED histVars

HNext == (\E p \in Positions : RecordPosition(p)) \/ LookAtRing \/ Other

HSpec == HInit /\ [][HNext]_hvars

-----------------------------------------------------------------------------
(***************************************************************************)
(* A command lies between the smallest and the largest position that one   *)
(* of the last Slots frames had reported at some moment of the scan: a     *)
(* position older than that has no influence, however updates and the      *)
(* unsynchronised scan interleave.                                         *)
(***************************************************************************)
SeenMotion == {seen[i][k] : i \in 1..Len(seen), k \in 1..Slots} \ {0}

CommandWithinSeen ==
  timer = "write" => /\ \E p \in SeenMotion : Capped(p) <= Command
                     /\ \E p \in SeenMotion : Command <= p

(***************************************************************************)
(* The ring, the scan and the write together implement the sliding         *)
(* average.  The ring read from nextPosition on is the window, oldest      *)
(* first; a write in progress is the answer.                               *)
(***************************************************************************)
Average == INSTANCE SlidingAverage WITH
  window  <- [k \in 1..Slots |-> positions[(nextPosition + k - 1) % Slots]],
  looking <- timer = "scan",
  views   <- seen,
  answer  <- IF timer = "write" THEN Command ELSE 0

ImplementsAverage == Average!ASpec
=============================================================================
