------------------------------ MODULE Settings ------------------------------
(***************************************************************************)
(* AppSettings.java and the listeners of CameraTrack that use it: a change *)
(* is put into the properties, the whole file is truncated and written     *)
(* again, and only then does the field change.  A failed save is logged    *)
(* and forgotten.  The program may be killed at any point; a start reads   *)
(* the file, sets the fields from it and saves.  A start that cannot read  *)
(* the file goes on without: every setting has its default, and the save   *)
(* overwrites the file.                                                    *)
(*                                                                         *)
(* All of it runs on the window's event thread, one event after another;   *)
(* the start is CameraTrack's constructor.  One write to the file stands   *)
(* for Properties.store, whose buffer reaches the file in a single flush,  *)
(* and one read for Properties.load, whose buffer takes all of it.         *)
(***************************************************************************)
EXTENDS Integers

CONSTANT SliderValues    \* per numeric setting, the values its listener may store

Numeric == {"sensitivity", "band.width", "band.height", "position", "colorshift"}
Absent  == -1            \* a setting the properties do not hold

(* The sensitivity is 100 - value of a slider from 1 to 100; the sliders   *)
(* of the others start at 1.                                               *)
ASSUME SliderValuesAssumption ==
  /\ SliderValues \in [Numeric -> SUBSET (0..200)]
  /\ \A k \in Numeric \ {"sensitivity"} : 0 \notin SliderValues[k]

Texts   == {"", "manual", "auto"}        \* of SETTING_CALIBRATION, "" when absent
Default == [k \in Numeric |-> IF k = "band.width" THEN 100 ELSE 50]

Properties == [number : [Numeric -> 0..200 \cup {Absent}], calibration : Texts]
Empty      == [number |-> [k \in Numeric |-> Absent], calibration |-> ""]

VARIABLES
  props,      \* field props of AppSettings
  file,       \* contents of settingsFile
  stage,      \* what the program is doing: "down", "idle", or a step of a change
  change,     \* the change under way: the setting and its new value
  inForce,    \* the fields of CameraTrack the sliders set
  autoCalibration,
  saved,      \* history: the last save reached the file
  settled,    \* history: the program last stopped idle, its last save done
  kept        \* history: in force after the change that a save last wrote

fields == <<inForce, autoCalibration>>
past   == <<settled, kept>>
svars  == <<props, file, stage, change, fields, saved, past>>

(* Settings the code stores and restores alike, and with them one that it  *)
(* does up to the listener's minimum of 1.                                 *)
Faithful   == {"position", "colorshift"}
Restorable == Faithful \cup {"sensitivity"}

NoChange == [key |-> "none", number |-> Absent, calibration |-> ""]
Changes  == [key : Numeric \cup {"none", "calibration"}, number : 0..200 \cup {Absent},
             calibration : Texts]

STypeOK ==
  /\ props \in Properties /\ file \in Properties
  /\ stage \in {"down", "idle", "open", "store", "apply"}
  /\ change \in Changes
  /\ inForce \in [Numeric -> 0..200]
  /\ autoCalibration \in BOOLEAN
  /\ saved \in BOOLEAN /\ settled \in BOOLEAN
  /\ kept \in [Restorable -> 0..200]

-----------------------------------------------------------------------------
(* Faulty variant: no default is given. *)
NumberNoDefault(p, k) == p.number[k]

(* get(key, default) and parseInt; parseBoolean. *)
Number(p, k)    == IF p.number[k] = Absent THEN Default[k] ELSE p.number[k]
ParseBoolean(t) == t = "true"

(* Faulty variant: the colour listener, copied from the position's, sets   *)
(* its field.                                                              *)
FieldCopied(k) == IF k = "colorshift" THEN "position" ELSE k

(* The field a slider's listener sets: the band width slider's sets the    *)
(* band height.                                                            *)
Field(k) == IF k = "band.width" THEN "band.height" ELSE k

AtLeastOne(n) == IF n > 0 THEN n ELSE 1

(* The fields once the listener of the change under way has set its own.   *)
Applied ==
  IF change.key \in Numeric
    THEN [inForce EXCEPT ![Field(change.key)] = AtLeastOne(change.number)]
    ELSE inForce

SInit ==
  /\ props = Empty /\ file = Empty
  /\ stage = "down"
  /\ change = NoChange
  /\ inForce = Default
  /\ autoCalibration = FALSE
  /\ saved = FALSE /\ settled = FALSE
  /\ kept = [k \in Restorable |-> Default[k]]

(* The constructors of AppSettings and CameraTrack, init() up to its save. *)
Start ==
  /\ stage = "down"
  /\ props' = file
  /\ inForce' = [k \in Numeric |-> Number(file, k)]
  /\ autoCalibration' = ParseBoolean(file.calibration)
  /\ stage' = "open"
  /\ change' = NoChange
  /\ saved' = FALSE
  /\ UNCHANGED <<file, past>>

(* The same when the file cannot be read: the exception is logged.         *)
StartUnread ==
  /\ stage = "down"
  /\ props' = Empty
  /\ inForce' = [k \in Numeric |-> Number(Empty, k)]
  /\ autoCalibration' = ParseBoolean(Empty.calibration)
  /\ stage' = "open"
  /\ change' = NoChange
  /\ saved' = FALSE
  /\ UNCHANGED <<file, past>>

(* A slider's listener, up to the save in AppSettings.set. *)
MoveSlider(k, n) ==
  /\ stage = "idle"
  /\ props' = [props EXCEPT !.number[k] = n]
  /\ change' = [key |-> k, number |-> n, calibration |-> ""]
  /\ stage' = "open"
  /\ saved' = FALSE
  /\ UNCHANGED <<file, fields, past>>

(* actionPerformed of the two radio buttons. *)
ChooseCalibration(t) ==
  /\ stage = "idle"
  /\ props' = [props EXCEPT !.calibration = t]
  /\ change' = [key |-> "calibration", number |-> Absent, calibration |-> t]
  /\ stage' = "open"
  /\ saved' = FALSE
  /\ UNCHANGED <<file, fields, past>>

(* componentMoved, componentResized and the choice of a camera store other *)
(* settings, none of which is modelled, and save all of them.              *)
StoreOther ==
  /\ stage = "idle"
  /\ change' = NoChange
  /\ stage' = "open"
  /\ saved' = FALSE
  /\ UNCHANGED <<props, file, fields, past>>

(* save(): new FileOutputStream truncates the file, or throws. *)
OpenFile ==
  /\ stage = "open"
  /\ file' = Empty
  /\ stage' = "store"
  /\ UNCHANGED <<props, change, fields, saved, past>>

OpenFails ==
  /\ stage = "open"
  /\ stage' = "apply"
  /\ UNCHANGED <<props, file, change, fields, saved, past>>

(* save(): props.store writes it, or throws. *)
StoreProps ==
  /\ stage = "store"
  /\ file' = props
  /\ stage' = "apply"
  /\ saved' = TRUE
  /\ kept' = [k \in Restorable |-> Applied[k]]
  /\ UNCHANGED <<props, change, fields, settled>>

StoreFails ==
  /\ stage = "store"
  /\ stage' = "apply"
  /\ UNCHANGED <<props, file, change, fields, saved, past>>

(* The listener's last statement: the field takes the new value. *)
Apply ==
  /\ stage = "apply"
  /\ stage' = "idle"
  /\ inForce' = Applied
  /\ autoCalibration' = IF change.key = "calibration" THEN change.calibration = "auto"
                                                      ELSE autoCalibration
  /\ change' = NoChange
  /\ UNCHANGED <<props, file, saved, past>>

(* The window is closed (EXIT_ON_CLOSE) or the process is killed. *)
Stop ==
  /\ stage # "down"
  /\ stage' = "down"
  /\ props' = Empty
  /\ change' = NoChange
  /\ settled' = (stage = "idle" /\ saved)
  /\ saved' = FALSE
  /\ UNCHANGED <<file, fields, kept>>

SNext ==
  \/ Start \/ StartUnread \/ StoreOther \/ OpenFile \/ OpenFails \/ StoreProps \/ StoreFails
  \/ Apply \/ Stop
  \/ (\E k \in Numeric : \E n \in SliderValues[k] : MoveSlider(k, n))
  \/ (\E t \in {"manual", "auto"} : ChooseCalibration(t))

SSpec == SInit /\ [][SNext]_svars

-----------------------------------------------------------------------------
(* Whatever failed before, a save that succeeds puts every setting on disk *)
(* again, and the file then says what is in force: of position and colour  *)
(* exactly, of the sensitivity up to the listener's minimum of 1.          *)
SavedIsInForce ==
  (stage = "idle" /\ saved) =>
    /\ file = props
    /\ \A k \in Faithful : inForce[k] = Number(file, k)
    /\ AtLeastOne(inForce["sensitivity"]) = AtLeastOne(Number(file, "sensitivity"))

(* A start brings back position, colour and sensitivity as the change that *)
(* was last saved left them, however many saves failed since and wherever  *)
(* the program was killed, or it gives every control its default: never a  *)
(* mixture, and the defaults only if the file cannot be read (AppSettings, *)
(* line 31) or a save ended between truncating and writing it (line 54).   *)
RestartRestores ==
  [][ (Start \/ StartUnread) =>
        \/ /\ \A k \in Faithful : inForce'[k] = kept[k]
           /\ AtLeastOne(inForce'["sensitivity"]) = AtLeastOne(kept["sensitivity"])
        \/ inForce' = Default /\ (StartUnread \/ file = Empty) ]_svars

(* A start that reads the file, after a stop that interrupted no change    *)
(* and whose last save succeeded, brings every control back: the           *)
(* sensitivity the slider's listener applied, the width its slider shows,  *)
(* and the mode of calibration (CameraTrack.java, lines 571, 597 and 146). *)
RestartRestoresAll ==
  [][ (Start /\ settled) => UNCHANGED fields ]_svars
=============================================================================
