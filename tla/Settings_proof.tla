--------------------------- MODULE Settings_proof ---------------------------
(***************************************************************************)
(* For every set of values the sliders may store: type correctness, that a *)
(* save which succeeds says what is in force, and that a start, wherever   *)
(* the program was killed and whatever failed, brings back what was last   *)
(* saved or the defaults.  What is in force lags behind the properties by  *)
(* the change under way, whether saves fail or not; the invariant says so  *)
(* for every stage of a change.  The file is what the properties were when *)
(* it was last written, or empty.                                          *)
(***************************************************************************)
EXTENDS Settings, TLAPS

(* The controls agree with the properties p, but for the one setting k. *)
AgreeBut(k, p) ==
  /\ \A f \in Faithful : f # k => inForce[f] = Number(p, f)
  /\ k # "sensitivity" =>
       AtLeastOne(inForce["sensitivity"]) = AtLeastOne(Number(p, "sensitivity"))

(* The change under way is in the properties already. *)
ChangeIsStored ==
  change.key \in Numeric =>
    /\ change.number = props.number[change.key] /\ change.number # Absent
    /\ change.key # "sensitivity" => change.number > 0

Restores(f, p) ==
  /\ \A k \in Faithful : f[k] = Number(p, k)
  /\ AtLeastOne(f["sensitivity"]) = AtLeastOne(Number(p, "sensitivity"))

Lagging  == stage # "down" => AgreeBut(change.key, props) /\ ChangeIsStored
Idle     == stage = "idle" => change = NoChange
Saved    == saved => file = props /\ stage \in {"apply", "idle"}
Whole    == file = Empty \/ Restores(kept, file)

SInv == STypeOK /\ Lagging /\ Idle /\ Saved /\ Whole

LEMMA EmptyTypes ==
  /\ Empty \in Properties /\ NoChange \in Changes /\ Default \in [Numeric -> 0 .. 200]
  /\ Restorable \subseteq Numeric
<1>1. Empty \in Properties  BY DEF Properties, Empty, Texts, Absent
<1>2. NoChange \in Changes  BY DEF Changes, NoChange, Texts, Absent
<1>3. Default \in [Numeric -> 0 .. 200]  BY DEF Default
<1>4. Restorable \subseteq Numeric  BY DEF Restorable, Faithful, Numeric
<1> QED BY <1>1, <1>2, <1>3, <1>4

(* A control that no properties hold has its default. *)
LEMMA NothingIsDefault ==
  /\ [k \in Numeric |-> Number(Empty, k)] = Default
  /\ \A k \in Numeric : Number(Empty, k) = Default[k]
<1>1. \A k \in Numeric : Number(Empty, k) = Default[k]
  BY DEF Number, Empty
<1> QED BY <1>1 DEF Default

(* The fields as the listener of the change under way leaves them.         *)
LEMMA AppliedType ==
  ASSUME STypeOK, ChangeIsStored
  PROVE  Applied \in [Numeric -> 0 .. 200]
<1>1. change.key \in Numeric => AtLeastOne(change.number) \in 0 .. 200
  BY DEF STypeOK, ChangeIsStored, AtLeastOne, Changes, Absent
<1> QED BY <1>1 DEF STypeOK, Applied

(* A listener's value is a number, so no step leaves the types.            *)
LEMMA SettingsTypes ==
  ASSUME SInv, [SNext]_svars
  PROVE  STypeOK'
<1>t. STypeOK  BY DEF SInv
<1> USE <1>t DEF STypeOK
<1>n. Empty \in Properties /\ NoChange \in Changes
  BY EmptyTypes
<1>1. CASE Start
  <2>1. ASSUME NEW k \in Numeric PROVE Number(file, k) \in 0 .. 200
    BY DEF Properties, Number, Default, Absent
  <2>2. inForce' \in [Numeric -> 0 .. 200]  BY <1>1, <2>1 DEF Start
  <2>3. autoCalibration' \in BOOLEAN  BY <1>1 DEF Start, ParseBoolean
  <2> QED BY <1>1, <1>n, <2>2, <2>3 DEF Start, past
<1>u. CASE StartUnread
  <2>1. inForce' \in [Numeric -> 0 .. 200]
    BY <1>u, EmptyTypes, NothingIsDefault DEF StartUnread
  <2>2. autoCalibration' \in BOOLEAN  BY <1>u DEF StartUnread, ParseBoolean
  <2> QED BY <1>u, <1>n, <2>1, <2>2 DEF StartUnread, past
<1>2. ASSUME NEW k \in Numeric, NEW n \in SliderValues[k], MoveSlider(k, n) PROVE STypeOK'
  <2>1. n \in 0 .. 200  BY SliderValuesAssumption
  <2>2. props' \in Properties  BY <1>2, <2>1 DEF MoveSlider, Properties
  <2>3. change' \in Changes  BY <1>2, <2>1 DEF MoveSlider, Changes, Texts
  <2> QED BY <1>2, <2>2, <2>3 DEF MoveSlider, fields, past
<1>3. ASSUME NEW t \in {"manual", "auto"}, ChooseCalibration(t) PROVE STypeOK'
  <2>1. props' \in Properties  BY <1>3 DEF ChooseCalibration, Properties, Texts
  <2>2. change' \in Changes  BY <1>3 DEF ChooseCalibration, Changes, Texts
  <2> QED BY <1>3, <2>1, <2>2 DEF ChooseCalibration, fields, past
<1>4. CASE Apply
  <2>1. Applied \in [Numeric -> 0 .. 200]
    BY <1>4, AppliedType DEF SInv, Lagging, Apply
  <2>2. autoCalibration' \in BOOLEAN  BY <1>4 DEF Apply
  <2> QED BY <1>4, <1>n, <2>1, <2>2 DEF Apply, past
<1>s. CASE StoreProps
  <2>1. Applied \in [Numeric -> 0 .. 200]
    BY <1>s, AppliedType DEF SInv, Lagging, StoreProps
  <2>2. kept' \in [Restorable -> 0 .. 200]  BY <1>s, <2>1, EmptyTypes DEF StoreProps
  <2> QED BY <1>s, <2>2 DEF StoreProps, fields
<1>5. CASE StoreOther \/ OpenFile \/ OpenFails \/ StoreFails \/ Stop
  <2>1. CASE StoreOther  BY <2>1, <1>n DEF StoreOther, fields, past
  <2>2. CASE OpenFile  BY <2>2, <1>n DEF OpenFile, fields, past
  <2>3. CASE OpenFails  BY <2>3 DEF OpenFails, fields, past
  <2>4. CASE StoreFails  BY <2>4 DEF StoreFails, fields, past
  <2>5. CASE Stop  BY <2>5, <1>n DEF Stop, fields
  <2> QED BY <1>5, <2>1, <2>2, <2>3, <2>4, <2>5
<1>6. CASE UNCHANGED svars  BY <1>6 DEF svars, fields, past
<1> QED BY <1>1, <1>u, <1>2, <1>3, <1>4, <1>s, <1>5, <1>6 DEF SNext

(* The invariant holds at the start. *)
LEMMA SettingsStart == SInit => SInv
<1> SUFFICES ASSUME SInit PROVE SInv  OBVIOUS
<1>1. STypeOK
  BY EmptyTypes DEF SInit, STypeOK
<1> QED BY <1>1 DEF SInit, SInv, Lagging, Idle, Saved, Whole

(* What the listener of the change under way leaves in force is what the   *)
(* properties say.                                                         *)
LEMMA AppliedAgrees ==
  ASSUME SInv, stage # "down"
  PROVE  Restores(Applied, props)
<1>t. STypeOK  BY DEF SInv
<1>1. AgreeBut(change.key, props) /\ ChangeIsStored  BY DEF SInv, Lagging
<1>2. CASE change.key \notin Numeric
  <2>1. change.key \notin Faithful /\ change.key # "sensitivity"
    BY <1>2 DEF Numeric, Faithful
  <2> QED BY <1>1, <1>2, <2>1 DEF Applied, AgreeBut, Restores
<1>3. CASE change.key \in Numeric
  <2> DEFINE k == change.key
             n == AtLeastOne(change.number)
  <2>1. Applied = [inForce EXCEPT ![Field(k)] = n] /\ Field(k) \in Numeric
    BY <1>3 DEF Applied, Field, Numeric
  <2>2. change.number \in 0 .. 200 /\ Number(props, k) = change.number
    BY <1>t, <1>1, <1>3 DEF STypeOK, Changes, ChangeIsStored, Number, Absent
  <2>3. ASSUME NEW f \in Faithful PROVE Applied[f] = Number(props, f)
    <3>1. CASE f = k
      <4>1. Field(k) = k /\ n = change.number
        BY <1>1, <1>3, <2>2, <3>1 DEF Field, Faithful, AtLeastOne, ChangeIsStored
      <4> QED BY <1>t, <2>1, <2>2, <3>1, <4>1 DEF STypeOK
    <3>2. CASE f # k
      <4>1. Field(k) # f  BY <3>2 DEF Field, Faithful
      <4>2. f \in Numeric  BY DEF Faithful, Numeric
      <4> QED BY <1>t, <1>1, <2>1, <3>2, <4>1, <4>2 DEF AgreeBut, STypeOK
    <3> QED BY <3>1, <3>2
  <2>4. AtLeastOne(Applied["sensitivity"]) = AtLeastOne(Number(props, "sensitivity"))
    <3>1. CASE k = "sensitivity"
      <4>1. Field(k) = k /\ Applied[k] = n  BY <1>t, <2>1, <3>1 DEF Field, STypeOK
      <4>2. AtLeastOne(n) = AtLeastOne(change.number)  BY <2>2 DEF AtLeastOne
      <4> QED BY <2>1, <2>2, <3>1, <4>1, <4>2
    <3>2. CASE k # "sensitivity"
      <4>1. Field(k) # "sensitivity" /\ "sensitivity" \in Numeric
        BY <3>2 DEF Field, Numeric
      <4> QED BY <1>t, <1>1, <2>1, <3>2, <4>1 DEF AgreeBut, STypeOK
    <3> QED BY <3>1, <3>2
  <2> QED BY <2>3, <2>4 DEF Restores
<1> QED BY <1>2, <1>3

(* The steps of a change, each with what it may disturb. *)
LEMMA SettingsStep ==
  ASSUME SInv, [SNext]_svars
  PROVE  SInv'
<1> USE DEF SInv
<1>t. STypeOK'  BY SettingsTypes
<1> SUFFICES Lagging' /\ Idle' /\ Saved' /\ Whole'  BY <1>t
<1>n. NoChange.key = "none" /\ "none" \notin Numeric
  BY DEF NoChange, Numeric
<1>1. CASE Start
  <2>1. Faithful \subseteq Numeric /\ "sensitivity" \in Numeric  BY DEF Faithful, Numeric
  <2>2. AgreeBut("none", props)'  BY <1>1, <2>1 DEF Start, AgreeBut, Number, Faithful
  <2> QED BY <1>1, <1>n, <2>2 DEF Start, Lagging, ChangeIsStored, Idle, Saved, Whole, Restores, past
<1>u. CASE StartUnread
  <2>1. Faithful \subseteq Numeric /\ "sensitivity" \in Numeric  BY DEF Faithful, Numeric
  <2>2. AgreeBut("none", props)'
    BY <1>u, <2>1 DEF StartUnread, AgreeBut, Number, Faithful
  <2> QED BY <1>u, <1>n, <2>2
       DEF StartUnread, Lagging, ChangeIsStored, Idle, Saved, Whole, Restores, past
<1>2. ASSUME NEW k \in Numeric, NEW n \in SliderValues[k], MoveSlider(k, n)
      PROVE  Lagging' /\ Idle' /\ Saved' /\ Whole'
  <2>1. n \in 0 .. 200 /\ (k # "sensitivity" => n > 0)  BY SliderValuesAssumption
  <2>2. /\ change'.key = k /\ change'.number = n
        /\ props'.number = [props.number EXCEPT ![k] = n]
    BY <1>2 DEF MoveSlider, STypeOK, Properties
  <2>3. props'.number[k] = n  BY <2>2 DEF STypeOK, Properties
  <2>4. ChangeIsStored'  BY <2>1, <2>2, <2>3 DEF ChangeIsStored, Absent
  <2>5. AgreeBut(k, props)'
    <3>1. AgreeBut("none", props) /\ inForce' = inForce
      BY <1>2, <1>n DEF MoveSlider, Idle, Lagging, fields
    <3>2. ASSUME NEW f \in Numeric, f # k PROVE Number(props', f) = Number(props, f)
      BY <2>2, <3>2 DEF Number, STypeOK, Properties
    <3>3. Faithful \subseteq Numeric /\ "sensitivity" \in Numeric /\ "none" \notin Numeric
      BY DEF Faithful, Numeric
    <3> QED BY <3>1, <3>2, <3>3 DEF AgreeBut
  <2> QED BY <1>2, <2>2, <2>4, <2>5 DEF MoveSlider, Lagging, Idle, Saved, Whole, Restores, past
<1>3. ASSUME NEW t \in {"manual", "auto"}, ChooseCalibration(t)
      PROVE  Lagging' /\ Idle' /\ Saved' /\ Whole'
  <2>1. AgreeBut("none", props)  BY <1>3, <1>n DEF ChooseCalibration, Idle, Lagging
  <2>2. change'.key = "calibration" /\ props'.number = props.number
    BY <1>3 DEF ChooseCalibration, STypeOK, Properties
  <2>3. "calibration" \notin Numeric \cup Faithful /\ "none" \notin Faithful
    BY DEF Numeric, Faithful
  <2>4. AgreeBut("calibration", props)'
    BY <1>3, <2>1, <2>2, <2>3 DEF ChooseCalibration, AgreeBut, Number, fields
  <2> QED BY <1>3, <2>2, <2>3, <2>4
       DEF ChooseCalibration, Lagging, ChangeIsStored, Idle, Saved, Whole, Restores, past
<1>4. CASE StoreOther
  <2>1. AgreeBut("none", props)  BY <1>4, <1>n DEF StoreOther, Idle, Lagging
  <2>2. AgreeBut("none", props)'  BY <1>4, <2>1 DEF StoreOther, AgreeBut, Number, fields
  <2> QED BY <1>4, <1>n, <2>2 DEF StoreOther, Lagging, ChangeIsStored, Idle, Saved, Whole, Restores, past
<1>5. CASE OpenFile \/ OpenFails \/ StoreFails
  <2>1. Lagging'
    BY <1>5 DEF OpenFile, OpenFails, StoreFails, Lagging, AgreeBut, Number,
                ChangeIsStored, fields
  <2> QED BY <1>5, <2>1
       DEF OpenFile, OpenFails, StoreFails, Idle, Saved, Whole, Restores, Number, past
<1>s. CASE StoreProps
  <2>1. Lagging'
    BY <1>s DEF StoreProps, Lagging, AgreeBut, Number, ChangeIsStored, fields
  <2>2. Whole'
    <3>1. Restores(Applied, props)  BY <1>s, AppliedAgrees DEF StoreProps
    <3>2. Faithful \subseteq Restorable /\ "sensitivity" \in Restorable
      BY DEF Restorable
    <3>3. \A k \in Restorable : kept'[k] = Applied[k]  BY <1>s DEF StoreProps
    <3> QED BY <1>s, <3>1, <3>2, <3>3 DEF StoreProps, Restores, Whole, Number
  <2> QED BY <1>s, <2>1, <2>2 DEF StoreProps, Idle, Saved
<1>6. CASE Apply
  <2>1. Restores(Applied, props)  BY <1>6, AppliedAgrees DEF Apply
  <2>2. AgreeBut("none", props)'
    BY <1>6, <2>1 DEF Apply, AgreeBut, Restores, Number
  <2> QED BY <1>6, <1>n, <2>2 DEF Apply, Lagging, ChangeIsStored, Idle, Saved, Whole,
                                  Restores, Number, past
<1>7. CASE Stop
  BY <1>7 DEF Stop, Lagging, Idle, Saved, Whole, Restores, Number
<1>8. CASE UNCHANGED svars
  BY <1>8 DEF svars, fields, Lagging, AgreeBut, Number, ChangeIsStored, Idle, Saved, Whole, Restores, past
<1> QED BY <1>1, <1>u, <1>2, <1>3, <1>4, <1>5, <1>s, <1>6, <1>7, <1>8 DEF SNext

LEMMA SettingsInvariant == SSpec => []SInv
<1> QED BY SettingsStart, SettingsStep, PTL DEF SSpec

(* AppSettings and the listeners keep numbers numbers, whatever fails.     *)
THEOREM SettingsTypeCorrect == SSpec => []STypeOK
<1>1. SInv => STypeOK  BY DEF SInv
<1> QED BY <1>1, SettingsInvariant, PTL

(* Whatever saves failed before, the file of a successful save is what is  *)
(* in force, once the listener has returned (AppSettings.save and the      *)
(* listeners of CameraTrack.init).                                         *)
THEOREM SavedSettingsAreInForce == SSpec => []SavedIsInForce
<1>1. SInv => SavedIsInForce
  <2>1. "none" \notin Faithful \cup {"sensitivity"} /\ NoChange.key = "none"
    BY DEF Faithful, NoChange
  <2> QED BY <2>1 DEF SInv, Lagging, Idle, Saved, AgreeBut, SavedIsInForce
<1> QED BY <1>1, SettingsInvariant, PTL

(* A start brings back position, colour and sensitivity as the change that *)
(* was last saved left them, or all defaults, and these only if the file   *)
(* could not be read or the last save ended half way: for every value the  *)
(* sliders may have stored, and wherever the program was killed            *)
(* (AppSettings, lines 29-33 and 52-58; CameraTrack.init).                 *)
THEOREM SettingsSurviveRestart == SSpec => RestartRestores
<1> DEFINE A == \/ /\ \A k \in Faithful : inForce'[k] = kept[k]
                   /\ AtLeastOne(inForce'["sensitivity"]) = AtLeastOne(kept["sensitivity"])
                \/ inForce' = Default /\ (StartUnread \/ file = Empty)
<1>1. ASSUME SInv, Start PROVE A
  <2>1. inForce' = [k \in Numeric |-> Number(file, k)]  BY <1>1 DEF Start
  <2>2. CASE file = Empty
    <3>1. inForce' = Default  BY <2>1, <2>2, NothingIsDefault
    <3> QED BY <2>2, <3>1
  <2>3. CASE Restores(kept, file)
    <3>1. Faithful \subseteq Numeric /\ "sensitivity" \in Numeric
      BY DEF Faithful, Numeric
    <3> QED BY <2>1, <2>3, <3>1 DEF Restores
  <2> QED BY <1>1, <2>2, <2>3 DEF SInv, Whole
<1>2. ASSUME StartUnread PROVE A
  BY <1>2, NothingIsDefault DEF StartUnread
<1>3. SInv /\ [SNext]_svars => [(Start \/ StartUnread) => A]_svars
  BY <1>1, <1>2
<1> QED BY <1>3, SettingsInvariant, PTL DEF SSpec, RestartRestores
=============================================================================
