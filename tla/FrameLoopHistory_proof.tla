----------------------- MODULE FrameLoopHistory_proof -----------------------
(***************************************************************************)
(* For every size of frame, every set of scenes and all values of the      *)
(* sliders: what is reported as motion is one.  The argument: while a      *)
(* frame is compared, the reference is the one it started with or, once    *)
(* the window has calibrated, the frame's own raster, which differs from   *)
(* itself nowhere; so the first group found changed shows a difference     *)
(* from the reference the frame started with.  Every position is an angle  *)
(* of the servo.  And for every width of frame and group: where it aims,   *)
(* and what it cannot miss.  That argument follows x, which is the number  *)
(* of groups times their width, or one more, and keeps a changed column of *)
(* the first and of the last changed group at hand; the rest is the        *)
(* arithmetic of two truncating divisions.                                 *)
(***************************************************************************)
EXTENDS FrameLoopHistory, FiniteSetTheorems, TLAPS

Types ==
  /\ image \in Scenes /\ top \in Nat /\ bottom \in Nat
  /\ currentRaster \in Raster \cup {None}
  /\ lastRaster \in Raster \cup {None}
  /\ before \in Raster \cup {None}
  /\ group \in Nat /\ x \in Nat /\ boxCounter \in Nat
  /\ sensitivitySetting \in Nat
  /\ bandPos \in Nat /\ bandHeight \in Nat
  /\ allowedColorVariance \in Nat

Difference ==
  /\ Rows(currentRaster) \cap Rows(before) # {}
  /\ ChangedColumns # {}

(* What is compared, and with what. *)
Comparing == frame = "compare" =>
  /\ currentRaster # None /\ before # None
  /\ lastRaster \in {before, currentRaster}

EdgesAreReal == frame = "compare" /\ leftEdge >= 0 => Difference

Unreported == frame \in {"grab", "compare"} => reported = -1

MInv == Types /\ Comparing /\ EdgesAreReal /\ Unreported /\ MotionIsReal

-----------------------------------------------------------------------------
LEMMA NoneIsNoRaster == None \notin Raster
  BY DEF None, Raster

LEMMA BandTypes ==
  ASSUME NEW p \in Nat, NEW h \in Nat
  PROVE  BandTop(p, h) \in Nat /\ BandBottom(p, h) \in Nat
<1>1. 2 * Height * p + 100 \in Nat /\ 2 * Height * h + 200 \in Nat
  <2>1. \A m, n \in Nat : m * n \in Nat
    OBVIOUS
  <2> QED BY <2>1, SizeAssumption
<1>2. \A n \in Nat : n \div 200 \in Nat /\ n \div 400 \in Nat
  OBVIOUS
<1>3. VerticalCenter(p) \in Nat /\ HalfBand(h) \in Nat
  BY <1>1, <1>2 DEF VerticalCenter, HalfBand
<1> QED BY <1>3, SizeAssumption DEF BandTop, BandBottom

LEMMA SameIsNoDifference ==
  ASSUME NEW v \in 0 .. 255, allowedColorVariance \in Nat
  PROVE  ~Differ(v, v)
<1>1. Signed(v) \in Int
  BY DEF Signed
<1>2. Abs(Signed(v) - Signed(v)) = 0
  BY <1>1 DEF Abs
<1> QED BY <1>2 DEF Differ

LEMMA ThresholdType ==
  ASSUME sensitivitySetting \in Nat
  PROVE  Threshold \in Nat
<1>1. MaxSensitivity \div 2 \in Int
  BY SliderAssumption
<1> QED BY <1>1 DEF Threshold, Abs

(* A group counts as changed only for a pixel that differs, in a row that  *)
(* both rasters hold.                                                      *)
LEMMA MismatchIsReal ==
  ASSUME NEW a \in Raster, NEW b \in Raster, NEW start \in Nat,
         group \in Nat, allowedColorVariance \in Nat,
         NEW threshold \in Nat, Mismatch(start, a, b) > threshold
  PROVE  /\ Rows(a) \cap Rows(b) # {}
         /\ \E c \in GroupColumns(start) : c \in Column /\ a.scene[c] # b.scene[c]
<1> DEFINE columns == {c \in GroupColumns(start) : Differ(a.scene[c], b.scene[c])}
           rows    == Rows(a) \cap Rows(b)
           off     == Cardinality(columns) * Cardinality(rows)
<1>1. off > 0
  BY DEF Mismatch
<1>2. IsFiniteSet(columns) /\ IsFiniteSet(rows)
  <2>1. IsFiniteSet(GroupColumns(start))
    <3>1. \A m, n \in Int : IsFiniteSet(m .. n)
      BY FS_Interval
    <3> QED BY <3>1, SizeAssumption DEF GroupColumns
  <2>2. IsFiniteSet(Rows(a))
    <3>1. a.top \in Nat /\ a.bottom \in Nat
      BY DEF Raster
    <3>2. \A m, n \in Int : IsFiniteSet(m .. n)
      BY FS_Interval
    <3>3. a.bottom - 1 \in Int /\ a.top \in Int
      BY <3>1
    <3> QED BY <3>2, <3>3 DEF Rows
  <2>3. columns \subseteq GroupColumns(start) /\ rows \subseteq Rows(a)
    OBVIOUS
  <2> QED BY <2>1, <2>2, <2>3, FS_Subset
<1>3. Cardinality(columns) \in Nat /\ Cardinality(rows) \in Nat
  BY <1>2, FS_CardinalityType
<1>4. Cardinality(columns) # 0 /\ Cardinality(rows) # 0
  BY <1>1, <1>3
<1>5. columns # {} /\ rows # {}
  BY <1>4, FS_EmptySet
<1>6. PICK c \in GroupColumns(start) : Differ(a.scene[c], b.scene[c])
  BY <1>5
<1>7. c \in Column
  BY SizeAssumption DEF GroupColumns, Column
<1>8. a.scene[c] # b.scene[c]
  <2>1. a.scene[c] \in 0 .. 255
    BY <1>7, SizeAssumption DEF Raster
  <2> QED BY <1>6, <2>1, SameIsNoDifference
<1> QED BY <1>5, <1>7, <1>8

LEMMA ChangeIsReal ==
  ASSUME Types, Comparing, frame = "compare", Changed
  PROVE  /\ Difference
         /\ \E c \in ChangedColumns : x <= c /\ c + 2 <= x + group
<1>1. /\ currentRaster \in Raster /\ before \in Raster /\ lastRaster \in Raster
      /\ x \in Nat /\ group \in Nat /\ allowedColorVariance \in Nat
  BY DEF Types, Comparing
<1>2. Threshold \in Nat
  BY ThresholdType DEF Types
<1>3. Mismatch(x, currentRaster, lastRaster) > Threshold
  BY DEF Changed
<1>4. /\ Rows(currentRaster) \cap Rows(lastRaster) # {}
      /\ \E c \in GroupColumns(x) : c \in Column /\ currentRaster.scene[c] # lastRaster.scene[c]
  BY <1>1, <1>2, <1>3, MismatchIsReal
<1>5. lastRaster = before
  BY <1>4 DEF Comparing
<1>6. PICK c \in GroupColumns(x) : c \in Column /\ currentRaster.scene[c] # lastRaster.scene[c]
  BY <1>4
<1>7. c \in ChangedColumns
  BY <1>5, <1>6 DEF ChangedColumns
<1>8. x <= c /\ c + 2 <= x + group
  BY <1>1, <1>6, SizeAssumption DEF GroupColumns
<1> QED BY <1>4, <1>5, <1>7, <1>8 DEF Difference

-----------------------------------------------------------------------------
LEMMA StartTyped == HInit => Types
  BY SliderAssumption DEF HInit, FInit, Types

LEMMA StepTyped == Types /\ [HNext]_hvars => Types'
<1> SUFFICES ASSUME Types, [HNext]_hvars PROVE Types'
  OBVIOUS
<1> USE DEF Types, rasters, loopVars, band, sliders, controls
<1>1. CASE Arrive
  <2>1. BandTop(bandPos, bandHeight) \in Nat
    BY BandTypes
  <2>2. BandBottom(bandPos, bandHeight) \in Nat
    BY BandTypes
  <2> QED BY <1>1, <2>1, <2>2 DEF Arrive, NextFrame
<1>2. CASE Start
  BY <1>2 DEF Start, Grab, Raster
<1>3. CASE Continue
  <2>1. CASE EmptyBand \/ SkipAdjusting \/ Report \/ EndFrame
    BY <1>3, <2>1 DEF Continue, EmptyBand, SkipAdjusting, Report, EndFrame
  <2>2. CASE CompareGroup
    BY <1>3, <2>2 DEF Continue, CompareGroup
  <2> QED BY <1>3, <2>1, <2>2 DEF Continue
<1>4. CASE Disturb
  BY <1>4, SliderAssumption
     DEF Disturb, Window, frameVars, Calibrate, ActionPerformed, MouseAdjusts, SetBandPosition,
         SetBandHeight, SetSensitivitySetting, SetAllowedColorVariance
<1>5. CASE UNCHANGED hvars
  BY <1>5 DEF hvars, fvars
<1> QED BY <1>1, <1>2, <1>3, <1>4, <1>5 DEF HNext

LEMMA StepReal == MInv /\ [HNext]_hvars => MInv'
<1> SUFFICES ASSUME MInv, [HNext]_hvars PROVE MInv'
  OBVIOUS
<1>0. Types /\ Types'
  BY StepTyped DEF MInv
<1> SUFFICES Comparing' /\ EdgesAreReal' /\ Unreported' /\ MotionIsReal'
  BY <1>0 DEF MInv
<1> USE DEF rasters, loopVars, band, sliders, controls
<1>1. CASE Arrive
  BY <1>1 DEF Arrive, NextFrame, Comparing, EdgesAreReal, Unreported, MotionIsReal, MotionReported
<1>2. CASE Start
  <2>1. before' = lastRaster' /\ currentRaster' # None /\ leftEdge' = -1
    BY <1>0, <1>2, NoneIsNoRaster DEF Start, Grab, Types, Raster
  <2>2. frame' = "compare" => before' # None
    BY <1>2 DEF Start, Grab
  <2>3. reported' = -1
    BY <1>2 DEF Start, Grab, MInv, Unreported
  <2> QED BY <2>1, <2>2, <2>3
          DEF Comparing, EdgesAreReal, Unreported, MotionIsReal, MotionReported
<1>3. CASE Continue
  <2>1. CASE EmptyBand \/ EndFrame
    BY <2>1 DEF EmptyBand, EndFrame, Comparing, EdgesAreReal, Unreported, MotionIsReal,
                MotionReported
  <2>2. CASE SkipAdjusting
    BY <2>2 DEF SkipAdjusting, MInv, Comparing, EdgesAreReal, Unreported, MotionIsReal,
                MotionReported
  <2>3. CASE CompareGroup
    <3>1. frame = "compare" /\ frame' = "compare" /\ reported' = reported
          /\ UNCHANGED <<currentRaster, lastRaster, before>>
      BY <1>3, <2>3 DEF Continue, CompareGroup
    <3>2. Difference' <=> Difference
      BY <3>1 DEF Difference, ChangedColumns, Rows
    <3>3. leftEdge' >= 0 => Changed \/ leftEdge >= 0
      BY <2>3 DEF CompareGroup
    <3>4. EdgesAreReal'
      BY <3>1, <3>2, <3>3, ChangeIsReal DEF MInv, EdgesAreReal
    <3> QED BY <3>1, <3>4
            DEF MInv, Comparing, Unreported, MotionIsReal, MotionReported
  <2>4. CASE Report
    <3>1. frame = "compare" /\ frame' = "calibrate" /\ (reported' > 0 => leftEdge >= 0)
      BY <2>4 DEF Report
    <3>2. UNCHANGED <<currentRaster, before>>
      BY <1>3, <2>4 DEF Continue, Report
    <3>3. Difference' <=> Difference
      BY <3>2 DEF Difference, ChangedColumns, Rows
    <3>4. reported' > 0 => Difference'
      BY <3>1, <3>3 DEF MInv, EdgesAreReal
    <3> QED BY <3>1, <3>4
            DEF Comparing, EdgesAreReal, Unreported, MotionIsReal, MotionReported, Difference
  <2> QED BY <1>3, <2>1, <2>2, <2>3, <2>4 DEF Continue
<1>4. CASE Disturb
  <2>1. UNCHANGED <<frame, currentRaster, leftEdge, reported, before>>
        /\ lastRaster' \in {lastRaster, currentRaster}
    BY <1>4 DEF Disturb, Window, frameVars, Calibrate, ActionPerformed, MouseAdjusts,
                SetBandPosition, SetBandHeight, SetSensitivitySetting, SetAllowedColorVariance
  <2>2. Difference' <=> Difference
    BY <2>1 DEF Difference, ChangedColumns, Rows
  <2> QED BY <2>1, <2>2
          DEF MInv, Comparing, EdgesAreReal, Unreported, MotionIsReal, MotionReported, Difference
<1>5. CASE UNCHANGED hvars
  BY <1>5 DEF hvars, fvars, MInv, Comparing, EdgesAreReal, Unreported, MotionIsReal,
              MotionReported, Difference, ChangedColumns, Rows
<1> QED BY <1>1, <1>2, <1>3, <1>4, <1>5 DEF HNext

(* A position is reported only for a frame that differs from the reference *)
(* it was grabbed with, whatever the window does to the band, the          *)
(* reference and the sensitivity meanwhile (CameraTrack.processImage).     *)
THEOREM ReportedMotionIsReal == HSpec => []MotionIsReal
<1>1. HInit => MInv
  BY StartTyped DEF HInit, FInit, MInv, Comparing, EdgesAreReal, Unreported, MotionIsReal,
                    MotionReported
<1>2. MInv /\ [HNext]_hvars => MInv'
  BY StepReal
<1>3. MInv => MotionIsReal
  BY DEF MInv
<1> QED BY <1>1, <1>2, <1>3, PTL DEF HSpec

-----------------------------------------------------------------------------
(* Types: the number of groups grows no faster than x, so it keeps to the  *)
(* width, and the edges keep to it.  A group of no columns grows neither,  *)
(* and no change is found in it.                                           *)
Geometry ==
  /\ boxCounter <= x /\ boxCounter <= Width
  /\ leftEdge \in -1 .. boxCounter /\ rightEdge \in -1 .. boxCounter
  /\ leftEdge # 0
  /\ leftEdge > 0 => rightEdge > 0

LEMMA QuotientBound ==
  ASSUME NEW n \in Nat, NEW d \in Nat, d > 0, NEW k \in Nat, n < d * (k + 1)
  PROVE  n \div d \in 0 .. k
<1> DEFINE q == n \div d
<1>1. q \in Nat /\ d * q <= n
  OBVIOUS
<1>2. CASE q > k
  <2>1. d * (k + 1) <= d * q
    <3>1. PICK e \in Nat : q = (k + 1) + e
      <4>1. q - (k + 1) \in Nat /\ q = (k + 1) + (q - (k + 1))
        BY <1>1, <1>2
      <4> QED BY <4>1
    <3> HIDE DEF q
    <3>2. d * q = d * (k + 1) + d * e
      BY <3>1
    <3>3. d * e \in Nat
      OBVIOUS
    <3> QED BY <3>2, <3>3
  <2> QED BY <1>1, <2>1
<1>3. CASE q <= k
  BY <1>1, <1>3
<1> QED BY <1>1, <1>2, <1>3

LEMMA PositionInRange ==
  ASSUME NEW boxes \in Nat, NEW left \in 1 .. boxes, NEW right \in 1 .. boxes
  PROVE  ServoPosition(left, right, boxes) \in 0 .. 180
<1> DEFINE center == (right + left) \div 2
           field  == (100 * center) \div boxes
<1>1. center \in 0 .. boxes
  BY QuotientBound
<1>2. field \in 0 .. 100
  <2>1. 100 * center \in Nat /\ 100 * center < boxes * (100 + 1)
    BY <1>1
  <2> QED BY <2>1, QuotientBound
<1>3. (180 * field) \div 100 \in 0 .. 180
  <2>1. 180 * field \in Nat /\ 180 * field < 100 * (180 + 1)
    BY <1>2
  <2> QED BY <2>1, QuotientBound
<1> QED BY <1>3 DEF ServoPosition

LEMMA BandInFrame ==
  ASSUME NEW p \in 1 .. 100, NEW h \in 1 .. 100
  PROVE  BandTop(p, h) \in 0 .. Height /\ BandBottom(p, h) \in 0 .. Height
<1>1. VerticalCenter(p) \in 0 .. Height /\ HalfBand(h) \in Nat
  <2>1. Height * p \in Nat /\ Height * p <= Height * 100 /\ Height * h \in Nat
    <3>1. PICK e \in Nat : 100 = p + e
      <4>1. 100 - p \in Nat /\ 100 = p + (100 - p)
        OBVIOUS
      <4> QED BY <4>1
    <3>2. Height * 100 = Height * p + Height * e
      BY <3>1, SizeAssumption
    <3>3. Height * p \in Nat /\ Height * e \in Nat /\ Height * h \in Nat
      BY SizeAssumption
    <3> QED BY <3>2, <3>3
  <2> DEFINE m == Height * p
             l == Height * h
  <2>2. 2 * Height * p = 2 * m /\ 2 * Height * h = 2 * l
    BY SizeAssumption
  <2>3. m \in Nat /\ l \in Nat /\ m <= Height * 100
    BY <2>1
  <2> HIDE DEF m, l
  <2>4. 2 * m + 100 \in Nat /\ 2 * m + 100 < 200 * (Height + 1)
    BY <2>3, SizeAssumption
  <2>5. (2 * m + 100) \div 200 \in 0 .. Height
    BY <2>4, SizeAssumption, QuotientBound
  <2>6. (2 * l + 200) \div 400 \in Nat
    BY <2>3
  <2> QED BY <2>2, <2>5, <2>6 DEF VerticalCenter, HalfBand
<1> QED BY <1>1, SizeAssumption DEF BandTop, BandBottom

FInv == HTypeOK /\ Geometry

LEMMA ReportFits ==
  ASSUME Geometry, Types, leftEdge >= 0
  PROVE  ServoPosition(leftEdge, rightEdge, boxCounter) \in 0 .. 180
<1>1. boxCounter \in Nat /\ leftEdge \in 1 .. boxCounter /\ rightEdge \in 1 .. boxCounter
  BY DEF Geometry, Types
<1> QED BY <1>1, PositionInRange

LEMMA StartFits == HInit => FInv
<1> SUFFICES ASSUME HInit PROVE FInv
  OBVIOUS
<1>1. adjusting \in BOOLEAN /\ autoCalibration \in BOOLEAN /\ undisturbed \in BOOLEAN
  BY DEF HInit, FInit
<1>2. group \in Restored /\ group \in Nat
  BY SliderAssumption DEF HInit, FInit
<1> QED BY <1>1, <1>2, SizeAssumption, SliderAssumption
        DEF HInit, FInit, FInv, HTypeOK, FTypeOK, Geometry

LEMMA StepFits ==
  ASSUME FInv, Types, Comparing, [HNext]_hvars
  PROVE  FInv'
<1>0. BandTop(bandPos, bandHeight) \in 0 .. Height
      /\ BandBottom(bandPos, bandHeight) \in 0 .. Height
  <2>1. bandPos \in 1 .. 100 /\ bandHeight \in 1 .. 100
    BY SliderAssumption DEF FInv, HTypeOK, FTypeOK
  <2> QED BY <2>1, BandInFrame
<1> USE SizeAssumption, SliderAssumption
    DEF FInv, HTypeOK, FTypeOK, Geometry, rasters, loopVars, band, sliders, controls
<1>1. CASE Arrive
  BY <1>0, <1>1 DEF Arrive, NextFrame
<1>2. CASE Start
  BY <1>2 DEF Start, Grab, Raster
<1>3. CASE Continue
  <2>1. CASE EmptyBand \/ SkipAdjusting \/ EndFrame
    BY <1>3, <2>1 DEF Continue, EmptyBand, SkipAdjusting, EndFrame
  <2>2. CASE CompareGroup
    <3>1. Changed => group > 1 /\ x \in Nat
      <4>1. frame = "compare" /\ x \in Nat /\ group \in Nat
        BY <2>2 DEF CompareGroup, Types
      <4>2. Changed => \E c \in ChangedColumns : x <= c /\ c + 2 <= x + group
        BY <4>1, ChangeIsReal
      <4> QED BY <4>1, <4>2 DEF ChangedColumns, Column
    <3>2. group \in Nat /\ x \in Nat /\ boxCounter \in Nat
      BY DEF Types
    <3>3. boxCounter' \in Nat /\ boxCounter' <= x' /\ boxCounter' <= Width /\ x' \in Nat
      BY <2>2, <3>1, <3>2 DEF CompareGroup
    <3>4. leftEdge' \in -1 .. boxCounter' /\ rightEdge' \in -1 .. boxCounter'
          /\ leftEdge' # 0 /\ (leftEdge' > 0 => rightEdge' > 0)
      BY <2>2, <3>1, <3>2 DEF CompareGroup
    <3> QED BY <1>3, <2>2, <3>3, <3>4 DEF Continue, CompareGroup
  <2>3. CASE Report
    <3>1. leftEdge >= 0 => ServoPosition(leftEdge, rightEdge, boxCounter) \in 0 .. 180
      BY ReportFits
    <3> QED BY <1>3, <2>3, <3>1 DEF Continue, Report
  <2> QED BY <1>3, <2>1, <2>2, <2>3 DEF Continue
<1>4. CASE Disturb
  <2>1. undisturbed' = FALSE /\ UNCHANGED <<frameVars, before>>
    BY <1>4 DEF Disturb, Window, frameVars, Calibrate, ActionPerformed, MouseAdjusts,
                SetBandPosition, SetBandHeight, SetSensitivitySetting, SetAllowedColorVariance
  <2>2. lastRaster' \in {lastRaster, currentRaster}
    BY <1>4 DEF Disturb, Window, Calibrate, ActionPerformed, MouseAdjusts,
                SetBandPosition, SetBandHeight, SetSensitivitySetting, SetAllowedColorVariance
  <2>3. adjusting' \in BOOLEAN /\ autoCalibration' \in BOOLEAN
    <3>1. CASE Calibrate
      BY <3>1 DEF Calibrate
    <3>2. CASE \E auto \in BOOLEAN : ActionPerformed(auto)
      BY <3>2 DEF ActionPerformed
    <3>3. CASE \E pressed \in BOOLEAN : MouseAdjusts(pressed)
      BY <3>3 DEF MouseAdjusts
    <3>4. CASE UNCHANGED <<adjusting, autoCalibration>>
      BY <3>4
    <3> QED BY <1>4, <3>1, <3>2, <3>3, <3>4 DEF Disturb, Window, SetBandPosition, SetBandHeight,
            SetSensitivitySetting, SetAllowedColorVariance
  <2>4. /\ bandPos' \in BandPositions /\ bandHeight' \in BandHeights
        /\ sensitivitySetting' \in Sensitivities \cup Restored
        /\ allowedColorVariance' \in Variances
    BY <1>4 DEF Disturb, Window, Calibrate, ActionPerformed, MouseAdjusts,
                SetBandPosition, SetBandHeight, SetSensitivitySetting, SetAllowedColorVariance
  <2> QED BY <2>1, <2>2, <2>3, <2>4 DEF frameVars
<1>5. CASE UNCHANGED hvars
  BY <1>5 DEF hvars, fvars
<1> QED BY <1>1, <1>2, <1>3, <1>4, <1>5 DEF HNext

(* For every size of group, 0 included: every position is an angle of the  *)
(* servo, and no loop variable leaves the frame (CameraTrack.processImage, *)
(* lines 301-356).                                                         *)
THEOREM FrameTypeCorrect == HSpec => []HTypeOK
<1>1. HInit => FInv /\ MInv
  BY StartFits, StartTyped DEF HInit, FInit, MInv, Comparing, EdgesAreReal, Unreported,
                               MotionIsReal, MotionReported
<1>2. FInv /\ MInv /\ [HNext]_hvars => (FInv /\ MInv)'
  BY StepFits, StepReal DEF MInv
<1>3. FInv => HTypeOK
  BY DEF FInv
<1> QED BY <1>1, <1>2, <1>3, PTL DEF HSpec

-----------------------------------------------------------------------------
(* Aim and sight: arithmetic. *)
LEMMA Scaled ==
  ASSUME NEW m \in Nat, NEW n \in Nat, NEW k \in Nat, m <= n
  PROVE  m * k \in Nat /\ n * k \in Nat /\ m * k <= n * k
<1>1. PICK e \in Nat : n = m + e
  <2>1. n - m \in Nat /\ n = m + (n - m)
    OBVIOUS
  <2> QED BY <2>1
<1>2. n * k = m * k + e * k
  BY <1>1
<1>3. m * k \in Nat /\ e * k \in Nat
  OBVIOUS
<1> QED BY <1>2, <1>3

LEMMA Division ==
  ASSUME NEW n \in Nat, NEW d \in Nat \ {0}
  PROVE  n \div d \in Nat /\ d * (n \div d) <= n /\ n < d * (n \div d) + d
OBVIOUS

(* The angle against the outermost changed groups: truncation takes less   *)
(* than three degrees, and all of it only in the leftmost fiftieth.        *)
LEMMA PositionBounds ==
  ASSUME NEW boxes \in Nat \ {0}, NEW left \in 1 .. boxes, NEW right \in left .. boxes
  PROVE  LET position == ServoPosition(left, right, boxes)
         IN  /\ position \in Nat
             /\ position * boxes <= 180 * right
             /\ 180 * left <= position * boxes + 3 * boxes
             /\ 50 * right >= boxes => position > 0
<1> DEFINE center == (right + left) \div 2
           field  == (100 * center) \div boxes
           angle  == (180 * field) \div 100
           m == boxes * field
           n == boxes * angle
<1>1. center \in Nat /\ center >= left /\ center <= right /\ 2 * center >= right
  OBVIOUS
<1>2. field \in Nat /\ m \in Nat /\ m <= 100 * center /\ 100 * center < m + boxes
  <2>1. 100 * center \in Nat
    BY <1>1
  <2> HIDE DEF center
  <2>2. field \in Nat /\ m <= 100 * center /\ 100 * center < m + boxes
    BY <2>1, Division
  <2> HIDE DEF field
  <2>3. \A i, j \in Nat : i * j \in Nat
    OBVIOUS
  <2> QED BY <2>2, <2>3
<1>3. field = 0 => m = 0
  <2> HIDE DEF field
  <2> QED OBVIOUS
<1> HIDE DEF center, field
<1>4. angle \in Nat /\ 100 * angle <= 180 * field /\ 180 * field < 100 * angle + 100
  BY <1>2
<1> HIDE DEF angle
<1>5. n \in Nat /\ 100 * n <= 180 * m /\ 180 * m <= 100 * n + 99 * boxes
  <2>1. PICK e \in 0 .. 99 : 180 * field = 100 * angle + e
    <3>1. 180 * field - 100 * angle \in 0 .. 99
          /\ 180 * field = 100 * angle + (180 * field - 100 * angle)
      BY <1>2, <1>4
    <3> QED BY <3>1
  <2>2. 180 * m = 100 * n + boxes * e
    <3>1. boxes * (180 * field) = boxes * (100 * angle) + boxes * e
      BY <1>2, <1>4, <2>1
    <3>2. boxes * (180 * field) = 180 * (boxes * field)
          /\ boxes * (100 * angle) = 100 * (boxes * angle)
      BY <1>2, <1>4
    <3> QED BY <3>1, <3>2
  <2>3. e * boxes \in Nat /\ e * boxes <= 99 * boxes
    <3>1. e <= 99 /\ e \in Nat
      OBVIOUS
    <3> QED BY <3>1, Scaled
  <2>4. \A i, j \in Nat : i * j \in Nat /\ i * j = j * i
    OBVIOUS
  <2>5. n \in Nat
    BY <1>4, <2>4
  <2>6. boxes * e = e * boxes
    BY <2>4
  <2> HIDE DEF m, n
  <2> QED BY <1>2, <2>2, <2>3, <2>5, <2>6
<1>6. angle * boxes = n
  BY <1>4
<1> HIDE DEF m, n
<1>7. n <= 180 * right /\ 180 * left <= n + 3 * boxes
  BY <1>1, <1>2, <1>5
<1>8. 50 * right >= boxes => angle > 0
  <2>1. 50 * right >= boxes => m # 0
    BY <1>1, <1>2
  <2>2. field # 0 => angle > 0
    BY <1>2, <1>4
  <2> QED BY <1>3, <1>4, <2>1, <2>2
<1>9. ServoPosition(left, right, boxes) = angle
  BY DEF ServoPosition, angle, field, center
<1> QED BY <1>4, <1>6, <1>7, <1>8, <1>9

(* The group in hand begins at its place, or one column to the right of it *)
(* once the first group has changed.                                       *)
Boxes == frame = "compare" =>
  /\ currentRaster.top < currentRaster.bottom
  /\ boxCounter * group <= x /\ x <= boxCounter * group + 1
  /\ x <= Width + group
  /\ \/ leftEdge = -1 /\ rightEdge = -1
     \/ group > 0 /\ leftEdge \in 1 .. boxCounter /\ rightEdge \in leftEdge .. boxCounter

(* Columns that changed, in the first and in the last of the changed groups. *)
Outermost == frame = "compare" /\ leftEdge > 0 =>
  \E first, last \in ChangedColumns :
    /\ first <= last
    /\ first + 1 <= leftEdge * group
    /\ rightEdge * group <= last + group

(* Left alone, the loop does not get past a group that changed as a whole. *)
Seeing == group > 1 /\ Threshold < 100 /\ Rows(currentRaster) \subseteq Rows(before)

Filled == frame = "compare" /\ undisturbed =>
  /\ lastRaster = before
  /\ Seeing => \A first \in Column :
       Run(first) => \/ x <= first + group
                     \/ rightEdge > 0 /\ first + group <= rightEdge * group + 1

AInv == /\ Types /\ Comparing /\ Unreported /\ Boxes /\ Outermost /\ Filled
        /\ AimsInsideMotion /\ MotionIsSeen

LEMMA OneGroupMore ==
  ASSUME NEW b \in Nat, NEW g \in Nat
  PROVE  b * g \in Nat /\ (b + 1) * g = b * g + g
OBVIOUS

LEMMA MismatchIsFull ==
  ASSUME NEW a \in Raster, NEW b \in Raster, NEW start \in Nat, start < Width,
         group \in Nat, group > 1, a.top < a.bottom, Rows(a) \subseteq Rows(b),
         \A c \in GroupColumns(start) : Differ(a.scene[c], b.scene[c])
  PROVE  Mismatch(start, a, b) = 100
<1> DEFINE columns == {c \in GroupColumns(start) : Differ(a.scene[c], b.scene[c])}
           n == Cardinality(GroupColumns(start))
           h == Cardinality(Rows(a))
<1>1. columns = GroupColumns(start) /\ Rows(a) \cap Rows(b) = Rows(a)
  OBVIOUS
<1>2. n \in Nat /\ n > 0
  <2>1. \A i, j \in Int : IsFiniteSet(i .. j)
    BY FS_Interval
  <2>2. IsFiniteSet(GroupColumns(start))
    BY <2>1, SizeAssumption DEF GroupColumns
  <2>3. start \in GroupColumns(start)
    BY SizeAssumption DEF GroupColumns
  <2> QED BY <2>2, <2>3, FS_CardinalityType, FS_EmptySet
<1>3. h \in Nat /\ h > 0
  <2>1. \A i, j \in Int : IsFiniteSet(i .. j)
    BY FS_Interval
  <2>2. a.top \in Nat /\ a.bottom \in Nat
    BY DEF Raster
  <2>3. a.bottom - 1 \in Int /\ a.top \in Int /\ a.top <= a.bottom - 1
    BY <2>2
  <2>4. IsFiniteSet(Rows(a))
    BY <2>1, <2>3 DEF Rows
  <2>5. a.top \in Rows(a)
    BY <2>3 DEF Rows
  <2> QED BY <2>4, <2>5, FS_CardinalityType, FS_EmptySet
<1> DEFINE all == n * h
<1>4. Mismatch(start, a, b) = IF all > 0 THEN (all * 100) \div all ELSE 0
  <2> HIDE DEF n, h
  <2>1. Mismatch(start, a, b) =
          LET off == Cardinality(columns) * Cardinality(Rows(a) \cap Rows(b))
          IN  IF off > 0 THEN (off * 100) \div all ELSE 0
    BY DEF Mismatch, n, h
  <2>2. Cardinality(columns) = n /\ Cardinality(Rows(a) \cap Rows(b)) = h
    BY <1>1 DEF n, h
  <2> HIDE DEF columns
  <2> QED BY <2>1, <2>2
<1> HIDE DEF n, h
<1>5. all \in Nat /\ all > 0
  <2>1. \A i, j \in Nat : i > 0 /\ j > 0 => i * j \in Nat /\ i * j > 0
    OBVIOUS
  <2> QED BY <1>2, <1>3, <2>1
<1> HIDE DEF all
<1>6. (all * 100) \div all = 100
  <2>1. all * 100 \in Nat /\ all * 100 < all * (100 + 1)
    BY <1>5
  <2>2. (all * 100) \div all \in 0 .. 100
    BY <1>5, <2>1, QuotientBound
  <2> DEFINE q == (all * 100) \div all
  <2>3. q \in Nat /\ all * 100 < all * q + all
    BY <1>5, <2>1, Division
  <2>4. q < 100 => all * q + all <= all * 100
    <3> HIDE DEF q
    <3> SUFFICES ASSUME q < 100 PROVE all * q + all <= all * 100
      OBVIOUS
    <3>1. q + 1 \in Nat /\ 100 \in Nat /\ q + 1 <= 100
      BY <2>3
    <3>2. (q + 1) * all <= 100 * all
      BY <1>5, <3>1, Scaled
    <3>3. (q + 1) * all = all * q + all /\ 100 * all = all * 100
      BY <1>5, <2>3
    <3> QED BY <3>2, <3>3
  <2> HIDE DEF q
  <2>5. all * q \in Nat
    <3>1. \A i, j \in Nat : i * j \in Nat
      OBVIOUS
    <3> QED BY <1>5, <2>3, <3>1
  <2>6. q >= 100
    BY <1>5, <2>3, <2>4, <2>5
  <2> QED BY <2>2, <2>6 DEF q
<1> QED BY <1>4, <1>5, <1>6

(* A group that lies in a run of changed columns counts as changed.        *)
LEMMA RunIsChanged ==
  ASSUME Types, Comparing, Boxes, frame = "compare", lastRaster = before, Seeing,
         NEW first \in Column, Run(first), first <= x, x <= first + group
  PROVE  x < Width /\ Changed
<1>1. /\ currentRaster \in Raster /\ before \in Raster
      /\ x \in Nat /\ group \in Nat /\ group > 1 /\ first \in Nat
  BY SizeAssumption DEF Types, Comparing, Seeing, Column
<1>2. x < Width
  BY <1>1, SizeAssumption DEF Run, Column
<1>3. \A c \in GroupColumns(x) : Differ(currentRaster.scene[c], before.scene[c])
  <2>1. GroupColumns(x) \subseteq first .. first + 2 * group - 1
    BY <1>1, SizeAssumption DEF GroupColumns
  <2> QED BY <2>1 DEF Run
<1>4. Mismatch(x, currentRaster, before) = 100
  BY <1>1, <1>2, <1>3, MismatchIsFull DEF Boxes, Seeing
<1>5. Threshold \in Nat
  BY ThresholdType DEF Types
<1> QED BY <1>2, <1>4, <1>5 DEF Changed, Seeing

(* One iteration of the loop. *)
LEMMA GroupStep ==
  ASSUME AInv, frame = "compare", CompareGroup, UNCHANGED <<before, undisturbed>>
  PROVE  Boxes' /\ Outermost' /\ Filled'
<1> USE DEF loopVars, band, sliders, controls, rasters
<1>1. /\ x \in Nat /\ group \in Nat /\ boxCounter \in Nat /\ x < Width
      /\ x' \in Nat /\ group' = group
      /\ boxCounter' = IF group > 0 THEN boxCounter + 1 ELSE boxCounter
      /\ frame' = "compare"
      /\ UNCHANGED <<currentRaster, lastRaster, before, undisturbed>>
  BY DEF CompareGroup, AInv, Types
<1>2. /\ allowedColorVariance' = allowedColorVariance
      /\ sensitivitySetting' = sensitivitySetting
  BY DEF CompareGroup
<1> DEFINE m == boxCounter * group
<1>3. m \in Nat /\ boxCounter' * group' = m + group
  <2>1. CASE group > 0
    BY <1>1, <2>1, OneGroupMore
  <2>2. CASE group = 0
    <3>1. boxCounter' * group' = 0 /\ m = 0
      BY <1>1, <2>2
    <3> QED BY <2>2, <3>1
  <2> QED BY <1>1, <2>1, <2>2
<1>4. /\ m <= x /\ x <= m + 1 /\ x <= Width + group
      /\ currentRaster.top < currentRaster.bottom
      /\ \/ leftEdge = -1 /\ rightEdge = -1
         \/ group > 0 /\ leftEdge \in 1 .. boxCounter /\ rightEdge \in leftEdge .. boxCounter
  BY <1>1 DEF AInv, Boxes
<1>5. CASE ~Changed
  <2>1. x' = x + group /\ leftEdge' = leftEdge /\ rightEdge' = rightEdge
    BY <1>5 DEF CompareGroup
  <2>2. Boxes'
    <3> HIDE DEF m
    <3> QED BY <1>1, <1>3, <1>4, <2>1, SizeAssumption DEF Boxes
  <2>3. Outermost'
    BY <1>1, <2>1 DEF AInv, Outermost, ChangedColumns
  <2>4. Filled'
    <3> SUFFICES ASSUME undisturbed
                 PROVE  /\ lastRaster = before
                        /\ Seeing => \A first \in Column :
                             Run(first) => \/ x' <= first + group
                                           \/ rightEdge > 0
                                              /\ first + group <= rightEdge * group + 1
      BY <1>1, <1>2, <2>1 DEF Filled, Seeing, Run, Differ, Rows, Threshold
    <3>1. lastRaster = before
      BY <1>1 DEF AInv, Filled
    <3>2. ASSUME Seeing, NEW first \in Column, Run(first)
          PROVE  x' <= first + group \/ (rightEdge > 0 /\ first + group <= rightEdge * group + 1)
      <4>1. x <= first + group \/ (rightEdge > 0 /\ first + group <= rightEdge * group + 1)
        BY <1>1, <3>2 DEF AInv, Filled
      <4>2. CASE x <= first + group
        <5>1. ~(first <= x)
          BY <1>1, <1>5, <3>1, <3>2, <4>2, RunIsChanged DEF AInv
        <5> QED BY <1>1, <2>1, <5>1, SizeAssumption DEF Column
      <4> QED BY <4>1, <4>2
    <3> QED BY <3>1, <3>2
  <2> QED BY <2>2, <2>3, <2>4
<1>6. CASE Changed
  <2>1. /\ leftEdge' = IF leftEdge < 0 THEN boxCounter + 1 ELSE leftEdge
        /\ rightEdge' = boxCounter + 1
        /\ x' = (IF x < 1 THEN 1 ELSE x) + group
    BY <1>6 DEF CompareGroup
  <2>2. PICK c \in ChangedColumns : x <= c /\ c + 2 <= x + group
    BY <1>1, <1>6, ChangeIsReal DEF AInv
  <2>3. c \in Nat /\ group > 1 /\ boxCounter' = boxCounter + 1
    BY <1>1, <2>2, SizeAssumption DEF ChangedColumns, Column
  <2>4. Boxes'
    <3>1. /\ leftEdge' \in 1 .. boxCounter' /\ rightEdge' \in leftEdge' .. boxCounter'
      <4>1. leftEdge = -1 \/ leftEdge \in 1 .. boxCounter
        BY <1>4
      <4>2. boxCounter \in Nat /\ boxCounter' = boxCounter + 1 /\ rightEdge' = boxCounter + 1
        BY <1>1, <2>1, <2>3
      <4>3. leftEdge' = IF leftEdge < 0 THEN boxCounter + 1 ELSE leftEdge
        BY <2>1
      <4>4. leftEdge' \in 1 .. boxCounter + 1
        <5>1. CASE leftEdge = -1
          BY <4>2, <4>3, <5>1
        <5>2. CASE leftEdge \in 1 .. boxCounter
          BY <4>2, <4>3, <5>2
        <5> QED BY <4>1, <5>1, <5>2
      <4> QED BY <4>2, <4>4
    <3>2. m + group <= x' /\ x' <= m + group + 1 /\ x' <= Width + group
      <4> HIDE DEF m
      <4> QED BY <1>1, <1>3, <1>4, <2>1, SizeAssumption
    <3> HIDE DEF m
    <3> QED BY <1>1, <1>3, <1>4, <2>3, <3>1, <3>2 DEF Boxes
  <2>5. Outermost'
    <3>1. rightEdge' * group' = m + group
      BY <1>1, <1>3, <2>1, <2>3
    <3>2. CASE leftEdge < 0
      <4>1. leftEdge' * group' = m + group
        BY <1>1, <1>3, <2>1, <2>3, <3>2
      <4>2. c + 1 <= m + group /\ m + group <= c + group
        <5> HIDE DEF m
        <5> QED BY <1>1, <1>3, <1>4, <2>2, <2>3
      <4>3. c \in ChangedColumns'
        BY <1>1 DEF ChangedColumns
      <4>4. c <= c
        BY <2>3
      <4> HIDE DEF m
      <4> QED BY <1>1, <3>1, <4>1, <4>2, <4>3, <4>4 DEF Outermost
    <3>3. CASE ~(leftEdge < 0)
      <4>1. leftEdge > 0 /\ leftEdge \in Nat /\ leftEdge <= boxCounter /\ leftEdge' = leftEdge
        BY <1>1, <1>4, <2>1, <3>3
      <4>2. PICK first, last \in ChangedColumns :
              first <= last /\ first + 1 <= leftEdge * group
        BY <1>1, <4>1 DEF AInv, Outermost
      <4>3. first \in Nat
        BY SizeAssumption DEF ChangedColumns, Column
      <4>4. leftEdge * group \in Nat /\ leftEdge * group <= m
        BY <1>1, <4>1, Scaled
      <4>5. first <= c /\ m + group <= c + group
        <5> DEFINE l == leftEdge * group
        <5>1. first + 1 <= l /\ l \in Nat /\ l <= m
          BY <4>2, <4>4
        <5> HIDE DEF m, l
        <5> QED BY <1>1, <1>3, <1>4, <2>2, <2>3, <4>3, <5>1
      <4>6. first \in ChangedColumns' /\ c \in ChangedColumns'
        BY <1>1 DEF ChangedColumns
      <4>7. first + 1 <= leftEdge' * group'
        BY <1>1, <4>1, <4>2
      <4> HIDE DEF m
      <4> QED BY <1>1, <3>1, <4>5, <4>6, <4>7 DEF Outermost
    <3> QED BY <3>2, <3>3
  <2>6. Filled'
    <3> SUFFICES ASSUME undisturbed
                 PROVE  /\ lastRaster = before
                        /\ Seeing => \A first \in Column :
                             Run(first) => \/ x' <= first + group
                                           \/ rightEdge' > 0
                                              /\ first + group <= rightEdge' * group + 1
      BY <1>1, <1>2 DEF Filled, Seeing, Run, Differ, Rows, Threshold
    <3>1. lastRaster = before
      BY <1>1 DEF AInv, Filled
    <3>2. ASSUME Seeing, NEW first \in Column, Run(first)
          PROVE  x' <= first + group \/ (rightEdge' > 0 /\ first + group <= rightEdge' * group + 1)
      <4>1. rightEdge' > 0 /\ rightEdge' * group = m + group
        BY <1>1, <1>3, <2>1, <2>3
      <4>2. first \in Nat
        BY SizeAssumption DEF Column
      <4>3. x <= first + group \/ (rightEdge > 0 /\ first + group <= rightEdge * group + 1)
        BY <1>1, <3>2 DEF AInv, Filled
      <4>4. CASE first <= x /\ x <= first + group
        <5>1. first + group <= (m + group) + 1
          <6> HIDE DEF m
          <6> QED BY <1>1, <1>3, <1>4, <4>2, <4>4
        <5> QED BY <4>1, <5>1
      <4>5. CASE x < first
        <5>1. x' <= first + group
          BY <1>1, <2>1, <4>2, <4>5
        <5> QED BY <5>1
      <4>6. CASE rightEdge > 0 /\ first + group <= rightEdge * group + 1
        <5>1. rightEdge \in Nat /\ rightEdge <= boxCounter
          BY <1>1, <1>4, <4>6
        <5>2. rightEdge * group \in Nat /\ rightEdge * group <= m
          BY <1>1, <5>1, Scaled
        <5> DEFINE r == rightEdge * group
        <5>3. r \in Nat /\ r <= m /\ first + group <= r + 1
          BY <4>6, <5>2
        <5>4. first + group <= (m + group) + 1
          <6> HIDE DEF m, r
          <6> QED BY <1>1, <1>3, <4>2, <5>3
        <5> QED BY <4>1, <5>4
      <4> QED BY <1>1, <4>2, <4>3, <4>4, <4>5, <4>6
    <3> QED BY <3>1, <3>2
  <2> QED BY <2>4, <2>5, <2>6
<1> QED BY <1>5, <1>6

(* The angle of the changed groups, in columns. *)
LEMMA AimFromGroups ==
  ASSUME NEW boxes \in Nat \ {0}, NEW left \in 1 .. boxes, NEW right \in left .. boxes,
         NEW g \in Nat, NEW width \in Nat, width <= boxes * g + 1, boxes * g <= width + g,
         NEW first \in Nat, NEW last \in Nat,
         first + 1 <= left * g, right * g <= last + g
  PROVE  LET position == ServoPosition(left, right, boxes)
         IN  /\ (position + 3) * (width + g) >= 180 * first
             /\ position * (width - 1) <= 180 * (last + g)
<1> DEFINE position == ServoPosition(left, right, boxes)
           n == position * boxes
           w == boxes * g
<1>1. position \in Nat /\ n <= 180 * right /\ 180 * left <= n + 3 * boxes
  BY PositionBounds
<1> HIDE DEF position
<1>2. w \in Nat /\ n \in Nat
  <2>1. \A i, j \in Nat : i * j \in Nat
    OBVIOUS
  <2> QED BY <1>1, <2>1
<1>3. position * w = n * g /\ n * g \in Nat
  <2>1. \A i, j, k \in Nat : i * (j * k) = (i * j) * k /\ (i * j) * k \in Nat
    OBVIOUS
  <2> QED BY <1>1, <2>1
<1>4. (position + 3) * w = (n + 3 * boxes) * g
  <2>1. \A i, j, k \in Nat : (i + 3) * (j * k) = (i * j + 3 * j) * k
    OBVIOUS
  <2> QED BY <1>1, <2>1
<1> HIDE DEF n
<1>5. n * g <= 180 * (right * g)
  <2>1. 180 * right \in Nat
    OBVIOUS
  <2>2. n * g <= (180 * right) * g
    BY <1>1, <1>2, <2>1, Scaled
  <2>3. (180 * right) * g = 180 * (right * g)
    OBVIOUS
  <2> QED BY <2>2, <2>3
<1>6. 180 * (left * g) <= (n + 3 * boxes) * g
  <2>1. 180 * left \in Nat /\ n + 3 * boxes \in Nat
    BY <1>2
  <2>2. (180 * left) * g <= (n + 3 * boxes) * g
    BY <1>1, <2>1, Scaled
  <2>3. (180 * left) * g = 180 * (left * g)
    OBVIOUS
  <2> QED BY <2>2, <2>3
<1>7. 180 * (first + 1) <= 180 * (left * g) /\ 180 * (right * g) <= 180 * (last + g)
  <2> DEFINE l == left * g
             r == right * g
  <2>1. l \in Nat /\ r \in Nat /\ first + 1 <= l /\ r <= last + g
    <3>1. \A i, j \in Nat : i * j \in Nat
      OBVIOUS
    <3> QED BY <3>1
  <2> HIDE DEF l, r
  <2>2. 180 * (first + 1) <= 180 * l /\ 180 * r <= 180 * (last + g)
    BY <2>1
  <2> QED BY <2>2 DEF l, r
<1>8. (position + 3) * (width + g) >= 180 * first
  <2>1. position + 3 \in Nat /\ width + g \in Nat /\ w <= width + g
    BY <1>1
  <2>2. w * (position + 3) <= (width + g) * (position + 3)
    BY <1>2, <2>1, Scaled
  <2>3. w * (position + 3) = (position + 3) * w
        /\ (width + g) * (position + 3) = (position + 3) * (width + g)
    <3>1. \A i, j \in Nat : i * j = j * i
      OBVIOUS
    <3> QED BY <1>2, <2>1, <3>1
  <2> DEFINE a == (position + 3) * w
             b == (position + 3) * (width + g)
             c == 180 * (left * g)
  <2>4. a <= b /\ c <= a /\ 180 * (first + 1) <= c
    BY <1>4, <1>6, <1>7, <2>2, <2>3
  <2>5. a \in Nat /\ b \in Nat /\ c \in Nat
    <3>1. \A i, j \in Nat : i * j \in Nat
      OBVIOUS
    <3>2. left * g \in Nat
      BY <3>1
    <3> QED BY <1>2, <2>1, <3>1, <3>2
  <2> HIDE DEF a, b, c
  <2>6. b >= 180 * first
    BY <2>4, <2>5
  <2> QED BY <2>6 DEF b
<1>9. position * (width - 1) <= 180 * (last + g)
  <2>1. CASE width = 0
    <3>1. position * (width - 1) <= 0 /\ 0 <= 180 * (last + g)
      BY <1>1, <2>1
    <3>2. position * (width - 1) \in Int /\ 180 * (last + g) \in Int
      BY <1>1, <2>1
    <3> QED BY <3>1, <3>2
  <2>2. CASE width # 0
    <3>1. width - 1 \in Nat /\ width - 1 <= w
      BY <2>2
    <3>2. (width - 1) * position <= w * position
      BY <1>1, <1>2, <3>1, Scaled
    <3>3. (width - 1) * position = position * (width - 1) /\ w * position = position * w
      <4>1. \A i, j \in Nat : i * j = j * i
        OBVIOUS
      <4> QED BY <1>1, <1>2, <3>1, <4>1
    <3> DEFINE a == position * (width - 1)
               b == n * g
               c == 180 * (right * g)
    <3>4. a <= b /\ b <= c /\ c <= 180 * (last + g)
      BY <1>3, <1>5, <1>7, <3>2, <3>3
    <3>5. a \in Nat /\ b \in Nat /\ c \in Nat
      <4>1. \A i, j \in Nat : i * j \in Nat
        OBVIOUS
      <4>2. right * g \in Nat
        BY <4>1
      <4> QED BY <1>1, <1>3, <3>1, <4>1, <4>2
    <3> HIDE DEF a, b, c
    <3>6. a <= 180 * (last + g)
      BY <3>4, <3>5
    <3> QED BY <3>6 DEF a
  <2> QED BY <2>1, <2>2
<1> QED BY <1>8, <1>9 DEF position

(* A group as far to the right as a run of changed columns outside the     *)
(* leftmost fiftieth is past the first hundredth of the groups.            *)
LEMMA FarEnough ==
  ASSUME NEW boxes \in Nat, NEW right \in Nat, NEW g \in Nat, g > 0,
         NEW width \in Nat, boxes * g <= width + g,
         NEW first \in Nat, first + g <= right * g + 1,
         50 * (first + g - 1) >= width + g
  PROVE  50 * right >= boxes
<1>1. SUFFICES ASSUME 50 * right < boxes PROVE FALSE
  OBVIOUS
<1>2. 50 * right + 1 \in Nat /\ 50 * right + 1 <= boxes
  BY <1>1
<1>3. (50 * right + 1) * g <= boxes * g
  BY <1>2, Scaled
<1>4. (50 * right + 1) * g = 50 * (right * g) + g
  OBVIOUS
<1> DEFINE r == right * g
           b == boxes * g
<1>5. r \in Nat /\ b \in Nat
  <2>1. \A i, j \in Nat : i * j \in Nat
    OBVIOUS
  <2> QED BY <2>1
<1>6. 50 * r + g <= b /\ b <= width + g /\ first + g <= r + 1
  BY <1>3, <1>4
<1> HIDE DEF r, b
<1> QED BY <1>5, <1>6

LEMMA ReportStep ==
  ASSUME AInv, frame = "compare", Report, UNCHANGED <<before, undisturbed>>
  PROVE  AimsInsideMotion' /\ MotionIsSeen'
<1> USE DEF loopVars, band, sliders, controls, rasters
<1>1. /\ x \in Nat /\ group \in Nat /\ boxCounter \in Nat /\ x >= Width
      /\ reported' = IF leftEdge >= 0 THEN ServoPosition(leftEdge, rightEdge, boxCounter) ELSE 0
      /\ group' = group
      /\ UNCHANGED <<currentRaster, lastRaster, before, undisturbed, allowedColorVariance,
                     sensitivitySetting>>
      /\ Width \in Nat
  BY SizeAssumption DEF Report, AInv, Types
<1>2. /\ boxCounter * group <= x /\ x <= boxCounter * group + 1
      /\ x <= Width + group
      /\ \/ leftEdge = -1 /\ rightEdge = -1
         \/ group > 0 /\ leftEdge \in 1 .. boxCounter /\ rightEdge \in leftEdge .. boxCounter
  BY <1>1 DEF AInv, Boxes
<1>3. Width <= boxCounter * group + 1 /\ boxCounter * group <= Width + group
  <2> DEFINE m == boxCounter * group
  <2>1. m \in Nat
    BY <1>1, OneGroupMore
  <2>2. m <= x /\ x <= m + 1
    BY <1>2
  <2> HIDE DEF m
  <2>3. Width <= m + 1 /\ m <= Width + group
    BY <1>1, <1>2, <2>1, <2>2
  <2> QED BY <2>3 DEF m
<1>4. AimsInsideMotion'
  <2> SUFFICES ASSUME MotionReported'
               PROVE  \E first, last \in ChangedColumns :
                        /\ (reported' + 3) * (Width + group) >= 180 * first
                        /\ reported' * (Width - 1) <= 180 * (last + group)
                        /\ first <= last
    BY <1>1 DEF AimsInsideMotion, ChangedColumns
  <2>1. reported' > 0
    BY DEF MotionReported
  <2>2. leftEdge >= 0
    BY <1>1, <2>1
  <2>3. /\ group > 0 /\ leftEdge \in 1 .. boxCounter /\ rightEdge \in leftEdge .. boxCounter
        /\ boxCounter # 0
    BY <1>1, <1>2, <2>2
  <2>4. reported' = ServoPosition(leftEdge, rightEdge, boxCounter)
    BY <1>1, <2>2
  <2>5. PICK first, last \in ChangedColumns :
          first <= last /\ first + 1 <= leftEdge * group /\ rightEdge * group <= last + group
    BY <2>3 DEF AInv, Outermost
  <2>6. first \in Nat /\ last \in Nat
    BY SizeAssumption DEF ChangedColumns, Column
  <2>7. /\ (reported' + 3) * (Width + group) >= 180 * first
        /\ reported' * (Width - 1) <= 180 * (last + group)
    BY <1>1, <1>3, <2>3, <2>4, <2>5, <2>6, AimFromGroups
  <2> QED BY <2>5, <2>7
<1>5. MotionIsSeen'
  <2> SUFFICES ASSUME undisturbed, Seeing, NEW first \in Column, Run(first),
                      50 * (first + group - 1) >= Width + group
               PROVE  reported' > 0
    BY <1>1 DEF MotionIsSeen, Seeing, Run, Differ, Rows, Threshold
  <2>1. first \in Nat /\ first + 2 * group - 1 < Width /\ group > 0
    BY SizeAssumption, <1>1 DEF Column, Run, Seeing
  <2>2. x <= first + group \/ (rightEdge > 0 /\ first + group <= rightEdge * group + 1)
    BY DEF AInv, Filled
  <2>3. ~(x <= first + group)
    BY <1>1, <2>1
  <2>4. rightEdge > 0 /\ first + group <= rightEdge * group + 1
    BY <2>2, <2>3
  <2>5. leftEdge \in 1 .. boxCounter /\ rightEdge \in leftEdge .. boxCounter
    BY <1>2, <2>4
  <2>6. 50 * rightEdge >= boxCounter
    BY <1>1, <1>3, <2>1, <2>4, <2>5, FarEnough
  <2>7. boxCounter \in Nat \ {0} /\ reported' = ServoPosition(leftEdge, rightEdge, boxCounter)
    BY <1>1, <2>5
  <2> QED BY <2>5, <2>6, <2>7, PositionBounds
<1> QED BY <1>4, <1>5

LEMMA AimStart == HInit => AInv
<1> SUFFICES ASSUME HInit PROVE AInv
  OBVIOUS
<1>1. frame = "wait"
  BY DEF HInit, FInit
<1> QED BY <1>1, StartTyped
        DEF AInv, Comparing, Unreported, Boxes, Outermost, Filled, AimsInsideMotion,
            MotionReported, MotionIsSeen

LEMMA StepAims ==
  ASSUME AInv, MInv, [HNext]_hvars
  PROVE  AInv'
<1>0. Types' /\ Comparing' /\ Unreported'
  BY StepReal DEF MInv
<1> SUFFICES Boxes' /\ Outermost' /\ Filled' /\ AimsInsideMotion' /\ MotionIsSeen'
  BY <1>0 DEF AInv
<1> USE DEF rasters, loopVars, band, sliders, controls
<1>1. CASE frame' \in {"wait", "grab"}
  BY <1>1 DEF Boxes, Outermost, Filled, AimsInsideMotion, MotionReported, MotionIsSeen
<1>2. CASE Start
  <2>1. CASE frame' = "compare"
    <3>1. /\ currentRaster' = [scene |-> image, top |-> top, bottom |-> bottom]
          /\ top < bottom /\ group' = sensitivitySetting
          /\ x' = 0 /\ boxCounter' = 0 /\ leftEdge' = -1 /\ rightEdge' = -1
          /\ lastRaster' = lastRaster /\ before' = lastRaster
      BY <1>2 DEF Start, Grab
    <3>2. group' \in Nat /\ boxCounter' * group' = 0
      <4>1. group' \in Nat
        BY <1>0 DEF Types
      <4> QED BY <3>1, <4>1
    <3>3. Boxes'
      BY <3>1, <3>2, SizeAssumption DEF Boxes
    <3>4. Outermost' /\ AimsInsideMotion' /\ MotionIsSeen'
      BY <2>1, <3>1 DEF Outermost, AimsInsideMotion, MotionReported, MotionIsSeen
    <3>5. \A first \in Column : x' <= first + group'
      BY <3>1, <3>2, SizeAssumption DEF Column
    <3>6. Filled'
      BY <3>1, <3>5 DEF Filled
    <3> QED BY <3>3, <3>4, <3>6
  <2>2. CASE frame' = "calibrate"
    <3>1. reported' = -1
      BY <1>2 DEF Start, Grab, AInv, Unreported
    <3> QED BY <2>2, <3>1 DEF Boxes, Outermost, Filled, AimsInsideMotion, MotionReported, MotionIsSeen
  <2> QED BY <1>2, <2>1, <2>2 DEF Start, Grab
<1>3. CASE Continue
  <2>0. UNCHANGED <<before, undisturbed>>
    BY <1>3 DEF Continue
  <2>1. CASE EmptyBand \/ EndFrame
    BY <1>1, <2>1 DEF EmptyBand, EndFrame
  <2>2. CASE SkipAdjusting
    <3>1. frame' = "calibrate" /\ reported' = -1
      BY <2>2 DEF SkipAdjusting, AInv, Unreported
    <3> QED BY <3>1 DEF Boxes, Outermost, Filled, AimsInsideMotion, MotionReported, MotionIsSeen
  <2>3. CASE CompareGroup
    <3>1. frame = "compare" /\ frame' = "compare"
      BY <2>3 DEF CompareGroup
    <3>2. Boxes' /\ Outermost' /\ Filled'
      BY <2>0, <2>3, <3>1, GroupStep
    <3> QED BY <3>1, <3>2 DEF AimsInsideMotion, MotionReported, MotionIsSeen
  <2>4. CASE Report
    <3>1. frame = "compare" /\ frame' = "calibrate"
      BY <2>4 DEF Report
    <3>2. AimsInsideMotion' /\ MotionIsSeen'
      BY <2>0, <2>4, <3>1, ReportStep
    <3> QED BY <3>1, <3>2 DEF Boxes, Outermost, Filled
  <2> QED BY <1>3, <2>1, <2>2, <2>3, <2>4 DEF Continue
<1>4. CASE Disturb
  <2>1. undisturbed' = FALSE
        /\ UNCHANGED <<frame, currentRaster, group, x, boxCounter, leftEdge, rightEdge, reported, before>>
    BY <1>4 DEF Disturb, Window, frameVars, Calibrate, ActionPerformed, MouseAdjusts,
                SetBandPosition, SetBandHeight, SetSensitivitySetting, SetAllowedColorVariance
  <2>2. ChangedColumns' = ChangedColumns
    BY <2>1 DEF ChangedColumns
  <2>3. Boxes' /\ Outermost' /\ AimsInsideMotion'
    BY <2>1, <2>2 DEF AInv, Boxes, Outermost, AimsInsideMotion, MotionReported
  <2>4. Filled' /\ MotionIsSeen'
    BY <2>1 DEF Filled, MotionIsSeen
  <2> QED BY <2>3, <2>4
<1>5. CASE UNCHANGED hvars
  <2>1. ChangedColumns' = ChangedColumns /\ Threshold' = Threshold /\ Seeing' = Seeing
        /\ \A first \in Column : Run(first)' = Run(first)
    BY <1>5 DEF hvars, fvars, ChangedColumns, Seeing, Threshold, Run, Differ, Rows
  <2>2. Boxes' /\ Outermost' /\ AimsInsideMotion'
    BY <1>5, <2>1 DEF hvars, fvars, AInv, Boxes, Outermost, AimsInsideMotion, MotionReported
  <2>3. Filled'
    BY <1>5, <2>1 DEF hvars, fvars, AInv, Filled
  <2>4. MotionIsSeen'
    BY <1>5, <2>1 DEF hvars, fvars, AInv, MotionIsSeen, Rows
  <2> QED BY <2>2, <2>3, <2>4
<1>6. CASE Arrive
  BY <1>1, <1>6 DEF Arrive, NextFrame
<1> QED BY <1>2, <1>3, <1>4, <1>5, <1>6 DEF HNext

LEMMA AimInvariant == HSpec => [](AInv /\ MInv)
<1>1. HInit => AInv /\ MInv
  BY AimStart, StartTyped DEF HInit, FInit, MInv, Comparing, EdgesAreReal, Unreported,
                              MotionIsReal, MotionReported
<1>2. AInv /\ MInv /\ [HNext]_hvars => (AInv /\ MInv)'
  BY StepAims, StepReal
<1> QED BY <1>1, <1>2, PTL DEF HSpec

(* Whatever the window does while a frame is compared, for every width and *)
(* every group of columns: the angle lies between those of the outermost   *)
(* columns that changed since the reference the frame was grabbed with,    *)
(* but for one group and three degrees (processImage, lines 324-353).      *)
THEOREM PositionAimsInsideMotion == HSpec => []AimsInsideMotion
<1>1. AInv => AimsInsideMotion
  BY DEF AInv
<1> QED BY <1>1, AimInvariant, PTL

(* Left alone, the loop over the groups passes no run of changed columns   *)
(* of twice a group's width, wherever the groups begin, and the position   *)
(* it reports for one outside the leftmost fiftieth is not 0.              *)
THEOREM WideChangeIsSeen == HSpec => []MotionIsSeen
<1>1. AInv => MotionIsSeen
  BY DEF AInv
<1> QED BY <1>1, AimInvariant, PTL
=============================================================================
