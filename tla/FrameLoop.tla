----------------------------- MODULE FrameLoop -----------------------------
(***************************************************************************)
(* The frame thread of CameraTrack.java (processImage) against the         *)
(* window's event thread, which changes the same fields without a lock:    *)
(* the calibrate button replaces the reference raster, the sliders move    *)
(* the band and the sensitivity, the mouse on the position slider sets     *)
(* `adjusting`, the radio buttons set autoCalibration.                     *)
(*                                                                         *)
(* A frame is compared with the reference one group of columns at a time.  *)
(* Fields that the code reads once per frame (bandPos, the group size) are *)
(* locals here; fields it reads again for every group (lastRaster,         *)
(* allowedColorVariance, the sensitivity in the threshold) are read again  *)
(* here.  A pixel is one colour channel, and all rows of a frame are alike;*)
(* sleeping to hold the frame rate and drawing are left out.               *)
(***************************************************************************)
EXTENDS Integers, FiniteSets

CONSTANTS
  Width, Height,     \* of a frame, in pixels
  Scenes,            \* frames the camera may show: functions from column to colour
  BandPositions,     \* values of the band position slider, percent
  BandHeights,       \* values of the band height slider (and of the band width
                     \* slider, whose listener calls setBandHeight too), percent
  Sensitivities,     \* values the sensitivity slider gives sensitivitySetting
  Restored,          \* values init() may restore it to from the settings file
  Variances,         \* values of allowedColorVariance
  MaxSensitivity     \* field maxSensitivity, 100 once init() has run

Column == 0 .. Width - 1

ASSUME SizeAssumption ==
  /\ Width \in Nat \ {0} /\ Height \in Nat \ {0}
  /\ Scenes \subseteq [Column -> 0..255]
ASSUME SliderAssumption ==
  /\ BandPositions \subseteq 1..100
  /\ BandHeights \subseteq 1..100
  /\ Sensitivities \subseteq Nat \ {0}
  /\ Restored \subseteq Nat
  /\ Variances \subseteq 1..200
  /\ MaxSensitivity \in Nat
  /\ MaxSensitivity \in Nat

None == [scene |-> "none"]      \* the null raster

VARIABLES
  frame,            \* where the frame thread is
  image,            \* local bi: the frame being processed
  top, bottom,      \* locals: the band's first row and the row after its last
  currentRaster, lastRaster,
  group,            \* local PIXEL_GROUP_SIZE
  x, boxCounter, leftEdge, rightEdge,   \* locals of the comparison loop
  reported,         \* the last position given to updatePosition, -1 at a frame's start
  adjusting, autoCalibration, bandPos, bandHeight, sensitivitySetting,
  allowedColorVariance

rasters  == <<currentRaster, lastRaster>>
loopVars == <<group, x, boxCounter, leftEdge, rightEdge>>
band     == <<top, bottom>>
sliders  == <<bandPos, bandHeight, sensitivitySetting, allowedColorVariance>>
controls == <<adjusting, autoCalibration, sliders>>
fvars == <<frame, image, band, rasters, loopVars, reported, controls>>

Raster == [scene : Scenes, top : Nat, bottom : Nat]

FTypeOK ==
  /\ frame \in {"wait", "grab", "compare", "report", "calibrate"}
  /\ image \in Scenes
  /\ top \in 0..Height /\ bottom \in 0..Height
  /\ currentRaster \in Raster \cup {None}
  /\ lastRaster \in Raster \cup {None}
  /\ group \in Sensitivities \cup Restored
  /\ x \in Nat /\ boxCounter \in 0..Width
  /\ leftEdge \in -1..Width /\ rightEdge \in -1..Width
  /\ reported \in -1..180
  /\ adjusting \in BOOLEAN /\ autoCalibration \in BOOLEAN
  /\ bandPos \in BandPositions /\ bandHeight \in BandHeights
  /\ sensitivitySetting \in Sensitivities \cup Restored
  /\ allowedColorVariance \in Variances

FInit ==
  /\ frame = "wait"
  /\ image \in Scenes
  /\ top = 0 /\ bottom = 0
  /\ currentRaster = None /\ lastRaster = None
  /\ group \in Restored
  /\ x = 0 /\ boxCounter = 0 /\ leftEdge = -1 /\ rightEdge = -1
  /\ reported = -1
  /\ adjusting = FALSE
  /\ autoCalibration = FALSE
  /\ bandPos \in BandPositions /\ bandHeight \in BandHeights
  /\ sensitivitySetting = group
  /\ allowedColorVariance \in Variances

-----------------------------------------------------------------------------
(* Geometry of the band: Math.round of a percentage of the height, in      *)
(* exact arithmetic where the code uses floats.                            *)

VerticalCenter(p) == (2 * Height * p + 100) \div 200
HalfBand(h)       == (2 * Height * h + 200) \div 400

BandTop(p, h) ==
  LET t == VerticalCenter(p) - HalfBand(h) IN IF t < 0 THEN 0 ELSE t
BandBottom(p, h) ==
  LET b == VerticalCenter(p) + HalfBand(h) IN IF b >= Height THEN Height - 1 ELSE b

(* The columns of the group at start: its last column is left out          *)
(* (leftEdge < rightEdge = startX + regionWidth - 1).                      *)
GroupColumns(start) ==
  LET end == start + group - 1
  IN  start .. (IF end > Width THEN Width ELSE end) - 1

(* Rows a pixel can be read from in raster r; reading elsewhere throws,    *)
(* and the pixel counts as unchanged.                                      *)
Rows(r) == r.top .. r.bottom - 1

(* A colour channel is subtracted as a Java byte, which is signed.         *)
Signed(c) == IF c > 127 THEN c - 256 ELSE c
Abs(n)    == IF n < 0 THEN -n ELSE n
Differ(a, b) == Abs(Signed(a) - Signed(b)) > allowedColorVariance

(* getMismatchedPixelCount: percentage of the group's pixels that changed. *)
Mismatch(start, a, b) ==
  LET columns == {c \in GroupColumns(start) : Differ(a.scene[c], b.scene[c])}
      off     == Cardinality(columns) * Cardinality(Rows(a) \cap Rows(b))
      all     == Cardinality(GroupColumns(start)) * Cardinality(Rows(a))
  IN  IF off > 0 THEN (off * 100) \div all ELSE 0

Threshold == Abs(sensitivitySetting - (MaxSensitivity \div 2))

(* Faulty variants: the position is not divided by the number of groups,   *)
(* and it is counted from the right.                                       *)
ServoPositionUnscaled(left, right, boxes) ==
  (180 * 100 * ((right + left) \div 2)) \div 100

ServoPositionMirrored(left, right, boxes) ==
  LET centerOfChanges == boxes - (right + left) \div 2
      fieldPosition   == (100 * centerOfChanges) \div boxes
  IN  (180 * fieldPosition) \div 100

(* The middle of the changed groups as a percentage of the frame, then as  *)
(* an angle of the servo.                                                  *)
ServoPosition(left, right, boxes) ==
  LET centerOfChanges == (right + left) \div 2
      fieldPosition   == (100 * centerOfChanges) \div boxes
  IN  (180 * fieldPosition) \div 100

-----------------------------------------------------------------------------
(* The frame thread. *)

(* A frame arrives; the band's rows are computed. *)
NextFrame(s) ==
  /\ frame = "wait"
  /\ frame' = "grab"
  /\ image' = s
  /\ top' = BandTop(bandPos, bandHeight)
  /\ bottom' = BandBottom(bandPos, bandHeight)
  /\ reported' = -1
  /\ UNCHANGED <<rasters, loopVars, controls>>

(* Faulty variant: the edges of the frame before are kept. *)
GrabKeepsEdges ==
  /\ frame = "grab"
  /\ ~adjusting
  /\ top < bottom
  /\ currentRaster' = [scene |-> image, top |-> top, bottom |-> bottom]
  /\ group' = sensitivitySetting
  /\ x' = 0 /\ boxCounter' = 0
  /\ frame' = IF lastRaster # None THEN "compare" ELSE "calibrate"
  /\ UNCHANGED <<image, band, lastRaster, leftEdge, rightEdge, reported, controls>>

(* if (!adjusting): take the raster of the band and the group size. *)
Grab ==
  /\ frame = "grab"
  /\ ~adjusting
  /\ top < bottom
  /\ currentRaster' = [scene |-> image, top |-> top, bottom |-> bottom]
  /\ group' = sensitivitySetting
  /\ x' = 0 /\ boxCounter' = 0 /\ leftEdge' = -1 /\ rightEdge' = -1
  /\ frame' = IF lastRaster # None THEN "compare" ELSE "calibrate"
  /\ UNCHANGED <<image, band, lastRaster, reported, controls>>

(* getData throws for a band without rows, and the frame is dropped. *)
EmptyBand ==
  /\ frame = "grab"
  /\ ~adjusting
  /\ top >= bottom
  /\ frame' = "wait"
  /\ UNCHANGED <<image, band, rasters, loopVars, reported, controls>>

(* Faulty variant: the frame waits for the mouse to be released. *)
SkipAdjustingWaits ==
  /\ frame = "grab"
  /\ adjusting
  /\ UNCHANGED fvars

SkipAdjusting ==
  /\ frame = "grab"
  /\ adjusting
  /\ frame' = "calibrate"
  /\ UNCHANGED <<image, band, rasters, loopVars, reported, controls>>

(* One iteration of the loop over the groups.  A change in the first group *)
(* also moves x from 0 to 1, which shifts the groups after it.  A group of *)
(* no columns, restored from the file, leaves x where it is: the loop then *)
(* turns for ever.  It counts boxCounter on, which nothing reads any more  *)
(* and which stands still here.                                            *)
Changed == Mismatch(x, currentRaster, lastRaster) > Threshold

CompareGroup ==
  /\ frame = "compare"
  /\ x < Width
  /\ boxCounter' = IF group > 0 THEN boxCounter + 1 ELSE boxCounter
  /\ IF Changed
       THEN /\ leftEdge' = IF leftEdge < 0 THEN boxCounter + 1 ELSE leftEdge
            /\ rightEdge' = boxCounter + 1
            /\ x' = (IF x < 1 THEN 1 ELSE x) + group
       ELSE x' = x + group /\ UNCHANGED <<leftEdge, rightEdge>>
  /\ UNCHANGED <<frame, image, band, rasters, group, reported, controls>>

(* Faulty variant: a change in the first group is taken for none. *)
ReportFromSecond ==
  /\ frame = "compare"
  /\ x >= Width
  /\ reported' = IF leftEdge > 1 THEN ServoPosition(leftEdge, rightEdge, boxCounter)
                                 ELSE 0
  /\ frame' = "calibrate"
  /\ UNCHANGED <<image, band, rasters, loopVars, controls>>

(* updatePosition(servoPosition), or updatePosition(0) without a change. *)
Report ==
  /\ frame = "compare"
  /\ x >= Width
  /\ reported' = IF leftEdge >= 0 THEN ServoPosition(leftEdge, rightEdge, boxCounter)
                                  ELSE 0
  /\ frame' = "calibrate"
  /\ UNCHANGED <<image, band, rasters, loopVars, controls>>

(* if (autoCalibration) calibrate() *)
EndFrame ==
  /\ frame = "calibrate"
  /\ frame' = "wait"
  /\ lastRaster' = IF autoCalibration THEN currentRaster ELSE lastRaster
  /\ UNCHANGED <<image, band, currentRaster, loopVars, reported, controls>>

-----------------------------------------------------------------------------
(* The event thread. *)

frameVars == <<frame, image, band, currentRaster, loopVars, reported>>

Calibrate ==
  /\ lastRaster' = currentRaster
  /\ UNCHANGED <<frameVars, controls>>

ActionPerformed(auto) ==
  /\ autoCalibration' = auto
  /\ UNCHANGED <<frameVars, lastRaster, adjusting, sliders>>

MouseAdjusts(pressed) ==
  /\ adjusting' = pressed
  /\ UNCHANGED <<frameVars, lastRaster, autoCalibration, sliders>>

SetBandPosition(p) ==
  /\ bandPos' = p
  /\ UNCHANGED <<frameVars, lastRaster, adjusting, autoCalibration,
                 bandHeight, sensitivitySetting, allowedColorVariance>>

SetBandHeight(h) ==
  /\ bandHeight' = h
  /\ UNCHANGED <<frameVars, lastRaster, adjusting, autoCalibration,
                 bandPos, sensitivitySetting, allowedColorVariance>>

SetSensitivitySetting(s) ==
  /\ sensitivitySetting' = s
  /\ UNCHANGED <<frameVars, lastRaster, adjusting, autoCalibration,
                 bandPos, bandHeight, allowedColorVariance>>

SetAllowedColorVariance(v) ==
  /\ allowedColorVariance' = v
  /\ UNCHANGED <<frameVars, lastRaster, adjusting, autoCalibration,
                 bandPos, bandHeight, sensitivitySetting>>

-----------------------------------------------------------------------------
Handling ==    \* the frame thread while it has a frame
  Grab \/ EmptyBand \/ SkipAdjusting \/ CompareGroup \/ Report \/ EndFrame

Frame == Handling \/ (\E s \in Scenes : NextFrame(s))

Window ==
  \/ Calibrate
  \/ (\E auto \in BOOLEAN : ActionPerformed(auto))
  \/ (\E pressed \in BOOLEAN : MouseAdjusts(pressed))
  \/ (\E p \in BandPositions : SetBandPosition(p))
  \/ (\E h \in BandHeights : SetBandHeight(h))
  \/ (\E s \in Sensitivities : SetSensitivitySetting(s))
  \/ (\E v \in Variances : SetAllowedColorVariance(v))

FNext == Frame \/ Window

FSpec == FInit /\ [][FNext]_fvars

(* The thread that holds a frame is scheduled until it is done with it;    *)
(* nothing is assumed of the camera or of the user.                        *)
FFairSpec == FSpec /\ WF_fvars(Handling)
=============================================================================
