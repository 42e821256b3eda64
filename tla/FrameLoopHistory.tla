-------------------------- MODULE FrameLoopHistory --------------------------
(***************************************************************************)
(* FrameLoop with two history variables, and what a frame's report says    *)
(* about the picture.                                                      *)
(***************************************************************************)
EXTENDS FrameLoop

VARIABLES
  before,        \* the reference raster in place when the frame was grabbed
  undisturbed    \* the window has done nothing since the frame arrived

hvars == <<fvars, before, undisturbed>>

HTypeOK ==
  /\ FTypeOK
  /\ before \in Raster \cup {None}
  /\ undisturbed \in BOOLEAN

HInit == FInit /\ before = None /\ undisturbed = FALSE

Arrive == /\ \E s \in Scenes : NextFrame(s)
          /\ undisturbed' = TRUE
          /\ UNCHANGED before

Start == /\ Grab
         /\ before' = lastRaster
         /\ UNCHANGED undisturbed

Continue == /\ EmptyBand \/ SkipAdjusting \/ CompareGroup \/ Report \/ EndFrame
            /\ UNCHANGED <<before, undisturbed>>

Disturb == /\ Window
           /\ undisturbed' = FALSE
           /\ UNCHANGED before

HNext == Arrive \/ Start \/ Continue \/ Disturb

HSpec == HInit /\ [][HNext]_hvars

HFairSpec == HSpec /\ WF_hvars(Start \/ Continue)

-----------------------------------------------------------------------------
(* Columns whose colour is not what it was in the reference. *)
ChangedColumns == {c \in Column : currentRaster.scene[c] # before.scene[c]}

(* Reported == a position other than 0, which stands for "no motion". *)
MotionReported == frame = "calibrate" /\ reported > 0

(* A position is reported only for a frame that differs from the reference *)
(* it was compared with, in rows both rasters hold.  Moving or resizing    *)
(* the band, calibrating in the middle of the comparison or changing the   *)
(* sensitivity is never taken for motion (processImage, lines 301-356).    *)
MotionIsReal ==
  MotionReported => /\ Rows(currentRaster) \cap Rows(before) # {}
                    /\ ChangedColumns # {}

(* The angle lies between the angles of the outermost changed columns, but *)
(* for one group at either side and the three degrees lost in truncation   *)
(* (lines 348-353), even when the first group changed and shifted the rest.*)
AimsInsideMotion ==
  MotionReported =>
    \E first, last \in ChangedColumns :
      /\ (reported + 3) * (Width + group) >= 180 * first
      /\ reported * (Width - 1) <= 180 * (last + group)
      /\ first <= last

(* A run of columns twice as wide as a group, each of which differs by     *)
(* what the code compares (signed bytes), is reported wherever it lies and *)
(* wherever the groups begin: it holds a whole one.  That is when the      *)
(* window was left alone since the frame arrived, the reference holds      *)
(* every row of the band and groups have two columns or more (of a group   *)
(* of one the code compares no pixel).  With a change in the leftmost      *)
(* fiftieth of the frame only, the percentage of line 350 may be 0, which  *)
(* is reported as no motion.                                               *)
Run(first) ==
  /\ first \in Column /\ first + 2 * group - 1 \in Column
  /\ \A c \in first .. first + 2 * group - 1 :
       Differ(currentRaster.scene[c], before.scene[c])

MotionIsSeen ==
  ( /\ frame = "calibrate" /\ reported >= 0 /\ undisturbed
    /\ group > 1 /\ Threshold < 100 /\ Rows(currentRaster) \subseteq Rows(before)
    /\ \E first \in Column :
         Run(first) /\ 50 * (first + group - 1) >= Width + group )
  => reported > 0

(* A frame is finished whatever the window does to the settings meanwhile, *)
(* unless the group size was 0 when it was grabbed: the loop over the      *)
(* groups (lines 323-346) then turns for ever.  The slider gives no 0; the *)
(* settings file may (line 571).                                           *)
FrameEnds ==
  frame # "wait" ~> (frame = "wait" \/ (frame = "compare" /\ group = 0))
=============================================================================
