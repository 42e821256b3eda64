---------------------------- MODULE MCFrameLoop ----------------------------
(***************************************************************************)
(* FrameLoop on a frame six columns wide and four rows high.  The bands    *)
(* take rows 0-1, 1-2 and none: at position 100 the band is empty.  The    *)
(* shades differ by 1 over the edge of a signed byte, and by 100 below it. *)
(***************************************************************************)
EXTENDS FrameLoopHistory, TLC

Shades(a, b, c) == (0 :> a) @@ (1 :> a) @@ (2 :> b) @@ (3 :> b) @@ (4 :> b) @@ (5 :> c)

Dark     == Shades(127, 127, 127)
Left     == Shades(128, 127, 127)
Right    == Shades(127, 27, 27)
Pictures == {Dark, Left, Right}
=============================================================================
