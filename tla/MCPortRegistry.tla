--------------------------- MODULE MCPortRegistry ---------------------------
(***************************************************************************)
(* Two threads and one port.                                               *)
(***************************************************************************)
EXTENDS PortRegistry, TLC

CONSTANTS t1, t2, i1, i2, i3, p1, p2, p3, p4, p5, p6

Two == {t1, t2}
=============================================================================
