--------------------------- MODULE MCVideoDevices ---------------------------
(***************************************************************************)
(* Two cameras, one of which prints more controls than a pipe takes; lists *)
(* whole, cut short, and with parts missing.                               *)
(***************************************************************************)
EXTENDS VideoDevices

CONSTANTS cam1, cam2, dev1, dev2, url

Lists == { <<cam1, dev1, Blank, cam2, dev2, Blank>>,
           <<cam1, Blank, dev2, Blank, cam2, dev1, dev2, Blank>>,
           <<cam1, dev2, dev1, Blank, cam2, dev2>>,
           << >> }
Lines == [l \in {dev1, dev2} |-> IF l = dev1 THEN 2 ELSE 3]
=============================================================================
