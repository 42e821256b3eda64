---------------------------- MODULE MCStreamLoop ----------------------------
(***************************************************************************)
(* A transcoder with little room, which may say more between two pictures  *)
(* than its pipe takes, and seconds of six ticks, of which three frames    *)
(* are wanted.                                                             *)
(***************************************************************************)
EXTENDS StreamLoop
=============================================================================
