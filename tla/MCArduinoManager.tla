-------------------------- MODULE MCArduinoManager --------------------------
(***************************************************************************)
(* ArduinoManager with its history, checked on a small ring: no motion, a  *)
(* command of one digit, and one whose mean with the others is truncated.  *)
(***************************************************************************)
EXTENDS ArduinoManagerHistory

Angles == {0, 2, 7}
=============================================================================
