---------------------------- MODULE MCSerialPort ----------------------------
(***************************************************************************)
(* Two threads of a program and one port, used as ArduinoHandler uses it   *)
(* and in ways RXTX lets others use it.                                    *)
(***************************************************************************)
EXTENDS SerialPort

CONSTANTS w, c, m1, m2

Script(first, second) == [t \in {w, c} |-> IF t = w THEN first ELSE second]

Usage ==
  { Script(<<"write", "write">>, <<"add", "notify", "handlerClose">>),
    Script(<<"write", "read">>, <<"add", "notify", "close">>),
    Script(<<"read">>, <<"add", "notify", "remove", "add", "handlerClose">>),
    Script(<<"close", "write">>, <<"add", "notify", "close">>),
    Script(<<"notify", "read">>, <<"remove", "close">>),
    Script(<<"remove">>, <<"add", "handlerClose">>) }
=============================================================================
