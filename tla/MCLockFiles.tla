---------------------------- MODULE MCLockFiles ----------------------------
(***************************************************************************)
(* Programs started by a shell, one port.                                  *)
(***************************************************************************)
EXTENDS LockFilesHistory

CONSTANTS a, b, c, shell

Two          == {a, b}
Three        == {a, b, c}
ShellOfTwo   == [p \in Two |-> shell]
ShellOfThree == [p \in Three |-> shell]
Anything     == Two \cup {shell, NoPid}
=============================================================================
