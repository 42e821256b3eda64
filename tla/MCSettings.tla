----------------------------- MODULE MCSettings -----------------------------
(***************************************************************************)
(* Settings with one or two values of every slider, the sensitivity's      *)
(* smallest among them.                                                    *)
(***************************************************************************)
EXTENDS Settings

TwoValues ==
  [k \in Numeric |-> CASE k = "sensitivity" -> {0, 40}
                       [] k = "position"    -> {1, 80}
                       [] OTHER             -> {30}]
=============================================================================
