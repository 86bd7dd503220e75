--------------------------- MODULE MCHumanInTheLoop ---------------------------
(***************************************************************************)
(* Instances of HumanInTheLoop: two calls, in one response of the model or *)
(* in two, and three messages, so that requests can be answered together,  *)
(* one after the other, twice, and after a turn that was cut off.          *)
(***************************************************************************)
EXTENDS HumanInTheLoop
=============================================================================
