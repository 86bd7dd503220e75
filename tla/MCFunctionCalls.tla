--------------------------- MODULE MCFunctionCalls ---------------------------
(***************************************************************************)
(* Instances of FunctionCalls: three calls and two workers, so that a call *)
(* has to wait while others work, fail and end in any order.               *)
(***************************************************************************)
EXTENDS FunctionCalls
=============================================================================
