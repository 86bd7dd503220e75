--------------------------- MODULE MCParallelAgent --------------------------
(***************************************************************************)
(* Two sub-agents, of which each may call a tool once.                     *)
(***************************************************************************)
EXTENDS ParallelAgent

CONSTANTS b1, b2
=============================================================================
