--------------------------- MODULE MCLiveSession ---------------------------
(***************************************************************************)
(* A run and one that a transfer nests in it, a reconnect each, two        *)
(* requests of the client and one tool call: its response is sent by the   *)
(* run it reached, or the call is spent on the transfer.  A response of    *)
(* the nested run, which passes the loops of both, would take a second     *)
(* call: that is left to the theorem SaidOnce of LiveSessionProofs.        *)
(***************************************************************************)
EXTENDS LiveSession
=============================================================================
