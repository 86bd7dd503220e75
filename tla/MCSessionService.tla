-------------------------- MODULE MCSessionService --------------------------
(***************************************************************************)
(* Two callers; one user, or two users that chose the same session id.     *)
(***************************************************************************)
EXTENDS SessionService, TLC

CONSTANTS t1, t2, u1, u2, s1, e1, e2, e3

\* e3 is partial: it changes the app's state and no history.
MCScopeOf == e1 :> "session" @@ e2 :> "session" @@ e3 :> "app"
MCPartials == {e3}
MCInitialScopes == {{"session"}}
=============================================================================
