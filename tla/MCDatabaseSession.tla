-------------------------- MODULE MCDatabaseSession --------------------------
(***************************************************************************)
(* Two callers and the two sessions of one user, which share the user:     *)
(* dictionary: their events set a key of it each, one of them a key of the *)
(* session too, and so does the request that creates a session.            *)
(***************************************************************************)
EXTENDS DatabaseSession, TLC

CONSTANTS t1, t2, u1, s1, s2, x, y, e1, e2

MCDelta == e1 :> {<<"user", x>>, <<"session", x>>}
           @@ e2 :> {<<"user", y>>}
MCGivens == {{<<"session", x>>, <<"user", x>>}}
\* For the lost update: sessions begin empty, so that only appends compete.
NothingGiven == {{}}

Callers == Permutations({t1, t2})
=============================================================================
