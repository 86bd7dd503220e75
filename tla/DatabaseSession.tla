--------------------------- MODULE DatabaseSession ---------------------------
(***************************************************************************)
(* EfCoreSessionService: sessions, events and state in a database, used by *)
(* concurrent callers in any number of processes.                          *)
(*                                                                         *)
(* Every call opens a context of its own, reads the rows it needs one by   *)
(* one, and saves its changes in one transaction at the end; between the   *)
(* reads and the save other calls commit theirs.  The state of an app, of  *)
(* a user and of a session is one JSON column each, read and written whole *)
(* and without a concurrency token: EF Core writes the column when its     *)
(* text changed, whatever the row holds by then.                           *)
(*                                                                         *)
(* Abstractions: one app; the value a StateDelta gives its keys is the      *)
(* event that carries it; partial events, which AppendEventAsync returns   *)
(* at once, and ListSessions, which only reads, are left out, and so is    *)
(* the app's and the user's part of a copy.                                *)
(***************************************************************************)
EXTENDS Integers, Sequences, Functions

CONSTANTS Threads,     \* concurrent callers
          Users, Ids,  \* user ids; session ids
          App,         \* the app, as the owner of a dictionary
          Vars,        \* the names of state keys, without their prefix
          Events,      \* events that callers append, each at most once
          Delta,       \* the scopes and names of the keys an event sets
          Givens,      \* the states of Create requests: sets of such keys
          MaxConvs,    \* bound: sessions ever created
          MaxDeletes,  \* bound: calls of DeleteSessionAsync
          NoEvent, Unset, Given

Keys == Users \X Ids
Convs == 1..MaxConvs
Scopes == {"app", "user", "session"}
Values == Events \cup {Unset, Given}
\* The rows that hold a dictionary: the app's, the users', the sessions'.
Dicts == {App} \cup Users \cup Keys

ASSUME DatabaseAssumption ==
    /\ MaxConvs \in Nat /\ MaxDeletes \in Nat
    /\ Delta \in [Events -> SUBSET (Scopes \X Vars)]
    /\ Givens \subseteq SUBSET (Scopes \X Vars)
    /\ Users # {} /\ Ids # {}
    /\ App \notin Users \cup Keys /\ Users \cap Keys = {}
    /\ NoEvent \notin Events /\ Unset \notin Events /\ Given \notin Events
    /\ Unset # Given

VARIABLES
    row,       \* the conversation of the session row under a key, 0 for no row
    nConvs,    \* conversations created so far
    log,       \* the event rows of each conversation, in the order of commits
    dict,      \* StateJson of each row
    present,   \* the app and user rows that exist
    copy,      \* the Session each caller holds
    pc,        \* where in the service each caller is
    at,        \* what its context has read there
    sent,      \* events already passed to an append
    nDeletes,  \* deletes called
    due,       \* history: what the last commit that set a key gave it
    clobbered, \* history: keys set since another append read the dictionary
               \* it then committed a key of its own to
    mixed      \* history: conversations an append wrote that had read another

vars == <<row, nConvs, log, dict, present, copy, pc, at, sent, nDeletes, due,
          clobbered, mixed>>
database == <<row, nConvs, log, dict, present, due, clobbered, mixed>>

Empty == [v \in Vars |-> Unset]
AnyKey == CHOOSE k \in Keys : TRUE
NoCopy == [live |-> FALSE, key |-> AnyKey, conv |-> 0, from |-> 0,
           state |-> Empty, events |-> << >>]
NoReads == [key |-> AnyKey, conv |-> 0, event |-> NoEvent, sets |-> {},
            read |-> [s \in Scopes |-> Empty], found |-> {}, stale |-> {}]

Init ==
    /\ row = [k \in Keys |-> 0]
    /\ nConvs = 0
    /\ log = [c \in Convs |-> << >>]
    /\ dict = [d \in Dicts |-> Empty]
    /\ present = {}
    /\ copy = [t \in Threads |-> NoCopy]
    /\ pc = [t \in Threads |-> "idle"]
    /\ at = [t \in Threads |-> NoReads]
    /\ sent = {}
    /\ nDeletes = 0
    /\ due = dict
    /\ clobbered = {}
    /\ mixed = {}

\* The row a scope's dictionary is in, for a session with key k.
Owner(k, s) == CASE s = "app" -> App [] s = "user" -> k[1] [] OTHER -> k

-----------------------------------------------------------------------------
(* The reads of a call                                                     *)

CreateSession(t, k, given) ==
    /\ pc[t] = "idle" /\ nConvs < MaxConvs
    /\ at' = [at EXCEPT ![t] = [NoReads EXCEPT !.key = k, !.sets = given]]
    /\ pc' = [pc EXCEPT ![t] = "app"]
    /\ UNCHANGED <<database, copy, sent, nDeletes>>

\* A session that is gone makes the append throw.
AppendEvent(t, e) ==
    LET k == copy[t].key IN
    /\ pc[t] = "idle" /\ copy[t].live /\ e \notin sent
    /\ sent' = sent \cup {e}
    /\ \/ /\ row[k] = 0
          /\ UNCHANGED <<at, pc>>
       \/ /\ row[k] # 0
          /\ at' = [at EXCEPT ![t] =
                       [NoReads EXCEPT !.key = k, !.conv = row[k], !.event = e,
                                       !.sets = Delta[e],
                                       !.read["session"] = dict[k]]]
          /\ pc' = [pc EXCEPT ![t] = "app"]
    /\ UNCHANGED <<database, copy, nDeletes>>

\* FindAsync: the row and whether there is one.
ReadShared(t, s, next) ==
    LET d == Owner(at[t].key, s) IN
    /\ pc[t] = s
    /\ at' = [at EXCEPT ![t].read[s] = dict[d], ![t].found = @ \cup ({d} \cap present)]
    /\ pc' = [pc EXCEPT ![t] = next]
    /\ UNCHANGED <<database, copy, sent, nDeletes>>

ReadApp(t) == ReadShared(t, "app", "user")
ReadUser(t) == ReadShared(t, "user", "save")

-----------------------------------------------------------------------------
(* The saves: one transaction each                                         *)

Creating(t) == at[t].event = NoEvent
Value(t) == IF Creating(t) THEN Given ELSE at[t].event

\* What the call serialises for the dictionary of a scope.
Merged(t, s) == [v \in Vars |-> IF <<s, v>> \in at[t].sets THEN Value(t)
                                                           ELSE at[t].read[s][v]]

\* A mutant: Update(entity) in place of change tracking.
WrittenAll(t) == Scopes

\* The dictionaries that differ from what the call read, or are new.
Written(t) == {s \in Scopes : \/ Merged(t, s) # at[t].read[s]
                              \/ Creating(t) /\ Owner(at[t].key, s) \notin at[t].found}

\* The keys a call sets, all of a new session's.
Sets(t, S) == {<<Owner(at[t].key, p[1]), p[2]>> : p \in {q \in at[t].sets : q[1] \in S}}
              \cup (IF Creating(t) THEN {at[t].key} \X Vars ELSE {})

\* A row that was missing at the read and is there now.
Conflicts(t) == \E s \in {"app", "user"} :
                    Owner(at[t].key, s) \in present \ at[t].found

SaveDicts(t) ==
    LET k == at[t].key
        own == {Owner(k, p[1]) : p \in at[t].sets}
    IN
    /\ dict' = [d \in Dicts |->
                  IF \E s \in Written(t) : d = Owner(k, s)
                    THEN Merged(t, CHOOSE s \in Scopes : d = Owner(k, s)) ELSE dict[d]]
    /\ due' = [d \in Dicts |-> [v \in Vars |->
                  IF <<d, v>> \in Sets(t, Scopes)
                    THEN Merged(t, CHOOSE s \in Scopes : d = Owner(k, s))[v]
                    ELSE due[d][v]]]
    /\ clobbered' = (clobbered \cup {p \in at[t].stale : p[1] \in own})
                    \ Sets(t, Written(t))
    /\ present' = present \cup {App, k[1]}
    /\ mixed' = mixed \cup ({row[k]} \ {0, at[t].conv})

\* The call of t ends; the keys it set are news to the other open contexts
\* that have read them.
Reading(u, d) ==
    \/ d = at[u].key /\ at[u].event # NoEvent
    \/ d = App /\ pc[u] \in {"user", "save"}
    \/ d = at[u].key[1] /\ pc[u] = "save"

Leave(t, news) ==
    /\ at' = [u \in Threads |->
                IF u = t THEN NoReads
                ELSE [at[u] EXCEPT !.stale = @ \cup {p \in news : Reading(u, p[1])}]]
    /\ pc' = [pc EXCEPT ![t] = "idle"]

\* The primary key refuses a session that exists.
SaveCreate(t) ==
    LET k == at[t].key IN
    /\ pc[t] = "save" /\ Creating(t)
    /\ nConvs < MaxConvs /\ row[k] = 0 /\ ~Conflicts(t)
    /\ nConvs' = nConvs + 1
    /\ row' = [row EXCEPT ![k] = nConvs + 1]
    /\ SaveDicts(t)
    /\ copy' = [copy EXCEPT ![t] = [live |-> TRUE, key |-> k, conv |-> nConvs + 1,
                                    from |-> nConvs + 1, state |-> dict'[k],
                                    events |-> << >>]]
    /\ Leave(t, Sets(t, Scopes))
    /\ UNCHANGED <<log, sent, nDeletes>>

\* A mutant: the session is saved as the caller has it.
SaveWhole(t) ==
    LET k == at[t].key IN
    /\ pc[t] = "save" /\ ~Creating(t)
    /\ row[k] # 0 /\ ~Conflicts(t)
    /\ log' = [log EXCEPT ![row[k]] = Append(copy[t].events, at[t].event)]
    /\ SaveDicts(t)
    /\ copy' = [copy EXCEPT ![t].events = Append(@, at[t].event)]
    /\ Leave(t, Sets(t, Scopes))
    /\ UNCHANGED <<row, nConvs, sent, nDeletes>>

\* A mutant: the state and the event in two transactions.
SaveInTwo(t) ==
    LET k == at[t].key IN
    /\ pc[t] = "save" /\ ~Creating(t)
    /\ row[k] # 0 /\ ~Conflicts(t)
    /\ log' \in {log, [log EXCEPT ![row[k]] = Append(@, at[t].event)]}
    /\ SaveDicts(t)
    /\ copy' = [copy EXCEPT ![t].events = Append(@, at[t].event)]
    /\ Leave(t, Sets(t, Scopes))
    /\ UNCHANGED <<row, nConvs, sent, nDeletes>>

\* The row of the key is updated, which need not be the one that was read;
\* the state of the caller's copy stays as it is, unlike in the base class.
SaveAppend(t) ==
    LET k == at[t].key IN
    /\ pc[t] = "save" /\ ~Creating(t)
    /\ row[k] # 0 /\ ~Conflicts(t)
    /\ log' = [log EXCEPT ![row[k]] = Append(@, at[t].event)]
    /\ SaveDicts(t)
    /\ copy' = [copy EXCEPT ![t].events = Append(@, at[t].event)]
    /\ Leave(t, Sets(t, Scopes))
    /\ UNCHANGED <<row, nConvs, sent, nDeletes>>

-----------------------------------------------------------------------------
(* GetSessionAsync: the session row and then the event rows, in no common  *)
(* transaction; no session is a null result.                               *)

GetSession(t, k) ==
    /\ pc[t] = "idle" /\ row[k] # 0
    /\ copy' = [copy EXCEPT ![t] = [NoCopy EXCEPT !.key = k, !.conv = row[k],
                                                  !.state = dict[k]]]
    /\ pc' = [pc EXCEPT ![t] = "events"]
    /\ UNCHANGED <<database, at, sent, nDeletes>>

\* The events come ordered by the times their callers gave them, which need
\* not be the order of the commits.
Reordered(s) == {[i \in DOMAIN s |-> s[p[i]]] : p \in Bijection(DOMAIN s, DOMAIN s)}

ReadEvents(t) ==
    LET c == row[copy[t].key] IN
    /\ pc[t] = "events"
    /\ \E events \in Reordered(IF c = 0 THEN << >> ELSE log[c]) :
           copy' = [copy EXCEPT ![t].live = TRUE, ![t].from = c, ![t].events = events]
    /\ pc' = [pc EXCEPT ![t] = "idle"]
    /\ UNCHANGED <<database, at, sent, nDeletes>>

(* DeleteSessionAsync: whichever session has the key when it saves goes,   *)
(* and its event rows with it.                                             *)

DeleteSession(t, k) ==
    /\ pc[t] = "idle" /\ row[k] # 0 /\ nDeletes < MaxDeletes
    /\ nDeletes' = nDeletes + 1
    /\ at' = [at EXCEPT ![t] = [NoReads EXCEPT !.key = k]]
    /\ pc' = [pc EXCEPT ![t] = "delete"]
    /\ UNCHANGED <<database, copy, sent>>

\* A mutant: the row is marked as deleted and keeps its state.
SaveDeleteSoft(t) ==
    LET k == at[t].key IN
    /\ pc[t] = "delete" /\ row[k] # 0
    /\ row' = [row EXCEPT ![k] = 0]
    /\ clobbered' = clobbered \ ({k} \X Vars)
    /\ Leave(t, {k} \X Vars)
    /\ UNCHANGED <<nConvs, log, dict, due, present, copy, sent, nDeletes, mixed>>

SaveDelete(t) ==
    LET k == at[t].key IN
    /\ pc[t] = "delete" /\ row[k] # 0
    /\ row' = [row EXCEPT ![k] = 0]
    /\ dict' = [dict EXCEPT ![k] = Empty]
    /\ due' = [due EXCEPT ![k] = Empty]
    /\ clobbered' = clobbered \ ({k} \X Vars)
    /\ Leave(t, {k} \X Vars)
    /\ UNCHANGED <<nConvs, log, present, copy, sent, nDeletes, mixed>>

\* A query or a save throws, for what it finds in the database or because
\* the database is out of reach: nothing of the call is committed.
Fail(t) ==
    /\ pc[t] # "idle"
    /\ Leave(t, {})
    /\ UNCHANGED <<database, copy, sent, nDeletes>>

-----------------------------------------------------------------------------
Call(t) ==
    \/ \E k \in Keys : \/ GetSession(t, k) \/ DeleteSession(t, k)
                       \/ \E given \in Givens : CreateSession(t, k, given)
    \/ \E e \in Events : AppendEvent(t, e)

Progress(t) ==
    \/ ReadApp(t) \/ ReadUser(t) \/ SaveCreate(t) \/ SaveAppend(t)
    \/ ReadEvents(t) \/ SaveDelete(t) \/ Fail(t)

AtRest == /\ \A t \in Threads : pc[t] = "idle"
          /\ UNCHANGED vars

Next == AtRest \/ \E t \in Threads : Call(t) \/ Progress(t)

Spec == Init /\ [][Next]_vars

-----------------------------------------------------------------------------
Content == [Vars -> Values]

TypeOK ==
    /\ row \in [Keys -> 0..nConvs]
    /\ \A k \in Keys : row[k] = 0 => dict[k] = Empty
    /\ nConvs \in 0..MaxConvs
    /\ log \in [Convs -> Seq(Events)]
    /\ dict \in [Dicts -> Content]
    /\ present \subseteq {App} \cup Users
    /\ copy \in [Threads -> [live : BOOLEAN, key : Keys, conv : 0..nConvs,
                             from : 0..nConvs, state : Content, events : Seq(Events)]]
    /\ pc \in [Threads -> {"idle", "app", "user", "save", "events", "delete"}]
    /\ at \in [Threads -> [key : Keys, conv : 0..nConvs, event : Events \cup {NoEvent},
                           sets : SUBSET (Scopes \X Vars), read : [Scopes -> Content],
                           found : SUBSET ({App} \cup Users),
                           stale : SUBSET (Dicts \X Vars)]]
    /\ sent \subseteq Events
    /\ nDeletes \in 0..MaxDeletes
    /\ due \in [Dicts -> Content]
    /\ clobbered \subseteq Dicts \X Vars
    /\ mixed \subseteq Convs

\* The value under a key is that of the last committed event that set it
\* (docs/state.md: a user: key persists across the user's sessions).
KeysPersist == \A d \in Dicts, v \in Vars : dict[d][v] = due[d][v]

\* A committed value is lost only to an append or a create that set another
\* key of the same dictionary and had read it before: never to one that
\* merely wrote its other dictionaries, and never to one that read later.
LostOnlyByOverlap ==
    \A d \in Dicts, v \in Vars : dict[d][v] # due[d][v] => <<d, v>> \in clobbered

\* The session state of a copy comes from the events the copy has: the state
\* and the events are read apart, but no state without its event is seen,
\* unless the session was deleted and created anew in the midst of a call.
CopyStateExplained ==
    \A t \in Threads : LET c == copy[t] IN
        c.live /\ c.conv = c.from /\ c.conv \notin mixed =>
            \A v \in Vars : \/ c.state[v] \in {Unset, Given}
                           \/ \E i \in DOMAIN c.events : c.events[i] = c.state[v]

-----------------------------------------------------------------------------
\* What a session is to its callers, in whatever service: a call commits in
\* the step that saves.
Store == INSTANCE SessionStore WITH
    NoConv <- 0, current <- row, opened <- 1..nConvs

StoreSpec == Store!Spec
=============================================================================
