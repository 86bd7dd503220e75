--------------------------- MODULE SessionService ---------------------------
(***************************************************************************)
(* InMemorySessionService and the BaseSessionService it extends, as the    *)
(* runners, the API server and the agents call it from concurrent tasks.   *)
(*                                                                         *)
(* A session entry is an object on the heap: a caller that looked it up    *)
(* keeps writing to it after a delete or an overwriting create took it out *)
(* of the dictionary.  The per-session semaphore is an object too, and the *)
(* dictionary of semaphores is keyed by the session id alone.  Each thread *)
(* is one caller; between two of its calls it keeps the copy of a session  *)
(* that its last Create or Get returned.                                   *)
(*                                                                         *)
(* Abstractions: one app; a StateDelta holds at most one key, of the scope *)
(* ScopeOf, and the value it gives the key is the event that carries it;   *)
(* the GetSessionConfig filters, ListSessions and time stamps are left     *)
(* out.  List<Event>.Add is its read of the size and its write of the slot *)
(* and of the size, because two unsynchronised Adds lose an element.       *)
(***************************************************************************)
EXTENDS Integers, Sequences, FiniteSets

CONSTANTS Threads,        \* concurrent callers of the service
          Users,          \* user ids of the app
          Ids,            \* session ids; users choose them independently
          Events,         \* events that callers append, each at most once
          ScopeOf,        \* the scope of the key in an event's StateDelta
          Partials,       \* the events with Partial == true
          InitialScopes,  \* the scopes of the keys a Create request brings
          MaxEntries,     \* bound: sessions ever created
          MaxDeletes,     \* bound: calls of DeleteSessionAsync
          DeletesOverlap, \* whether callers delete while others append to a
                          \* session of that id; nothing in the service prevents it
          NoThread, NoEvent, Unset, Given

Keys == Users \X Ids
Entries == 1..MaxEntries
\* An id gets a new semaphore only after a delete took its old one.
MaxLocks == Cardinality(Ids) + MaxDeletes
Locks == 1..MaxLocks
Scopes == {"session", "user", "app"}
Values == Events \cup {Unset, Given}

Phases == {"idle", "cloneState", "cloneEvents", "overlay", "lookup", "getLock",
           "wait", "scoped", "store", "add", "release", "dropLock"}
\* Inside AppendEventAsync's try block, between WaitAsync and Release.
Critical == {"scoped", "store", "add", "release"}
Appending == {"lookup", "getLock", "wait"} \cup Critical
\* Reading an entry that the per-session lock does not protect from.
Cloning == {"cloneState", "cloneEvents"}

ASSUME ConstantsAssumption ==
    /\ MaxEntries \in Nat /\ MaxDeletes \in Nat /\ IsFiniteSet(Ids)
    /\ DeletesOverlap \in BOOLEAN
    /\ ScopeOf \in [Events -> Scopes \cup {"temp", "none"}]
    /\ Partials \subseteq Events
    /\ InitialScopes \subseteq SUBSET Scopes
    /\ Users # {} /\ Ids # {}
    /\ NoThread \notin Threads
    /\ NoEvent \notin Events
    /\ Unset \notin Events /\ Given \notin Events /\ Unset # Given

VARIABLES
    sessions,   \* the dictionary: the entry under a key, 0 when there is none
    buckets,    \* the users that have a dictionary of sessions
    heap,       \* the session objects the service has created
    nEntries,   \* how many of them there are
    locks,      \* _sessionLocks: the semaphore under a session id, 0 for none
    nLocks,     \* how many semaphores were created
    nDeletes,   \* how many deletes were called
    holder,     \* the thread inside each semaphore
    appState,   \* _appState's value under the one app-scoped key
    userState,  \* _userState's value under the one user-scoped key
    copy,       \* the Session object each caller holds
    pc,         \* where in the service each caller is
    at,         \* its local variables there
    sent,       \* events already passed to an append
    stored      \* history: the entry an acknowledged event was stored in

vars == <<sessions, buckets, heap, nEntries, locks, nLocks, nDeletes, holder,
          appState, userState, copy, pc, at, sent, stored>>

dicts == <<sessions, buckets>>
lockVars == <<locks, nLocks, nDeletes, holder>>
shared == <<appState, userState>>

\* What a local variable for a key holds before it is assigned.
AnyKey == CHOOSE k \in Keys : TRUE
NoState == [s \in Scopes |-> Unset]
NoCopy == [live |-> FALSE, entry |-> 0, state |-> NoState, events |-> << >>,
           json |-> {}]

Init ==
    /\ sessions = [k \in Keys |-> 0]
    /\ buckets = {}
    /\ heap = [n \in Entries |-> [key |-> AnyKey, state |-> NoState, events |-> << >>]]
    /\ nEntries = 0
    /\ locks = [id \in Ids |-> 0]
    /\ nLocks = 0
    /\ nDeletes = 0
    /\ holder = [l \in Locks |-> NoThread]
    /\ appState = Unset
    /\ userState = [u \in Users |-> Unset]
    /\ copy = [t \in Threads |-> NoCopy]
    /\ pc = [t \in Threads |-> "idle"]
    /\ at = [t \in Threads |-> [key |-> AnyKey, entry |-> 0, lock |-> 0,
                                event |-> NoEvent, size |-> 0]]
    /\ sent = {}
    /\ stored = [e \in Events |-> 0]

User(t) == at[t].key[1]
Id(t) == at[t].key[2]

-----------------------------------------------------------------------------
(* CreateSessionAsync                                                      *)

\* A new entry goes under the key, over whatever the key named before.
CreateSession(t, k, given) ==
    /\ pc[t] = "idle"
    /\ nEntries < MaxEntries
    /\ nEntries' = nEntries + 1
    /\ heap' = [heap EXCEPT ![nEntries + 1] =
                  [key |-> k,
                   state |-> [s \in Scopes |-> IF s \in given THEN Given ELSE Unset],
                   events |-> << >>]]
    /\ sessions' = [sessions EXCEPT ![k] = nEntries + 1]
    /\ buckets' = buckets \cup {k[1]}
    /\ at' = [at EXCEPT ![t].key = k, ![t].entry = nEntries + 1]
    /\ pc' = [pc EXCEPT ![t] = "cloneState"]
    /\ copy' = [copy EXCEPT ![t] = NoCopy]
    /\ UNCHANGED <<lockVars, shared, sent, stored>>

(* GetSessionAsync                                                         *)

\* The entry is found without the lock; a missing one is a null result,
\* after which the caller still has its old copy.
GetSession(t, k) ==
    /\ pc[t] = "idle"
    /\ sessions[k] # 0
    /\ at' = [at EXCEPT ![t].key = k, ![t].entry = sessions[k]]
    /\ pc' = [pc EXCEPT ![t] = "cloneState"]
    /\ copy' = [copy EXCEPT ![t] = NoCopy]
    /\ UNCHANGED <<dicts, heap, nEntries, lockVars, shared, sent, stored>>

\* DeepClone serialises State before Events, each while others may write.
\* What comes back as Dictionary<string, object?> are JsonElement values.
CloneState(t) ==
    /\ pc[t] = "cloneState"
    /\ LET st == heap[at[t].entry].state
       IN  copy' = [copy EXCEPT ![t].entry = at[t].entry, ![t].state = st,
                                ![t].json = {s \in Scopes : st[s] # Unset}]
    /\ pc' = [pc EXCEPT ![t] = "cloneEvents"]
    /\ UNCHANGED <<dicts, heap, nEntries, lockVars, shared, at, sent, stored>>

CloneEvents(t) ==
    /\ pc[t] = "cloneEvents"
    /\ copy' = [copy EXCEPT ![t].events = heap[at[t].entry].events]
    /\ pc' = [pc EXCEPT ![t] = "overlay"]
    /\ UNCHANGED <<dicts, heap, nEntries, lockVars, shared, at, sent, stored>>

\* Enumerating a collection that a writer changes throws.
CloneThrows(t) ==
    /\ pc[t] \in Cloning
    /\ \E w \in Threads : /\ pc[w] \in {"store", "add"}
                          /\ at[w].entry = at[t].entry
    /\ copy' = [copy EXCEPT ![t] = NoCopy]
    /\ pc' = [pc EXCEPT ![t] = "idle"]
    /\ UNCHANGED <<dicts, heap, nEntries, lockVars, shared, at, sent, stored>>

\* The value the service keeps outside the sessions for a key of scope s.
SharedValue(u, s) == CASE s = "app"  -> appState
                       [] s = "user" -> userState[u]
                       [] OTHER      -> Unset

\* The app's and the user's own values go over the clone's.
MergeStates(t) ==
    /\ pc[t] = "overlay"
    /\ copy' = [copy EXCEPT
                  ![t].live = TRUE,
                  ![t].state = [s \in Scopes |->
                      IF SharedValue(User(t), s) = Unset THEN @[s]
                                                         ELSE SharedValue(User(t), s)],
                  ![t].json = {s \in @ : SharedValue(User(t), s) = Unset}]
    /\ pc' = [pc EXCEPT ![t] = "idle"]
    /\ UNCHANGED <<dicts, heap, nEntries, lockVars, shared, at, sent, stored>>

-----------------------------------------------------------------------------
(* AppendEventAsync                                                        *)

\* A mutant: TryAdd in place of the indexer.
TryAddDelta(state, e) ==
    IF ScopeOf[e] \in Scopes /\ state[ScopeOf[e]] = Unset
      THEN [state EXCEPT ![ScopeOf[e]] = e] ELSE state

\* UpdateSessionState: the delta's keys that are not temp: ones.
WithDelta(state, e) ==
    IF ScopeOf[e] \in Scopes THEN [state EXCEPT ![ScopeOf[e]] = e] ELSE state

\* A mutant: the newest event first in the copy.
PrependToCopy(t, e) ==
    /\ pc[t] = "idle"
    /\ copy[t].live
    /\ e \notin sent
    /\ sent' = sent \cup {e}
    /\ copy' = [copy EXCEPT ![t].state = WithDelta(@, e), ![t].events = <<e>> \o @]
    /\ at' = [at EXCEPT ![t].event = e]
    /\ pc' = [pc EXCEPT ![t] = "lookup"]
    /\ UNCHANGED <<dicts, heap, nEntries, lockVars, shared, stored>>

\* base.AppendEventAsync on the caller's own copy, which nobody else has.
AppendToCopy(t, e) ==
    /\ pc[t] = "idle"
    /\ copy[t].live
    /\ e \notin sent
    /\ DeletesOverlap \/ \A u \in Threads : pc[u] = "dropLock" => Id(u) # Id(t)
    /\ sent' = sent \cup {e}
    /\ copy' = IF e \in Partials THEN copy
               ELSE [copy EXCEPT ![t].state = WithDelta(@, e),
                                 ![t].events = Append(@, e),
                                 ![t].json = @ \ {ScopeOf[e]}]
    /\ at' = [at EXCEPT ![t].event = e]
    /\ pc' = [pc EXCEPT ![t] = "lookup"]
    /\ UNCHANGED <<dicts, heap, nEntries, lockVars, shared, stored>>

\* A session that is gone swallows the event: the append returns normally.
LookupEntry(t) ==
    /\ pc[t] = "lookup"
    /\ at' = [at EXCEPT ![t].entry = sessions[at[t].key]]
    /\ pc' = [pc EXCEPT ![t] = IF sessions[at[t].key] = 0 THEN "idle" ELSE "getLock"]
    /\ UNCHANGED <<dicts, heap, nEntries, lockVars, shared, copy, sent, stored>>

\* A mutant: a new semaphore in place of GetOrAdd.
NewSessionLock(t) ==
    /\ pc[t] = "getLock"
    /\ nLocks' = nLocks + 1
    /\ locks' = [locks EXCEPT ![Id(t)] = nLocks + 1]
    /\ at' = [at EXCEPT ![t].lock = nLocks + 1]
    /\ pc' = [pc EXCEPT ![t] = "wait"]
    /\ UNCHANGED <<dicts, heap, nEntries, nDeletes, holder, shared, copy, sent,
                   stored>>

GetSessionLock(t) ==
    /\ pc[t] = "getLock"
    /\ IF locks[Id(t)] # 0
         THEN /\ at' = [at EXCEPT ![t].lock = locks[Id(t)]]
              /\ UNCHANGED <<locks, nLocks>>
         ELSE /\ nLocks < MaxLocks
              /\ nLocks' = nLocks + 1
              /\ locks' = [locks EXCEPT ![Id(t)] = nLocks + 1]
              /\ at' = [at EXCEPT ![t].lock = nLocks + 1]
    /\ pc' = [pc EXCEPT ![t] = "wait"]
    /\ UNCHANGED <<dicts, heap, nEntries, nDeletes, holder, shared, copy, sent,
                   stored>>

\* A mutant: WaitAsync without its await.
EnterLock(t) ==
    /\ pc[t] = "wait"
    /\ holder' = [holder EXCEPT ![at[t].lock] = t]
    /\ pc' = [pc EXCEPT ![t] = "scoped"]
    /\ UNCHANGED <<dicts, heap, nEntries, locks, nLocks, nDeletes, shared, copy, at,
                   sent, stored>>

WaitLock(t) ==
    /\ pc[t] = "wait"
    /\ holder[at[t].lock] = NoThread
    /\ holder' = [holder EXCEPT ![at[t].lock] = t]
    /\ pc' = [pc EXCEPT ![t] = "scoped"]
    /\ UNCHANGED <<dicts, heap, nEntries, locks, nLocks, nDeletes, shared, copy, at,
                   sent, stored>>

\* app: and user: keys reach their dictionaries, a partial event's too.
WriteScoped(t) ==
    /\ pc[t] = "scoped"
    /\ LET e == at[t].event
       IN  /\ appState' = IF ScopeOf[e] = "app" THEN e ELSE appState
           /\ userState' = IF ScopeOf[e] = "user"
                             THEN [userState EXCEPT ![User(t)] = e] ELSE userState
           /\ pc' = [pc EXCEPT ![t] = IF e \in Partials THEN "release" ELSE "store"]
    /\ UNCHANGED <<dicts, heap, nEntries, lockVars, copy, at, sent, stored>>

\* base.AppendEventAsync on the stored session: its state, then List.Add,
\* whose read of the size is here and whose writes are the next step.
StoreState(t) ==
    /\ pc[t] = "store"
    /\ heap' = [heap EXCEPT ![at[t].entry].state = WithDelta(@, at[t].event)]
    /\ at' = [at EXCEPT ![t].size = Len(heap[at[t].entry].events)]
    /\ pc' = [pc EXCEPT ![t] = "add"]
    /\ UNCHANGED <<dicts, nEntries, lockVars, shared, copy, sent, stored>>

\* A mutant: Insert(0, e) in place of Add.
InsertEvent(t) ==
    /\ pc[t] = "add"
    /\ heap' = [heap EXCEPT ![at[t].entry].events = <<at[t].event>> \o @]
    /\ pc' = [pc EXCEPT ![t] = "release"]
    /\ stored' = [stored EXCEPT ![at[t].event] = at[t].entry]
    /\ UNCHANGED <<dicts, nEntries, lockVars, shared, copy, at, sent>>

AddEvent(t) ==
    /\ pc[t] = "add"
    /\ heap' = [heap EXCEPT ![at[t].entry].events =
                  Append(SubSeq(@, 1, at[t].size), at[t].event)]
    /\ pc' = [pc EXCEPT ![t] = "release"]
    /\ stored' = [stored EXCEPT ![at[t].event] = at[t].entry]
    /\ UNCHANGED <<dicts, nEntries, lockVars, shared, copy, at, sent>>

\* A mutant: a partial event returns before the finally block.
ReleaseStored(t) ==
    /\ pc[t] = "release"
    /\ holder' = IF at[t].event \in Partials THEN holder
                 ELSE [holder EXCEPT ![at[t].lock] = NoThread]
    /\ pc' = [pc EXCEPT ![t] = "idle"]
    /\ UNCHANGED <<dicts, heap, nEntries, locks, nLocks, nDeletes, shared, copy, at,
                   sent, stored>>

Release(t) ==
    /\ pc[t] = "release"
    /\ holder' = [holder EXCEPT ![at[t].lock] = NoThread]
    /\ pc' = [pc EXCEPT ![t] = "idle"]
    /\ UNCHANGED <<dicts, heap, nEntries, locks, nLocks, nDeletes, shared, copy, at,
                   sent, stored>>

-----------------------------------------------------------------------------
(* DeleteSessionAsync: the entry, then the semaphore of the id, whoever    *)
(* else uses a session of that id.  The caller drops its own copy.         *)

DeleteSession(t, k) ==
    /\ pc[t] = "idle"
    /\ k[1] \in buckets
    /\ nDeletes < MaxDeletes
    /\ nDeletes' = nDeletes + 1
    /\ DeletesOverlap \/ \A u \in Threads : pc[u] \in Appending => Id(u) # k[2]
    /\ sessions' = [sessions EXCEPT ![k] = 0]
    /\ at' = [at EXCEPT ![t].key = k]
    /\ pc' = [pc EXCEPT ![t] = "dropLock"]
    /\ copy' = [copy EXCEPT ![t] = NoCopy]
    /\ UNCHANGED <<buckets, heap, nEntries, locks, nLocks, holder, shared, sent,
                   stored>>

DropLock(t) ==
    /\ pc[t] = "dropLock"
    /\ locks' = [locks EXCEPT ![Id(t)] = 0]
    /\ pc' = [pc EXCEPT ![t] = "idle"]
    /\ UNCHANGED <<dicts, heap, nEntries, nLocks, nDeletes, holder, shared, copy,
                   at, sent, stored>>

-----------------------------------------------------------------------------
\* What a started call does next, without a choice of its caller.
Progress(t) ==
    \/ CloneState(t) \/ CloneEvents(t) \/ CloneThrows(t) \/ MergeStates(t)
    \/ LookupEntry(t) \/ GetSessionLock(t) \/ WaitLock(t) \/ WriteScoped(t)
    \/ StoreState(t) \/ AddEvent(t) \/ Release(t) \/ DropLock(t)

Call(t) ==
    \/ \E k \in Keys, given \in InitialScopes : CreateSession(t, k, given)
    \/ \E k \in Keys : GetSession(t, k)
    \/ \E k \in Keys : DeleteSession(t, k)
    \/ \E e \in Events : AppendToCopy(t, e)

\* Nobody is in a call: the callers may never call again.
AtRest == /\ \A t \in Threads : pc[t] = "idle"
          /\ UNCHANGED vars

Next == AtRest \/ \E t \in Threads : Call(t) \/ Progress(t)

Fairness == \A t \in Threads : WF_vars(Progress(t))

Spec == Init /\ [][Next]_vars /\ Fairness

-----------------------------------------------------------------------------
States == [Scopes -> Values]
SessionType == [key : Keys, state : States, events : Seq(Events)]
CopyType == [live : BOOLEAN, entry : 0..MaxEntries, state : States,
             events : Seq(Events), json : SUBSET Scopes]
LocalType == [key : Keys, entry : 0..MaxEntries, lock : 0..MaxLocks,
              event : Events \cup {NoEvent}, size : Nat]

TypeOK ==
    /\ sessions \in [Keys -> 0..MaxEntries]
    /\ buckets \in SUBSET Users
    /\ heap \in [Entries -> SessionType]
    /\ nEntries \in 0..MaxEntries
    /\ locks \in [Ids -> 0..MaxLocks]
    /\ nLocks \in 0..MaxLocks
    /\ nDeletes \in 0..MaxDeletes
    /\ holder \in [Locks -> Threads \cup {NoThread}]
    /\ appState \in Events \cup {Unset}
    /\ userState \in [Users -> Events \cup {Unset}]
    /\ copy \in [Threads -> CopyType]
    /\ pc \in [Threads -> Phases]
    /\ at \in [Threads -> LocalType]
    /\ sent \in SUBSET Events
    /\ stored \in [Events -> 0..MaxEntries]

\* At most one append is inside a session's critical section: the comment
\* on the per-session lock in InMemorySessionService.AppendEventAsync.
OneWriterPerSession ==
    \A t, u \in Threads :
        /\ pc[t] \in Critical /\ pc[u] \in Critical
        /\ at[t].entry = at[u].entry
        => t = u

\* An event whose append stored it is in the history of that session, in no
\* other history, and nowhere twice, for as long as the entry exists.
NoLostEvent ==
    /\ \A e \in Events : stored[e] # 0 =>
          \E i \in 1..Len(heap[stored[e]].events) : heap[stored[e]].events[i] = e
    /\ \A n \in Entries : \A i \in 1..Len(heap[n].events) :
          /\ stored[heap[n].events[i]] = n
          /\ \A j \in 1..Len(heap[n].events) :
                heap[n].events[i] = heap[n].events[j] => i = j

\* What replaying a history over the state a session was created with gives:
\* for each scope the last event that set it.
LastSetBy(events, s) ==
    {i \in 1..Len(events) : /\ ScopeOf[events[i]] = s
                            /\ \A j \in i + 1..Len(events) : ScopeOf[events[j]] # s}

\* Between appends a session's stored state is what its history replays to:
\* state and events, updated in two steps, never drift apart.
StateMatchesHistory ==
    \A n \in Entries :
        (\A t \in Threads : pc[t] \in Critical => at[t].entry # n)
        => \A s \in Scopes :
             IF LastSetBy(heap[n].events, s) = {}
               THEN heap[n].state[s] \in {Unset, Given}
               ELSE \A i \in LastSetBy(heap[n].events, s) :
                      heap[n].state[s] = heap[n].events[i]

\* A caller's copy never disagrees with the service on the order of two
\* events that both have: other callers' events only come in between.
CopyOrderKept ==
    \A t \in Threads : LET c == copy[t] IN
        c.live => \A i, j \in 1..Len(c.events) :
            /\ i < j
            /\ stored[c.events[i]] = c.entry
            /\ stored[c.events[j]] = c.entry
            => \E p, q \in 1..Len(heap[c.entry].events) :
                 /\ p < q
                 /\ heap[c.entry].events[p] = c.events[i]
                 /\ heap[c.entry].events[q] = c.events[j]

\* What a read of a session value under its own type gives back is the value
\* that was written (docs/state.md on Get<T>), not the default for a value
\* whose type changed on the way.
StateReadsBack ==
    \A t \in Threads : copy[t].live => copy[t].json = {}

\* A call that entered the service leaves it: no lock is left behind.
AppendReturns ==
    \A t \in Threads : pc[t] # "idle" ~> pc[t] = "idle"

-----------------------------------------------------------------------------
\* When deletes do not overlap appends the service implements the abstract
\* store: an append commits in the step that writes the list slot.
Store == INSTANCE SessionStore WITH
    Convs <- Entries, NoConv <- 0,
    current <- sessions, opened <- 1..nEntries,
    log <- [n \in Entries |-> heap[n].events]

StoreSpec == Store!Spec
=============================================================================
