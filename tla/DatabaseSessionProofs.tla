------------------------ MODULE DatabaseSessionProofs ------------------------
(***************************************************************************)
(* The database service for any callers, users, sessions and events: what  *)
(* can be lost, what a caller's copy can hold, and that it is a session    *)
(* store.                                                                  *)
(***************************************************************************)
EXTENDS DatabaseSession, TLAPS, SequenceTheorems

Copies(n) == [live : BOOLEAN, key : Keys, conv : 0..n, from : 0..n,
              state : Content, events : Seq(Events)]
Contexts(n) == [key : Keys, conv : 0..n, event : Events \cup {NoEvent},
                sets : SUBSET (Scopes \X Vars), read : [Scopes -> Content],
                found : SUBSET ({App} \cup Users), stale : SUBSET (Dicts \X Vars)]
Places == {"idle", "app", "user", "save", "events", "delete"}

Rows == /\ nConvs \in 0..MaxConvs
        /\ row \in [Keys -> 0..nConvs]
        /\ log \in [Convs -> Seq(Events)]
        /\ mixed \subseteq Convs
Dictionaries == /\ dict \in [Dicts -> Content]
                /\ due \in [Dicts -> Content]
                /\ present \subseteq {App} \cup Users
                /\ clobbered \subseteq Dicts \X Vars
                /\ \A k \in Keys : row[k] = 0 => dict[k] = Empty
Callers == /\ copy \in [Threads -> Copies(nConvs)]
           /\ pc \in [Threads -> Places]
           /\ at \in [Threads -> Contexts(nConvs)]
           /\ sent \subseteq Events
           /\ nDeletes \in 0..MaxDeletes

Types == Rows /\ Dictionaries /\ Callers

LEMMA Numbers ==
    ASSUME Types
    PROVE  /\ nConvs \in Nat /\ MaxConvs \in Nat /\ nConvs <= MaxConvs
           /\ \A k \in Keys : row[k] \in 0..nConvs /\ (row[k] # 0 => row[k] \in Convs)
<1>1. MaxConvs \in Nat
  BY DatabaseAssumption
<1>2. nConvs \in Nat /\ nConvs <= MaxConvs
  BY <1>1 DEF Types, Rows
<1>3. \A k \in Keys : row[k] \in 0..nConvs
  BY DEF Types, Rows
<1> QED
  BY <1>1, <1>2, <1>3 DEF Convs

-----------------------------------------------------------------------------
(* The rows a call writes                                                  *)

LEMMA OwnerIs ==
    ASSUME NEW k
    PROVE  Owner(k, "app") = App /\ Owner(k, "user") = k[1] /\ Owner(k, "session") = k
BY DEF Owner

LEMMA OwnerIn ==
    ASSUME NEW k \in Keys, NEW s \in Scopes
    PROVE  Owner(k, s) \in Dicts
BY DEF Owner, Dicts, Keys, Scopes

\* The three are different rows.
LEMMA OwnersDiffer ==
    ASSUME NEW k \in Keys, NEW s \in Scopes, NEW r \in Scopes, Owner(k, s) = Owner(k, r)
    PROVE  s = r
<1>1. k[1] \in Users
  BY DEF Keys
<1>2. App # k[1] /\ App # k /\ k[1] # k
  BY <1>1, DatabaseAssumption
<1> QED
  BY <1>2, OwnerIs DEF Scopes

LEMMA OwnerChosen ==
    ASSUME NEW k \in Keys, NEW s \in Scopes
    PROVE  (CHOOSE r \in Scopes : Owner(k, s) = Owner(k, r)) = s
BY OwnersDiffer

LEMMA EmptyIsContent == Empty \in Content /\ \A v \in Vars : Empty[v] = Unset
BY DEF Empty, Content, Values

LEMMA MergedIs ==
    ASSUME Types, NEW t \in Threads, NEW s \in Scopes
    PROVE  /\ Merged(t, s) \in Content
           /\ \A v \in Vars : Merged(t, s)[v] = IF <<s, v>> \in at[t].sets THEN Value(t)
                                                ELSE at[t].read[s][v]
<1>1. at[t].event \in Events \cup {NoEvent} /\ at[t].read \in [Scopes -> Content]
  BY DEF Types, Callers, Contexts
<1>2. Value(t) \in Values
  BY <1>1 DEF Value, Creating, Values
<1>3. at[t].read[s] \in Content
  BY <1>1
<1> QED
  BY <1>2, <1>3 DEF Merged, Content

LEMMA SetsAre ==
    ASSUME Types, NEW t \in Threads, NEW S \in SUBSET Scopes
    PROVE  /\ Sets(t, S) \subseteq Dicts \X Vars
           /\ \A s \in Scopes, v \in Vars :
                 <<Owner(at[t].key, s), v>> \in Sets(t, S)
                     <=> \/ <<s, v>> \in at[t].sets /\ s \in S
                         \/ Creating(t) /\ s = "session"
<1>1. at[t].key \in Keys /\ at[t].sets \in SUBSET (Scopes \X Vars)
  BY DEF Types, Callers, Contexts
<1>2. \A p \in at[t].sets : /\ p = <<p[1], p[2]>> /\ p[1] \in Scopes /\ p[2] \in Vars
                            /\ Owner(at[t].key, p[1]) \in Dicts
  BY <1>1, OwnerIn
<1>3. at[t].key \in Dicts
  BY <1>1 DEF Dicts
<1>4. PICK k : k = at[t].key
  OBVIOUS
<1>5. PICK P : P = at[t].sets
  OBVIOUS
<1>6. Sets(t, S) = {<<Owner(k, p[1]), p[2]>> : p \in {q \in P : q[1] \in S}}
                   \cup (IF Creating(t) THEN {k} \X Vars ELSE {})
  BY <1>4, <1>5 DEF Sets
<1>7. Sets(t, S) \subseteq Dicts \X Vars
  BY <1>2, <1>3, <1>4, <1>5, <1>6
<1>8. ASSUME NEW s \in Scopes, NEW v \in Vars
      PROVE  <<Owner(k, s), v>> \in Sets(t, S)
                 <=> \/ <<s, v>> \in P /\ s \in S
                     \/ Creating(t) /\ s = "session"
  <2>1. Owner(k, s) = k <=> s = "session"
    <3>1. "session" \in Scopes /\ Owner(k, "session") = k
      BY OwnerIs DEF Scopes
    <3> QED
      BY <1>1, <1>4, <3>1, OwnersDiffer
  <2>2. ASSUME NEW p \in P, <<Owner(k, p[1]), p[2]>> = <<Owner(k, s), v>>
        PROVE  p = <<s, v>>
    <3>1. p[1] = s
      BY <1>1, <1>2, <1>4, <1>5, <2>2, OwnersDiffer
    <3> QED
      BY <1>2, <1>5, <2>2, <3>1
  <2>3. <<s, v>> \in P /\ s \in S => <<Owner(k, s), v>> \in Sets(t, S)
    BY <1>6
  <2> QED
    BY <1>6, <2>1, <2>2, <2>3
<1> QED
  BY <1>4, <1>5, <1>7, <1>8

\* What SaveDicts makes of the dictionaries, one by one.
LEMMA SavedDicts ==
    ASSUME Types, NEW t \in Threads, SaveDicts(t)
    PROVE  /\ dict' \in [Dicts -> Content] /\ due' \in [Dicts -> Content]
           /\ \A s \in Scopes : dict'[Owner(at[t].key, s)] =
                 IF s \in Written(t) THEN Merged(t, s) ELSE dict[Owner(at[t].key, s)]
           /\ \A s \in Scopes, v \in Vars : due'[Owner(at[t].key, s)][v] =
                 IF <<Owner(at[t].key, s), v>> \in Sets(t, Scopes)
                   THEN Merged(t, s)[v] ELSE due[Owner(at[t].key, s)][v]
           /\ \A d \in Dicts : (\A s \in Scopes : d # Owner(at[t].key, s)) =>
                 dict'[d] = dict[d] /\ \A v \in Vars : due'[d][v] = due[d][v]
<1> DEFINE k == at[t].key
           Scope(d) == CHOOSE s \in Scopes : d = Owner(k, s)
           Touched(d) == \E s \in Written(t) : d = Owner(k, s)
<1>1. k \in Keys
  BY DEF Types, Callers, Contexts
<1>2. \A s \in Scopes : Owner(k, s) \in Dicts /\ Scope(Owner(k, s)) = s
  BY <1>1, OwnerIn, OwnerChosen
<1>3. /\ dict' = [d \in Dicts |-> IF Touched(d) THEN Merged(t, Scope(d)) ELSE dict[d]]
      /\ due' = [d \in Dicts |-> [v \in Vars |->
                   IF <<d, v>> \in Sets(t, Scopes) THEN Merged(t, Scope(d))[v]
                                                   ELSE due[d][v]]]
  BY DEF SaveDicts
<1>4. Written(t) \subseteq Scopes
  BY DEF Written
<1>5. \A d \in Dicts : (\E s \in Scopes : d = Owner(k, s)) => Merged(t, Scope(d)) \in Content
  BY MergedIs
<1>6. \A d \in Dicts, v \in Vars :
          <<d, v>> \in Sets(t, Scopes) => \E s \in Scopes : d = Owner(k, s)
  <2>1. \A p \in at[t].sets : p[1] \in Scopes
    BY DEF Types, Callers, Contexts
  <2>2. "session" \in Scopes /\ k = Owner(k, "session")
    BY OwnerIs DEF Scopes
  <2> QED
    BY <2>1, <2>2 DEF Sets
<1>7. dict' \in [Dicts -> Content]
  BY <1>3, <1>4, <1>5 DEF Types, Dictionaries
<1>8. due' \in [Dicts -> Content]
  <2>1. \A d \in Dicts : due[d] \in [Vars -> Values]
    BY DEF Types, Dictionaries, Content
  <2>2. \A d \in Dicts, v \in Vars :
            <<d, v>> \in Sets(t, Scopes) => Merged(t, Scope(d))[v] \in Values
    BY <1>5, <1>6 DEF Content
  <2> HIDE DEF Scope
  <2> QED
    BY <1>3, <2>1, <2>2 DEF Content
<1>9. ASSUME NEW s \in Scopes
      PROVE  /\ dict'[Owner(k, s)] = IF s \in Written(t) THEN Merged(t, s)
                                                         ELSE dict[Owner(k, s)]
             /\ \A v \in Vars : due'[Owner(k, s)][v] =
                   IF <<Owner(k, s), v>> \in Sets(t, Scopes)
                     THEN Merged(t, s)[v] ELSE due[Owner(k, s)][v]
  <2>1. Owner(k, s) \in Dicts /\ Scope(Owner(k, s)) = s
    BY <1>2
  <2>2. Touched(Owner(k, s)) <=> s \in Written(t)
    BY <1>1, <1>4, OwnersDiffer
  <2> HIDE DEF Scope, Touched, k
  <2> QED
    BY <1>3, <2>1, <2>2
<1>10. ASSUME NEW d \in Dicts, \A s \in Scopes : d # Owner(k, s)
       PROVE  dict'[d] = dict[d] /\ \A v \in Vars : due'[d][v] = due[d][v]
  BY <1>3, <1>4, <1>6, <1>10
<1> QED
  BY <1>7, <1>8, <1>9, <1>10

-----------------------------------------------------------------------------
(* Types                                                                   *)

LEMMA NothingRead ==
    /\ \A n \in Nat : NoReads \in Contexts(n) /\ NoCopy \in Copies(n)
    /\ NoReads.event = NoEvent
<1>1. AnyKey \in Keys
  <2>1. PICK u \in Users, i \in Ids : TRUE
    BY DatabaseAssumption
  <2>2. <<u, i>> \in Keys
    BY DEF Keys
  <2> QED
    BY <2>2 DEF AnyKey
<1>2. << >> \in Seq(Events)
  OBVIOUS
<1>3. [s \in Scopes |-> Empty] \in [Scopes -> Content]
  BY EmptyIsContent
<1> QED
  BY <1>1, <1>2, <1>3, EmptyIsContent DEF NoReads, NoCopy, Contexts, Copies

\* A call ends: the others keep what they have read, and some of it is stale.
LEMMA Left ==
    ASSUME Types, NEW t \in Threads, NEW news \in SUBSET (Dicts \X Vars), Leave(t, news)
    PROVE  /\ at' \in [Threads -> Contexts(nConvs)] /\ pc' \in [Threads -> Places]
           /\ at'[t] = NoReads /\ pc'[t] = "idle"
           /\ \A u \in Threads \ {t} :
                 /\ pc'[u] = pc[u]
                 /\ at'[u].key = at[u].key /\ at'[u].conv = at[u].conv
                 /\ at'[u].event = at[u].event /\ at'[u].sets = at[u].sets
                 /\ at'[u].read = at[u].read /\ at'[u].found = at[u].found
                 /\ at'[u].stale = at[u].stale \cup {p \in news : Reading(u, p[1])}
<1>1. nConvs \in Nat
  BY DatabaseAssumption DEF Types, Rows
<1>2. ASSUME NEW u \in Threads
      PROVE  [at[u] EXCEPT !.stale = @ \cup {p \in news : Reading(u, p[1])}]
                 \in Contexts(nConvs)
  <2>1. at[u] \in Contexts(nConvs)
    BY DEF Types, Callers
  <2>2. PICK S : S = {p \in news : Reading(u, p[1])}
    OBVIOUS
  <2>3. S \in SUBSET (Dicts \X Vars)
    BY <2>2
  <2>4. [at[u] EXCEPT !.stale = @ \cup S] \in Contexts(nConvs)
    BY <2>1, <2>3 DEF Contexts
  <2> QED
    BY <2>2, <2>4
<1>3. at' \in [Threads -> Contexts(nConvs)]
  BY <1>1, <1>2, NothingRead DEF Leave
<1>4. pc' \in [Threads -> Places]
  BY DEF Leave, Types, Callers, Places
<1>5. at'[t] = NoReads /\ pc'[t] = "idle"
  BY DEF Leave, Types, Callers
<1>6. ASSUME NEW u \in Threads \ {t}
      PROVE  /\ pc'[u] = pc[u]
             /\ at'[u].key = at[u].key /\ at'[u].conv = at[u].conv
             /\ at'[u].event = at[u].event /\ at'[u].sets = at[u].sets
             /\ at'[u].read = at[u].read /\ at'[u].found = at[u].found
             /\ at'[u].stale = at[u].stale \cup {p \in news : Reading(u, p[1])}
  <2>1. at[u] \in Contexts(nConvs)
    BY DEF Types, Callers
  <2>2. at'[u] = [at[u] EXCEPT !.stale = @ \cup {p \in news : Reading(u, p[1])}]
    BY DEF Leave
  <2>3. pc'[u] = pc[u]
    BY DEF Leave, Types, Callers
  <2> QED
    BY <2>1, <2>2, <2>3 DEF Contexts
<1> QED
  BY <1>3, <1>4, <1>5, <1>6

\* A caller goes from one place to another and changes what its context has.
LEMMA Moved ==
    ASSUME Types, NEW t \in Threads, NEW c \in Contexts(nConvs), NEW place \in Places,
           at' = [at EXCEPT ![t] = c], pc' = [pc EXCEPT ![t] = place],
           UNCHANGED <<database, copy>>, sent' \subseteq Events,
           nDeletes' \in 0..MaxDeletes
    PROVE  Types'
<1>1. at' \in [Threads -> Contexts(nConvs)] /\ pc' \in [Threads -> Places]
  BY DEF Types, Callers
<1> QED
  BY <1>1 DEF database, Types, Rows, Dictionaries, Callers

LEMMA CreateSessionTypes ==
    ASSUME Types, NEW t \in Threads, NEW k \in Keys, NEW given \in Givens,
           CreateSession(t, k, given)
    PROVE  Types'
<1>1. PICK c : c = [NoReads EXCEPT !.key = k, !.sets = given]
  OBVIOUS
<1>2. c \in Contexts(nConvs)
  <2>1. nConvs \in Nat /\ given \in SUBSET (Scopes \X Vars)
    BY DatabaseAssumption DEF Types, Rows
  <2> QED
    BY <1>1, <2>1, NothingRead DEF Contexts
<1>3. at' = [at EXCEPT ![t] = c]
  BY <1>1 DEF CreateSession
<1> QED
  BY <1>2, <1>3, Moved DEF CreateSession, Types, Callers, Places

LEMMA AppendEventTypes ==
    ASSUME Types, NEW t \in Threads, NEW e \in Events, AppendEvent(t, e)
    PROVE  Types'
<1>1. copy[t].key \in Keys
  BY DEF Types, Callers, Copies
<1>2. PICK k : k = copy[t].key
  OBVIOUS
<1>3. PICK c : c = [NoReads EXCEPT !.key = k, !.conv = row[k], !.event = e,
                                   !.sets = Delta[e], !.read["session"] = dict[k]]
  OBVIOUS
<1>4. c \in Contexts(nConvs)
  <2>1. nConvs \in Nat /\ Delta[e] \in SUBSET (Scopes \X Vars) /\ row[k] \in 0..nConvs
    BY <1>1, <1>2, DatabaseAssumption DEF Types, Rows
  <2>2. dict[k] \in Content
    BY <1>1, <1>2 DEF Types, Dictionaries, Dicts
  <2>3. PICK r : r = [NoReads.read EXCEPT !["session"] = dict[k]]
    OBVIOUS
  <2>4. r \in [Scopes -> Content]
    BY <2>1, <2>2, <2>3, NothingRead DEF Contexts
  <2>5. c = [NoReads EXCEPT !.key = k, !.conv = row[k], !.event = e,
                            !.sets = Delta[e], !.read = r]
    BY <1>3, <2>3
  <2> QED
    BY <1>1, <1>2, <2>1, <2>4, <2>5, NothingRead DEF Contexts
<1>5. CASE row[k] = 0
  BY SMTT(30), <1>2, <1>5 DEF AppendEvent, database, Types, Rows, Dictionaries, Callers
<1>6. CASE row[k] # 0
  <2>1. at' = [at EXCEPT ![t] = c]
    BY <1>2, <1>3, <1>6 DEF AppendEvent
  <2> QED
    BY ZenonT(60), <1>2, <1>4, <1>6, <2>1, Moved DEF AppendEvent, Types, Callers, Places
<1> QED
  BY <1>5, <1>6

LEMMA SharedRead ==
    ASSUME Types, NEW t \in Threads, NEW s \in {"app", "user"}, NEW next \in Places,
           ReadShared(t, s, next)
    PROVE  /\ Types'
           /\ at' = [at EXCEPT ![t] = at'[t]]
           /\ at'[t].key = at[t].key /\ at'[t].conv = at[t].conv
           /\ at'[t].event = at[t].event /\ at'[t].sets = at[t].sets
           /\ at'[t].stale = at[t].stale
           /\ at'[t].read = [at[t].read EXCEPT ![s] = dict[Owner(at[t].key, s)]]
           /\ at'[t].found = at[t].found \cup ({Owner(at[t].key, s)} \cap present)
<1>1. at[t] \in Contexts(nConvs) /\ at[t].key \in Keys
  BY DEF Types, Callers, Contexts
<1>2. s \in Scopes
  BY DEF Scopes
<1>3. PICK d : d = Owner(at[t].key, s)
  OBVIOUS
<1>4. d \in Dicts /\ dict[d] \in Content
  BY <1>1, <1>2, <1>3, OwnerIn DEF Types, Dictionaries
<1>5. PICK r : r = [at[t].read EXCEPT ![s] = dict[d]]
  OBVIOUS
<1>6. PICK f : f = at[t].found \cup ({d} \cap present)
  OBVIOUS
<1>7. r \in [Scopes -> Content]
  BY <1>1, <1>4, <1>5 DEF Contexts
<1>8. f \in SUBSET ({App} \cup Users)
  BY <1>1, <1>6 DEF Contexts, Types, Dictionaries
<1>9. PICK c : c = [at[t] EXCEPT !.read = r, !.found = f]
  OBVIOUS
<1>10. c \in Contexts(nConvs)
  BY <1>1, <1>7, <1>8, <1>9 DEF Contexts
<1>11. at' = [at EXCEPT ![t] = c]
  BY <1>3, <1>5, <1>6, <1>9 DEF ReadShared
<1>12. Types'
  BY <1>10, <1>11, Moved DEF ReadShared, Types, Callers
<1>13. at'[t] = c
  BY <1>11 DEF Types, Callers
<1>14. /\ c.key = at[t].key /\ c.conv = at[t].conv /\ c.event = at[t].event
       /\ c.sets = at[t].sets /\ c.stale = at[t].stale /\ c.read = r /\ c.found = f
  BY <1>1, <1>9 DEF Contexts
<1> QED
  BY <1>3, <1>5, <1>6, <1>11, <1>12, <1>13, <1>14

-----------------------------------------------------------------------------
(* The saves                                                               *)

\* What the two saves that write dictionaries have in common.
Saves(t) ==
    /\ pc[t] = "save" /\ ~Conflicts(t)
    /\ SaveDicts(t)
    /\ Leave(t, Sets(t, Scopes))
    /\ UNCHANGED <<sent, nDeletes>>

LEMMA SavedTypes ==
    ASSUME Types, NEW t \in Threads, Saves(t)
    PROVE  /\ at' \in [Threads -> Contexts(nConvs)] /\ pc' \in [Threads -> Places]
           /\ dict' \in [Dicts -> Content] /\ due' \in [Dicts -> Content]
           /\ present' \subseteq {App} \cup Users
           /\ clobbered' \subseteq Dicts \X Vars
           /\ mixed' \subseteq Convs
           /\ \A j \in Keys \ {at[t].key} : dict'[j] = dict[j]
<1>1. at[t] \in Contexts(nConvs) /\ at[t].key \in Keys /\ at[t].key[1] \in Users
      /\ at[t].stale \in SUBSET (Dicts \X Vars)
  BY DEF Types, Callers, Contexts, Keys
<1>2. Sets(t, Scopes) \in SUBSET (Dicts \X Vars)
  BY SetsAre
<1>3. at' \in [Threads -> Contexts(nConvs)] /\ pc' \in [Threads -> Places]
  BY <1>2, Left DEF Saves
<1>4. dict' \in [Dicts -> Content] /\ due' \in [Dicts -> Content]
  BY SavedDicts DEF Saves
<1>5. present' \subseteq {App} \cup Users
  BY <1>1 DEF Saves, SaveDicts, Types, Dictionaries
<1>6. clobbered' \subseteq Dicts \X Vars
  BY <1>1 DEF Saves, SaveDicts, Types, Dictionaries
<1>7. mixed' \subseteq Convs
  <2>1. row[at[t].key] # 0 => row[at[t].key] \in Convs
    BY <1>1, Numbers
  <2>2. mixed' = mixed \cup ({row[at[t].key]} \ {0, at[t].conv})
    BY DEF Saves, SaveDicts
  <2>3. mixed \subseteq Convs
    BY DEF Types, Rows
  <2> QED
    BY <2>1, <2>2, <2>3
<1>8. ASSUME NEW j \in Keys \ {at[t].key}
      PROVE  dict'[j] = dict[j]
  <2>1. j # App /\ j # at[t].key[1] /\ j \in Dicts
    BY <1>1, DatabaseAssumption DEF Dicts
  <2>2. \A s \in Scopes : j # Owner(at[t].key, s)
    BY <2>1, OwnerIs DEF Scopes
  <2> QED
    BY <2>1, <2>2, SavedDicts DEF Saves
<1> QED
  BY <1>3, <1>4, <1>5, <1>6, <1>7, <1>8

LEMMA Wider ==
    ASSUME nConvs \in Nat
    PROVE  Contexts(nConvs) \subseteq Contexts(nConvs + 1)
           /\ Copies(nConvs) \subseteq Copies(nConvs + 1)
<1>1. 0..nConvs \subseteq 0..nConvs + 1
  OBVIOUS
<1> QED
  BY <1>1 DEF Contexts, Copies

LEMMA SaveCreateTypes ==
    ASSUME Types, NEW t \in Threads, SaveCreate(t)
    PROVE  Types'
<1>1. PICK k : k = at[t].key
  OBVIOUS
<1>2. Saves(t) /\ nConvs' = nConvs + 1 /\ row' = [row EXCEPT ![k] = nConvs + 1]
      /\ log' = log /\ nConvs < MaxConvs
  BY <1>1 DEF SaveCreate, Saves
<1>3. k \in Keys
  BY <1>1 DEF Types, Callers, Contexts
<1>4. nConvs \in Nat /\ nConvs' \in 0..MaxConvs /\ nConvs + 1 \in 0..nConvs'
      /\ 0..nConvs \subseteq 0..nConvs'
  BY <1>2, DatabaseAssumption DEF Types, Rows
<1>5. /\ at' \in [Threads -> Contexts(nConvs)] /\ pc' \in [Threads -> Places]
      /\ dict' \in [Dicts -> Content] /\ due' \in [Dicts -> Content]
      /\ present' \subseteq {App} \cup Users
      /\ clobbered' \subseteq Dicts \X Vars
      /\ mixed' \subseteq Convs
      /\ \A j \in Keys \ {k} : dict'[j] = dict[j]
  BY <1>1, <1>2, SavedTypes
<1>6. row' \in [Keys -> 0..nConvs']
  BY <1>2, <1>3, <1>4 DEF Types, Rows
<1>7. Rows'
  BY <1>2, <1>4, <1>5, <1>6 DEF Types, Rows
<1>8. \A j \in Keys : row'[j] = 0 => j # k /\ row[j] = 0
  BY <1>2, <1>3, <1>4 DEF Types, Rows
<1>9. Dictionaries'
  BY <1>5, <1>8 DEF Types, Dictionaries, Empty
<1>10. PICK c : c = [live |-> TRUE, key |-> k, conv |-> nConvs + 1,
                     from |-> nConvs + 1, state |-> dict'[k], events |-> << >>]
  OBVIOUS
<1>11. c \in Copies(nConvs')
  <2>1. << >> \in Seq(Events)
    OBVIOUS
  <2>2. dict'[k] \in Content
    BY <1>3, <1>5 DEF Dicts
  <2> QED
    BY <1>3, <1>4, <1>10, <2>1, <2>2 DEF Copies
<1>12. copy' = [copy EXCEPT ![t] = c]
  BY <1>1, <1>10 DEF SaveCreate
<1>13. copy' \in [Threads -> Copies(nConvs')]
  <2>1. copy \in [Threads -> Copies(nConvs')]
    BY <1>2, <1>4, Wider DEF Types, Callers
  <2> QED
    BY <1>11, <1>12, <2>1
<1>14. at' \in [Threads -> Contexts(nConvs')]
  BY <1>2, <1>4, <1>5, Wider
<1>15. Callers'
  <2>1. copy' \in [Threads -> Copies(nConvs)'] /\ at' \in [Threads -> Contexts(nConvs)']
    BY <1>13, <1>14 DEF Copies, Contexts
  <2> QED
    BY <1>2, <1>5, <2>1 DEF Saves, Types, Callers
<1> QED
  BY <1>7, <1>9, <1>15 DEF Types

LEMMA SaveAppendTypes ==
    ASSUME Types, NEW t \in Threads, SaveAppend(t)
    PROVE  Types'
<1>1. PICK k : k = at[t].key
  OBVIOUS
<1>2. PICK e : e = at[t].event
  OBVIOUS
<1>3. /\ Saves(t) /\ UNCHANGED <<nConvs, row>> /\ row[k] # 0
      /\ log' = [log EXCEPT ![row[k]] = Append(@, e)]
      /\ copy' = [copy EXCEPT ![t].events = Append(@, e)]
  BY <1>1, <1>2 DEF SaveAppend, Saves
<1>4. k \in Keys /\ e \in Events /\ row[k] \in Convs
  <2>1. k \in Keys /\ e \in Events
    BY <1>1, <1>2 DEF SaveAppend, Creating, Types, Callers, Contexts
  <2> QED
    BY <1>3, <2>1, DatabaseAssumption DEF Types, Rows, Convs
<1>5. /\ at' \in [Threads -> Contexts(nConvs)] /\ pc' \in [Threads -> Places]
      /\ dict' \in [Dicts -> Content] /\ due' \in [Dicts -> Content]
      /\ present' \subseteq {App} \cup Users
      /\ clobbered' \subseteq Dicts \X Vars
      /\ mixed' \subseteq Convs
      /\ \A j \in Keys \ {k} : dict'[j] = dict[j]
  BY <1>1, <1>3, SavedTypes
<1>6. log' \in [Convs -> Seq(Events)]
  <2>1. log[row[k]] \in Seq(Events)
    BY <1>4 DEF Types, Rows
  <2>2. Append(log[row[k]], e) \in Seq(Events)
    BY <1>4, <2>1, AppendProperties
  <2> QED
    BY <1>3, <2>2 DEF Types, Rows
<1>7. Rows'
  BY <1>3, <1>5, <1>6 DEF Types, Rows
<1>8. Dictionaries'
  BY <1>3, <1>4, <1>5 DEF Types, Dictionaries, Empty
<1>9. copy' \in [Threads -> Copies(nConvs)]
  <2>1. copy[t] \in Copies(nConvs)
    BY DEF Types, Callers
  <2>2. Append(copy[t].events, e) \in Seq(Events)
    BY <1>4, <2>1, AppendProperties DEF Copies
  <2>3. PICK es : es = Append(copy[t].events, e)
    OBVIOUS
  <2>4. [copy[t] EXCEPT !.events = es] \in Copies(nConvs)
    BY <2>1, <2>2, <2>3 DEF Copies
  <2>5. copy' = [copy EXCEPT ![t] = [copy[t] EXCEPT !.events = es]]
    BY <1>3, <2>3 DEF Types, Callers
  <2> QED
    BY <2>4, <2>5 DEF Types, Callers
<1>10. Callers'
  BY <1>3, <1>5, <1>9 DEF Saves, Types, Callers, Copies, Contexts
<1> QED
  BY <1>7, <1>8, <1>10 DEF Types

LEMMA DeleteTypes ==
    ASSUME Types, NEW t \in Threads,
           SaveDelete(t) \/ \E k \in Keys : DeleteSession(t, k)
    PROVE  Types'
<1>1. CASE \E k \in Keys : DeleteSession(t, k)
  <2>1. PICK k \in Keys : DeleteSession(t, k)
    BY <1>1
  <2>2. PICK c : c = [NoReads EXCEPT !.key = k]
    OBVIOUS
  <2>3. c \in Contexts(nConvs)
    <3>1. NoReads \in Contexts(nConvs)
      BY NothingRead, Numbers
    <3> QED
      BY <2>2, <3>1 DEF Contexts
  <2>4. at' = [at EXCEPT ![t] = c]
    BY <2>1, <2>2 DEF DeleteSession
  <2>5. nDeletes' \in 0..MaxDeletes
    BY <2>1, DatabaseAssumption DEF DeleteSession, Types, Callers
  <2> QED
    BY <2>1, <2>3, <2>4, <2>5, Moved DEF DeleteSession, Types, Callers, Places
<1>2. CASE SaveDelete(t)
  <2>1. PICK k : k = at[t].key
    OBVIOUS
  <2>2. k \in Keys /\ k \in Dicts
    BY <2>1 DEF Types, Callers, Contexts, Dicts
  <2>3. {k} \X Vars \in SUBSET (Dicts \X Vars)
    BY <2>2
  <2>4. at' \in [Threads -> Contexts(nConvs)] /\ pc' \in [Threads -> Places]
    BY <1>2, <2>1, <2>3, Left DEF SaveDelete
  <2>5. Rows'
    <3>1. row' = [row EXCEPT ![k] = 0] /\ UNCHANGED <<nConvs, log, mixed>>
      BY <1>2, <2>1 DEF SaveDelete
    <3>2. 0 \in 0..nConvs
      BY Numbers
    <3> QED
      BY <3>1, <3>2 DEF Types, Rows
  <2>6. dict' = [dict EXCEPT ![k] = Empty] /\ due' = [due EXCEPT ![k] = Empty]
        /\ row' = [row EXCEPT ![k] = 0] /\ present' = present
        /\ clobbered' \subseteq clobbered
    BY <1>2, <2>1 DEF SaveDelete
  <2>7. \A j \in Keys : row'[j] = 0 => dict'[j] = Empty
    BY <2>2, <2>6 DEF Types, Rows, Dictionaries, Dicts
  <2>8. Dictionaries'
    BY <2>6, <2>7, EmptyIsContent DEF Types, Dictionaries, Empty
  <2>9. Callers'
    BY <1>2, <2>4 DEF SaveDelete, Types, Callers, Copies, Contexts
  <2> QED
    BY <2>5, <2>8, <2>9 DEF Types
<1> QED
  BY <1>1, <1>2

\* A step that changes no more than a copy.
LEMMA CopyTypes ==
    ASSUME Types, NEW t \in Threads, NEW c \in Copies(nConvs), NEW place \in Places,
           copy' = [copy EXCEPT ![t] = c], pc' = [pc EXCEPT ![t] = place],
           UNCHANGED <<database, at, sent, nDeletes>>
    PROVE  Types'
BY DEF database, Types, Rows, Dictionaries, Callers

LEMMA GetSessionIs ==
    ASSUME Types, NEW t \in Threads, NEW k \in Keys, GetSession(t, k)
    PROVE  /\ copy' = [copy EXCEPT ![t] = copy'[t]] /\ copy'[t] \in Copies(nConvs)
           /\ ~copy'[t].live /\ copy'[t].key = k /\ copy'[t].conv = row[k]
           /\ copy'[t].state = dict[k]
<1>1. PICK c : c = [NoCopy EXCEPT !.key = k, !.conv = row[k], !.state = dict[k]]
  OBVIOUS
<1>2. copy' = [copy EXCEPT ![t] = c]
  BY <1>1 DEF GetSession
<1>3. dict[k] \in Content /\ row[k] \in 0..nConvs
  BY Numbers DEF Types, Dictionaries, Dicts
<1>4. NoCopy \in Copies(nConvs) /\ ~NoCopy.live
  BY NothingRead, Numbers DEF NoCopy
<1>5. c \in Copies(nConvs) /\ ~c.live /\ c.key = k /\ c.conv = row[k] /\ c.state = dict[k]
  BY <1>1, <1>3, <1>4 DEF Copies
<1>6. copy'[t] = c
  BY <1>2 DEF Types, Callers
<1> QED
  BY <1>2, <1>5, <1>6

\* Another order has the same events.
LEMMA ReorderedHas ==
    ASSUME NEW s \in Seq(Events), NEW q \in Reordered(s)
    PROVE  /\ q \in Seq(Events)
           /\ \A i \in DOMAIN s : \E j \in DOMAIN q : q[j] = s[i]
<1>1. PICK p \in Bijection(DOMAIN s, DOMAIN s) : q = [i \in DOMAIN s |-> s[p[i]]]
  BY DEF Reordered
<1>2. p \in [DOMAIN s -> DOMAIN s] /\ \A i \in DOMAIN s : \E j \in DOMAIN s : p[j] = i
  BY DEF Bijection, Injection, Surjection
<1>3. DOMAIN s = 1..Len(s) /\ Len(s) \in Nat
  OBVIOUS
<1>4. DOMAIN q = DOMAIN s /\ \A i \in DOMAIN s : q[i] = s[p[i]]
  BY <1>1
<1>5. q \in [1..Len(s) -> Events]
  BY <1>1, <1>2, <1>3
<1>6. q \in Seq(Events)
  BY <1>3, <1>5
<1> QED
  BY <1>2, <1>4, <1>6

LEMMA ReadEventsIs ==
    ASSUME Types, NEW t \in Threads, ReadEvents(t)
    PROVE  LET c == row[copy[t].key]
           IN  /\ copy' = [copy EXCEPT ![t] = copy'[t]] /\ copy'[t] \in Copies(nConvs)
               /\ copy'[t].key = copy[t].key /\ copy'[t].conv = copy[t].conv
               /\ copy'[t].from = c /\ copy'[t].state = copy[t].state
               /\ copy'[t].events \in Reordered(IF c = 0 THEN << >> ELSE log[c])
<1>1. copy[t] \in Copies(nConvs) /\ copy[t].key \in Keys
  BY DEF Types, Callers, Copies
<1>2. PICK c : c = row[copy[t].key]
  OBVIOUS
<1>3. PICK l : l = IF c = 0 THEN << >> ELSE log[c]
  OBVIOUS
<1>4. c \in 0..nConvs /\ l \in Seq(Events)
  <2>1. c \in 0..nConvs
    BY <1>1, <1>2 DEF Types, Rows
  <2>2. c # 0 => c \in Convs
    BY <2>1, DatabaseAssumption DEF Types, Rows, Convs
  <2>3. << >> \in Seq(Events)
    OBVIOUS
  <2> QED
    BY <1>3, <2>1, <2>2, <2>3 DEF Types, Rows
<1>5. PICK es \in Reordered(l) :
          copy' = [copy EXCEPT ![t].live = TRUE, ![t].from = c, ![t].events = es]
  BY <1>2, <1>3 DEF ReadEvents
<1>6. PICK d : d = [copy[t] EXCEPT !.live = TRUE, !.from = c, !.events = es]
  OBVIOUS
<1>7. es \in Seq(Events)
  BY <1>4, <1>5, ReorderedHas
<1>8. d \in Copies(nConvs) /\ d.key = copy[t].key /\ d.conv = copy[t].conv
      /\ d.from = c /\ d.state = copy[t].state /\ d.events = es
  BY <1>1, <1>4, <1>6, <1>7 DEF Copies
<1>9. copy' = [copy EXCEPT ![t] = d]
  BY <1>5, <1>6 DEF Types, Callers
<1>10. copy'[t] = d
  BY <1>9 DEF Types, Callers
<1> QED
  BY <1>2, <1>3, <1>5, <1>8, <1>9, <1>10

LEMMA TypesStep ==
    ASSUME Types, [Next]_vars
    PROVE  Types'
<1>1. CASE UNCHANGED vars
  BY <1>1 DEF vars, Types, Rows, Dictionaries, Callers, Copies, Contexts
<1>2. ASSUME NEW t \in Threads, Call(t)
      PROVE  Types'
  <2>1. CASE \E k \in Keys : GetSession(t, k)
    <3>1. PICK k \in Keys : GetSession(t, k)
      BY <2>1
    <3>2. copy' = [copy EXCEPT ![t] = copy'[t]] /\ copy'[t] \in Copies(nConvs)
      BY <3>1, GetSessionIs
    <3>3. PICK c : c = copy'[t]
      OBVIOUS
    <3> QED
      BY <3>1, <3>2, <3>3, CopyTypes DEF GetSession, Places
  <2>2. CASE \E k \in Keys : DeleteSession(t, k)
    BY <2>2, DeleteTypes
  <2>3. CASE \E k \in Keys : \E given \in Givens : CreateSession(t, k, given)
    BY <2>3, CreateSessionTypes
  <2>4. CASE \E e \in Events : AppendEvent(t, e)
    BY <2>4, AppendEventTypes
  <2> QED
    BY <1>2, <2>1, <2>2, <2>3, <2>4 DEF Call
<1>3. ASSUME NEW t \in Threads, Progress(t)
      PROVE  Types'
  <2>1. CASE ReadApp(t) \/ ReadUser(t)
    BY <2>1, SharedRead DEF ReadApp, ReadUser, Places
  <2>2. CASE ReadEvents(t)
    <3>1. copy' = [copy EXCEPT ![t] = copy'[t]] /\ copy'[t] \in Copies(nConvs)
      BY <2>2, ReadEventsIs
    <3>2. PICK c : c = copy'[t]
      OBVIOUS
    <3> QED
      BY <2>2, <3>1, <3>2, CopyTypes DEF ReadEvents, Places
  <2>3. CASE Fail(t)
    <3>1. {} \in SUBSET (Dicts \X Vars)
      OBVIOUS
    <3>2. at' \in [Threads -> Contexts(nConvs)] /\ pc' \in [Threads -> Places]
      BY <2>3, <3>1, Left DEF Fail
    <3> QED
      BY <2>3, <3>2 DEF Fail, database, Types, Rows, Dictionaries, Callers, Copies, Contexts
  <2> QED
    BY <1>3, <2>1, <2>2, <2>3, SaveCreateTypes, SaveAppendTypes, DeleteTypes DEF Progress
<1> QED
  BY <1>1, <1>2, <1>3 DEF Next, AtRest

-----------------------------------------------------------------------------
(* Lost values                                                             *)

\* The context of a caller has read the dictionary of a scope.
HasRead(t, s) ==
    \/ s = "session" /\ at[t].event # NoEvent
    \/ s = "app" /\ pc[t] \in {"user", "save"}
    \/ s = "user" /\ pc[t] = "save"

\* What it has read is what is due, or was overtaken; and a row that was not
\* there had nothing in it.
Known(t, s) ==
    LET d == Owner(at[t].key, s)
    IN  /\ \A v \in Vars : at[t].read[s][v] # due[d][v] =>
                               <<d, v>> \in at[t].stale \cup clobbered
        /\ s # "session" /\ d \notin at[t].found =>
               \A v \in Vars : at[t].read[s][v] = Unset

LostInv ==
    /\ LostOnlyByOverlap
    /\ \A d \in ({App} \cup Users) \ present :
           \A v \in Vars : dict[d][v] = Unset /\ due[d][v] = Unset
    /\ \A t \in Threads, s \in Scopes : HasRead(t, s) => Known(t, s)

LEMMA KnownStays ==
    ASSUME NEW u, NEW s, Known(u, s), UNCHANGED <<due, clobbered>>,
           at'[u].key = at[u].key, at'[u].read[s] = at[u].read[s],
           at[u].stale \subseteq at'[u].stale, at[u].found \subseteq at'[u].found
    PROVE  Known(u, s)'
<1>1. PICK d : d = Owner(at[u].key, s)
  OBVIOUS
<1>2. Owner(at[u].key, s)' = d
  BY <1>1 DEF Owner
<1> QED
  BY <1>1, <1>2 DEF Known

\* The database stays as it is, and what the callers know of it.
LEMMA LostStays ==
    ASSUME LostInv, UNCHANGED database,
           \A t \in Threads, s \in Scopes : HasRead(t, s)' => Known(t, s)'
    PROVE  LostInv'
BY DEF LostInv, LostOnlyByOverlap, database

\* One caller has a new context, the others keep theirs.
LEMMA LostMoved ==
    ASSUME Types, LostInv, UNCHANGED database, NEW t \in Threads,
           \A u \in Threads \ {t} : at'[u] = at[u] /\ pc'[u] = pc[u],
           \A s \in Scopes : HasRead(t, s)' => Known(t, s)'
    PROVE  LostInv'
<1>1. ASSUME NEW u \in Threads \ {t}, NEW s \in Scopes, HasRead(u, s)'
      PROVE  Known(u, s)'
  <2>1. Known(u, s)
    BY <1>1 DEF HasRead, LostInv
  <2> QED
    BY <2>1, KnownStays DEF database
<1> QED
  BY <1>1, LostStays

LEMMA OthersStay ==
    ASSUME Types, NEW t \in Threads, NEW c, NEW place,
           at' = [at EXCEPT ![t] = c], pc' = [pc EXCEPT ![t] = place]
    PROVE  /\ at'[t] = c /\ pc'[t] = place
           /\ \A u \in Threads \ {t} : at'[u] = at[u] /\ pc'[u] = pc[u]
BY DEF Types, Callers

LEMMA LostByCalls ==
    ASSUME Types, LostInv, NEW t \in Threads, Call(t)
    PROVE  LostInv'
<1>1. CASE \E k \in Keys : GetSession(t, k)
  <2>1. UNCHANGED <<database, at>> /\ pc[t] = "idle" /\ pc' = [pc EXCEPT ![t] = "events"]
    BY <1>1 DEF GetSession
  <2>2. pc'[t] = "events" /\ \A u \in Threads \ {t} : pc'[u] = pc[u]
    BY <2>1 DEF Types, Callers
  <2>3. ASSUME NEW s \in Scopes, HasRead(t, s)'
        PROVE  Known(t, s)'
    <3>1. HasRead(t, s)
      BY <2>1, <2>2, <2>3 DEF HasRead
    <3>2. Known(t, s)
      BY <3>1 DEF LostInv
    <3> QED
      BY <2>1, <3>2, KnownStays DEF database
  <2> QED
    BY <2>1, <2>2, <2>3, LostMoved
<1>2. CASE \E k \in Keys : DeleteSession(t, k)
  <2>1. PICK k \in Keys : DeleteSession(t, k)
    BY <1>2
  <2>2. PICK c : c = [NoReads EXCEPT !.key = k]
    OBVIOUS
  <2>3. c.event = NoEvent
    BY <2>2 DEF NoReads
  <2>4. at' = [at EXCEPT ![t] = c] /\ pc' = [pc EXCEPT ![t] = "delete"]
        /\ UNCHANGED database
    BY <2>1, <2>2 DEF DeleteSession
  <2>5. /\ at'[t] = c /\ pc'[t] = "delete"
        /\ \A u \in Threads \ {t} : at'[u] = at[u] /\ pc'[u] = pc[u]
    BY <2>4, OthersStay
  <2>6. \A s \in Scopes : ~HasRead(t, s)'
    BY <2>3, <2>5 DEF HasRead
  <2> QED
    BY <2>4, <2>5, <2>6, LostMoved
<1>3. CASE \E k \in Keys : \E given \in Givens : CreateSession(t, k, given)
  <2>1. PICK k \in Keys, given \in Givens : CreateSession(t, k, given)
    BY <1>3
  <2>2. PICK c : c = [NoReads EXCEPT !.key = k, !.sets = given]
    OBVIOUS
  <2>3. c.event = NoEvent
    BY <2>2 DEF NoReads
  <2>4. at' = [at EXCEPT ![t] = c] /\ pc' = [pc EXCEPT ![t] = "app"]
        /\ UNCHANGED database
    BY <2>1, <2>2 DEF CreateSession
  <2>5. /\ at'[t] = c /\ pc'[t] = "app"
        /\ \A u \in Threads \ {t} : at'[u] = at[u] /\ pc'[u] = pc[u]
    BY <2>4, OthersStay
  <2>6. \A s \in Scopes : ~HasRead(t, s)'
    BY <2>3, <2>5 DEF HasRead
  <2> QED
    BY <2>4, <2>5, <2>6, LostMoved
<1>4. CASE \E e \in Events : AppendEvent(t, e)
  <2>1. PICK e \in Events : AppendEvent(t, e)
    BY <1>4
  <2>2. PICK k : k = copy[t].key
    OBVIOUS
  <2>3. k \in Keys /\ k \in Dicts
    BY <2>2 DEF Types, Callers, Copies, Dicts
  <2>4. CASE UNCHANGED <<at, pc>>
    <3>1. \A u \in Threads, s \in Scopes : HasRead(u, s)' => Known(u, s)'
      <4> TAKE u \in Threads, s \in Scopes
      <4> HAVE HasRead(u, s)'
      <4>1. Known(u, s)
        BY <2>4 DEF HasRead, LostInv
      <4> QED
        BY <2>1, <2>4, <4>1, KnownStays DEF AppendEvent, database
    <3> QED
      BY <2>1, <3>1, LostStays DEF AppendEvent
  <2>5. CASE ~UNCHANGED <<at, pc>>
    <3>1. PICK c : c = [NoReads EXCEPT !.key = k, !.conv = row[k], !.event = e,
                                       !.sets = Delta[e], !.read["session"] = dict[k]]
      OBVIOUS
    <3>2. at' = [at EXCEPT ![t] = c] /\ pc' = [pc EXCEPT ![t] = "app"]
          /\ UNCHANGED database
      BY <2>1, <2>2, <2>5, <3>1 DEF AppendEvent
    <3>3. /\ at'[t] = c /\ pc'[t] = "app"
          /\ \A u \in Threads \ {t} : at'[u] = at[u] /\ pc'[u] = pc[u]
      BY <3>2, OthersStay
    <3>4. c.key = k /\ c.read["session"] = dict[k]
      BY <3>1 DEF NoReads, Scopes
    <3>5. ASSUME NEW s \in Scopes, HasRead(t, s)'
          PROVE  Known(t, s)'
      <4>1. s = "session"
        BY <3>3, <3>5 DEF HasRead
      <4>2. Owner(at[t].key, s)' = k
        BY <3>3, <3>4, <4>1 DEF Owner
      <4>3. \A v \in Vars : dict[k][v] # due[k][v] => <<k, v>> \in clobbered
        BY <2>3 DEF LostInv, LostOnlyByOverlap
      <4> QED
        BY <3>2, <3>3, <3>4, <4>1, <4>2, <4>3 DEF Known, database
    <3> QED
      BY <3>2, <3>3, <3>5, LostMoved
  <2> QED
    BY <2>4, <2>5
<1> QED
  BY <1>1, <1>2, <1>3, <1>4 DEF Call

LEMMA LostByReads ==
    ASSUME Types, LostInv, NEW t \in Threads, ReadApp(t) \/ ReadUser(t)
    PROVE  LostInv'
<1>1. PICK r \in {"app", "user"} :
           /\ pc[t] = r
           /\ r = "app" => ReadShared(t, r, "user")
           /\ r = "user" => ReadShared(t, r, "save")
  BY DEF ReadApp, ReadUser, ReadShared
<1>2. PICK d : d = Owner(at[t].key, r)
  OBVIOUS
<1>3. /\ at' = [at EXCEPT ![t] = at'[t]]
      /\ at'[t].key = at[t].key /\ at'[t].stale = at[t].stale
      /\ at'[t].event = at[t].event
      /\ at'[t].read = [at[t].read EXCEPT ![r] = dict[d]]
      /\ at'[t].found = at[t].found \cup ({d} \cap present)
  BY <1>1, <1>2, SharedRead DEF Places
<1>4. /\ pc' = [pc EXCEPT ![t] = IF r = "app" THEN "user" ELSE "save"]
      /\ UNCHANGED database
  BY <1>1 DEF ReadShared
<1>5. \A u \in Threads \ {t} : at'[u] = at[u] /\ pc'[u] = pc[u]
  BY <1>3, <1>4 DEF Types, Callers
<1>6. pc'[t] = IF r = "app" THEN "user" ELSE "save"
  BY <1>4 DEF Types, Callers
<1>7. at[t].key \in Keys /\ at[t].read \in [Scopes -> Content] /\ r \in Scopes
  BY DEF Types, Callers, Contexts, Scopes
<1>8. d \in Dicts /\ d \in {App} \cup Users
  <2>1. d \in Dicts
    BY <1>2, <1>7, OwnerIn
  <2>2. at[t].key[1] \in Users
    BY <1>7 DEF Keys
  <2> QED
    BY <1>2, <2>1, <2>2, OwnerIs
<1>9. ASSUME NEW s \in Scopes, HasRead(t, s)'
      PROVE  Known(t, s)'
  <2>1. CASE s = r
    <3>1. Owner(at[t].key, s)' = d
      BY <1>2, <1>3, <2>1 DEF Owner
    <3>2. at'[t].read[s] = dict[d]
      BY <1>3, <1>7, <2>1
    <3>3. \A v \in Vars : dict[d][v] # due[d][v] => <<d, v>> \in clobbered
      BY <1>8 DEF LostInv, LostOnlyByOverlap
    <3>4. d \notin at'[t].found => \A v \in Vars : dict[d][v] = Unset
      BY <1>3, <1>8 DEF LostInv
    <3> QED
      BY <1>4, <3>1, <3>2, <3>3, <3>4 DEF Known, database
  <2>2. CASE s # r
    <3>1. HasRead(t, s)
      BY <1>1, <1>3, <1>6, <1>9, <2>2 DEF HasRead
    <3>2. Known(t, s) /\ at'[t].read[s] = at[t].read[s]
      BY <1>3, <1>7, <2>2, <3>1 DEF LostInv
    <3> QED
      BY <1>3, <1>4, <3>2, KnownStays DEF database
  <2> QED
    BY <2>1, <2>2
<1> QED
  BY <1>4, <1>5, <1>9, LostMoved

\* What one caller commits, the others that have read it know of.
LEMMA KnownAfterLeave ==
    ASSUME Types, LostInv, NEW t \in Threads, NEW news \in SUBSET (Dicts \X Vars),
           Leave(t, news),
           \A d \in Dicts, v \in Vars : <<d, v>> \notin news =>
               due'[d][v] = due[d][v] /\ (<<d, v>> \in clobbered => <<d, v>> \in clobbered')
    PROVE  \A u \in Threads, s \in Scopes : HasRead(u, s)' => Known(u, s)'
<1> TAKE u \in Threads, s \in Scopes
<1> HAVE HasRead(u, s)'
<1>1. u # t
  <2>1. at'[t] = NoReads /\ pc'[t] = "idle"
    BY Left
  <2> QED
    BY <2>1, NothingRead DEF HasRead
<1>2. /\ pc'[u] = pc[u]
      /\ at'[u].key = at[u].key /\ at'[u].event = at[u].event
      /\ at'[u].read = at[u].read /\ at'[u].found = at[u].found
      /\ at'[u].stale = at[u].stale \cup {p \in news : Reading(u, p[1])}
  BY <1>1, Left
<1>3. HasRead(u, s)
  BY <1>2 DEF HasRead
<1>4. Known(u, s)
  BY <1>3 DEF LostInv
<1>5. PICK d : d = Owner(at[u].key, s)
  OBVIOUS
<1>6. d \in Dicts
  BY <1>5, OwnerIn DEF Types, Callers, Contexts
<1>7. Owner(at[u].key, s)' = d
  BY <1>2, <1>5 DEF Owner
<1>8. Reading(u, d)
  BY <1>3, <1>5, OwnerIs DEF HasRead, Reading
<1>9. ASSUME NEW v \in Vars, at[u].read[s][v] # due'[d][v]
      PROVE  <<d, v>> \in at'[u].stale \cup clobbered'
  <2>1. CASE <<d, v>> \in news
    BY <1>2, <1>8, <2>1
  <2>2. CASE <<d, v>> \notin news
    BY <1>2, <1>4, <1>5, <1>6, <1>9, <2>2 DEF Known
  <2> QED
    BY <2>1, <2>2
<1> QED
  BY <1>2, <1>4, <1>5, <1>7, <1>9 DEF Known

LEMMA SetsOwned ==
    ASSUME Types, NEW t \in Threads, NEW S \in SUBSET Scopes
    PROVE  /\ Sets(t, S) \subseteq Sets(t, Scopes)
           /\ \A d \in Dicts, v \in Vars : <<d, v>> \in Sets(t, S) =>
                  \E s \in Scopes : d = Owner(at[t].key, s)
<1>1. \A p \in at[t].sets : p[1] \in Scopes
  BY DEF Types, Callers, Contexts
<1>2. "session" \in Scopes /\ at[t].key = Owner(at[t].key, "session")
  BY OwnerIs DEF Scopes
<1> QED
  BY <1>1, <1>2 DEF Sets

LEMMA LostBySaves ==
    ASSUME Types, LostInv, NEW t \in Threads, Saves(t)
    PROVE  LostInv'
<1>1. PICK k : k = at[t].key
  OBVIOUS
<1>2. k \in Keys /\ k[1] \in Users /\ at[t].read \in [Scopes -> Content]
      /\ at[t].found \subseteq {App} \cup Users
  BY <1>1 DEF Types, Callers, Contexts, Keys
<1>3. PICK news : news = Sets(t, Scopes)
  OBVIOUS
<1>4. PICK W : W = Written(t)
  OBVIOUS
<1>5. PICK written : written = Sets(t, W)
  OBVIOUS
<1>6. W \subseteq Scopes /\ written \subseteq news /\ news \in SUBSET (Dicts \X Vars)
  <2>1. W \in SUBSET Scopes
    BY <1>4 DEF Written
  <2> QED
    BY <1>3, <1>5, <2>1, SetsOwned, SetsAre
<1>7. PICK own : own = {Owner(k, p[1]) : p \in at[t].sets}
  OBVIOUS
<1>8. clobbered' = (clobbered \cup {p \in at[t].stale : p[1] \in own}) \ written
      /\ present' = present \cup {App, k[1]}
  BY <1>1, <1>4, <1>5, <1>7 DEF Saves, SaveDicts
<1>9. /\ \A s \in Scopes : dict'[Owner(k, s)] =
            IF s \in W THEN Merged(t, s) ELSE dict[Owner(k, s)]
      /\ \A s \in Scopes, v \in Vars : due'[Owner(k, s)][v] =
            IF <<Owner(k, s), v>> \in news THEN Merged(t, s)[v] ELSE due[Owner(k, s)][v]
      /\ \A d \in Dicts : (\A s \in Scopes : d # Owner(k, s)) =>
            dict'[d] = dict[d] /\ \A v \in Vars : due'[d][v] = due[d][v]
  BY <1>1, <1>3, <1>4, SavedDicts DEF Saves
<1>10. ASSUME NEW d \in Dicts, NEW v \in Vars, dict'[d][v] # due'[d][v]
       PROVE  <<d, v>> \in clobbered'
  <2>1. CASE \A s \in Scopes : d # Owner(k, s)
    <3>1. <<d, v>> \notin written
      BY <1>1, <1>5, <1>6, <2>1, SetsOwned
    <3>2. <<d, v>> \in clobbered
      BY <1>9, <1>10, <2>1 DEF LostInv, LostOnlyByOverlap
    <3> QED
      BY <1>8, <3>1, <3>2
  <2>2. ASSUME NEW s \in Scopes, d = Owner(k, s)
        PROVE  <<d, v>> \in clobbered'
    <3>1. /\ <<d, v>> \in news <=> \/ <<s, v>> \in at[t].sets
                                   \/ Creating(t) /\ s = "session"
          /\ <<d, v>> \in written <=> \/ <<s, v>> \in at[t].sets /\ s \in W
                                      \/ Creating(t) /\ s = "session"
      BY <1>1, <1>3, <1>5, <1>6, <2>2, SetsAre
    <3>2. /\ Merged(t, s) \in Content /\ at[t].read[s] \in Content
          /\ \A w \in Vars : <<s, w>> \notin at[t].sets =>
                                 Merged(t, s)[w] = at[t].read[s][w]
      BY <1>2, MergedIs
    <3>3. s \in W <=> \/ Merged(t, s) # at[t].read[s]
                      \/ Creating(t) /\ d \notin at[t].found
      BY <1>1, <1>4, <2>2 DEF Written
    <3>4. Creating(t) /\ s = "session" => s \in W
      <4>1. Owner(k, "session") = k /\ k \notin {App} \cup Users
        BY <1>2, OwnerIs, DatabaseAssumption
      <4> QED
        BY <1>2, <2>2, <3>3, <4>1
    <3>5. \A w \in Vars : <<s, w>> \in at[t].sets => d \in own
      <4> TAKE w \in Vars
      <4> HAVE <<s, w>> \in at[t].sets
      <4> QED
        BY <1>7, <2>2
    <3>6. dict[d][v] # due[d][v] => <<d, v>> \in clobbered
      BY DEF LostInv, LostOnlyByOverlap
    <3>7. <<d, v>> \notin written /\ ~(Creating(t) /\ s = "session")
      <4>1. SUFFICES ASSUME <<d, v>> \in written
                     PROVE  dict'[d][v] = due'[d][v]
        BY <1>10, <3>1
      <4>2. s \in W /\ <<d, v>> \in news
        BY <3>1, <3>4, <4>1
      <4> QED
        BY <1>9, <2>2, <4>2
    <3>8. HasRead(t, s)
      BY <3>7 DEF HasRead, Saves, Creating, Scopes
    <3>9. Known(t, s)
      BY <3>8 DEF LostInv
    <3>10. at[t].read[s][v] # due[d][v] => <<d, v>> \in at[t].stale \cup clobbered
      BY <1>1, <2>2, <3>9 DEF Known
    <3>11. CASE s \in W
      <4>1. <<d, v>> \notin news
        BY <3>1, <3>7, <3>11
      <4>2. dict'[d][v] = at[t].read[s][v] /\ due'[d][v] = due[d][v]
        BY <1>9, <2>2, <3>1, <3>2, <3>11, <4>1
      <4>3. <<d, v>> \in at[t].stale \cup clobbered
        BY <1>10, <3>10, <4>2
      <4>4. CASE Merged(t, s) # at[t].read[s]
        <5>1. \E w \in Vars : <<s, w>> \in at[t].sets
          <6>1. PICK f, g : f = Merged(t, s) /\ g = at[t].read[s]
            OBVIOUS
          <6>2. f \in [Vars -> Values] /\ g \in [Vars -> Values] /\ f # g
            BY <3>2, <4>4, <6>1 DEF Content
          <6>3. \E w \in Vars : f[w] # g[w]
            BY <6>2
          <6> QED
            BY <3>2, <6>1, <6>3
        <5> QED
          BY <1>8, <3>5, <3>7, <4>3, <5>1
      <4>5. CASE Creating(t) /\ d \notin at[t].found
        <5>1. s # "session" /\ s \in {"app", "user"}
          BY <3>7, <4>5 DEF Scopes
        <5>2. d \notin present
          BY <1>1, <2>2, <4>5, <5>1 DEF Saves, Conflicts
        <5>3. d \in {App} \cup Users
          BY <1>2, <2>2, <5>1, OwnerIs
        <5>4. due[d][v] = Unset
          BY <5>2, <5>3 DEF LostInv
        <5>5. at[t].read[s][v] = Unset
          BY <1>1, <2>2, <3>9, <4>5, <5>1 DEF Known
        <5> QED
          BY <1>10, <4>2, <5>4, <5>5
      <4> QED
        BY <3>3, <3>11, <4>4, <4>5
    <3>12. CASE s \notin W
      <4>1. Merged(t, s) = at[t].read[s] /\ dict'[d] = dict[d]
        BY <1>9, <2>2, <3>3, <3>12
      <4>2. CASE <<d, v>> \in news
        <5>1. d \in own /\ due'[d][v] = at[t].read[s][v]
          BY <1>9, <2>2, <3>1, <3>5, <3>7, <4>1, <4>2
        <5> QED
          BY <1>8, <1>10, <3>6, <3>7, <3>10, <4>1, <5>1
      <4>3. CASE <<d, v>> \notin news
        <5>1. due'[d][v] = due[d][v]
          BY <1>9, <2>2, <4>3
        <5> QED
          BY <1>8, <1>10, <3>6, <3>7, <4>1, <5>1
      <4> QED
        BY <4>2, <4>3
    <3> QED
      BY <3>11, <3>12
  <2> QED
    BY <2>1, <2>2
<1>11. ASSUME NEW d \in ({App} \cup Users) \ present', NEW v \in Vars
       PROVE  dict'[d][v] = Unset /\ due'[d][v] = Unset
  <2>1. d \notin present /\ d # App /\ d # k[1] /\ d # k /\ d \in Dicts
    BY <1>2, <1>8, DatabaseAssumption DEF Dicts
  <2>2. \A s \in Scopes : d # Owner(k, s)
    BY <2>1, OwnerIs DEF Scopes
  <2> QED
    BY <1>9, <2>1, <2>2 DEF LostInv
<1>12. \A d \in Dicts, v \in Vars : <<d, v>> \notin news =>
           due'[d][v] = due[d][v] /\ (<<d, v>> \in clobbered => <<d, v>> \in clobbered')
  BY <1>6, <1>8, <1>9
<1>13. \A u \in Threads, s \in Scopes : HasRead(u, s)' => Known(u, s)'
  BY <1>3, <1>6, <1>12, KnownAfterLeave DEF Saves
<1> QED
  BY <1>10, <1>11, <1>13 DEF LostInv, LostOnlyByOverlap

LEMMA LostByDeletes ==
    ASSUME Types, LostInv, NEW t \in Threads, SaveDelete(t)
    PROVE  LostInv'
<1>1. PICK k : k = at[t].key
  OBVIOUS
<1>2. k \in Keys /\ k \in Dicts /\ k \notin {App} \cup Users
  BY <1>1, DatabaseAssumption DEF Types, Callers, Contexts, Dicts
<1>3. /\ dict' = [dict EXCEPT ![k] = Empty] /\ due' = [due EXCEPT ![k] = Empty]
      /\ present' = present /\ clobbered' = clobbered \ ({k} \X Vars)
      /\ Leave(t, {k} \X Vars)
  BY <1>1 DEF SaveDelete
<1>4. \A d \in Dicts : d # k => dict'[d] = dict[d] /\ due'[d] = due[d]
  BY <1>3 DEF Types, Dictionaries
<1>5. dict'[k] = due'[k]
  BY <1>2, <1>3 DEF Types, Dictionaries
<1>6. LostOnlyByOverlap'
  BY <1>3, <1>4, <1>5 DEF LostInv, LostOnlyByOverlap
<1>7. ASSUME NEW d \in ({App} \cup Users) \ present', NEW v \in Vars
      PROVE  dict'[d][v] = Unset /\ due'[d][v] = Unset
  BY <1>2, <1>3, <1>4 DEF LostInv, Dicts
<1>8. {k} \X Vars \in SUBSET (Dicts \X Vars)
  BY <1>2
<1>9. \A d \in Dicts, v \in Vars : <<d, v>> \notin {k} \X Vars =>
          due'[d][v] = due[d][v] /\ (<<d, v>> \in clobbered => <<d, v>> \in clobbered')
  BY <1>3, <1>4
<1>10. \A u \in Threads, s \in Scopes : HasRead(u, s)' => Known(u, s)'
  BY <1>3, <1>8, <1>9, KnownAfterLeave
<1> QED
  BY <1>6, <1>7, <1>10 DEF LostInv

LEMMA LostStep ==
    ASSUME Types, LostInv, [Next]_vars
    PROVE  LostInv'
<1>1. CASE UNCHANGED vars
  BY <1>1 DEF vars, LostInv, LostOnlyByOverlap, HasRead, Known, Owner
<1>2. CASE \E t \in Threads : Call(t)
  BY <1>2, LostByCalls
<1>3. ASSUME NEW t \in Threads, Progress(t)
      PROVE  LostInv'
  <2>1. CASE SaveCreate(t) \/ SaveAppend(t)
    BY <2>1, LostBySaves DEF SaveCreate, SaveAppend, Saves
  <2>2. CASE ReadEvents(t)
    <3>1. UNCHANGED <<database, at>> /\ pc[t] = "events" /\ pc' = [pc EXCEPT ![t] = "idle"]
      BY <2>2 DEF ReadEvents
    <3>2. pc'[t] = "idle" /\ \A u \in Threads \ {t} : pc'[u] = pc[u]
      BY <3>1 DEF Types, Callers
    <3>3. ASSUME NEW s \in Scopes, HasRead(t, s)'
          PROVE  Known(t, s)'
      <4>1. Known(t, s)
        BY <3>1, <3>2, <3>3 DEF HasRead, LostInv
      <4> QED
        BY <3>1, <4>1, KnownStays DEF database
    <3> QED
      BY <3>1, <3>2, <3>3, LostMoved
  <2>3. CASE Fail(t)
    <3>1. {} \in SUBSET (Dicts \X Vars) /\ Leave(t, {}) /\ UNCHANGED database
      BY <2>3 DEF Fail
    <3>2. \A u \in Threads, s \in Scopes : HasRead(u, s)' => Known(u, s)'
      BY <3>1, KnownAfterLeave DEF database
    <3> QED
      BY <3>1, <3>2, LostStays
  <2> QED
    BY <1>3, <2>1, <2>2, <2>3, LostByReads, LostByDeletes DEF Progress
<1> QED
  BY <1>1, <1>2, <1>3 DEF Next, AtRest

-----------------------------------------------------------------------------
(* What is committed                                                       *)

\* An event on its way has been sent and not committed, and has one sender.
CommitInv ==
    /\ \A c \in Convs : \A i \in DOMAIN log[c] : log[c][i] \in sent
    /\ \A t \in Threads : at[t].event # NoEvent =>
           /\ at[t].event \in sent
           /\ \A c \in Convs : \A i \in DOMAIN log[c] : log[c][i] # at[t].event
    /\ \A t, u \in Threads : t # u /\ at[t].event = at[u].event => at[t].event = NoEvent

\* Contexts come to hold new events and lose their own.
LEMMA CommitStays ==
    ASSUME Types, CommitInv, UNCHANGED log, sent \subseteq sent',
           \A t \in Threads : at'[t].event \in {at[t].event, NoEvent}
    PROVE  CommitInv'
BY DEF CommitInv

LEMMA Appended ==
    ASSUME Types, NEW t \in Threads, SaveAppend(t)
    PROVE  LET k == at[t].key
               e == at[t].event
           IN  /\ Saves(t) /\ k \in Keys /\ e \in Events /\ row[k] \in Convs
               /\ \A c \in Convs : /\ Len(log[c]) \in Nat /\ DOMAIN log[c] = 1..Len(log[c])
                                   /\ c # row[k] => log'[c] = log[c]
               /\ DOMAIN log'[row[k]] = 1..Len(log[row[k]]) + 1
               /\ log'[row[k]][Len(log[row[k]]) + 1] = e
               /\ \A i \in DOMAIN log[row[k]] : log'[row[k]][i] = log[row[k]][i]
<1>1. PICK k, e : k = at[t].key /\ e = at[t].event
  OBVIOUS
<1>2. Saves(t) /\ row[k] # 0 /\ e # NoEvent /\ log' = [log EXCEPT ![row[k]] = Append(@, e)]
  BY <1>1 DEF SaveAppend, Saves, Creating
<1>3. k \in Keys /\ e \in Events /\ row[k] \in Convs
  BY <1>1, <1>2, Numbers DEF Types, Callers, Contexts
<1>4. PICK c : c = row[k]
  OBVIOUS
<1>5. log \in [Convs -> Seq(Events)] /\ log[c] \in Seq(Events)
  BY <1>3, <1>4 DEF Types, Rows
<1>6. log'[c] = Append(log[c], e)
  BY <1>2, <1>3, <1>4, <1>5
<1>7. /\ DOMAIN Append(log[c], e) = 1..Len(log[c]) + 1
      /\ Append(log[c], e)[Len(log[c]) + 1] = e
      /\ \A i \in DOMAIN log[c] : Append(log[c], e)[i] = log[c][i]
  BY <1>3, <1>5
<1>8. \A d \in Convs : /\ Len(log[d]) \in Nat /\ DOMAIN log[d] = 1..Len(log[d])
                       /\ d # c => log'[d] = log[d]
  BY <1>2, <1>4, <1>5
<1>9. /\ Saves(t) /\ k \in Keys /\ e \in Events /\ c \in Convs
      /\ \A d \in Convs : /\ Len(log[d]) \in Nat /\ DOMAIN log[d] = 1..Len(log[d])
                           /\ d # c => log'[d] = log[d]
  BY <1>2, <1>3, <1>4, <1>8
<1>10. /\ DOMAIN log'[c] = 1..Len(log[c]) + 1
       /\ log'[c][Len(log[c]) + 1] = e
       /\ \A i \in DOMAIN log[c] : log'[c][i] = log[c][i]
  BY <1>6, <1>7
<1>11. k = at[t].key /\ c = row[at[t].key] /\ e = at[t].event
  BY <1>1, <1>4
<1>12. \A d \in Convs : d # row[at[t].key] => log'[d] = log[d]
  BY <1>9, <1>11
<1>13. DOMAIN log'[row[at[t].key]] = 1..Len(log[row[at[t].key]]) + 1
  BY <1>10, <1>11
<1>14. /\ log'[row[at[t].key]][Len(log[row[at[t].key]]) + 1] = at[t].event
       /\ \A i \in DOMAIN log[row[at[t].key]] :
              log'[row[at[t].key]][i] = log[row[at[t].key]][i]
  BY <1>10, <1>11
<1>15. /\ Saves(t) /\ at[t].key \in Keys /\ at[t].event \in Events
       /\ row[at[t].key] \in Convs
  BY <1>9, <1>11
<1>16. \A d \in Convs : Len(log[d]) \in Nat /\ DOMAIN log[d] = 1..Len(log[d])
  BY <1>9
<1> QED
  BY <1>12, <1>13, <1>14, <1>15, <1>16

LEMMA EventsAfterLeave ==
    ASSUME Types, NEW t \in Threads, NEW news \in SUBSET (Dicts \X Vars), Leave(t, news)
    PROVE  /\ at'[t].event = NoEvent
           /\ \A u \in Threads \ {t} : at'[u].event = at[u].event
BY Left, NothingRead

LEMMA CommitBySaveAppend ==
    ASSUME Types, CommitInv, NEW t \in Threads, SaveAppend(t)
    PROVE  CommitInv'
<1>1. PICK e, c : e = at[t].event /\ c = row[at[t].key]
  OBVIOUS
<1>2. /\ e \in Events /\ c \in Convs /\ sent' = sent /\ Saves(t)
      /\ \A d \in Convs : /\ Len(log[d]) \in Nat /\ DOMAIN log[d] = 1..Len(log[d])
                          /\ d # c => log'[d] = log[d]
      /\ DOMAIN log'[c] = 1..Len(log[c]) + 1
      /\ log'[c][Len(log[c]) + 1] = e
      /\ \A i \in DOMAIN log[c] : log'[c][i] = log[c][i]
  BY <1>1, Appended DEF Saves
<1>3. e # NoEvent /\ e \in sent
  BY <1>1, <1>2, DatabaseAssumption DEF CommitInv
<1>4. ASSUME NEW d \in Convs, NEW i \in DOMAIN log'[d]
      PROVE  log'[d][i] = e \/ (i \in DOMAIN log[d] /\ log'[d][i] = log[d][i])
  <2>1. CASE d # c
    BY <1>2, <1>4, <2>1
  <2>2. CASE d = c
    <3>1. i \in 1..Len(log[c]) + 1 /\ Len(log[c]) \in Nat
      BY <1>2, <1>4, <2>2
    <3>2. i = Len(log[c]) + 1 \/ i \in DOMAIN log[c]
      BY <1>2, <3>1
    <3>3. CASE i = Len(log[c]) + 1
      <4>1. log'[c][Len(log[c]) + 1] = e
        BY <1>2
      <4>2. log'[c][i] = e
        BY <3>3, <4>1, Zenon
      <4> QED
        BY <2>2, <4>2, Zenon
    <3>4. CASE i \in DOMAIN log[c]
      BY <1>2, <2>2, <3>4
    <3> QED
      BY <3>2, <3>3, <3>4
  <2> QED
    BY <2>1, <2>2
<1>5. at'[t].event = NoEvent /\ \A u \in Threads \ {t} : at'[u].event = at[u].event
  BY <1>2, SetsAre, EventsAfterLeave DEF Saves
<1>6. \A u \in Threads : at'[u].event # NoEvent => /\ u # t /\ at'[u].event = at[u].event
                                                  /\ at[u].event # e
  BY <1>1, <1>3, <1>5 DEF CommitInv
<1>7. \A u \in Threads : at'[u].event # NoEvent =>
          /\ at'[u].event \in sent'
          /\ \A d \in Convs : \A i \in DOMAIN log'[d] : log'[d][i] # at'[u].event
  BY <1>2, <1>4, <1>6 DEF CommitInv
<1>8. \A d \in Convs : \A i \in DOMAIN log'[d] : log'[d][i] \in sent'
  BY <1>2, <1>3, <1>4 DEF CommitInv
<1>9. \A u, w \in Threads : u # w /\ at'[u].event = at'[w].event => at'[u].event = NoEvent
  BY <1>6 DEF CommitInv
<1> QED
  BY <1>7, <1>8, <1>9 DEF CommitInv

LEMMA CommitStep ==
    ASSUME Types, CommitInv, [Next]_vars
    PROVE  CommitInv'
<1>1. CASE UNCHANGED vars
  BY <1>1 DEF vars, CommitInv
<1>2. ASSUME NEW t \in Threads, Call(t)
      PROVE  CommitInv'
  <2>1. CASE \E k \in Keys : GetSession(t, k)
    BY <2>1, CommitStays DEF GetSession, database
  <2>2. CASE \E k \in Keys : DeleteSession(t, k)
                 \/ \E given \in Givens : CreateSession(t, k, given)
    <3>1. PICK c : c.event = NoEvent /\ at' = [at EXCEPT ![t] = c]
      BY <2>2 DEF DeleteSession, CreateSession, NoReads
    <3>2. \A u \in Threads : at'[u].event \in {at[u].event, NoEvent}
      BY <3>1 DEF Types, Callers
    <3> QED
      BY <2>2, <3>2, CommitStays DEF DeleteSession, CreateSession, database
  <2>3. CASE \E e \in Events : AppendEvent(t, e)
    <3>1. PICK e \in Events : AppendEvent(t, e)
      BY <2>3
    <3>2. e \notin sent /\ sent' = sent \cup {e} /\ log' = log
      BY <3>1 DEF AppendEvent, database
    <3>3. CASE at' = at
      BY <3>2, <3>3, CommitStays
    <3>4. CASE at' # at
      <4>1. PICK c : c.event = e /\ at' = [at EXCEPT ![t] = c]
        BY <3>1, <3>4 DEF AppendEvent, NoReads
      <4>2. at'[t].event = e /\ \A u \in Threads \ {t} : at'[u].event = at[u].event
        BY <4>1 DEF Types, Callers
      <4>3. \A u \in Threads : at[u].event # e
        BY <3>2, DatabaseAssumption DEF CommitInv
      <4>4. \A c2 \in Convs : \A i \in DOMAIN log[c2] : log[c2][i] # e
        BY <3>2 DEF CommitInv
      <4>5. \A u \in Threads : at'[u].event # NoEvent =>
                /\ at'[u].event \in sent'
                /\ \A c2 \in Convs : \A i \in DOMAIN log'[c2] : log'[c2][i] # at'[u].event
        BY <3>2, <4>2, <4>4 DEF CommitInv
      <4>6. \A u, w \in Threads :
                u # w /\ at'[u].event = at'[w].event => at'[u].event = NoEvent
        BY <4>2, <4>3 DEF CommitInv
      <4>7. \A c2 \in Convs : \A i \in DOMAIN log'[c2] : log'[c2][i] \in sent'
        BY <3>2 DEF CommitInv
      <4> QED
        BY <4>5, <4>6, <4>7 DEF CommitInv
    <3> QED
      BY <3>3, <3>4
  <2> QED
    BY <1>2, <2>1, <2>2, <2>3 DEF Call
<1>3. ASSUME NEW t \in Threads, Progress(t)
      PROVE  CommitInv'
  <2>1. CASE ReadApp(t) \/ ReadUser(t)
    <3>1. PICK s \in {"app", "user"}, next \in Places : ReadShared(t, s, next)
      BY <2>1 DEF ReadApp, ReadUser, Places
    <3>2. at' = [at EXCEPT ![t] = at'[t]] /\ at'[t].event = at[t].event
      BY <3>1, SharedRead
    <3>3. \A u \in Threads : at'[u].event = at[u].event
      BY <3>2 DEF Types, Callers
    <3> QED
      BY <3>1, <3>3, CommitStays DEF ReadShared, database
  <2>2. CASE ReadEvents(t)
    BY <2>2, CommitStays DEF ReadEvents, database
  <2>3. CASE Fail(t) \/ SaveCreate(t) \/ SaveDelete(t)
    <3>1. PICK news \in SUBSET (Dicts \X Vars) : Leave(t, news)
      <4>1. CASE Fail(t)
        BY <4>1 DEF Fail
      <4>2. CASE SaveCreate(t)
        BY <4>2, SetsAre DEF SaveCreate
      <4>3. CASE SaveDelete(t)
        <5>1. {at[t].key} \X Vars \in SUBSET (Dicts \X Vars)
          BY DEF Types, Callers, Contexts, Dicts
        <5> QED
          BY <4>3, <5>1 DEF SaveDelete
      <4> QED
        BY <2>3, <4>1, <4>2, <4>3
    <3>2. \A u \in Threads : at'[u].event \in {at[u].event, NoEvent}
      BY <3>1, EventsAfterLeave
    <3> QED
      BY <2>3, <3>2, CommitStays DEF Fail, SaveCreate, SaveDelete, database
  <2> QED
    BY <1>3, <2>1, <2>2, <2>3, CommitBySaveAppend DEF Progress
<1> QED
  BY <1>1, <1>2, <1>3 DEF Next, AtRest

-----------------------------------------------------------------------------
(* The store                                                               *)

LEMMA StoreInit ==
    ASSUME Init
    PROVE  Store!Init
BY DEF Init, Store!Init

LEMMA StoreStep ==
    ASSUME Types, CommitInv, [Next]_vars
    PROVE  [Store!Next]_Store!storeVars
<1>1. ASSUME NEW t \in Threads, SaveCreate(t)
      PROVE  Store!Next
  <2>1. PICK k, c : k = at[t].key /\ c = nConvs + 1
    OBVIOUS
  <2>2. k \in Keys /\ row' = [row EXCEPT ![k] = c] /\ nConvs' = c /\ log' = log
        /\ nConvs < MaxConvs
    BY <1>1, <2>1 DEF SaveCreate, Types, Callers, Contexts
  <2>3. c \in Convs /\ c \notin 1..nConvs /\ 1..nConvs' = (1..nConvs) \cup {c}
    BY <2>1, <2>2, Numbers DEF Convs
  <2>4. Store!Open(k, c)
    BY <2>2, <2>3 DEF Store!Open
  <2> QED
    BY <2>2, <2>3, <2>4 DEF Store!Next
<1>2. ASSUME NEW t \in Threads, SaveAppend(t)
      PROVE  Store!Next
  <2>1. PICK e, c : e = at[t].event /\ c = row[at[t].key]
    OBVIOUS
  <2>2. e \in Events /\ c \in Convs
    BY <1>2, <2>1, Appended
  <2>3. c \in 1..nConvs
    BY <1>2, <2>1, <2>2, Numbers, Appended DEF Convs
  <2>4. ~Store!Committed(e)
    <3>1. e # NoEvent
      BY <2>2, DatabaseAssumption
    <3>2. \A d \in Convs : DOMAIN log[d] = 1..Len(log[d])
      BY <1>2, Appended
    <3> QED
      BY <2>1, <3>1, <3>2 DEF CommitInv, Store!Committed
  <2>5. Store!Commit(e, c)
    BY <1>2, <2>1, <2>3, <2>4 DEF SaveAppend, Store!Commit
  <2> QED
    BY <2>2, <2>5 DEF Store!Next
<1>3. ASSUME NEW t \in Threads, SaveDelete(t)
      PROVE  Store!Next
  <2>1. at[t].key \in Keys
    BY DEF Types, Callers, Contexts
  <2>2. Store!Remove(at[t].key)
    BY <1>3 DEF SaveDelete, Store!Remove
  <2> QED
    BY <2>1, <2>2 DEF Store!Next
<1>4. CASE UNCHANGED <<row, nConvs, log>>
  BY <1>4 DEF Store!storeVars
<1> QED
  BY <1>1, <1>2, <1>3, <1>4
     DEF Next, AtRest, vars, database, Call, Progress, GetSession, DeleteSession,
         CreateSession, AppendEvent, ReadApp, ReadUser, ReadShared, ReadEvents, Fail

-----------------------------------------------------------------------------
(* What a copy holds                                                       *)

\* The values of a session dictionary are of the events of a log.
Explained(f, l) ==
    \A v \in Vars : f[v] \in {Unset, Given} \/ \E i \in DOMAIN l : l[i] = f[v]

\* That of the rows, of what the appends and the gets have read, and of the
\* copies.
ExplainInv ==
    /\ \A k \in Keys : row[k] # 0 /\ row[k] \notin mixed => Explained(dict[k], log[row[k]])
    /\ \A t \in Threads :
           /\ at[t].event = NoEvent => at[t].read["session"] = Empty
           /\ at[t].event # NoEvent =>
                  /\ at[t].conv \in Convs
                  /\ at[t].conv \notin mixed =>
                         Explained(at[t].read["session"], log[at[t].conv])
           /\ pc[t] = "events" =>
                  /\ copy[t].conv \in Convs
                  /\ copy[t].conv \notin mixed => Explained(copy[t].state, log[copy[t].conv])
    /\ CopyStateExplained

\* The same for one caller.
Contents(t) ==
    /\ at[t].event = NoEvent => at[t].read["session"] = Empty
    /\ at[t].event # NoEvent =>
           /\ at[t].conv \in Convs
           /\ at[t].conv \notin mixed => Explained(at[t].read["session"], log[at[t].conv])
    /\ pc[t] = "events" =>
           /\ copy[t].conv \in Convs
           /\ copy[t].conv \notin mixed => Explained(copy[t].state, log[copy[t].conv])
    /\ copy[t].live /\ copy[t].conv = copy[t].from /\ copy[t].conv \notin mixed =>
           Explained(copy[t].state, copy[t].events)
RowsExplained ==
    \A k \in Keys : row[k] # 0 /\ row[k] \notin mixed => Explained(dict[k], log[row[k]])

LEMMA ExplainParts == ExplainInv <=> RowsExplained /\ \A t \in Threads : Contents(t)
BY DEF ExplainInv, RowsExplained, Contents, CopyStateExplained, Explained

LEMMA ExplainPartsNext ==
    ASSUME RowsExplained', \A t \in Threads : Contents(t)'
    PROVE  ExplainInv'
BY DEF ExplainInv, RowsExplained, Contents, CopyStateExplained, Explained

\* Logs only grow, and nothing leaves mixed.
Grows ==
    /\ \A c \in Convs : \A i \in DOMAIN log[c] : i \in DOMAIN log'[c] /\ log'[c][i] = log[c][i]
    /\ mixed \subseteq mixed'

LEMMA ExplainedMore ==
    ASSUME NEW f, NEW c \in Convs, Grows, Explained(f, log[c])
    PROVE  Explained(f, log'[c])
BY DEF Explained, Grows

\* A caller whose context is the same, or left, and whose copy is the same.
LEMMA ContentsStay ==
    ASSUME NEW u, Grows, Contents(u), copy'[u] = copy[u],
           pc'[u] = "events" => pc[u] = "events",
           \/ /\ at'[u].event = at[u].event /\ at'[u].conv = at[u].conv
              /\ at'[u].read["session"] = at[u].read["session"]
           \/ at'[u].event = NoEvent /\ at'[u].read["session"] = Empty
    PROVE  Contents(u)'
<1>1. at'[u].event = NoEvent => at'[u].read["session"] = Empty
  BY DEF Contents
<1>2. ASSUME at'[u].event # NoEvent
      PROVE  /\ at'[u].conv \in Convs
             /\ at'[u].conv \notin mixed' =>
                    Explained(at'[u].read["session"], log'[at'[u].conv])
  <2>1. /\ at[u].conv \in Convs /\ at'[u].conv = at[u].conv
        /\ at'[u].read["session"] = at[u].read["session"]
        /\ at[u].conv \notin mixed => Explained(at[u].read["session"], log[at[u].conv])
    BY <1>2 DEF Contents
  <2>2. at[u].conv \notin mixed' => Explained(at[u].read["session"], log'[at[u].conv])
    BY <2>1, ExplainedMore DEF Grows
  <2> QED
    BY <2>1, <2>2
<1>3. ASSUME pc'[u] = "events"
      PROVE  /\ copy'[u].conv \in Convs
             /\ copy'[u].conv \notin mixed' => Explained(copy'[u].state, log'[copy'[u].conv])
  BY <1>3, ExplainedMore DEF Contents, Grows
<1>4. copy'[u].live /\ copy'[u].conv = copy'[u].from /\ copy'[u].conv \notin mixed' =>
          Explained(copy'[u].state, copy'[u].events)
  BY DEF Contents, Grows
<1> QED
  BY <1>1, <1>2, <1>3, <1>4 DEF Contents, Explained

LEMMA NoReadsSession == NoReads.read["session"] = Empty /\ NoReads.event = NoEvent
BY DEF NoReads, Scopes

LEMMA ContentsAfterLeave ==
    ASSUME Types, NEW t \in Threads, NEW news \in SUBSET (Dicts \X Vars), Leave(t, news),
           Grows, NEW u \in Threads, Contents(u), copy'[u] = copy[u]
    PROVE  Contents(u)'
<1>1. CASE u = t
  <2>1. at'[u].event = NoEvent /\ at'[u].read["session"] = Empty /\ pc'[u] = "idle"
    BY <1>1, Left, NoReadsSession
  <2> QED
    BY <2>1, ContentsStay
<1>2. CASE u # t
  BY <1>2, Left, ContentsStay
<1> QED
  BY <1>1, <1>2

LEMMA ExplainBySaveAppend ==
    ASSUME Types, ExplainInv, NEW t \in Threads, SaveAppend(t)
    PROVE  ExplainInv'
<1>1. PICK k, e, c : k = at[t].key /\ e = at[t].event /\ c = row[k]
  OBVIOUS
<1>2. /\ k \in Keys /\ e \in Events /\ c \in Convs /\ Saves(t)
      /\ \A d \in Convs : /\ Len(log[d]) \in Nat /\ DOMAIN log[d] = 1..Len(log[d])
                          /\ d # c => log'[d] = log[d]
      /\ DOMAIN log'[c] = 1..Len(log[c]) + 1
      /\ log'[c][Len(log[c]) + 1] = e
      /\ \A i \in DOMAIN log[c] : log'[c][i] = log[c][i]
  BY <1>1, Appended
<1>3. row' = row /\ c # 0 /\ e # NoEvent /\ ~Creating(t)
  BY <1>1, <1>2, Numbers DEF SaveAppend, Creating
<1>4. mixed' = mixed \cup ({c} \ {0, at[t].conv})
  BY <1>1, <1>2 DEF Saves, SaveDicts
<1>5. Grows
  <2>1. \A d \in Convs : \A i \in DOMAIN log[d] :
            i \in DOMAIN log'[d] /\ log'[d][i] = log[d][i]
    BY <1>2
  <2> QED
    BY <1>4, <2>1 DEF Grows
<1>6. RowsExplained /\ \A u \in Threads : Contents(u)
  BY ExplainParts
<1>7. ASSUME c \notin mixed'
      PROVE  Explained(dict'[k], log'[c])
  <2>1. at[t].conv = c /\ c \notin mixed
    BY <1>3, <1>4, <1>7
  <2>2. "session" \in Scopes /\ Owner(k, "session") = k
    BY OwnerIs DEF Scopes
  <2>3. dict'[k] = IF "session" \in Written(t) THEN Merged(t, "session") ELSE dict[k]
    BY <1>1, <1>2, <2>2, SavedDicts DEF Saves
  <2>4. CASE "session" \in Written(t)
    <3>1. Explained(at[t].read["session"], log'[c])
      BY <1>1, <1>2, <1>3, <1>5, <1>6, <2>1, ExplainedMore DEF Contents
    <3>2. Len(log[c]) + 1 \in DOMAIN log'[c]
      BY <1>2
    <3>3. \A v \in Vars : dict'[k][v] \in {e, at[t].read["session"][v]}
      <4>1. Value(t) = e
        BY <1>1, <1>3 DEF Value
      <4>2. \A v \in Vars : Merged(t, "session")[v] =
                IF <<"session", v>> \in at[t].sets THEN Value(t)
                                                  ELSE at[t].read["session"][v]
        BY <2>2, MergedIs
      <4> QED
        BY <2>3, <2>4, <4>1, <4>2
    <3> QED
      BY <1>2, <3>1, <3>2, <3>3 DEF Explained
  <2>5. CASE "session" \notin Written(t)
    BY <1>1, <1>2, <1>3, <1>5, <1>6, <2>1, <2>3, <2>5, ExplainedMore DEF RowsExplained
  <2> QED
    BY <2>4, <2>5
<1>8. ASSUME NEW j \in Keys, row'[j] # 0, row'[j] \notin mixed'
      PROVE  Explained(dict'[j], log'[row'[j]])
  <2>1. CASE j = k
    BY <1>1, <1>3, <1>7, <1>8, <2>1
  <2>2. CASE j # k
    <3>1. dict'[j] = dict[j] /\ row'[j] = row[j] /\ row[j] \in Convs /\ row[j] \notin mixed
      BY <1>1, <1>2, <1>3, <1>4, <1>8, <2>2, SavedTypes, Numbers
    <3>2. Explained(dict[j], log[row[j]])
      BY <1>3, <1>6, <1>8, <3>1 DEF RowsExplained
    <3> QED
      BY <1>5, <3>1, <3>2, ExplainedMore
  <2> QED
    BY <2>1, <2>2
<1>9. Sets(t, Scopes) \in SUBSET (Dicts \X Vars) /\ Leave(t, Sets(t, Scopes))
  BY <1>2, SetsAre DEF Saves
<1>10. ASSUME NEW u \in Threads \ {t}
       PROVE  Contents(u)'
  <2>1. copy'[u] = copy[u]
    BY <1>10 DEF SaveAppend, Types, Callers
  <2> QED
    BY <1>5, <1>6, <1>9, <2>1, ContentsAfterLeave
<1>11. Contents(t)'
  <2>1. at'[t].event = NoEvent /\ at'[t].read["session"] = Empty /\ pc'[t] = "idle"
    BY <1>9, Left, NoReadsSession
  <2>2. copy[t] \in Copies(nConvs)
    BY DEF Types, Callers
  <2>3. copy'[t] = [copy[t] EXCEPT !.events = Append(@, e)]
    BY <1>1 DEF SaveAppend, Types, Callers
  <2>4. /\ copy'[t].live = copy[t].live /\ copy'[t].conv = copy[t].conv
        /\ copy'[t].from = copy[t].from /\ copy'[t].state = copy[t].state
        /\ copy'[t].events = Append(copy[t].events, e)
    BY <2>2, <2>3 DEF Copies
  <2>5. \A i \in DOMAIN copy[t].events : /\ i \in DOMAIN copy'[t].events
                                         /\ copy'[t].events[i] = copy[t].events[i]
    BY <1>2, <2>2, <2>4 DEF Copies
  <2>6. copy'[t].live /\ copy'[t].conv = copy'[t].from /\ copy'[t].conv \notin mixed' =>
            Explained(copy'[t].state, copy'[t].events)
    <3>1. SUFFICES ASSUME copy[t].live, copy[t].conv = copy[t].from,
                          copy[t].conv \notin mixed
                   PROVE  Explained(copy[t].state, copy'[t].events)
      BY <1>5, <2>4 DEF Grows
    <3>2. Explained(copy[t].state, copy[t].events)
      BY <1>6, <3>1 DEF Contents
    <3> QED
      BY <2>5, <3>2 DEF Explained
  <2> QED
    BY <2>1, <2>6 DEF Contents, Explained
<1>12. RowsExplained'
  BY <1>8 DEF RowsExplained, Explained
<1>13. \A u \in Threads : Contents(u)'
  BY <1>10, <1>11
<1> QED
  BY <1>12, <1>13, ExplainPartsNext

LEMMA ExplainBySaveCreate ==
    ASSUME Types, ExplainInv, NEW t \in Threads, SaveCreate(t)
    PROVE  ExplainInv'
<1>1. PICK k, c : k = at[t].key /\ c = nConvs + 1
  OBVIOUS
<1>2. /\ k \in Keys /\ c \in Nat /\ Saves(t) /\ Creating(t) /\ row[k] = 0
      /\ row' = [row EXCEPT ![k] = c] /\ log' = log
      /\ copy' = [copy EXCEPT ![t] = [live |-> TRUE, key |-> k, conv |-> c,
                                      from |-> c, state |-> dict'[k], events |-> << >>]]
  BY <1>1, Numbers DEF SaveCreate, Saves, Types, Callers, Contexts
<1>3. mixed' = mixed
  BY <1>1, <1>2 DEF Saves, SaveDicts
<1>4. Grows
  BY <1>2, <1>3 DEF Grows
<1>5. RowsExplained /\ \A u \in Threads : Contents(u)
  BY ExplainParts
<1>6. \A v \in Vars : dict'[k][v] \in {Unset, Given}
  <2>1. at[t].read["session"] = Empty
    BY <1>2, <1>5 DEF Contents, Creating
  <2>2. "session" \in Scopes /\ Owner(k, "session") = k
    BY OwnerIs DEF Scopes
  <2>3. dict'[k] = IF "session" \in Written(t) THEN Merged(t, "session") ELSE dict[k]
    BY <1>1, <1>2, <2>2, SavedDicts DEF Saves
  <2>4. dict[k] = Empty
    BY <1>2 DEF Types, Dictionaries
  <2> QED
    BY <1>2, <2>1, <2>2, <2>3, <2>4, MergedIs, EmptyIsContent DEF Value
<1>7. \A l : Explained(dict'[k], l)
  BY <1>6 DEF Explained
<1>8. ASSUME NEW j \in Keys, row'[j] # 0, row'[j] \notin mixed'
      PROVE  Explained(dict'[j], log'[row'[j]])
  <2>1. CASE j = k
    BY <1>7, <2>1
  <2>2. CASE j # k
    <3>1. dict'[j] = dict[j] /\ row'[j] = row[j]
      BY <1>1, <1>2, <1>8, <2>2, SavedTypes DEF Types, Rows
    <3> QED
      BY <1>2, <1>3, <1>5, <1>8, <3>1 DEF RowsExplained
  <2> QED
    BY <2>1, <2>2
<1>9. Sets(t, Scopes) \in SUBSET (Dicts \X Vars) /\ Leave(t, Sets(t, Scopes))
  BY <1>2, SetsAre DEF Saves
<1>10. ASSUME NEW u \in Threads \ {t}
       PROVE  Contents(u)'
  <2>1. copy'[u] = copy[u]
    BY <1>2, <1>10 DEF Types, Callers
  <2> QED
    BY <1>4, <1>5, <1>9, <2>1, ContentsAfterLeave
<1>11. Contents(t)'
  <2>1. at'[t].event = NoEvent /\ at'[t].read["session"] = Empty /\ pc'[t] = "idle"
    BY <1>9, Left, NoReadsSession
  <2>2. copy'[t].state = dict'[k]
    BY <1>2 DEF Types, Callers
  <2> QED
    BY <1>6, <2>1, <2>2 DEF Contents, Explained
<1>12. RowsExplained'
  BY <1>8 DEF RowsExplained, Explained
<1>13. \A u \in Threads : Contents(u)'
  BY <1>10, <1>11
<1> QED
  BY <1>12, <1>13, ExplainPartsNext

LEMMA ExplainBySaveDelete ==
    ASSUME Types, ExplainInv, NEW t \in Threads, SaveDelete(t)
    PROVE  ExplainInv'
<1>1. PICK k : k = at[t].key
  OBVIOUS
<1>2. k \in Keys /\ {k} \X Vars \in SUBSET (Dicts \X Vars)
  BY <1>1 DEF Types, Callers, Contexts, Dicts
<1>3. /\ row' = [row EXCEPT ![k] = 0] /\ dict' = [dict EXCEPT ![k] = Empty]
      /\ Leave(t, {k} \X Vars) /\ UNCHANGED <<log, copy, mixed>>
  BY <1>1 DEF SaveDelete
<1>4. Grows
  BY <1>3 DEF Grows
<1>5. RowsExplained /\ \A u \in Threads : Contents(u)
  BY ExplainParts
<1>6. \A u \in Threads : Contents(u)'
  BY <1>2, <1>3, <1>4, <1>5, ContentsAfterLeave
<1>7. ASSUME NEW j \in Keys, row'[j] # 0
      PROVE  row'[j] = row[j] /\ dict'[j] = dict[j]
  BY <1>2, <1>3, <1>7 DEF Types, Rows, Dictionaries, Dicts
<1>8. RowsExplained'
  BY <1>3, <1>5, <1>7 DEF RowsExplained, Explained
<1> QED
  BY <1>6, <1>8, ExplainPartsNext

\* The steps that leave the database alone.
LEMMA ExplainByOthers ==
    ASSUME Types, ExplainInv, UNCHANGED database,
           \A u \in Threads : Contents(u)'
    PROVE  ExplainInv'
<1>1. RowsExplained'
  BY ExplainParts DEF RowsExplained, Explained, database
<1> QED
  BY <1>1, ExplainPartsNext

LEMMA ExplainByCalls ==
    ASSUME Types, ExplainInv, NEW t \in Threads, Call(t)
    PROVE  ExplainInv'
<1>1. UNCHANGED database /\ Grows
  BY DEF Call, GetSession, DeleteSession, CreateSession, AppendEvent, database, Grows
<1>2. RowsExplained /\ \A u \in Threads : Contents(u)
  BY ExplainParts
<1>3. CASE \E k \in Keys : GetSession(t, k)
  <2>1. PICK k \in Keys : GetSession(t, k)
    BY <1>3
  <2>2. /\ at' = at /\ pc' = [pc EXCEPT ![t] = "events"] /\ row[k] # 0
        /\ copy' = [copy EXCEPT ![t] = copy'[t]]
        /\ ~copy'[t].live /\ copy'[t].conv = row[k] /\ copy'[t].state = dict[k]
    BY <2>1, GetSessionIs DEF GetSession
  <2>3. row[k] \in Convs
    BY <2>2, Numbers
  <2>4. Contents(t)'
    BY <1>1, <1>2, <2>2, <2>3 DEF Contents, RowsExplained, Explained, database
  <2>5. ASSUME NEW u \in Threads \ {t}
        PROVE  Contents(u)'
    <3>1. copy'[u] = copy[u] /\ pc'[u] = pc[u]
      BY <2>2 DEF Types, Callers
    <3> QED
      BY <1>1, <1>2, <2>2, <3>1, ContentsStay
  <2> QED
    BY <1>1, <2>4, <2>5, ExplainByOthers
<1>4. CASE \E k \in Keys : DeleteSession(t, k)
               \/ \E given \in Givens : CreateSession(t, k, given)
  <2>1. PICK c, place : /\ c.event = NoEvent /\ c.read["session"] = Empty
                        /\ place \in {"delete", "app"}
                        /\ at' = [at EXCEPT ![t] = c] /\ pc' = [pc EXCEPT ![t] = place]
    <3>1. CASE \E k \in Keys : DeleteSession(t, k)
      <4>1. PICK k \in Keys : DeleteSession(t, k)
        BY <3>1
      <4>2. PICK c : c = [NoReads EXCEPT !.key = k]
        OBVIOUS
      <4>3. c.event = NoEvent /\ c.read["session"] = Empty
        BY <4>2, NoReadsSession DEF NoReads
      <4> QED
        BY <4>1, <4>2, <4>3 DEF DeleteSession
    <3>2. CASE \E k \in Keys, given \in Givens : CreateSession(t, k, given)
      <4>1. PICK k \in Keys, given \in Givens : CreateSession(t, k, given)
        BY <3>2
      <4>2. PICK c : c = [NoReads EXCEPT !.key = k, !.sets = given]
        OBVIOUS
      <4>3. c.event = NoEvent /\ c.read["session"] = Empty
        BY <4>2, NoReadsSession DEF NoReads
      <4> QED
        BY <4>1, <4>2, <4>3 DEF CreateSession
    <3> QED
      BY <1>4, <3>1, <3>2
  <2>2. /\ at'[t] = c /\ pc'[t] = place
        /\ \A u \in Threads \ {t} : at'[u] = at[u] /\ pc'[u] = pc[u]
    BY <2>1, OthersStay
  <2>3. copy' = copy
    BY <1>4 DEF DeleteSession, CreateSession
  <2>4. \A u \in Threads : Contents(u)'
    BY <1>1, <1>2, <2>1, <2>2, <2>3, ContentsStay
  <2> QED
    BY <1>1, <2>4, ExplainByOthers
<1>5. CASE \E e \in Events : AppendEvent(t, e)
  <2>1. PICK e \in Events : AppendEvent(t, e)
    BY <1>5
  <2>2. PICK k : k = copy[t].key
    OBVIOUS
  <2>3. k \in Keys /\ copy' = copy
    BY <2>1, <2>2 DEF AppendEvent, Types, Callers, Copies
  <2>4. CASE row[k] = 0
    <3>1. at' = at /\ pc' = pc
      BY <2>1, <2>2, <2>4 DEF AppendEvent
    <3> QED
      BY <1>1, <1>2, <2>3, <3>1, ContentsStay, ExplainByOthers
  <2>5. CASE row[k] # 0
    <3>1. PICK c : c = [NoReads EXCEPT !.key = k, !.conv = row[k], !.event = e,
                                       !.sets = Delta[e], !.read["session"] = dict[k]]
      OBVIOUS
    <3>2. at' = [at EXCEPT ![t] = c] /\ pc' = [pc EXCEPT ![t] = "app"]
      BY <2>1, <2>2, <2>5, <3>1 DEF AppendEvent
    <3>3. /\ at'[t] = c /\ pc'[t] = "app"
          /\ \A u \in Threads \ {t} : at'[u] = at[u] /\ pc'[u] = pc[u]
      BY <3>2, OthersStay
    <3>4. c.event = e /\ c.conv = row[k] /\ c.read["session"] = dict[k]
      BY <3>1 DEF NoReads, Scopes
    <3>5. row[k] \in Convs /\ e # NoEvent
      BY <2>3, <2>5, Numbers, DatabaseAssumption
    <3>6. Contents(t)'
      BY <1>1, <1>2, <2>3, <2>5, <3>3, <3>4, <3>5 DEF Contents, RowsExplained, Explained, database
    <3>7. \A u \in Threads \ {t} : Contents(u)'
      BY <1>1, <1>2, <2>3, <3>3, ContentsStay
    <3> QED
      BY <1>1, <3>6, <3>7, ExplainByOthers
  <2> QED
    BY <2>4, <2>5
<1> QED
  BY <1>3, <1>4, <1>5 DEF Call

LEMMA ExplainStep ==
    ASSUME Types, ExplainInv, [Next]_vars
    PROVE  ExplainInv'
<1>2. RowsExplained /\ \A u \in Threads : Contents(u)
  BY ExplainParts
<1>3. CASE UNCHANGED vars
  <2>1. Grows /\ UNCHANGED database /\ UNCHANGED <<copy, at, pc>>
    BY <1>3 DEF vars, database, Grows
  <2> QED
    BY <1>2, <2>1, ContentsStay, ExplainByOthers
<1>4. ASSUME NEW t \in Threads, ReadApp(t) \/ ReadUser(t)
      PROVE  ExplainInv'
  <2>1. PICK s \in {"app", "user"}, next \in {"user", "save"} : ReadShared(t, s, next)
    BY <1>4 DEF ReadApp, ReadUser
  <2>2. /\ at' = [at EXCEPT ![t] = at'[t]]
        /\ at'[t].event = at[t].event /\ at'[t].conv = at[t].conv
        /\ at'[t].read = [at[t].read EXCEPT ![s] = dict[Owner(at[t].key, s)]]
    BY <2>1, SharedRead DEF Places
  <2>3. at[t].read \in [Scopes -> Content] /\ "session" \in Scopes /\ s # "session"
    BY DEF Types, Callers, Contexts, Scopes
  <2>4. at'[t].read["session"] = at[t].read["session"]
    BY <2>2, <2>3
  <2>5. pc' = [pc EXCEPT ![t] = next] /\ UNCHANGED database /\ copy' = copy
    BY <2>1 DEF ReadShared
  <2>6. pc'[t] = next /\ \A u \in Threads \ {t} : pc'[u] = pc[u] /\ at'[u] = at[u]
    BY <2>2, <2>5 DEF Types, Callers
  <2>7. Grows
    BY <2>5 DEF database, Grows
  <2>8. \A u \in Threads : Contents(u)'
    BY <1>2, <2>2, <2>4, <2>5, <2>6, <2>7, ContentsStay
  <2> QED
    BY <2>5, <2>8, ExplainByOthers
<1>5. ASSUME NEW t \in Threads, ReadEvents(t)
      PROVE  ExplainInv'
  <2>1. PICK c : c = row[copy[t].key]
    OBVIOUS
  <2>2. /\ copy' = [copy EXCEPT ![t] = copy'[t]]
        /\ copy'[t].conv = copy[t].conv /\ copy'[t].from = c
        /\ copy'[t].state = copy[t].state
        /\ copy'[t].events \in Reordered(IF c = 0 THEN << >> ELSE log[c])
    BY <1>5, <2>1, ReadEventsIs
  <2>3. /\ pc[t] = "events" /\ pc' = [pc EXCEPT ![t] = "idle"] /\ at' = at
        /\ UNCHANGED database
    BY <1>5 DEF ReadEvents
  <2>4. Grows
    BY <2>3 DEF database, Grows
  <2>5. pc'[t] = "idle" /\ \A u \in Threads \ {t} : pc'[u] = pc[u] /\ copy'[u] = copy[u]
    BY <2>2, <2>3 DEF Types, Callers
  <2>6. copy[t].conv \in Convs
        /\ (copy[t].conv \notin mixed => Explained(copy[t].state, log[copy[t].conv]))
    BY <1>2, <2>3 DEF Contents
  <2>7. copy[t].conv # 0
    BY <2>6 DEF Convs
  <2>8. copy'[t].live /\ copy'[t].conv = copy'[t].from /\ copy'[t].conv \notin mixed' =>
            Explained(copy'[t].state, copy'[t].events)
    <3> SUFFICES ASSUME copy'[t].conv = copy'[t].from, copy'[t].conv \notin mixed'
                 PROVE  Explained(copy'[t].state, copy'[t].events)
      OBVIOUS
    <3>1. c = copy[t].conv /\ c # 0 /\ c \in Convs /\ Explained(copy[t].state, log[c])
      BY <2>2, <2>3, <2>6, <2>7 DEF database
    <3>2. copy'[t].events \in Reordered(log[c]) /\ log[c] \in Seq(Events)
      BY <2>2, <3>1 DEF Types, Rows
    <3>3. \A i \in DOMAIN log[c] : \E j \in DOMAIN copy'[t].events :
              copy'[t].events[j] = log[c][i]
      BY <3>2, ReorderedHas
    <3> QED
      BY <2>2, <3>1, <3>3 DEF Explained
  <2>9. Contents(t)'
    BY <1>2, <2>3, <2>5, <2>8 DEF Contents, Explained, database
  <2>10. \A u \in Threads \ {t} : Contents(u)'
    BY <1>2, <2>3, <2>4, <2>5, ContentsStay
  <2> QED
    BY <2>3, <2>9, <2>10, ExplainByOthers
<1>6. ASSUME NEW t \in Threads, Fail(t)
      PROVE  ExplainInv'
  <2>1. Leave(t, {}) /\ UNCHANGED database /\ copy' = copy /\ {} \in SUBSET (Dicts \X Vars)
    BY <1>6 DEF Fail
  <2>2. Grows
    BY <2>1 DEF database, Grows
  <2>3. \A u \in Threads : Contents(u)'
    BY <1>2, <2>1, <2>2, ContentsAfterLeave
  <2> QED
    BY <2>1, <2>3, ExplainByOthers
<1> QED
  BY <1>3, <1>4, <1>5, <1>6, ExplainByCalls, ExplainBySaveCreate, ExplainBySaveAppend,
     ExplainBySaveDelete DEF Next, AtRest, Progress

-----------------------------------------------------------------------------
(* The invariant                                                           *)

Inv == Types /\ LostInv /\ CommitInv /\ ExplainInv

LEMMA InitInv ==
    ASSUME Init
    PROVE  Inv
<1>1. << >> \in Seq(Events) /\ DOMAIN << >> = {}
  OBVIOUS
<1>2. 0 \in 0..MaxConvs /\ 0 \in 0..MaxDeletes
  BY DatabaseAssumption
<1>3. Types
  <2>1. Rows
    BY <1>1, <1>2 DEF Init, Rows
  <2>2. Dictionaries
    <3>1. dict \in [Dicts -> Content]
      BY EmptyIsContent DEF Init
    <3>2. \A k \in Keys : dict[k] = Empty
      BY DEF Init, Dicts
    <3> QED
      BY <3>1, <3>2 DEF Init, Dictionaries
  <2>3. Callers
    <3>1. copy \in [Threads -> Copies(nConvs)] /\ at \in [Threads -> Contexts(nConvs)]
      BY NothingRead DEF Init
    <3> QED
      BY <1>2, <3>1 DEF Init, Callers, Places
  <2> QED
    BY <2>1, <2>2, <2>3 DEF Types
<1>4. LostInv
  <2>1. \A t \in Threads, s \in Scopes : ~HasRead(t, s)
    BY NothingRead DEF Init, HasRead
  <2>2. \A d \in {App} \cup Users : d \in Dicts
    BY DEF Dicts
  <2>3. \A d \in Dicts : dict[d] = Empty /\ due[d] = Empty
    BY DEF Init
  <2> QED
    BY <2>1, <2>2, <2>3, EmptyIsContent DEF LostInv, LostOnlyByOverlap
<1>5. CommitInv
  <2>1. \A c \in Convs : DOMAIN log[c] = {}
    BY <1>1 DEF Init
  <2>2. \A t \in Threads : at[t].event = NoEvent
    BY NothingRead DEF Init
  <2> QED
    BY <2>1, <2>2 DEF CommitInv
<1>6. ExplainInv
  <2>1. \A k \in Keys : row[k] = 0
    BY DEF Init
  <2>2. \A t \in Threads : /\ at[t].event = NoEvent /\ at[t].read["session"] = Empty
                           /\ pc[t] = "idle"
    BY NoReadsSession DEF Init
  <2>3. \A t \in Threads : ~copy[t].live
    BY DEF Init, NoCopy
  <2> QED
    BY <2>1, <2>2, <2>3, ExplainParts DEF RowsExplained, Contents
<1> QED
  BY <1>3, <1>4, <1>5, <1>6 DEF Inv

LEMMA InvAlways == Spec => []Inv
<1>1. Init => Inv
  BY InitInv
<1>2. Inv /\ [Next]_vars => Inv'
  BY TypesStep, LostStep, CommitStep, ExplainStep DEF Inv
<1> QED
  BY <1>1, <1>2, PTL DEF Spec

-----------------------------------------------------------------------------
(* The theorems                                                            *)

\* The rows, the copies and the contexts stay of their types; a session row
\* that is gone has left no state behind.
THEOREM TypeCorrect == Spec => []TypeOK
<1>1. Inv => TypeOK
  BY DEF Inv, Types, Rows, Dictionaries, Callers, Copies, Contexts, Places, TypeOK
<1> QED
  BY <1>1, InvAlways, PTL

\* Only an append or a create that overlaps can lose a committed value, for
\* any number of callers: the columns are written where their text changed and
\* only there (EF Core's change tracking).
THEOREM LostByOverlapOnly == Spec => []LostOnlyByOverlap
<1>1. Inv => LostOnlyByOverlap
  BY DEF Inv, LostInv
<1> QED
  BY <1>1, InvAlways, PTL

\* GetSessionAsync's two reads show no state without its event.
THEOREM CopiesExplained == Spec => []CopyStateExplained
<1>1. Inv => CopyStateExplained
  BY DEF Inv, ExplainInv
<1> QED
  BY <1>1, InvAlways, PTL

\* The database service is a session store: every call commits in its one
\* save, an event once, at the end of one conversation.
THEOREM ImplementsStore == Spec => StoreSpec
<1>1. Init => Store!Init
  BY StoreInit
<1>2. Inv /\ [Next]_vars => [Store!Next]_Store!storeVars
  BY StoreStep DEF Inv
<1>3. Spec => Store!Spec
  BY <1>1, <1>2, InvAlways, PTL DEF Spec, Store!Spec
<1> QED
  BY <1>3 DEF StoreSpec
=============================================================================
