------------------------ MODULE SessionServiceProofs ------------------------
(***************************************************************************)
(* Proofs about SessionService for any number of callers, users, session   *)
(* ids, entries and events.  In a behaviour in which no delete overlaps an *)
(* append to a session of its id ([]DeletesApart), one append at a time    *)
(* writes a session, no stored event is lost or duplicated, the service    *)
(* implements SessionStore, state and history of a session agree, and the  *)
(* callers' copies keep the order of events.  The service itself does not  *)
(* ensure the proviso: DeleteSessionAsync takes no semaphore.              *)
(***************************************************************************)
EXTENDS SessionService, FiniteSetTheorems, SequenceTheorems, TLAPS

LEMMA AnyKeyType == AnyKey \in Keys
<1>1. PICK u \in Users, id \in Ids : TRUE
  BY ConstantsAssumption
<1>2. <<u, id>> \in Keys
  BY <1>1 DEF Keys
<1> QED
  BY <1>2, Zenon DEF AnyKey

LEMMA MaxLocksType == MaxLocks \in Nat
BY ConstantsAssumption, FS_CardinalityType DEF MaxLocks

USE AnyKeyType, MaxLocksType

-----------------------------------------------------------------------------
(* Types, with the local variables that index the heap and the semaphores  *)
(* defined wherever they are used.                                         *)

Indexing == {"cloneState", "cloneEvents", "getLock", "wait"} \cup Critical
Locking == {"wait"} \cup Critical

Located(t) ==
    /\ pc[t] \in Indexing => at[t].entry \in 1..nEntries
    /\ pc[t] \in Locking => at[t].lock \in Locks
    /\ pc[t] \in Appending => at[t].event \in Events

Addressed ==
    /\ \A k \in Keys : sessions[k] \in 0..nEntries
    /\ \A t \in Threads : Located(t)

\* The size a writer has read is still the size of the list it adds to.
Sized ==
    \A t \in Threads : pc[t] = "add" => at[t].size = Len(heap[at[t].entry].events)

TypeInv == TypeOK /\ Addressed

LEMMA NoCopyType == NoCopy \in CopyType
BY ConstantsAssumption DEF CopyType, NoCopy, NoState, States, Values

LEMMA DeltaType ==
    ASSUME NEW st \in States, NEW e \in Events
    PROVE  WithDelta(st, e) \in States
BY ConstantsAssumption DEF WithDelta, States, Values

LEMMA TypeInit == Init => TypeInv
<1> SUFFICES ASSUME Init PROVE TypeInv
    OBVIOUS
<1>1. NoState \in States
  BY DEF NoState, States, Values
<1>2. TypeOK
  BY <1>1, ConstantsAssumption
  DEF Init, TypeOK, NoCopy, Phases, Locks, Entries, SessionType, CopyType,
      LocalType
<1>3. Addressed
  BY DEF Init, Addressed, Located, Indexing, Locking, Appending, Critical
<1> QED
  BY <1>2, <1>3 DEF TypeInv

LEMMA TypeNext == TypeInv /\ Sized /\ [Next]_vars => TypeInv'
<1> SUFFICES ASSUME TypeOK, Addressed, Sized, [Next]_vars PROVE TypeOK' /\ Addressed'
    BY DEF TypeInv
<1> USE ConstantsAssumption, NoCopyType DEF Indexing, Locking, Appending, Critical
<1>a. ASSUME NEW t \in Threads, pc[t] \in Indexing
      PROVE  at[t].entry \in Entries
  BY <1>a DEF Addressed, Located, TypeOK, Entries
<1>b. ASSUME NEW t \in Threads, Call(t) \/ Progress(t), NEW u \in Threads, u # t
      PROVE  pc'[u] = pc[u] /\ at'[u] = at[u]
  BY ZenonT(60), <1>b DEF TypeOK, Call, Progress, CreateSession, GetSession, DeleteSession,
     AppendToCopy, CloneState, CloneEvents, CloneThrows, MergeStates, LookupEntry,
     GetSessionLock, WaitLock, WriteScoped, StoreState, AddEvent, Release, DropLock
<1>1. ASSUME NEW t \in Threads, NEW k \in Keys, NEW given \in InitialScopes,
             CreateSession(t, k, given)
      PROVE  TypeOK' /\ Addressed'
  <2>1. [s \in Scopes |-> IF s \in given THEN Given ELSE Unset] \in States
    BY <1>1 DEF CreateSession, TypeOK, States, Values
  <2>2. nEntries + 1 \in Entries /\ nEntries + 1 \in 0..MaxEntries /\ k[1] \in Users
    BY <1>1 DEF CreateSession, TypeOK, Entries, Keys
  <2>3. heap' \in [Entries -> SessionType]
    BY <1>1, <2>1, <2>2 DEF CreateSession, TypeOK, SessionType
  <2>4. at[t] \in LocalType
    BY <1>1 DEF CreateSession, TypeOK
  <2>5. [at[t] EXCEPT !.key = k, !.entry = nEntries + 1] \in LocalType
    BY <1>1, <2>4, <2>2 DEF CreateSession, TypeOK, LocalType
  <2>6. at' = [at EXCEPT ![t] =
               [at[t] EXCEPT !.key = k, !.entry = nEntries + 1]]
    BY <1>1 DEF CreateSession, TypeOK
  <2>7. at' \in [Threads -> LocalType]
    BY <1>1, <2>5, <2>6 DEF CreateSession, TypeOK
  <2>8. pc' \in [Threads -> Phases]
    BY <1>1 DEF CreateSession, TypeOK, Phases
  <2>9. copy' \in [Threads -> CopyType]
    BY <1>1 DEF CreateSession, TypeOK
  <2>10. nEntries' \in 0..MaxEntries /\ sessions' \in [Keys -> 0..MaxEntries]
    BY <1>1, <2>2 DEF CreateSession, TypeOK, Entries
  <2>11. TypeOK'
    BY <1>1, <2>1, <2>2, <2>3, <2>4, <2>5, <2>6, <2>7, <2>8, <2>9, <2>10 DEF CreateSession, TypeOK, dicts, lockVars, shared
  <2>12. Addressed'
    BY <1>1, <1>b, <2>11 DEF CreateSession, TypeOK, Addressed, Located, Entries, dicts, lockVars, shared
  <2> QED
    BY <2>11, <2>12
<1>2. ASSUME NEW t \in Threads, NEW k \in Keys, GetSession(t, k)
      PROVE  TypeOK' /\ Addressed'
  <2>1. at' \in [Threads -> LocalType]
    BY ZenonT(60), <1>2 DEF GetSession, TypeOK, LocalType
  <2>2. pc' \in [Threads -> Phases]
    BY <1>2 DEF GetSession, TypeOK, Phases
  <2>3. copy' \in [Threads -> CopyType]
    BY <1>2 DEF GetSession, TypeOK
  <2>4. TypeOK'
    BY <1>2, <2>1, <2>2, <2>3 DEF GetSession, TypeOK, dicts, lockVars, shared
  <2>5. Addressed'
    BY <1>2, <1>b, <2>4 DEF GetSession, TypeOK, Addressed, Located, Entries, dicts, lockVars, shared
  <2> QED
    BY <2>4, <2>5
<1>3. ASSUME NEW t \in Threads, CloneState(t)
      PROVE  TypeOK' /\ Addressed'
  <2>1. at[t].entry \in Entries
    BY <1>3, <1>a DEF CloneState, TypeOK
  <2>2. heap[at[t].entry].state \in States
    BY <1>3, <2>1 DEF CloneState, TypeOK, SessionType
  <2>3. {s \in Scopes : heap[at[t].entry].state[s] # Unset} \in SUBSET Scopes
    BY <1>3 DEF CloneState, TypeOK
  <2>4. at[t].entry \in 0..MaxEntries
    BY <1>3 DEF CloneState, TypeOK, LocalType
  <2>5. copy[t] \in CopyType
    BY <1>3 DEF CloneState, TypeOK
  <2>6. [copy[t] EXCEPT !.entry = at[t].entry,
                  !.state = heap[at[t].entry].state,
                  !.json = {s \in Scopes : heap[at[t].entry].state[s] # Unset}] \in CopyType
    BY <1>3, <2>5, <2>2, <2>3, <2>4 DEF CloneState, TypeOK, CopyType
  <2>7. copy' = [copy EXCEPT ![t] =
               [copy[t] EXCEPT !.entry = at[t].entry,
                  !.state = heap[at[t].entry].state,
                  !.json = {s \in Scopes : heap[at[t].entry].state[s] # Unset}]]
    BY <1>3 DEF CloneState, TypeOK
  <2>8. copy' \in [Threads -> CopyType]
    BY <1>3, <2>6, <2>7 DEF CloneState, TypeOK
  <2>9. pc' \in [Threads -> Phases]
    BY <1>3 DEF CloneState, TypeOK, Phases
  <2>10. TypeOK'
    BY <1>3, <2>1, <2>2, <2>3, <2>4, <2>5, <2>6, <2>7, <2>8, <2>9 DEF CloneState, TypeOK, dicts, lockVars, shared
  <2>11. Addressed'
    BY <1>3, <1>b, <2>10 DEF CloneState, TypeOK, Addressed, Located, Entries, dicts, lockVars, shared
  <2> QED
    BY <2>10, <2>11
<1>4. ASSUME NEW t \in Threads, CloneEvents(t)
      PROVE  TypeOK' /\ Addressed'
  <2>1. at[t].entry \in Entries
    BY <1>4, <1>a DEF CloneEvents, TypeOK
  <2>2. copy' \in [Threads -> CopyType]
    BY ZenonT(60), <1>4, <2>1 DEF CloneEvents, TypeOK, CopyType, LocalType, SessionType
  <2>3. pc' \in [Threads -> Phases]
    BY <1>4 DEF CloneEvents, TypeOK, Phases
  <2>4. TypeOK'
    BY <1>4, <2>1, <2>2, <2>3 DEF CloneEvents, TypeOK, dicts, lockVars, shared
  <2>5. Addressed'
    BY <1>4, <1>b, <2>4 DEF CloneEvents, TypeOK, Addressed, Located, Entries, dicts, lockVars, shared
  <2> QED
    BY <2>4, <2>5
<1>5. ASSUME NEW t \in Threads, CloneThrows(t)
      PROVE  TypeOK' /\ Addressed'
  <2>1. copy' \in [Threads -> CopyType]
    BY <1>5 DEF CloneThrows, TypeOK
  <2>2. pc' \in [Threads -> Phases]
    BY <1>5 DEF CloneThrows, TypeOK, Phases
  <2>3. TypeOK'
    BY <1>5, <2>1, <2>2 DEF CloneThrows, TypeOK, dicts, lockVars, shared
  <2>4. Addressed'
    BY <1>5, <1>b, <2>3 DEF CloneThrows, TypeOK, Addressed, Located, Entries, dicts, lockVars, shared
  <2> QED
    BY <2>3, <2>4
<1>6. ASSUME NEW t \in Threads, MergeStates(t)
      PROVE  TypeOK' /\ Addressed'
  <2>1. User(t) \in Users
    BY <1>6 DEF MergeStates, TypeOK, User, LocalType, Keys
  <2>2. \A s \in Scopes : SharedValue(User(t), s) \in Values
    BY <1>6, <2>1 DEF MergeStates, TypeOK, SharedValue, Scopes, Values
  <2>3. [s \in Scopes |-> IF SharedValue(User(t), s) = Unset
                           THEN copy[t].state[s] ELSE SharedValue(User(t), s)] \in States
    <3>1. copy[t].state \in [Scopes -> Values]
      BY DEF TypeOK, CopyType, States
    <3> QED
      BY <2>2, <3>1, Zenon DEF States
  <2>4. {s \in copy[t].json : SharedValue(User(t), s) = Unset} \in SUBSET Scopes
    BY <1>6 DEF MergeStates, TypeOK, CopyType
  <2>5. copy[t] \in CopyType
    BY <1>6 DEF MergeStates, TypeOK
  <2>6. [copy[t] EXCEPT !.live = TRUE,
                  !.state = [s \in Scopes |-> IF SharedValue(User(t), s) = Unset
                                THEN copy[t].state[s] ELSE SharedValue(User(t), s)],
                  !.json = {s \in copy[t].json : SharedValue(User(t), s) = Unset}] \in CopyType
    BY <1>6, <2>5, <2>3, <2>4 DEF MergeStates, TypeOK, CopyType
  <2>7. copy' = [copy EXCEPT ![t] =
               [copy[t] EXCEPT !.live = TRUE,
                  !.state = [s \in Scopes |-> IF SharedValue(User(t), s) = Unset
                                THEN copy[t].state[s] ELSE SharedValue(User(t), s)],
                  !.json = {s \in copy[t].json : SharedValue(User(t), s) = Unset}]]
    BY <1>6 DEF MergeStates, TypeOK
  <2>8. copy' \in [Threads -> CopyType]
    BY <1>6, <2>6, <2>7 DEF MergeStates, TypeOK
  <2>9. pc' \in [Threads -> Phases]
    BY <1>6 DEF MergeStates, TypeOK, Phases
  <2>10. TypeOK'
    BY <1>6, <2>1, <2>2, <2>3, <2>4, <2>5, <2>6, <2>7, <2>8, <2>9 DEF MergeStates, TypeOK, dicts, lockVars, shared
  <2>11. Addressed'
    BY <1>6, <1>b, <2>10 DEF MergeStates, TypeOK, Addressed, Located, Entries, dicts, lockVars, shared
  <2> QED
    BY <2>10, <2>11
<1>7. ASSUME NEW t \in Threads, NEW e \in Events, AppendToCopy(t, e)
      PROVE  TypeOK' /\ Addressed'
  <2>1. WithDelta(copy[t].state, e) \in States
    BY <1>7, DeltaType DEF AppendToCopy, TypeOK, CopyType
  <2>2. copy' \in [Threads -> CopyType]
    <3>1. CASE e \in Partials
      BY <1>7, <3>1 DEF AppendToCopy, TypeOK
    <3>2. CASE e \notin Partials
      <4> DEFINE r == [copy[t] EXCEPT !.state = WithDelta(copy[t].state, e),
                                      !.events = Append(copy[t].events, e),
                                      !.json = copy[t].json \ {ScopeOf[e]}]
      <4>1. copy' = [copy EXCEPT ![t] = r]
        BY <1>7, <3>2 DEF AppendToCopy
      <4>2. copy[t] \in CopyType
        BY DEF TypeOK
      <4>3. /\ Append(copy[t].events, e) \in Seq(Events)
            /\ copy[t].json \ {ScopeOf[e]} \in SUBSET Scopes
        BY <4>2 DEF CopyType
      <4>4. r \in CopyType
        BY <2>1, <4>2, <4>3 DEF CopyType
      <4> QED
        BY <4>1, <4>4 DEF TypeOK
    <3> QED
      BY <3>1, <3>2
  <2>3. at' \in [Threads -> LocalType]
    BY ZenonT(60), <1>7 DEF AppendToCopy, TypeOK, LocalType
  <2>4. pc' \in [Threads -> Phases]
    BY <1>7 DEF AppendToCopy, TypeOK, Phases
  <2>5. TypeOK'
    BY <1>7, <2>1, <2>2, <2>3, <2>4 DEF AppendToCopy, TypeOK, dicts, lockVars, shared
  <2>6. Addressed'
    BY <1>7, <1>b, <2>5 DEF AppendToCopy, TypeOK, Addressed, Located, Entries, dicts, lockVars, shared
  <2> QED
    BY <2>5, <2>6
<1>8. ASSUME NEW t \in Threads, LookupEntry(t)
      PROVE  TypeOK' /\ Addressed'
  <2>1. at' \in [Threads -> LocalType]
    BY ZenonT(60), <1>8 DEF LookupEntry, TypeOK, LocalType
  <2>2. pc' \in [Threads -> Phases]
    BY <1>8 DEF LookupEntry, TypeOK, Phases
  <2>3. TypeOK'
    BY <1>8, <2>1, <2>2 DEF LookupEntry, TypeOK, dicts, lockVars, shared
  <2>4. at[t].key \in Keys /\ sessions[at[t].key] \in 0..nEntries
    BY DEF TypeOK, LocalType, Addressed
  <2>5. /\ at'[t].entry = sessions[at[t].key]
        /\ at'[t].event = at[t].event
        /\ pc'[t] = IF sessions[at[t].key] = 0 THEN "idle" ELSE "getLock"
        /\ nEntries' = nEntries /\ sessions' = sessions /\ nEntries \in Nat
    BY <1>8 DEF LookupEntry, TypeOK, dicts
  <2>6. ASSUME NEW u \in Threads PROVE Located(u)'
    <3>1. CASE u = t
      BY <1>8, <2>4, <2>5, <3>1 DEF LookupEntry, Addressed, Located
    <3>2. CASE u # t
      BY <1>8, <1>b, <2>5, <3>2 DEF Progress, Addressed, Located
    <3> QED
      BY <3>1, <3>2
  <2>7. Addressed'
    BY <2>5, <2>6 DEF Addressed, Located
  <2> QED
    BY <2>3, <2>7
<1>9. ASSUME NEW t \in Threads, GetSessionLock(t)
      PROVE  TypeOK' /\ Addressed'
  <2>1. Id(t) \in Ids
    BY <1>9 DEF GetSessionLock, TypeOK, Id, LocalType, Keys
  <2>2. pc' \in [Threads -> Phases]
    BY <1>9 DEF GetSessionLock, TypeOK, Phases
  <2>3. PICK l \in Locks :
          /\ at' = [at EXCEPT ![t].lock = l]
          /\ locks' = [locks EXCEPT ![Id(t)] = l]
          /\ nLocks' \in 0..MaxLocks
    <3>1. CASE locks[Id(t)] # 0
      BY <1>9, <2>1, <3>1 DEF GetSessionLock, TypeOK, Locks
    <3>2. CASE locks[Id(t)] = 0
      BY <1>9, <2>1, <3>2 DEF GetSessionLock, TypeOK, Locks
    <3> QED
      BY <3>1, <3>2
  <2>4. l \in 0..MaxLocks
    BY DEF Locks
  <2>5. at' \in [Threads -> LocalType]
    BY SMTT(30), <2>3, <2>4 DEF TypeOK, LocalType
  <2>6. locks' \in [Ids -> 0..MaxLocks]
    BY <2>3, <2>4 DEF TypeOK
  <2>7. TypeOK'
    BY <1>9, <2>2, <2>3, <2>5, <2>6 DEF GetSessionLock, TypeOK, dicts, shared
  <2>8. /\ at'[t].entry = at[t].entry
        /\ at'[t].event = at[t].event
        /\ at'[t].lock = l
        /\ pc'[t] = "wait"
        /\ nEntries' = nEntries /\ sessions' = sessions
    BY <1>9, <2>3 DEF GetSessionLock, TypeOK, LocalType, dicts
  <2>9. ASSUME NEW u \in Threads PROVE Located(u)'
    <3>1. CASE u = t
      BY <1>9, <2>8, <3>1 DEF GetSessionLock, Addressed, Located
    <3>2. CASE u # t
      BY <1>9, <1>b, <2>8, <3>2 DEF Progress, Addressed, Located
    <3> QED
      BY <3>1, <3>2
  <2>10. Addressed'
    BY <2>8, <2>9 DEF Addressed, Located
  <2> QED
    BY <2>7, <2>10
<1>10. ASSUME NEW t \in Threads, WaitLock(t)
      PROVE  TypeOK' /\ Addressed'
  <2>1. pc' \in [Threads -> Phases]
    BY <1>10 DEF WaitLock, TypeOK, Phases
  <2>2. holder' \in [Locks -> Threads \cup {NoThread}]
    BY <1>10 DEF WaitLock, TypeOK
  <2>3. TypeOK'
    BY <1>10, <2>1, <2>2 DEF WaitLock, TypeOK, dicts, lockVars, shared
  <2>4. Addressed'
    BY <1>10, <1>b, <2>3 DEF WaitLock, TypeOK, Addressed, Located, Entries, dicts, lockVars, shared
  <2> QED
    BY <2>3, <2>4
<1>11. ASSUME NEW t \in Threads, WriteScoped(t)
      PROVE  TypeOK' /\ Addressed'
  <2>1. pc' \in [Threads -> Phases]
    BY <1>11 DEF WriteScoped, TypeOK, Phases
  <2>2. at[t].event \in Events
    BY <1>11 DEF WriteScoped, TypeOK, Addressed, Located
  <2>3. appState' \in Events \cup {Unset}
    BY <1>11, <2>2 DEF WriteScoped, TypeOK
  <2>4. userState' \in [Users -> Events \cup {Unset}]
    BY <1>11, <2>2 DEF WriteScoped, TypeOK
  <2>5. TypeOK'
    BY <1>11, <2>1, <2>2, <2>3, <2>4 DEF WriteScoped, TypeOK, dicts, lockVars, shared
  <2>6. Addressed'
    BY <1>11, <1>b, <2>5 DEF WriteScoped, TypeOK, Addressed, Located, Entries, dicts, lockVars, shared
  <2> QED
    BY <2>5, <2>6
<1>12. ASSUME NEW t \in Threads, StoreState(t)
      PROVE  TypeOK' /\ Addressed'
  <2>1. pc' \in [Threads -> Phases]
    BY <1>12 DEF StoreState, TypeOK, Phases
  <2>2. at[t].event \in Events /\ at[t].entry \in Entries
    BY <1>12, <1>a DEF StoreState, TypeOK, Addressed, Located
  <2>3. WithDelta(heap[at[t].entry].state, at[t].event) \in States
    BY <1>12, <2>2, DeltaType DEF StoreState, TypeOK, SessionType
  <2>4. heap' \in [Entries -> SessionType]
    BY ZenonT(60), <1>12, <2>2, <2>3 DEF StoreState, TypeOK, SessionType
  <2>5. Len(heap[at[t].entry].events) \in Nat
    BY <1>12, <2>2 DEF StoreState, TypeOK, SessionType
  <2>6. at' \in [Threads -> LocalType]
    BY ZenonT(60), <1>12, <2>5 DEF StoreState, TypeOK, LocalType
  <2>7. TypeOK'
    BY <1>12, <2>1, <2>2, <2>3, <2>4, <2>5, <2>6 DEF StoreState, TypeOK, dicts, lockVars, shared
  <2>8. Addressed'
    BY <1>12, <1>b, <2>7 DEF StoreState, TypeOK, Addressed, Located, Entries, dicts, lockVars, shared
  <2> QED
    BY <2>7, <2>8
<1>13. ASSUME NEW t \in Threads, AddEvent(t)
      PROVE  TypeOK' /\ Addressed'
  <2>1. pc' \in [Threads -> Phases]
    BY <1>13 DEF AddEvent, TypeOK, Phases
  <2>2. at[t].event \in Events /\ at[t].entry \in Entries
    BY <1>13, <1>a DEF AddEvent, TypeOK, Addressed, Located
  <2>3. heap[at[t].entry].events \in Seq(Events)
    BY <1>13, <2>2 DEF AddEvent, TypeOK, SessionType
  <2>4. Append(SubSeq(heap[at[t].entry].events, 1, at[t].size), at[t].event) \in Seq(Events)
    <3>1. at[t].size = Len(heap[at[t].entry].events)
      BY <1>13 DEF AddEvent, Sized
    <3>2. SubSeq(heap[at[t].entry].events, 1, at[t].size) = heap[at[t].entry].events
      BY <2>3, <3>1, SubSeqFull
    <3>3. Append(heap[at[t].entry].events, at[t].event) \in Seq(Events)
      BY <2>2, <2>3
    <3> QED
      BY <3>2, <3>3
  <2>5. heap' \in [Entries -> SessionType]
    BY ZenonT(60), <1>13, <2>2, <2>4 DEF AddEvent, TypeOK, SessionType
  <2>6. stored' \in [Events -> 0..MaxEntries]
    BY <1>13, <2>2 DEF AddEvent, TypeOK, Entries
  <2>7. TypeOK'
    BY <1>13, <2>1, <2>2, <2>3, <2>4, <2>5, <2>6 DEF AddEvent, TypeOK, dicts, lockVars, shared
  <2>8. Addressed'
    BY <1>13, <1>b, <2>7 DEF AddEvent, TypeOK, Addressed, Located, Entries, dicts, lockVars, shared
  <2> QED
    BY <2>7, <2>8
<1>14. ASSUME NEW t \in Threads, Release(t)
      PROVE  TypeOK' /\ Addressed'
  <2>1. pc' \in [Threads -> Phases]
    BY <1>14 DEF Release, TypeOK, Phases
  <2>2. holder' \in [Locks -> Threads \cup {NoThread}]
    BY <1>14 DEF Release, TypeOK
  <2>3. TypeOK'
    BY <1>14, <2>1, <2>2 DEF Release, TypeOK, dicts, lockVars, shared
  <2>4. Addressed'
    BY <1>14, <1>b, <2>3 DEF Release, TypeOK, Addressed, Located, Entries, dicts, lockVars, shared
  <2> QED
    BY <2>3, <2>4
<1>15. ASSUME NEW t \in Threads, NEW k \in Keys, DeleteSession(t, k)
      PROVE  TypeOK' /\ Addressed'
  <2>1. at' \in [Threads -> LocalType]
    BY SMTT(30), <1>15 DEF DeleteSession, TypeOK, LocalType
  <2>2. pc' \in [Threads -> Phases]
    BY <1>15 DEF DeleteSession, TypeOK, Phases
  <2>3. copy' \in [Threads -> CopyType]
    BY <1>15 DEF DeleteSession, TypeOK
  <2>4. sessions' \in [Keys -> 0..MaxEntries] /\ nDeletes' \in 0..MaxDeletes
    BY <1>15 DEF DeleteSession, TypeOK
  <2>5. TypeOK'
    BY <1>15, <2>1, <2>2, <2>3, <2>4 DEF DeleteSession, TypeOK, dicts, lockVars, shared
  <2>6. Addressed'
    BY <1>15, <1>b, <2>5 DEF DeleteSession, TypeOK, Addressed, Located, Entries, dicts, lockVars, shared
  <2> QED
    BY <2>5, <2>6
<1>16. ASSUME NEW t \in Threads, DropLock(t)
      PROVE  TypeOK' /\ Addressed'
  <2>1. pc' \in [Threads -> Phases]
    BY <1>16 DEF DropLock, TypeOK, Phases
  <2>2. Id(t) \in Ids
    BY <1>16 DEF DropLock, TypeOK, Id, LocalType, Keys
  <2>3. locks' \in [Ids -> 0..MaxLocks]
    BY <1>16, <2>2 DEF DropLock, TypeOK
  <2>4. TypeOK'
    BY <1>16, <2>1, <2>2, <2>3 DEF DropLock, TypeOK, dicts, lockVars, shared
  <2>5. Addressed'
    BY <1>16, <1>b, <2>4 DEF DropLock, TypeOK, Addressed, Located, Entries, dicts, lockVars, shared
  <2> QED
    BY <2>4, <2>5
<1>17. CASE UNCHANGED vars
  BY <1>17 DEF vars, TypeOK, Addressed, Located
<1> QED
  BY <1>1, <1>2, <1>3, <1>4, <1>5, <1>6, <1>7, <1>8, <1>9, <1>10, <1>11, <1>12,
     <1>13, <1>14, <1>15, <1>16, <1>17, Zenon
  DEF Next, Call, Progress, AtRest

-----------------------------------------------------------------------------
(* One writer per session                                                  *)

\* A caller in an append has the entry its key names or named, the semaphore
\* of its session id and, inside the critical section, holds it.
Guarded(t) ==
    /\ pc[t] \in Locking => at[t].lock = locks[Id(t)]
    /\ pc[t] \in Critical => holder[at[t].lock] = t
    /\ pc[t] \in Locking \cup {"getLock"} => heap[at[t].entry].key = at[t].key

Locked ==
    /\ \A t \in Threads : Guarded(t)
    /\ \A k \in Keys : sessions[k] # 0 => heap[sessions[k]].key = k

\* The proviso of the theorems: nobody is between the two steps of a delete
\* while somebody else appends to a session of that id.
DeletesApart ==
    \A t, u \in Threads : pc[t] = "dropLock" /\ pc[u] \in Appending => Id(t) # Id(u)

LEMMA OneWriter == TypeInv /\ Locked => OneWriterPerSession
BY DEF TypeInv, TypeOK, LocalType, Locked, Guarded, Id, Locking,
       OneWriterPerSession

LEMMA LockedInit == Init => Locked
BY ConstantsAssumption
DEF Init, Locked, Guarded, Locking, Critical, Appending

LEMMA LockedNext ==
    ASSUME DeletesApart, TypeInv, TypeInv', Locked, [Next]_vars
    PROVE  Locked'
<1> USE ConstantsAssumption DEF Locking, Critical, Appending, Id
<1>t. TypeOK /\ Addressed /\ TypeOK' /\ Addressed'
  BY DEF TypeInv
<1>b. ASSUME NEW t \in Threads, Call(t) \/ Progress(t), NEW u \in Threads, u # t
      PROVE  pc'[u] = pc[u] /\ at'[u] = at[u]
  BY ZenonT(60), <1>b, <1>t DEF TypeOK, Call, Progress, CreateSession, GetSession, DeleteSession,
     AppendToCopy, CloneState, CloneEvents, CloneThrows, MergeStates, LookupEntry,
     GetSessionLock, WaitLock, WriteScoped, StoreState, AddEvent, Release, DropLock
<1>r. \A t \in Threads : at[t] \in LocalType /\ at[t].key \in Keys
  BY <1>t DEF TypeOK, LocalType
<1>1. ASSUME NEW t \in Threads, NEW k \in Keys, NEW given \in InitialScopes,
             CreateSession(t, k, given)
      PROVE  Locked'
  <2>1. /\ \A n \in Entries : n # nEntries + 1 => heap'[n] = heap[n]
        /\ heap'[nEntries + 1].key = k
        /\ \A j \in Keys : sessions'[j] = IF j = k THEN nEntries + 1 ELSE sessions[j]
        /\ pc'[t] = "cloneState"
        /\ nEntries \in Nat /\ nEntries + 1 \in Entries
        /\ locks' = locks /\ holder' = holder
    BY <1>1, <1>t DEF CreateSession, TypeOK, Entries, lockVars
  <2>2. ASSUME NEW u \in Threads PROVE Guarded(u)'
    BY <1>1, <1>b, <1>t, <2>1 DEF Call, Locked, Guarded, Addressed, Located, Indexing,
       Entries
  <2>3. \A j \in Keys : sessions'[j] # 0 => heap'[sessions'[j]].key = j
    BY <1>t, <2>1 DEF Locked, Addressed, Entries
  <2> QED
    BY <2>2, <2>3 DEF Locked
<1>2. ASSUME NEW t \in Threads, NEW k \in Keys, GetSession(t, k)
      PROVE  Locked'
  <2>1. /\ pc'[t] = "cloneState"
        /\ heap' = heap /\ sessions' = sessions /\ locks' = locks /\ holder' = holder
    BY <1>2, <1>t DEF GetSession, TypeOK, dicts, lockVars
  <2>2. ASSUME NEW u \in Threads PROVE Guarded(u)'
    BY <1>2, <1>b, <2>1 DEF Call, Locked, Guarded
  <2> QED
    BY <2>1, <2>2 DEF Locked
<1>3. ASSUME NEW t \in Threads,
             CloneState(t) \/ CloneEvents(t) \/ CloneThrows(t) \/ MergeStates(t)
      PROVE  Locked'
  <2>1. /\ pc'[t] \in {"cloneEvents", "overlay", "idle"}
        /\ heap' = heap /\ sessions' = sessions /\ locks' = locks /\ holder' = holder
    BY <1>3, <1>t DEF CloneState, CloneEvents, CloneThrows, MergeStates, TypeOK, dicts,
       lockVars
  <2>2. ASSUME NEW u \in Threads PROVE Guarded(u)'
    BY <1>3, <1>b, <2>1 DEF Progress, Locked, Guarded
  <2> QED
    BY <2>1, <2>2 DEF Locked
<1>4. ASSUME NEW t \in Threads, NEW e \in Events, AppendToCopy(t, e)
      PROVE  Locked'
  <2>1. /\ pc'[t] = "lookup" /\ at'[t].key = at[t].key
        /\ heap' = heap /\ sessions' = sessions /\ locks' = locks /\ holder' = holder
    BY <1>4, <1>t, <1>r DEF AppendToCopy, TypeOK, LocalType, dicts, lockVars
  <2>2. ASSUME NEW u \in Threads PROVE Guarded(u)'
    BY <1>4, <1>b, <2>1 DEF Call, Locked, Guarded
  <2> QED
    BY <2>1, <2>2 DEF Locked
<1>5. ASSUME NEW t \in Threads, LookupEntry(t)
      PROVE  Locked'
  <2>1. /\ pc'[t] \in {"idle", "getLock"}
        /\ pc'[t] = "getLock" => sessions[at[t].key] # 0
        /\ at'[t].key = at[t].key /\ at'[t].entry = sessions[at[t].key]
        /\ pc[t] = "lookup"
        /\ heap' = heap /\ sessions' = sessions /\ locks' = locks /\ holder' = holder
    BY <1>5, <1>t, <1>r DEF LookupEntry, TypeOK, LocalType, dicts, lockVars
  <2>2. ASSUME NEW u \in Threads PROVE Guarded(u)'
    BY <1>5, <1>b, <1>r, <2>1 DEF Progress, Locked, Guarded
  <2> QED
    BY <2>1, <2>2 DEF Locked
<1>6. ASSUME NEW t \in Threads, GetSessionLock(t)
      PROVE  Locked'
  <2>1. /\ pc[t] = "getLock" /\ pc'[t] = "wait"
        /\ at'[t].key = at[t].key /\ at'[t].entry = at[t].entry
        /\ heap' = heap /\ sessions' = sessions /\ holder' = holder
    BY <1>6, <1>t, <1>r DEF GetSessionLock, TypeOK, LocalType, dicts
  <2>2. Id(t) \in Ids
    BY <1>r DEF Keys
  <2>3. /\ at'[t].lock = locks'[Id(t)]
        /\ \A id \in Ids : locks'[id] = locks[id] \/ (id = Id(t) /\ locks[id] = 0)
    BY <1>6, <1>t, <1>r, <2>2 DEF GetSessionLock, TypeOK, LocalType
  <2>4. \A u \in Threads : Id(u) \in Ids
    BY <1>r DEF Keys
  <2>5. ASSUME NEW u \in Threads PROVE Guarded(u)'
    <3>1. CASE u = t
      BY <2>1, <2>3, <3>1 DEF Locked, Guarded
    <3>2. CASE u # t
      <4>1. pc[u] \in Locking => locks[Id(u)] # 0
        BY <1>t DEF Locked, Guarded, Addressed, Located, Locks
      <4> QED
        BY <1>6, <1>b, <2>1, <2>3, <2>4, <3>2, <4>1 DEF Progress, Locked, Guarded
    <3> QED
      BY <3>1, <3>2
  <2> QED
    BY <2>1, <2>5 DEF Locked
<1>7. ASSUME NEW t \in Threads, WaitLock(t)
      PROVE  Locked'
  <2>1. /\ pc[t] = "wait" /\ pc'[t] = "scoped" /\ at' = at
        /\ at[t].lock \in Locks /\ holder[at[t].lock] = NoThread
        /\ holder' = [holder EXCEPT ![at[t].lock] = t]
        /\ heap' = heap /\ sessions' = sessions /\ locks' = locks
    BY <1>7, <1>t DEF WaitLock, TypeOK, dicts, Addressed, Located
  <2>2. ASSUME NEW u \in Threads PROVE Guarded(u)'
    BY <1>7, <1>b, <1>t, <2>1 DEF Progress, Locked, Guarded, TypeOK, Addressed, Located
  <2> QED
    BY <2>1, <2>2 DEF Locked
<1>8. ASSUME NEW t \in Threads, WriteScoped(t)
      PROVE  Locked'
  BY <1>8, <1>b, <1>t DEF Progress, WriteScoped, Locked, Guarded, TypeOK, dicts, lockVars
<1>9. ASSUME NEW t \in Threads, StoreState(t) \/ AddEvent(t)
      PROVE  Locked'
  <2>1. /\ pc[t] \in Critical /\ pc'[t] \in Critical
        /\ at'[t].key = at[t].key /\ at'[t].entry = at[t].entry
        /\ at'[t].lock = at[t].lock
        /\ sessions' = sessions /\ locks' = locks /\ holder' = holder
    <3>1. CASE StoreState(t)
      BY <3>1, <1>t, <1>r DEF StoreState, TypeOK, LocalType, dicts, lockVars
    <3>2. CASE AddEvent(t)
      BY <3>2, <1>t, <1>r DEF AddEvent, TypeOK, LocalType, dicts, lockVars
    <3> QED
      BY <1>9, <3>1, <3>2
  <2>2. \A n \in Entries : heap'[n].key = heap[n].key
    <3>1. CASE StoreState(t)
      BY SMTT(30), <3>1, <1>t DEF StoreState, TypeOK, SessionType
    <3>2. CASE AddEvent(t)
      BY SMTT(30), <3>2, <1>t DEF AddEvent, TypeOK, SessionType
    <3> QED
      BY <1>9, <3>1, <3>2
  <2>3. ASSUME NEW u \in Threads PROVE Guarded(u)'
    <3>1. pc[u] \in Locking \cup {"getLock"} => at[u].entry \in Entries
      BY SMTT(30), <1>t DEF Addressed, Located, Indexing, Entries, TypeOK
    <3>2. /\ pc'[u] = pc[u] \/ (pc[u] \in Critical /\ pc'[u] \in Critical)
          /\ at'[u].key = at[u].key /\ at'[u].entry = at[u].entry
          /\ at'[u].lock = at[u].lock
      BY <1>9, <1>b, <2>1 DEF Progress
    <3> QED
      BY <2>1, <2>2, <3>1, <3>2 DEF Locked, Guarded
  <2>4. \A k \in Keys : sessions'[k] # 0 => heap'[sessions'[k]].key = k
    <3>1. \A k \in Keys : sessions[k] # 0 => sessions[k] \in Entries
      BY <1>t DEF TypeOK, Entries
    <3> QED
      BY <2>1, <2>2, <3>1 DEF Locked
  <2> QED
    BY <2>3, <2>4 DEF Locked
<1>10. ASSUME NEW t \in Threads, Release(t)
      PROVE  Locked'
  <2>1. /\ pc[t] = "release" /\ pc'[t] = "idle" /\ at' = at
        /\ holder' = [holder EXCEPT ![at[t].lock] = NoThread]
        /\ heap' = heap /\ sessions' = sessions /\ locks' = locks
    BY <1>10, <1>t DEF Release, TypeOK, dicts
  <2>2. ASSUME NEW u \in Threads PROVE Guarded(u)'
    BY <1>10, <1>b, <1>t, <2>1 DEF Progress, Locked, Guarded, TypeOK, Addressed, Located
  <2> QED
    BY <2>1, <2>2 DEF Locked
<1>11. ASSUME NEW t \in Threads, NEW k \in Keys, DeleteSession(t, k)
      PROVE  Locked'
  <2>1. /\ pc[t] = "idle" /\ pc'[t] = "dropLock" /\ at'[t].key = k
        /\ sessions' = [sessions EXCEPT ![k] = 0]
        /\ heap' = heap /\ locks' = locks /\ holder' = holder
    BY <1>11, <1>t, <1>r DEF DeleteSession, TypeOK, LocalType
  <2>2. ASSUME NEW u \in Threads PROVE Guarded(u)'
    BY <1>11, <1>b, <2>1 DEF Call, Locked, Guarded
  <2>3. \A j \in Keys : sessions'[j] # 0 => heap'[sessions'[j]].key = j
    BY <1>t, <2>1 DEF Locked, TypeOK
  <2> QED
    BY <2>2, <2>3 DEF Locked
<1>12. ASSUME NEW t \in Threads, DropLock(t)
      PROVE  Locked'
  <2>1. /\ pc[t] = "dropLock" /\ pc'[t] = "idle" /\ at' = at
        /\ \A id \in Ids : id # Id(t) => locks'[id] = locks[id]
        /\ heap' = heap /\ sessions' = sessions /\ holder' = holder
    BY <1>12, <1>t DEF DropLock, TypeOK, dicts
  <2>2. \A u \in Threads : Id(u) \in Ids
    BY <1>r DEF Keys
  <2>3. ASSUME NEW u \in Threads PROVE Guarded(u)'
    BY <1>12, <1>b, <2>1, <2>2 DEF Progress, Locked, Guarded, DeletesApart
  <2> QED
    BY <2>1, <2>3 DEF Locked
<1>13. CASE UNCHANGED vars
  BY <1>13 DEF vars, Locked, Guarded
<1> QED
  BY <1>1, <1>2, <1>3, <1>4, <1>5, <1>6, <1>7, <1>8, <1>9, <1>10, <1>11, <1>12,
     <1>13, Zenon
  DEF Next, Call, Progress, AtRest
-----------------------------------------------------------------------------
(* No event lost                                                           *)

LEMMA EntryLocated ==
    ASSUME TypeInv, NEW t \in Threads, pc[t] \in Indexing
    PROVE  at[t].entry \in Entries /\ at[t].entry # nEntries + 1
BY ConstantsAssumption DEF TypeInv, TypeOK, Addressed, Located, Entries

LEMMA SizedInit == Init => Sized
BY DEF Init, Sized

LEMMA SizedNext ==
    ASSUME TypeInv, Locked, Sized, [Next]_vars
    PROVE  Sized'
<1>t. TypeOK /\ Addressed
  BY DEF TypeInv
<1>1. ASSUME NEW t \in Threads, StoreState(t)
      PROVE  Sized'
  <2>1. at[t].entry \in Entries
    BY <1>1, EntryLocated DEF StoreState, Indexing, Critical
  <2>2. \A n \in Entries : heap'[n].events = heap[n].events
    BY <1>1, <1>t DEF StoreState, TypeOK, SessionType
  <2>3. at'[t].entry = at[t].entry /\ at'[t].size = Len(heap[at[t].entry].events)
    BY <1>1, <1>t DEF StoreState, TypeOK, LocalType
  <2>4. ASSUME NEW u \in Threads, pc'[u] = "add", u # t
        PROVE  at'[u].size = Len(heap'[at'[u].entry].events)
    <3>1. pc[u] = "add" /\ at'[u] = at[u]
      BY <1>1, <1>t, <2>4 DEF StoreState, TypeOK
    <3>2. at[u].entry \in Entries
      BY <3>1, EntryLocated DEF Indexing, Critical
    <3> QED
      BY <2>2, <3>1, <3>2 DEF Sized
  <2> QED
    BY <2>1, <2>2, <2>3, <2>4 DEF Sized
<1>2. ASSUME NEW t \in Threads, AddEvent(t)
      PROVE  Sized'
  <2>1. at[t].entry \in Entries /\ pc[t] = "add" /\ pc'[t] = "release" /\ at' = at
    BY <1>2, <1>t, EntryLocated DEF AddEvent, TypeOK, Indexing, Critical
  <2>2. \A n \in Entries : n # at[t].entry => heap'[n] = heap[n]
    BY <1>2, <1>t DEF AddEvent, TypeOK
  <2>3. ASSUME NEW u \in Threads, pc'[u] = "add"
        PROVE  at'[u].size = Len(heap'[at'[u].entry].events)
    <3>1. pc[u] = "add" /\ u # t
      BY <1>2, <1>t, <2>1, <2>3 DEF AddEvent, TypeOK
    <3>2. at[u].entry \in Entries
      BY <3>1, EntryLocated DEF Indexing, Critical
    <3>3. at[u].entry # at[t].entry
      BY <2>1, <3>1, OneWriter DEF OneWriterPerSession, Critical
    <3> QED
      BY <2>1, <2>2, <3>1, <3>2, <3>3 DEF Sized
  <2> QED
    BY <2>3 DEF Sized
<1>3. ASSUME NEW t \in Threads, NEW k \in Keys, NEW given \in InitialScopes,
             CreateSession(t, k, given)
      PROVE  Sized'
  <2>1. ASSUME NEW u \in Threads, pc'[u] = "add"
        PROVE  at'[u].size = Len(heap'[at'[u].entry].events)
    <3>1. pc[u] = "add" /\ at'[u] = at[u]
      BY <1>3, <1>t, <2>1 DEF CreateSession, TypeOK
    <3>2. at[u].entry \in Entries /\ at[u].entry # nEntries + 1
      BY <3>1, EntryLocated DEF Indexing, Critical
    <3>3. heap'[at[u].entry] = heap[at[u].entry]
      BY <1>3, <1>t, <3>2 DEF CreateSession, TypeOK
    <3> QED
      BY <3>1, <3>3 DEF Sized
  <2> QED
    BY <2>1 DEF Sized
<1>4. ASSUME heap' = heap,
             \A u \in Threads : pc'[u] = "add" => pc[u] = "add" /\ at'[u] = at[u]
      PROVE  Sized'
  BY <1>4 DEF Sized
<1>5. ASSUME NEW t \in Threads,
             \/ \E k \in Keys : GetSession(t, k) \/ DeleteSession(t, k)
             \/ \E e \in Events : AppendToCopy(t, e)
             \/ CloneState(t) \/ CloneEvents(t) \/ CloneThrows(t) \/ MergeStates(t)
             \/ LookupEntry(t) \/ GetSessionLock(t) \/ WaitLock(t) \/ WriteScoped(t)
             \/ Release(t) \/ DropLock(t)
      PROVE  Sized'
  <2>1. heap' = heap
    BY <1>5 DEF GetSession, DeleteSession, AppendToCopy, CloneState, CloneEvents,
       CloneThrows, MergeStates, LookupEntry, GetSessionLock, WaitLock, WriteScoped,
       Release, DropLock
  <2>2. \A u \in Threads : pc'[u] = "add" => pc[u] = "add" /\ at'[u] = at[u]
    <3>1. \A u \in Threads : u # t => pc'[u] = pc[u] /\ at'[u] = at[u]
      BY <1>5, <1>t DEF TypeOK, GetSession, DeleteSession, AppendToCopy, CloneState,
         CloneEvents, CloneThrows, MergeStates, LookupEntry, GetSessionLock, WaitLock,
         WriteScoped, Release, DropLock
    <3>2. pc'[t] # "add"
      BY <1>5, <1>t DEF TypeOK, GetSession, DeleteSession, AppendToCopy, CloneState,
         CloneEvents, CloneThrows, MergeStates, LookupEntry, GetSessionLock, WaitLock,
         WriteScoped, Release, DropLock
    <3> QED
      BY <3>1, <3>2
  <2> QED
    BY <1>4, <2>1, <2>2
<1>6. CASE UNCHANGED vars
  BY <1>4, <1>6 DEF vars
<1> QED
  BY <1>1, <1>2, <1>3, <1>5, <1>6 DEF Next, Call, Progress, AtRest
\* An event on its way into a history is in none yet, and on one way only.
Before == Appending \ {"release"}

Accounted ==
    /\ NoLostEvent
    /\ \A n \in Entries : n > nEntries => heap[n].events = << >>
    /\ \A e \in Events : e \notin sent => stored[e] = 0
    /\ \A t \in Threads : pc[t] \in Before =>
          at[t].event \in sent /\ stored[at[t].event] = 0
    /\ \A t, u \in Threads :
          pc[t] \in Before /\ pc[u] \in Before /\ at[t].event = at[u].event => t = u

LEMMA AccountedInit == Init => Accounted
<1> SUFFICES ASSUME Init PROVE Accounted
    OBVIOUS
<1>1. \A n \in Entries : heap[n].events = << >>
  BY DEF Init
<1>2. \A e \in Events : stored[e] = 0
  BY DEF Init
<1>3. \A t \in Threads : pc[t] \notin Before
  BY DEF Init, Before, Appending, Critical
<1> QED
  BY <1>1, <1>2, <1>3 DEF Accounted, NoLostEvent

LEMMA AccountedNext ==
    ASSUME TypeInv, Locked, Sized, Accounted, [Next]_vars
    PROVE  Accounted'
<1> USE DEF Before, Appending, Critical
<1>t. TypeOK /\ Addressed
  BY DEF TypeInv
<1>r. \A t \in Threads : at[t] \in LocalType
  BY <1>t DEF TypeOK
\* Steps that leave histories alone.
<1>h. ASSUME stored' = stored, sent' = sent, nEntries' >= nEntries, nEntries' \in Nat,
             \A n \in Entries : heap'[n].events = heap[n].events,
             \A u \in Threads : pc'[u] \in Before =>
                                   pc[u] \in Before /\ at'[u].event = at[u].event
      PROVE  Accounted'
  <2>1. NoLostEvent'
    <3>1. \A e \in Events : stored[e] # 0 => stored[e] \in Entries
      BY <1>t, ConstantsAssumption DEF TypeOK, Entries
    <3>2. \A e \in Events : stored'[e] # 0 =>
            \E i \in 1..Len(heap'[stored'[e]].events) : heap'[stored'[e]].events[i] = e
      BY <1>h, <3>1 DEF Accounted, NoLostEvent
    <3>3. \A n \in Entries : \A i \in 1..Len(heap'[n].events) :
            /\ stored'[heap'[n].events[i]] = n
            /\ \A j \in 1..Len(heap'[n].events) :
                  heap'[n].events[i] = heap'[n].events[j] => i = j
      BY <1>h DEF Accounted, NoLostEvent
    <3> QED
      BY <3>2, <3>3 DEF NoLostEvent
  <2>2. \A n \in Entries : n > nEntries' => heap'[n].events = << >>
    BY <1>h, <1>t DEF Accounted, TypeOK, Entries
  <2>3. \A t \in Threads : pc'[t] \in Before =>
          at'[t].event \in sent' /\ stored'[at'[t].event] = 0
    BY <1>h DEF Accounted
  <2>4. \A t, u \in Threads :
          pc'[t] \in Before /\ pc'[u] \in Before /\ at'[t].event = at'[u].event => t = u
    BY <1>h DEF Accounted
  <2>5. \A e \in Events : e \notin sent' => stored'[e] = 0
    BY <1>h DEF Accounted
  <2> QED
    BY <2>1, <2>2, <2>3, <2>4, <2>5 DEF Accounted
<1>1. ASSUME NEW t \in Threads, NEW k \in Keys, NEW given \in InitialScopes,
             CreateSession(t, k, given)
      PROVE  Accounted'
  <2>1. /\ nEntries + 1 \in Entries /\ heap'[nEntries + 1].events = << >>
        /\ \A n \in Entries : n # nEntries + 1 => heap'[n] = heap[n]
        /\ nEntries' = nEntries + 1 /\ nEntries \in Nat
    BY <1>1, <1>t, ConstantsAssumption DEF CreateSession, TypeOK, Entries
  <2>2. stored' = stored /\ sent' = sent
    BY <1>1 DEF CreateSession
  <2>3. \A u \in Threads : pc'[u] \in Before =>
                              pc[u] \in Before /\ at'[u].event = at[u].event
    BY <1>1, <1>t DEF CreateSession, TypeOK
  <2>4. heap[nEntries + 1].events = << >>
    BY <2>1 DEF Accounted
  <2>5. \A n \in Entries : heap'[n].events = heap[n].events
    BY <2>1, <2>4
  <2> QED
    BY <1>h, <2>1, <2>2, <2>3, <2>5
<1>2. ASSUME NEW t \in Threads, StoreState(t)
      PROVE  Accounted'
  <2>1. \A n \in Entries : heap'[n].events = heap[n].events
    BY <1>2, <1>t DEF StoreState, TypeOK, SessionType
  <2>2. stored' = stored /\ sent' = sent /\ nEntries' = nEntries /\ nEntries \in Nat
    BY <1>2, <1>t DEF StoreState, TypeOK
  <2>3. \A u \in Threads : pc'[u] \in Before =>
                              pc[u] \in Before /\ at'[u].event = at[u].event
    BY <1>2, <1>t, <1>r DEF StoreState, TypeOK, LocalType
  <2> QED
    BY <1>h, <2>1, <2>2, <2>3
<1>3. ASSUME NEW t \in Threads, NEW x \in Events, AppendToCopy(t, x)
      PROVE  Accounted'
  <2>1. /\ heap' = heap /\ stored' = stored /\ sent' = sent \cup {x} /\ x \notin sent
        /\ nEntries' = nEntries
        /\ at'[t].event = x
        /\ \A u \in Threads : u # t => pc'[u] = pc[u] /\ at'[u] = at[u]
    BY <1>3, <1>t, <1>r DEF AppendToCopy, TypeOK, LocalType
  <2>2. stored[x] = 0 /\ \A u \in Threads : pc[u] \in Before => at[u].event # x
    BY <2>1 DEF Accounted
  <2>3. NoLostEvent'
    BY <2>1 DEF Accounted, NoLostEvent
  <2>4. \A u \in Threads : pc'[u] \in Before =>
          at'[u].event \in sent' /\ stored'[at'[u].event] = 0
    BY <2>1, <2>2 DEF Accounted
  <2>5. \A u, v \in Threads :
          pc'[u] \in Before /\ pc'[v] \in Before /\ at'[u].event = at'[v].event => u = v
    BY <2>1, <2>2 DEF Accounted
  <2>6. \A e \in Events : e \notin sent' => stored'[e] = 0
    BY <2>1 DEF Accounted
  <2>7. \A n \in Entries : n > nEntries' => heap'[n].events = << >>
    BY <2>1 DEF Accounted
  <2> QED
    BY <2>3, <2>4, <2>5, <2>6, <2>7 DEF Accounted
<1>4. ASSUME NEW t \in Threads, AddEvent(t)
      PROVE  Accounted'
  <2> DEFINE e == at[t].event
             m == at[t].entry
             old == heap[m].events
  <2>1. /\ m \in Entries /\ m # nEntries + 1 /\ m <= nEntries /\ nEntries \in Nat
        /\ e \in Events /\ old \in Seq(Events)
    BY <1>4, <1>t, EntryLocated
    DEF AddEvent, Addressed, Located, Indexing, TypeOK, SessionType
  <2>2. SubSeq(old, 1, at[t].size) = old
    BY <1>4, <2>1, SubSeqFull DEF AddEvent, Sized
  <2>3. /\ heap'[m].events = Append(old, e)
        /\ \A n \in Entries : n # m => heap'[n] = heap[n]
        /\ stored' = [stored EXCEPT ![e] = m]
        /\ at' = at /\ sent' = sent /\ nEntries' = nEntries
        /\ pc[t] = "add" /\ pc'[t] = "release"
        /\ \A u \in Threads : u # t => pc'[u] = pc[u]
    BY <1>4, <1>t, <2>1, <2>2 DEF AddEvent, TypeOK, SessionType
  <2>4. e \in sent /\ stored[e] = 0
        /\ \A u \in Threads : u # t /\ pc[u] \in Before => at[u].event # e
    BY <2>3 DEF Accounted
  <2> HIDE DEF e, m, old
  <2>5. /\ Len(Append(old, e)) = Len(old) + 1 /\ Len(old) \in Nat
        /\ \A i \in 1..Len(old) : Append(old, e)[i] = old[i]
        /\ Append(old, e)[Len(old) + 1] = e
    BY <2>1
  <2>6. \A n \in Entries : \A i \in 1..Len(heap[n].events) :
          heap[n].events[i] \in Events /\ heap[n].events[i] # e
    <3>1. \A n \in Entries : heap[n].events \in Seq(Events) /\ n # 0
      BY <1>t, ConstantsAssumption DEF TypeOK, SessionType, Entries
    <3> QED
      BY <2>4, <3>1 DEF Accounted, NoLostEvent
  <2>7. ASSUME NEW d \in Events, stored'[d] # 0
        PROVE  \E i \in 1..Len(heap'[stored'[d]].events) : heap'[stored'[d]].events[i] = d
    <3>1. CASE d = e
      BY <1>t, <2>1, <2>3, <2>5, <3>1 DEF TypeOK
    <3>2. CASE d # e
      <4>1. stored'[d] = stored[d] /\ stored[d] \in Entries
        BY <1>t, <2>3, <2>7, <3>2, ConstantsAssumption DEF TypeOK, Entries
      <4>2. PICK i \in 1..Len(heap[stored[d]].events) : heap[stored[d]].events[i] = d
        BY <4>1, <2>7 DEF Accounted, NoLostEvent
      <4>3. CASE stored[d] = m
        <5>1. i \in 1..Len(old) /\ old[i] = d
          BY <4>2, <4>3 DEF old
        <5>2. i \in 1..Len(Append(old, e)) /\ Append(old, e)[i] = d
          BY <2>5, <5>1
        <5> QED
          BY <2>3, <4>1, <4>3, <5>2
      <4>4. CASE stored[d] # m
        BY <2>3, <4>1, <4>2, <4>4
      <4> QED
        BY <4>3, <4>4
    <3> QED
      BY <3>1, <3>2
  <2>8. ASSUME NEW n \in Entries, NEW i \in 1..Len(heap'[n].events)
        PROVE  /\ stored'[heap'[n].events[i]] = n
               /\ \A j \in 1..Len(heap'[n].events) :
                     heap'[n].events[i] = heap'[n].events[j] => i = j
    <3>1. CASE n # m
      <4>1. heap'[n] = heap[n]
        BY <2>3, <3>1
      <4>2. stored'[heap[n].events[i]] = stored[heap[n].events[i]]
        BY <1>t, <2>3, <2>6, <4>1 DEF TypeOK
      <4> QED
        BY <4>1, <4>2 DEF Accounted, NoLostEvent
    <3>2. CASE n = m
      <4>1. heap'[n].events = Append(old, e) /\ heap[n].events = old
        BY <2>3, <3>2 DEF old
      <4>2. \A j \in 1..Len(old) : old[j] \in Events /\ old[j] # e
        BY <2>1, <2>6 DEF old
      <4>3. CASE i = Len(old) + 1
        <5>1. Append(old, e)[i] = e /\ stored'[e] = n
          BY <1>t, <2>1, <2>3, <2>5, <3>2, <4>3 DEF TypeOK
        <5>2. \A j \in 1..Len(old) + 1 : Append(old, e)[j] = e => j = Len(old) + 1
          BY <2>5, <4>2
        <5> QED
          BY <2>5, <4>1, <4>3, <5>1, <5>2
      <4>4. CASE i \in 1..Len(old)
        <5>1. stored'[old[i]] = n
          BY <1>t, <2>1, <2>3, <3>2, <4>1, <4>2, <4>4 DEF TypeOK, Accounted, NoLostEvent
        <5>2. \A j \in 1..Len(old) : old[i] = old[j] => i = j
          BY <2>1, <3>2, <4>1, <4>4 DEF Accounted, NoLostEvent
        <5>3. Append(old, e)[i] = old[i]
          BY <2>5, <4>4
        <5>4. \A j \in 1..Len(old) + 1 : Append(old, e)[i] = Append(old, e)[j] => i = j
          BY <2>5, <4>2, <4>4, <5>2, <5>3
        <5> QED
          BY <2>5, <4>1, <5>1, <5>3, <5>4
      <4> QED
        BY <2>5, <4>1, <4>3, <4>4
    <3> QED
      BY <3>1, <3>2
  <2>9. NoLostEvent'
    BY <2>7, <2>8 DEF NoLostEvent
  <2>10. ASSUME NEW u \in Threads, pc'[u] \in Before
         PROVE  u # t /\ pc[u] \in Before /\ at'[u].event \in sent'
                /\ stored'[at'[u].event] = 0
    <3>1. u # t /\ pc[u] \in Before
      BY <2>3, <2>10
    <3>2. at[u].event \in Events /\ at[u].event # e
      BY <1>t, <2>4, <3>1 DEF Addressed, Located
    <3> QED
      BY <1>t, <2>3, <3>1, <3>2 DEF Accounted, TypeOK
  <2>11. \A u, v \in Threads :
          pc'[u] \in Before /\ pc'[v] \in Before /\ at'[u].event = at'[v].event => u = v
    BY <2>3, <2>10 DEF Accounted
  <2>12. \A d \in Events : d \notin sent' => stored'[d] = 0
    BY <1>t, <2>3, <2>4 DEF Accounted, TypeOK
  <2>13. \A n \in Entries : n > nEntries' => heap'[n].events = << >>
    BY <2>1, <2>3 DEF Accounted, Entries
  <2> QED
    BY <2>9, <2>10, <2>11, <2>12, <2>13 DEF Accounted
<1>5. ASSUME NEW t \in Threads,
             \/ \E k \in Keys : GetSession(t, k) \/ DeleteSession(t, k)
             \/ CloneState(t) \/ CloneEvents(t) \/ CloneThrows(t) \/ MergeStates(t)
             \/ LookupEntry(t) \/ GetSessionLock(t) \/ WaitLock(t) \/ WriteScoped(t)
             \/ Release(t) \/ DropLock(t)
      PROVE  Accounted'
  <2>1. heap' = heap /\ stored' = stored /\ sent' = sent /\ nEntries' = nEntries
    BY <1>5 DEF GetSession, DeleteSession, CloneState, CloneEvents,
       CloneThrows, MergeStates, LookupEntry, GetSessionLock, WaitLock, WriteScoped,
       Release, DropLock
  <2>2. \A u \in Threads : u # t => pc'[u] = pc[u] /\ at'[u] = at[u]
    BY <1>5, <1>t DEF TypeOK, GetSession, DeleteSession, CloneState,
       CloneEvents, CloneThrows, MergeStates, LookupEntry, GetSessionLock, WaitLock,
       WriteScoped, Release, DropLock
  <2>3. pc'[t] \in Before => pc[t] \in Before
    BY ZenonT(60), <1>5, <1>t DEF TypeOK, GetSession, DeleteSession, CloneState,
       CloneEvents, CloneThrows, MergeStates, LookupEntry, GetSessionLock, WaitLock,
       WriteScoped, Release, DropLock
  <2>4. pc'[t] \in Before => at'[t].event = at[t].event
    <3>1. CASE LookupEntry(t) \/ GetSessionLock(t)
      BY <3>1, <1>t, <1>r DEF TypeOK, LocalType, LookupEntry, GetSessionLock
    <3>2. CASE WaitLock(t) \/ WriteScoped(t)
      BY <3>2 DEF WaitLock, WriteScoped
    <3>3. ASSUME ~(LookupEntry(t) \/ GetSessionLock(t)), ~(WaitLock(t) \/ WriteScoped(t))
          PROVE  pc'[t] \notin Before
      BY <1>5, <1>t, <3>3 DEF TypeOK, GetSession, DeleteSession, CloneState,
         CloneEvents, CloneThrows, MergeStates, Release, DropLock
    <3> QED
      BY <3>1, <3>2, <3>3
  <2>5. nEntries \in Nat
    BY <1>t DEF TypeOK
  <2> QED
    BY <1>h, <2>1, <2>2, <2>3, <2>4, <2>5
<1>6. CASE UNCHANGED vars
  BY <1>t, <1>6, <1>h DEF vars, TypeOK
<1> QED
  BY <1>1, <1>2, <1>3, <1>4, <1>5, <1>6 DEF Next, Call, Progress, AtRest

-----------------------------------------------------------------------------
(* The theorems                                                            *)

Inv == TypeInv /\ Locked /\ Sized /\ Accounted

LEMMA InvInductive == Spec /\ []DeletesApart => []Inv
<1>1. Init => Inv
  BY TypeInit, LockedInit, SizedInit, AccountedInit DEF Inv
<1>2. Inv /\ DeletesApart /\ [Next]_vars => Inv'
  BY TypeNext, LockedNext, SizedNext, AccountedNext DEF Inv
<1> QED
  BY <1>1, <1>2, PTL DEF Spec

\* Callers that delete no session while they append to one of its id keep
\* the proviso: every other step leaves the two apart.
LEMMA ApartNext ==
    ASSUME ~DeletesOverlap, TypeInv, DeletesApart, [Next]_vars
    PROVE  DeletesApart'
<1> USE DEF Appending, Critical, Id
<1>t. TypeOK
  BY DEF TypeInv
<1>r. \A t \in Threads : at[t] \in LocalType
  BY <1>t DEF TypeOK
<1>b. ASSUME NEW t \in Threads, Call(t) \/ Progress(t), NEW u \in Threads, u # t
      PROVE  pc'[u] = pc[u] /\ at'[u] = at[u]
  BY ZenonT(60), <1>b, <1>t DEF TypeOK, Call, Progress, CreateSession, GetSession, DeleteSession,
     AppendToCopy, CloneState, CloneEvents, CloneThrows, MergeStates, LookupEntry,
     GetSessionLock, WaitLock, WriteScoped, StoreState, AddEvent, Release, DropLock
<1>1. ASSUME NEW t \in Threads, NEW e \in Events, AppendToCopy(t, e)
      PROVE  DeletesApart'
  <2>1. /\ pc'[t] = "lookup" /\ at'[t].key = at[t].key
        /\ \A u \in Threads : pc[u] = "dropLock" => Id(u) # Id(t)
    BY <1>1, <1>t, <1>r DEF AppendToCopy, TypeOK, LocalType
  <2> QED
    BY <1>1, <1>b, <2>1 DEF Call, DeletesApart
<1>2. ASSUME NEW t \in Threads, NEW k \in Keys, DeleteSession(t, k)
      PROVE  DeletesApart'
  <2>1. /\ pc'[t] = "dropLock" /\ at'[t].key = k
        /\ \A u \in Threads : pc[u] \in Appending => Id(u) # k[2]
    BY <1>2, <1>t, <1>r DEF DeleteSession, TypeOK, LocalType
  <2> QED
    BY <1>2, <1>b, <2>1 DEF Call, DeletesApart
<1>3. ASSUME NEW t \in Threads,
             \/ LookupEntry(t) \/ GetSessionLock(t) \/ WaitLock(t) \/ WriteScoped(t)
             \/ StoreState(t) \/ AddEvent(t)
      PROVE  DeletesApart'
  <2>1. pc[t] \in Appending /\ pc'[t] # "dropLock"
    BY <1>3, <1>t DEF TypeOK, LookupEntry, GetSessionLock, WaitLock, WriteScoped,
       StoreState, AddEvent
  <2>2. at'[t].key = at[t].key
    BY <1>3, <1>t, <1>r DEF TypeOK, LocalType, LookupEntry, GetSessionLock, WaitLock,
       WriteScoped, StoreState, AddEvent
  <2> QED
    BY <1>3, <1>b, <2>1, <2>2 DEF Progress, DeletesApart
<1>4. ASSUME NEW t \in Threads,
             \/ \E k \in Keys : \/ \E given \in InitialScopes : CreateSession(t, k, given)
                               \/ GetSession(t, k)
             \/ CloneState(t) \/ CloneEvents(t) \/ CloneThrows(t) \/ MergeStates(t)
             \/ Release(t) \/ DropLock(t)
      PROVE  DeletesApart'
  <2>1. pc'[t] \notin Appending \cup {"dropLock"}
    BY <1>4, <1>t DEF TypeOK, CreateSession, GetSession, CloneState, CloneEvents,
       CloneThrows, MergeStates, Release, DropLock
  <2> QED
    BY <1>4, <1>b, <2>1 DEF Call, Progress, DeletesApart
<1>5. CASE UNCHANGED vars
  BY <1>5 DEF vars, DeletesApart
<1> QED
  BY <1>1, <1>2, <1>3, <1>4, <1>5, Zenon DEF Next, Call, Progress, AtRest

\* Without overlapping deletes, as the run has it, the proviso holds in every
\* behaviour.
LEMMA DeletesStayApart == ~DeletesOverlap /\ Spec => []DeletesApart
<1>1. Init => Inv /\ DeletesApart
  BY TypeInit, LockedInit, SizedInit, AccountedInit DEF Inv, Init, DeletesApart
<1>2. CASE DeletesOverlap
  BY <1>2
<1>3. CASE ~DeletesOverlap
  <2>1. Inv /\ DeletesApart /\ [Next]_vars => Inv' /\ DeletesApart'
    BY <1>3, TypeNext, LockedNext, SizedNext, AccountedNext, ApartNext DEF Inv
  <2> QED
    BY <1>1, <2>1, PTL DEF Spec
<1> QED
  BY <1>2, <1>3

\* In every behaviour in which no delete overlaps an append to its id:
\* every variable keeps its type, and a caller inside the service always has
\* an entry, a semaphore and an event where the code dereferences them.
THEOREM TypeCorrect == Spec /\ []DeletesApart => []TypeOK
<1>1. Inv => TypeOK
  BY DEF Inv, TypeInv
<1> QED
  BY InvInductive, <1>1, PTL

\* In every behaviour in which no delete overlaps an append to its id:
\* however many callers append to however many sessions, the semaphore of
\* AppendEventAsync keeps all but one of them out of a session's lists.
THEOREM WriterExclusion == Spec /\ []DeletesApart => []OneWriterPerSession
<1>1. Inv => OneWriterPerSession
  BY OneWriter DEF Inv
<1> QED
  BY InvInductive, <1>1, PTL

\* In every behaviour in which no delete overlaps an append to its id:
\* no event that an append stored is overwritten, moved or duplicated.
THEOREM NothingLost == Spec /\ []DeletesApart => []NoLostEvent
<1>1. Inv => NoLostEvent
  BY DEF Inv, Accounted
<1> QED
  BY InvInductive, <1>1, PTL

-----------------------------------------------------------------------------
(* The service implements the abstract store                               *)

\* The abstract log of the store: what the refinement mapping reads.
Histories == [n \in Entries |-> heap[n].events]

LEMMA StoreInit == Init => Store!Init
<1> SUFFICES ASSUME Init PROVE Store!Init
    OBVIOUS
<1>1. 1..nEntries = {}
  BY DEF Init
<1>2. [n \in Entries |-> heap[n].events] = [n \in Entries |-> << >>]
  BY DEF Init
<1> QED
  BY <1>1, <1>2 DEF Init, Store!Init

LEMMA StoreNext ==
    ASSUME Inv, [Next]_vars
    PROVE  [Store!Next]_Store!storeVars
<1> USE DEF Store!storeVars
<1>t. TypeOK /\ Accounted /\ Sized
  BY DEF Inv, TypeInv
<1>h. ASSUME sessions' = sessions, nEntries' = nEntries,
             \A n \in Entries : heap'[n].events = heap[n].events
      PROVE  UNCHANGED Store!storeVars
  <2>1. Histories' = Histories
    BY <1>h DEF Histories
  <2> QED
    BY <1>h, <2>1 DEF Histories
<1>1. ASSUME NEW t \in Threads, NEW k \in Keys, NEW given \in InitialScopes,
             CreateSession(t, k, given)
      PROVE  Store!Next
  <2>1. /\ nEntries + 1 \in Entries /\ heap'[nEntries + 1].events = << >>
        /\ \A n \in Entries : n # nEntries + 1 => heap'[n] = heap[n]
        /\ nEntries' = nEntries + 1 /\ nEntries \in Nat
        /\ sessions' = [sessions EXCEPT ![k] = nEntries + 1]
    BY <1>1, <1>t, ConstantsAssumption DEF CreateSession, TypeOK, Entries
  <2>2. heap[nEntries + 1].events = << >>
    BY <1>t, <2>1 DEF Accounted
  <2>3. Histories' = Histories
    BY <2>1, <2>2 DEF Histories
  <2>4. nEntries + 1 \notin 1..nEntries /\ 1..nEntries' = (1..nEntries) \cup {nEntries + 1}
    BY <2>1
  <2>5. Store!Open(k, nEntries + 1)
    BY <2>1, <2>3, <2>4 DEF Store!Open, Histories
  <2> QED
    BY <2>1, <2>5 DEF Store!Next
<1>2. ASSUME NEW t \in Threads, NEW k \in Keys, DeleteSession(t, k)
      PROVE  Store!Next
  <2>1. Store!Remove(k)
    BY <1>2 DEF DeleteSession, Store!Remove
  <2> QED
    BY <2>1 DEF Store!Next
<1>3. ASSUME NEW t \in Threads, AddEvent(t)
      PROVE  Store!Next
  <2>0. at[t].event \in Events /\ at[t].entry \in Entries /\ at[t].entry \in 1..nEntries
    BY <1>3, <1>t, EntryLocated
    DEF AddEvent, Inv, TypeInv, Addressed, Located, Indexing, Appending, Critical
  <2> PICK e \in Events, m \in Entries : e = at[t].event /\ m = at[t].entry
    BY <2>0
  <2> DEFINE old == heap[m].events
  <2>1. m \in 1..nEntries /\ old \in Seq(Events)
    BY <1>t, <2>0 DEF TypeOK, SessionType
  <2>2. SubSeq(old, 1, at[t].size) = old
    BY <1>3, <1>t, <2>1, SubSeqFull DEF AddEvent, Sized
  <2>3. /\ heap'[m].events = Append(old, e)
        /\ \A n \in Entries : n # m => heap'[n] = heap[n]
        /\ sessions' = sessions /\ nEntries' = nEntries
    BY <1>3, <1>t, <2>1, <2>2 DEF AddEvent, TypeOK, SessionType, dicts
  <2>4. stored[e] = 0
    BY <1>3, <1>t DEF AddEvent, Accounted, Before, Appending, Critical
  <2>5. ~Store!Committed(e)
    <3>1. \A n \in Entries : n # 0
      BY ConstantsAssumption DEF Entries
    <3> QED
      BY <1>t, <2>4, <3>1 DEF Store!Committed, Accounted, NoLostEvent
  <2>6. Histories' = [Histories EXCEPT ![m] = Append(@, e)]
    BY <2>1, <2>3 DEF Histories
  <2>7. Store!Commit(e, m)
    BY <2>1, <2>3, <2>5, <2>6 DEF Store!Commit, Histories
  <2> QED
    BY <2>7 DEF Store!Next
<1>4. ASSUME NEW t \in Threads, StoreState(t)
      PROVE  UNCHANGED Store!storeVars
  <2>1. \A n \in Entries : heap'[n].events = heap[n].events
    BY <1>4, <1>t DEF StoreState, TypeOK, SessionType
  <2> QED
    BY <1>4, <1>h, <2>1 DEF StoreState, dicts
<1>5. ASSUME NEW t \in Threads,
             \/ \E k \in Keys : GetSession(t, k)
             \/ \E e \in Events : AppendToCopy(t, e)
             \/ CloneState(t) \/ CloneEvents(t) \/ CloneThrows(t) \/ MergeStates(t)
             \/ LookupEntry(t) \/ GetSessionLock(t) \/ WaitLock(t) \/ WriteScoped(t)
             \/ Release(t) \/ DropLock(t)
      PROVE  UNCHANGED Store!storeVars
  <2>1. heap' = heap /\ sessions' = sessions /\ nEntries' = nEntries
    BY <1>5 DEF GetSession, AppendToCopy, CloneState, CloneEvents, CloneThrows,
       MergeStates, LookupEntry, GetSessionLock, WaitLock, WriteScoped, Release,
       DropLock, dicts
  <2> QED
    BY <1>h, <2>1
<1>6. CASE UNCHANGED vars
  BY <1>6, <1>h DEF vars
<1> QED
  BY <1>1, <1>2, <1>3, <1>4, <1>5, <1>6 DEF Next, Call, Progress, AtRest

\* A behaviour of the service in which no delete overlaps an append to its id,
\* its interleaved clones, scoped writes and list operations included, is one
\* of the abstract store.  With an overlapping delete two writers add to one
\* list, an event is lost, and it is not (the run MCSessionDelete).
THEOREM ServiceImplementsStore == Spec /\ []DeletesApart => StoreSpec
<1>1. Spec => [][Next]_vars
  BY PTL DEF Spec
<1>2. Inv /\ [Next]_vars => [Store!Next]_Store!storeVars
  BY StoreNext
<1>3. Spec => Init
  BY PTL DEF Spec
<1> QED
  BY <1>1, <1>2, <1>3, InvInductive, StoreInit, PTL DEF StoreSpec, Store!Spec

-----------------------------------------------------------------------------
(* State and history of a stored session                                   *)

\* The stored state of entry n in scope s is what its history replays to.
Matches(n, s) ==
    IF LastSetBy(heap[n].events, s) = {}
      THEN heap[n].state[s] \in {Unset, Given}
      ELSE \A i \in LastSetBy(heap[n].events, s) : heap[n].state[s] = heap[n].events[i]

\* A writer between its two steps has set its own scope's value and no other.
Replayed ==
    /\ \A n \in Entries, s \in Scopes :
           (\A t \in Threads : pc[t] = "add" /\ at[t].entry = n =>
                                   ScopeOf[at[t].event] # s)
           => Matches(n, s)
    /\ \A t \in Threads : pc[t] = "add" /\ ScopeOf[at[t].event] \in Scopes =>
           heap[at[t].entry].state[ScopeOf[at[t].event]] = at[t].event

\* The last event of a history is the last that set its scope, and leaves the
\* others to the events before it.
LEMMA LastSetByAppend ==
    ASSUME NEW old \in Seq(Events), NEW e \in Events, NEW s
    PROVE  LastSetBy(Append(old, e), s) =
               IF ScopeOf[e] = s THEN {Len(old) + 1} ELSE LastSetBy(old, s)
<1> DEFINE new == Append(old, e)
<1>1. /\ Len(new) = Len(old) + 1 /\ Len(old) \in Nat
      /\ new[Len(old) + 1] = e
      /\ \A i \in 1..Len(old) : new[i] = old[i]
  OBVIOUS
<1> HIDE DEF new
<1>2. CASE ScopeOf[e] = s
  <2>1. Len(old) + 1 \in LastSetBy(new, s)
    BY <1>1, <1>2 DEF LastSetBy
  <2>2. ASSUME NEW i \in LastSetBy(new, s) PROVE i = Len(old) + 1
    <3>1. i \in 1..Len(old) + 1 /\ \A j \in i + 1..Len(old) + 1 : ScopeOf[new[j]] # s
      BY <1>1 DEF LastSetBy
    <3>2. CASE i < Len(old) + 1
      <4>1. Len(old) + 1 \in i + 1..Len(old) + 1
        BY <1>1, <3>1, <3>2
      <4>2. QED BY <1>1, <1>2, <3>1, <4>1
    <3>3. QED BY <1>1, <3>1, <3>2
  <2>3. QED BY <1>2, <2>1, <2>2 DEF new
<1>3. CASE ScopeOf[e] # s
  <2>1. ASSUME NEW i \in LastSetBy(new, s) PROVE i \in LastSetBy(old, s)
    <3>1. /\ i \in 1..Len(old) + 1 /\ ScopeOf[new[i]] = s
          /\ \A j \in i + 1..Len(old) + 1 : ScopeOf[new[j]] # s
      BY <1>1 DEF LastSetBy
    <3>2. i \in 1..Len(old)
      BY <1>1, <1>3, <3>1
    <3>3. \A j \in i + 1..Len(old) : j \in 1..Len(old) /\ j \in i + 1..Len(old) + 1
      BY <1>1, <3>2
    <3>4. QED BY <1>1, <3>1, <3>2, <3>3 DEF LastSetBy
  <2>2. ASSUME NEW i \in LastSetBy(old, s) PROVE i \in LastSetBy(new, s)
    <3>1. /\ i \in 1..Len(old) /\ ScopeOf[old[i]] = s
          /\ \A j \in i + 1..Len(old) : ScopeOf[old[j]] # s
      BY DEF LastSetBy
    <3>2. \A j \in i + 1..Len(old) + 1 :
              j = Len(old) + 1 \/ (j \in i + 1..Len(old) /\ j \in 1..Len(old))
      BY <1>1, <3>1
    <3>3. \A j \in i + 1..Len(old) + 1 : ScopeOf[new[j]] # s
      BY <1>1, <1>3, <3>1, <3>2
    <3>4. i \in 1..Len(old) + 1
      BY <1>1, <3>1
    <3>5. QED BY <1>1, <3>1, <3>3, <3>4 DEF LastSetBy
  <2>3. QED BY <1>3, <2>1, <2>2 DEF new, LastSetBy
<1>4. QED BY <1>2, <1>3

LEMMA ReplayedInit == Init => Replayed
<1>1. ASSUME NEW s PROVE LastSetBy(<< >>, s) = {}
  BY DEF LastSetBy
<1>2. QED BY <1>1 DEF Init, Replayed, Matches, NoState

LEMMA ReplayedNext ==
    ASSUME TypeInv, Locked, Sized, Accounted, Replayed, [Next]_vars
    PROVE  Replayed'
<1>t. TypeOK /\ Addressed
  BY DEF TypeInv
<1>r. \A t \in Threads : at[t] \in LocalType
  BY <1>t DEF TypeOK
\* Only one writer of a session is between its two steps.
<1>o. \A t, u \in Threads :
          pc[t] \in {"store", "add"} /\ pc[u] = "add" /\ at[t].entry = at[u].entry => t = u
  BY OneWriter DEF OneWriterPerSession, Critical
<1>a. \A u \in Threads : pc[u] = "add" =>
          at[u].entry \in Entries /\ at[u].entry # nEntries + 1 /\ at[u].event \in Events
  BY <1>t, EntryLocated DEF Indexing, Appending, Critical, Addressed, Located
\* Steps that write no session.
<1>h. ASSUME heap' = heap,
             \A u \in Threads : /\ pc'[u] = "add" <=> pc[u] = "add"
                                /\ pc[u] = "add" => at'[u] = at[u]
      PROVE  Replayed'
  <2>1. \A n \in Entries, s \in Scopes : Matches(n, s) => Matches(n, s)'
    BY <1>h DEF Matches
  <2>2. ASSUME NEW n \in Entries, NEW s \in Scopes,
               \A t \in Threads : pc'[t] = "add" /\ at'[t].entry = n =>
                                      ScopeOf[at'[t].event] # s
        PROVE  Matches(n, s)'
    <3>1. \A t \in Threads : pc[t] = "add" /\ at[t].entry = n => ScopeOf[at[t].event] # s
      BY <1>h, <2>2
    <3> QED
      BY <2>1, <3>1 DEF Replayed
  <2>3. ASSUME NEW t \in Threads, pc'[t] = "add", ScopeOf[at'[t].event] \in Scopes
        PROVE  heap'[at'[t].entry].state[ScopeOf[at'[t].event]] = at'[t].event
    <3>1. pc[t] = "add" /\ at'[t] = at[t]
      BY <1>h, <2>3
    <3> QED
      BY <1>h, <2>3, <3>1 DEF Replayed
  <2> QED
    BY <2>2, <2>3 DEF Replayed
<1>1. ASSUME NEW t \in Threads, NEW k \in Keys, NEW given \in InitialScopes,
             CreateSession(t, k, given)
      PROVE  Replayed'
  <2>1. /\ nEntries + 1 \in Entries
        /\ heap'[nEntries + 1].events = << >>
        /\ \A s \in Scopes : heap'[nEntries + 1].state[s] \in {Unset, Given}
        /\ \A n \in Entries : n # nEntries + 1 => heap'[n] = heap[n]
        /\ pc[t] = "idle" /\ pc'[t] = "cloneState"
        /\ \A u \in Threads : u # t => pc'[u] = pc[u] /\ at'[u] = at[u]
    BY <1>1, <1>t, ConstantsAssumption DEF CreateSession, TypeOK, Entries
  <2>2. \A s : LastSetBy(<< >>, s) = {}
    BY DEF LastSetBy
  <2>3. ASSUME NEW n \in Entries, NEW s \in Scopes,
               \A u \in Threads : pc'[u] = "add" /\ at'[u].entry = n =>
                                      ScopeOf[at'[u].event] # s
        PROVE  Matches(n, s)'
    <3>1. CASE n = nEntries + 1
      BY <2>1, <2>2, <3>1 DEF Matches
    <3>2. CASE n # nEntries + 1
      <4>1. Matches(n, s)
        BY <2>1, <2>3 DEF Replayed
      <4>2. QED BY <2>1, <3>2, <4>1 DEF Matches
    <3> QED
      BY <3>1, <3>2
  <2>4. ASSUME NEW u \in Threads, pc'[u] = "add", ScopeOf[at'[u].event] \in Scopes
        PROVE  heap'[at'[u].entry].state[ScopeOf[at'[u].event]] = at'[u].event
    BY <1>a, <2>1, <2>4 DEF Replayed
  <2> QED
    BY <2>3, <2>4 DEF Replayed
<1>2. ASSUME NEW t \in Threads, StoreState(t)
      PROVE  Replayed'
  <2> DEFINE e == at[t].event
             m == at[t].entry
  <2>1. /\ m \in Entries /\ e \in Events /\ pc[t] = "store" /\ pc'[t] = "add"
        /\ heap[m].state \in States
    BY <1>2, <1>t, EntryLocated
    DEF StoreState, Indexing, Appending, Critical, Addressed, Located, TypeOK, SessionType
  <2>2. /\ heap'[m].state = WithDelta(heap[m].state, e)
        /\ \A n \in Entries : n # m => heap'[n].state = heap[n].state
        /\ \A n \in Entries : heap'[n].events = heap[n].events
    BY <1>2, <1>t, <2>1 DEF StoreState, TypeOK, SessionType
  <2>3. /\ at'[t].entry = m /\ at'[t].event = e
        /\ \A u \in Threads : u # t => pc'[u] = pc[u] /\ at'[u] = at[u]
    BY <1>2, <1>t, <1>r DEF StoreState, TypeOK, LocalType
  <2>4. \A u \in Threads : pc[u] = "add" => at[u].entry # m
    BY <1>o, <2>1
  <2> HIDE DEF e, m
  <2>5. \A s \in Scopes : /\ ScopeOf[e] = s => heap'[m].state[s] = e
                          /\ ScopeOf[e] # s => heap'[m].state[s] = heap[m].state[s]
    BY <2>1, <2>2 DEF WithDelta, States
  <2>6. ASSUME NEW n \in Entries, NEW s \in Scopes,
               \A u \in Threads : pc'[u] = "add" /\ at'[u].entry = n =>
                                      ScopeOf[at'[u].event] # s
        PROVE  Matches(n, s)'
    <3>1. Matches(n, s)
      BY <2>1, <2>3, <2>6 DEF Replayed
    <3>2. heap'[n].state[s] = heap[n].state[s]
      BY <2>1, <2>2, <2>3, <2>5, <2>6
    <3> QED
      BY <2>2, <3>1, <3>2 DEF Matches
  <2>7. ASSUME NEW u \in Threads, pc'[u] = "add", ScopeOf[at'[u].event] \in Scopes
        PROVE  heap'[at'[u].entry].state[ScopeOf[at'[u].event]] = at'[u].event
    <3>1. CASE u = t
      BY <2>3, <2>5, <2>7, <3>1
    <3>2. CASE u # t
      BY <1>a, <2>2, <2>3, <2>4, <2>7, <3>2 DEF Replayed
    <3> QED
      BY <3>1, <3>2
  <2> QED
    BY <2>6, <2>7 DEF Replayed
<1>3. ASSUME NEW t \in Threads, AddEvent(t)
      PROVE  Replayed'
  <2> DEFINE e == at[t].event
             m == at[t].entry
             old == heap[m].events
  <2>1. m \in Entries /\ e \in Events /\ old \in Seq(Events)
    BY <1>3, <1>a, <1>t DEF AddEvent, TypeOK, SessionType
  <2>2. SubSeq(old, 1, at[t].size) = old
    BY <1>3, <2>1, SubSeqFull DEF AddEvent, Sized
  <2>3. /\ heap'[m].events = Append(old, e)
        /\ \A n \in Entries : n # m => heap'[n].events = heap[n].events
        /\ \A n \in Entries : heap'[n].state = heap[n].state
        /\ at' = at /\ pc[t] = "add" /\ pc'[t] = "release"
        /\ \A u \in Threads : u # t => pc'[u] = pc[u]
    BY <1>3, <1>t, <2>1, <2>2 DEF AddEvent, TypeOK, SessionType
  <2>4. \A u \in Threads : u # t /\ pc[u] = "add" => at[u].entry # m
    BY <1>o, <2>3
  <2>5. ScopeOf[e] \in Scopes => heap[m].state[ScopeOf[e]] = e
    BY <2>3 DEF Replayed
  <2>6. /\ \A s : LastSetBy(Append(old, e), s) =
                      IF ScopeOf[e] = s THEN {Len(old) + 1} ELSE LastSetBy(old, s)
        /\ Append(old, e)[Len(old) + 1] = e
        /\ \A s : \A i \in LastSetBy(old, s) : Append(old, e)[i] = old[i]
    <3>1. \A s : LastSetBy(Append(old, e), s) =
                      IF ScopeOf[e] = s THEN {Len(old) + 1} ELSE LastSetBy(old, s)
      <4> HIDE DEF old, e
      <4> QED
        BY <2>1, LastSetByAppend
    <3>2. /\ Append(old, e)[Len(old) + 1] = e
          /\ \A i \in 1..Len(old) : Append(old, e)[i] = old[i]
      <4> HIDE DEF old, e
      <4> QED
        BY <2>1
    <3>3. \A s : \A i \in LastSetBy(old, s) : i \in 1..Len(old)
      BY DEF LastSetBy
    <3> QED
      <4> HIDE DEF old, e
      <4> QED
        BY <3>1, <3>2, <3>3
  <2>7. \A s \in Scopes, n \in Entries :
          (\A u \in Threads : pc[u] = "add" /\ at[u].entry = n => ScopeOf[at[u].event] # s)
          => Matches(n, s)
    BY DEF Replayed
  <2>8. \A u \in Threads : pc[u] = "add" /\ at[u].entry = m => at[u].event = e
    BY <2>4
  <2>9. \A i \in {Len(old) + 1} : Append(old, e)[i] = e
    BY <2>6
  <2>10. old = heap[m].events
    OBVIOUS
  <2> HIDE DEF e, m, old
  <2>11. ASSUME NEW n \in Entries, NEW s \in Scopes,
                \A u \in Threads : pc'[u] = "add" /\ at'[u].entry = n =>
                                       ScopeOf[at'[u].event] # s
         PROVE  Matches(n, s)'
    <3>1. CASE n = m /\ ScopeOf[e] = s
      <4>1. LastSetBy(heap'[n].events, s) = {Len(old) + 1}
        BY <2>3, <2>6, <3>1
      <4>2. \A i \in LastSetBy(heap'[n].events, s) : heap'[n].state[s] = heap'[n].events[i]
        BY <2>1, <2>3, <2>5, <2>9, <3>1, <4>1
      <4>3. LastSetBy(heap'[n].events, s) # {}
        BY <4>1
      <4> QED
        BY <4>2, <4>3 DEF Matches
    <3>2. CASE n = m /\ ScopeOf[e] # s
      <4>1. Matches(m, s)
        BY <2>1, <2>7, <2>8, <3>2
      <4>2. LastSetBy(heap'[m].events, s) = LastSetBy(old, s)
        BY <2>3, <2>6, <3>2
      <4>3. heap'[m].state = heap[m].state
        BY <2>1, <2>3
      <4>4. \A i \in LastSetBy(old, s) : heap'[m].events[i] = old[i]
        BY <2>3, <2>6
      <4>5. CASE LastSetBy(old, s) = {}
        <5>1. heap[m].state[s] \in {Unset, Given}
          BY <2>10, <4>1, <4>5 DEF Matches
        <5> QED
          BY <3>2, <4>2, <4>3, <4>5, <5>1 DEF Matches
      <4>6. CASE LastSetBy(old, s) # {}
        <5>1. \A i \in LastSetBy(old, s) : heap[m].state[s] = old[i]
          BY <2>10, <4>1, <4>6 DEF Matches
        <5> QED
          BY <3>2, <4>2, <4>3, <4>4, <4>6, <5>1 DEF Matches
      <4> QED
        BY <4>5, <4>6
    <3>3. CASE n # m
      <4>1. Matches(n, s)
        <5>1. \A u \in Threads : pc[u] = "add" /\ at[u].entry = n =>
                  pc'[u] = "add" /\ at'[u].entry = n
          BY <2>3, <3>3 DEF m
        <5> QED
          BY <2>3, <2>7, <2>11, <5>1
      <4> QED
        BY <2>3, <3>3, <4>1 DEF Matches
    <3> QED
      BY <3>1, <3>2, <3>3
  <2>12. ASSUME NEW u \in Threads, pc'[u] = "add", ScopeOf[at'[u].event] \in Scopes
         PROVE  heap'[at'[u].entry].state[ScopeOf[at'[u].event]] = at'[u].event
    <3>1. pc[u] = "add" /\ at'[u] = at[u]
      BY <2>3, <2>12
    <3>2. heap[at[u].entry].state[ScopeOf[at[u].event]] = at[u].event /\ at[u].entry \in Entries
      BY <1>a, <2>12, <3>1 DEF Replayed
    <3> QED
      BY <2>3, <3>1, <3>2
  <2> QED
    BY <2>11, <2>12 DEF Replayed
<1>4. ASSUME NEW t \in Threads,
             \/ \E k \in Keys : GetSession(t, k) \/ DeleteSession(t, k)
             \/ \E e \in Events : AppendToCopy(t, e)
             \/ CloneState(t) \/ CloneEvents(t) \/ CloneThrows(t) \/ MergeStates(t)
             \/ LookupEntry(t) \/ GetSessionLock(t) \/ WaitLock(t) \/ WriteScoped(t)
             \/ Release(t) \/ DropLock(t)
      PROVE  Replayed'
  <2>1. heap' = heap
    BY <1>4 DEF GetSession, DeleteSession, AppendToCopy, CloneState, CloneEvents,
       CloneThrows, MergeStates, LookupEntry, GetSessionLock, WaitLock, WriteScoped,
       Release, DropLock
  <2>2. \A u \in Threads : u # t => pc'[u] = pc[u] /\ at'[u] = at[u]
    BY <1>4, <1>t DEF TypeOK, GetSession, DeleteSession, AppendToCopy, CloneState,
       CloneEvents, CloneThrows, MergeStates, LookupEntry, GetSessionLock, WaitLock,
       WriteScoped, Release, DropLock
  <2>3. pc[t] # "add" /\ pc'[t] # "add"
    <3>1. CASE \/ \E k \in Keys : GetSession(t, k) \/ DeleteSession(t, k)
               \/ \E e \in Events : AppendToCopy(t, e)
      BY <3>1, <1>t DEF TypeOK, GetSession, DeleteSession, AppendToCopy
    <3>2. CASE CloneState(t) \/ CloneEvents(t) \/ CloneThrows(t) \/ MergeStates(t)
      BY <3>2, <1>t DEF TypeOK, CloneState, CloneEvents, CloneThrows, MergeStates, Cloning
    <3>3. CASE LookupEntry(t)
      BY <3>3, <1>t DEF TypeOK, LookupEntry
    <3>4. CASE GetSessionLock(t) \/ WaitLock(t) \/ Release(t) \/ DropLock(t)
      BY <3>4, <1>t DEF TypeOK, GetSessionLock, WaitLock, Release, DropLock
    <3>5. CASE WriteScoped(t)
      BY <3>5, <1>t DEF TypeOK, WriteScoped
    <3> QED
      BY <1>4, <3>1, <3>2, <3>3, <3>4, <3>5
  <2> QED
    BY <1>h, <2>1, <2>2, <2>3
<1>5. CASE UNCHANGED vars
  BY <1>h, <1>5 DEF vars
<1> QED
  BY <1>1, <1>2, <1>3, <1>4, <1>5 DEF Next, Call, Progress, AtRest

\* In every behaviour in which no delete overlaps an append to its id:
\* state and history of a session, written in two steps of an append, never
\* drift apart: at rest the state is what the history replays to.
THEOREM StateFollowsHistory == Spec /\ []DeletesApart => []StateMatchesHistory
<1>1. Init => Replayed
  BY ReplayedInit
<1>2. Inv /\ Replayed /\ [Next]_vars => Replayed'
  BY ReplayedNext DEF Inv
<1>3. Inv /\ Replayed => StateMatchesHistory
  BY DEF Replayed, Matches, StateMatchesHistory, Critical
<1> QED
  BY <1>1, <1>2, <1>3, InvInductive, PTL DEF Spec

-----------------------------------------------------------------------------
(* The order of events in the copies of the callers                        *)

\* Events of a copy belong to the entry that it was cloned from.
CopyLinked(t) ==
    /\ pc[t] = "cloneState" => copy[t].events = << >>
    /\ pc[t] = "cloneEvents" => copy[t].entry = at[t].entry
    /\ copy[t].live \/ pc[t] \in {"cloneEvents", "overlay"} \/ copy[t].events # << >>
       => copy[t].entry \in Entries

CopySent ==
    \A t \in Threads : \A i \in 1..Len(copy[t].events) : copy[t].events[i] \in sent

\* An event on its way into a history is at most the last of its caller's copy.
CopyPending ==
    \A t, u \in Threads : pc[t] \in Before =>
        \A i \in 1..Len(copy[u].events) :
            copy[u].events[i] = at[t].event => u = t /\ i = Len(copy[u].events)

\* Two events of a list that are placed at n are in n's history in that order.
InOrder(events, place, n, history) ==
    \A i, j \in 1..Len(events) :
        i < j /\ place[events[i]] = n /\ place[events[j]] = n =>
        \E p, q \in 1..Len(history) :
            p < q /\ history[p] = events[i] /\ history[q] = events[j]

CopyOrdered(t) ==
    InOrder(copy[t].events, stored, copy[t].entry, heap[copy[t].entry].events)

Copied ==
    /\ \A t \in Threads : CopyLinked(t)
    /\ CopySent
    /\ CopyPending
    /\ \A t \in Threads : CopyOrdered(t)

LEMMA CopiedInit == Init => Copied
BY DEF Init, Copied, CopyLinked, CopySent, CopyPending, CopyOrdered, InOrder, NoCopy, Before,
   Appending, Critical

LEMMA CopiedNext ==
    ASSUME TypeInv, Sized, Accounted, Copied, [Next]_vars
    PROVE  Copied'
<1>t. TypeOK /\ Addressed
  BY DEF TypeInv
<1>r. /\ \A t \in Threads : at[t] \in LocalType /\ copy[t] \in CopyType
      /\ \A n \in Entries : heap[n] \in SessionType
  BY <1>t DEF TypeOK
<1>c. NoCopy.events = << >> /\ NoCopy.live = FALSE
  BY DEF NoCopy
\* Steps after which each copy has the events it had, or none.
<1>h. ASSUME stored' = stored, sent \subseteq sent',
             \A n \in Entries : heap'[n].events = heap[n].events,
             \A u \in Threads : \/ copy'[u].events = << >>
                                \/ /\ copy'[u].events = copy[u].events
                                   /\ copy'[u].entry = copy[u].entry,
             \A u \in Threads : pc'[u] \in Before =>
                                   pc[u] \in Before /\ at'[u].event = at[u].event,
             \A u \in Threads : CopyLinked(u)'
      PROVE  Copied'
  <2>1. CopySent'
    BY <1>h DEF Copied, CopySent
  <2>2. CopyPending'
    BY <1>h DEF Copied, CopyPending
  <2>3. ASSUME NEW u \in Threads PROVE CopyOrdered(u)'
    <3>1. CASE copy'[u].events = << >>
      BY <3>1 DEF CopyOrdered, InOrder
    <3>2. CASE copy[u].events # << >> /\ copy'[u].events = copy[u].events
               /\ copy'[u].entry = copy[u].entry
      <4>1. copy[u].entry \in Entries /\ CopyOrdered(u)
        BY <3>2 DEF Copied, CopyLinked
      <4>2. heap'[copy'[u].entry].events = heap[copy[u].entry].events
        BY <1>h, <3>2, <4>1
      <4> QED
        BY <1>h, <3>2, <4>1, <4>2 DEF CopyOrdered
    <3> QED
      BY <1>h, <3>1, <3>2
  <2> QED
    BY <1>h, <2>1, <2>2, <2>3 DEF Copied
<1>1. ASSUME NEW t \in Threads,
             \/ \E k \in Keys : \/ \E given \in InitialScopes : CreateSession(t, k, given)
                                \/ GetSession(t, k) \/ DeleteSession(t, k)
             \/ CloneThrows(t)
      PROVE  Copied'
  <2>1. /\ stored' = stored /\ sent' = sent /\ copy' = [copy EXCEPT ![t] = NoCopy]
        /\ pc'[t] \notin Before /\ pc'[t] \notin {"cloneEvents", "overlay"}
        /\ \A u \in Threads : u # t => pc'[u] = pc[u] /\ at'[u] = at[u]
    <3> USE DEF Before, Appending, Critical
    <3>1. CASE \E k \in Keys, given \in InitialScopes : CreateSession(t, k, given)
      BY <3>1, <1>t DEF TypeOK, CreateSession
    <3>2. CASE \E k \in Keys : GetSession(t, k)
      BY <3>2, <1>t DEF TypeOK, GetSession
    <3>3. CASE \E k \in Keys : DeleteSession(t, k)
      BY <3>3, <1>t DEF TypeOK, DeleteSession
    <3>4. CASE CloneThrows(t)
      BY <3>4, <1>t DEF TypeOK, CloneThrows
    <3> QED
      BY <1>1, <3>1, <3>2, <3>3, <3>4
  <2>2. \A n \in Entries : heap'[n].events = heap[n].events
    <3>1. ASSUME NEW k \in Keys, NEW given \in InitialScopes, CreateSession(t, k, given)
          PROVE  \A n \in Entries : heap'[n].events = heap[n].events
      <4>1. heap[nEntries + 1].events = << >> /\ nEntries + 1 \in Entries
        BY <3>1, <1>t, ConstantsAssumption DEF CreateSession, TypeOK, Entries, Accounted
      <4> QED
        BY <3>1, <4>1, <1>t DEF CreateSession, TypeOK
    <3>2. ASSUME NEW k \in Keys, GetSession(t, k) \/ DeleteSession(t, k)
          PROVE  heap' = heap
      BY <3>2 DEF GetSession, DeleteSession
    <3>3. CloneThrows(t) => heap' = heap
      BY DEF CloneThrows
    <3> QED
      BY <1>1, <3>1, <3>2, <3>3
  <2>3. copy'[t] = NoCopy /\ \A u \in Threads : u # t => copy'[u] = copy[u]
    BY <2>1, <1>t DEF TypeOK
  <2>4. \A u \in Threads : CopyLinked(u)'
    BY <1>c, <2>1, <2>3 DEF Copied, CopyLinked
  <2> QED
    BY <1>c, <1>h, <2>1, <2>2, <2>3, <2>4
<1>2. ASSUME NEW t \in Threads, CloneState(t) \/ MergeStates(t)
      PROVE  Copied'
  <2>1. /\ stored' = stored /\ sent' = sent /\ heap' = heap /\ at' = at
        /\ pc'[t] \notin Before /\ pc'[t] # "cloneState"
        /\ \A u \in Threads : u # t => pc'[u] = pc[u] /\ copy'[u] = copy[u]
    BY <1>2, <1>t DEF TypeOK, CloneState, MergeStates, Before, Appending, Critical
  <2>2. copy'[t].events = copy[t].events
    <3>1. CASE CloneState(t)
      BY <3>1, <1>t, <1>r DEF TypeOK, CopyType, CloneState
    <3>2. CASE MergeStates(t)
      BY <3>2, <1>t, <1>r DEF TypeOK, CopyType, MergeStates
    <3> QED
      BY <1>2, <3>1, <3>2
  <2>3. CASE CloneState(t)
    <3>1. copy[t].events = << >> /\ pc'[t] = "cloneEvents"
      BY <2>3, <1>t DEF CloneState, Copied, CopyLinked, TypeOK
    <3>2. copy'[t].entry = at[t].entry /\ at[t].entry \in Entries
      BY <2>3, <1>t, <1>r, EntryLocated DEF CloneState, TypeOK, CopyType, Indexing
    <3>3. \A u \in Threads : CopyLinked(u)'
      BY <2>1, <2>2, <3>1, <3>2 DEF Copied, CopyLinked
    <3> QED
      BY <1>h, <2>1, <2>2, <3>1, <3>3
  <2>4. CASE MergeStates(t)
    <3>1. copy'[t].entry = copy[t].entry /\ pc[t] = "overlay" /\ pc'[t] = "idle"
      BY <2>4, <1>t, <1>r DEF MergeStates, TypeOK, CopyType
    <3>2. \A u \in Threads : CopyLinked(u)'
      BY <2>1, <2>2, <3>1 DEF Copied, CopyLinked
    <3> QED
      BY <1>h, <2>1, <2>2, <3>1, <3>2
  <2> QED
    BY <1>2, <2>3, <2>4
<1>3. ASSUME NEW t \in Threads, CloneEvents(t)
      PROVE  Copied'
  <2> PICK n \in Entries : n = at[t].entry
    BY <1>3, EntryLocated DEF CloneEvents, Indexing
  <2>1. /\ stored' = stored /\ sent' = sent /\ heap' = heap /\ at' = at
        /\ pc[t] = "cloneEvents" /\ pc'[t] = "overlay"
        /\ \A u \in Threads : u # t => pc'[u] = pc[u] /\ copy'[u] = copy[u]
    BY <1>3, <1>t DEF TypeOK, CloneEvents
  <2>2. copy'[t].events = heap[n].events /\ copy'[t].entry = copy[t].entry
    BY <1>3, <1>t, <1>r DEF TypeOK, CopyType, CloneEvents
  <2>3. copy[t].entry = n /\ copy'[t].entry = n
    BY <2>1, <2>2 DEF Copied, CopyLinked
  <2>4. \A u \in Threads : CopyLinked(u)'
    BY <2>1, <2>3 DEF Copied, CopyLinked
  <2>5. \A i \in 1..Len(heap[n].events) : heap[n].events[i] \in Events
    BY <1>r DEF SessionType
  <2>6. \A i \in 1..Len(heap[n].events) :
            heap[n].events[i] \in sent /\ stored[heap[n].events[i]] # 0
    <3>1. n # 0
      BY ConstantsAssumption DEF Entries
    <3>2. \A i \in 1..Len(heap[n].events) : stored[heap[n].events[i]] = n
      BY DEF Accounted, NoLostEvent
    <3> QED
      BY <2>5, <3>1, <3>2 DEF Accounted
  <2>7. CopySent'
    BY <2>1, <2>2, <2>6 DEF Copied, CopySent
  <2>8. CopyPending'
    <3>1. ASSUME NEW v \in Threads, NEW u \in Threads, pc'[v] \in Before,
                 NEW i \in 1..Len(copy'[u].events), copy'[u].events[i] = at'[v].event
          PROVE  u = v /\ i = Len(copy'[u].events)
      <4>1. pc[v] \in Before /\ stored[at[v].event] = 0
        BY <2>1, <3>1 DEF Accounted, Before, Appending, Critical
      <4>2. u # t
        BY <2>1, <2>2, <2>6, <3>1, <4>1
      <4> QED
        BY <2>1, <3>1, <4>1, <4>2 DEF Copied, CopyPending
    <3> QED
      BY <3>1 DEF CopyPending
  <2>9. ASSUME NEW u \in Threads PROVE CopyOrdered(u)'
    <3>1. CASE u = t
      BY <2>1, <2>2, <2>3, <3>1 DEF CopyOrdered, InOrder
    <3>2. CASE u # t
      BY <2>1, <3>2 DEF Copied, CopyOrdered
    <3> QED
      BY <3>1, <3>2
  <2> QED
    BY <2>4, <2>7, <2>8, <2>9 DEF Copied
<1>4. ASSUME NEW t \in Threads, NEW e \in Events, AppendToCopy(t, e)
      PROVE  Copied'
  <2>1. /\ stored' = stored /\ heap' = heap /\ sent' = sent \cup {e} /\ e \notin sent
        /\ copy[t].live /\ pc[t] = "idle" /\ pc'[t] = "lookup"
        /\ \A u \in Threads : u # t => pc'[u] = pc[u] /\ copy'[u] = copy[u] /\ at'[u] = at[u]
    BY <1>4, <1>t DEF TypeOK, AppendToCopy
  <2>2. /\ copy'[t].entry = copy[t].entry /\ copy'[t].live
        /\ copy'[t].events = copy[t].events \/ copy'[t].events = Append(copy[t].events, e)
        /\ at'[t].event = e
    <3>1. CASE e \in Partials
      BY <1>4, <3>1, <1>t, <1>r, <2>1 DEF TypeOK, LocalType, AppendToCopy
    <3>2. CASE e \notin Partials
      BY <1>4, <3>2, <1>t, <1>r, <2>1 DEF TypeOK, CopyType, LocalType, AppendToCopy
    <3> QED
      BY <3>1, <3>2
  <2>3. PICK old \in Seq(Events) : old = copy[t].events
    BY <1>r DEF CopyType
  <2>4. PICK new \in Seq(Events) : new = Append(old, e)
    <3>1. Append(old, e) \in Seq(Events)
      BY <1>4, <2>3
    <3> QED
      BY <3>1
  <2>5. /\ Len(old) \in Nat /\ Len(new) = Len(old) + 1 /\ new[Len(old) + 1] = e
        /\ \A i \in 1..Len(old) : new[i] = old[i]
    BY <2>3, <2>4
  <2>6. copy'[t].events = old \/ copy'[t].events = new
    BY <2>2, <2>3, <2>4
  <2>7. \A i \in 1..Len(old) : old[i] \in sent /\ old[i] # e
    BY <2>1, <2>3 DEF Copied, CopySent
  <2>8. \A u \in Threads : CopyLinked(u)'
    BY <2>1, <2>2 DEF Copied, CopyLinked
  <2>9. CopySent'
    <3>1. \A i \in 1..Len(new) : new[i] \in sent'
      BY <2>1, <2>5, <2>7
    <3>2. \A i \in 1..Len(copy'[t].events) : copy'[t].events[i] \in sent'
      BY <2>1, <2>6, <2>7, <3>1
    <3>3. \A u \in Threads : u # t =>
            \A i \in 1..Len(copy'[u].events) : copy'[u].events[i] \in sent'
      BY <2>1 DEF Copied, CopySent
    <3> QED
      BY <3>2, <3>3 DEF CopySent
  <2>10. CopyPending'
    <3>1. ASSUME NEW v \in Threads, NEW u \in Threads, pc'[v] \in Before,
                 NEW i \in 1..Len(copy'[u].events), copy'[u].events[i] = at'[v].event
          PROVE  u = v /\ i = Len(copy'[u].events)
      <4>1. CASE v = t
        <5>1. u = t
          BY <2>1, <2>2, <3>1, <4>1 DEF Copied, CopySent
        <5> QED
          BY <2>2, <2>5, <2>6, <2>7, <3>1, <4>1, <5>1
      <4>2. CASE v # t
        <5>1. pc[v] \in Before /\ at'[v].event = at[v].event /\ at[v].event \in sent
          BY <2>1, <3>1, <4>2 DEF Accounted
        <5>2. at[v].event # e
          BY <2>1, <5>1
        <5>3. CASE u # t
          BY <2>1, <3>1, <5>1, <5>3 DEF Copied, CopyPending
        <5>4. CASE u = t
          <6>1. i \in 1..Len(old) /\ old[i] = at[v].event
            BY <2>5, <2>6, <3>1, <5>1, <5>2, <5>4
          <6> QED
            BY <2>3, <3>1, <4>2, <5>1, <5>4, <6>1 DEF Copied, CopyPending
        <5> QED
          BY <5>3, <5>4
      <4> QED
        BY <4>1, <4>2
    <3> QED
      BY <3>1 DEF CopyPending
  <2>11. ASSUME NEW u \in Threads PROVE CopyOrdered(u)'
    <3>1. CASE u # t
      BY <2>1, <3>1 DEF Copied, CopyOrdered
    <3>2. CASE u = t
      <4>1. stored[e] = 0 /\ copy[t].entry # 0
        BY <2>1, ConstantsAssumption DEF Accounted, Copied, CopyLinked, Entries
      <4> DEFINE n == copy[t].entry
                 h == heap[n].events
      <4>2. InOrder(old, stored, n, h)
        BY <2>3 DEF Copied, CopyOrdered
      <4>3. stored[e] # n
        BY <4>1
      <4>4. /\ stored' = stored /\ copy'[u].entry = n
            /\ heap'[copy'[u].entry].events = h
        BY <2>1, <2>2, <3>2
      <4> HIDE DEF n, h
      <4>5. InOrder(new, stored, n, h)
        <5>1. ASSUME NEW i \in 1..Len(new), stored[new[i]] = n
              PROVE  i \in 1..Len(old) /\ new[i] = old[i]
          BY <2>5, <4>3, <5>1
        <5>2. ASSUME NEW i \in 1..Len(new), NEW j \in 1..Len(new), i < j,
                     stored[new[i]] = n, stored[new[j]] = n
              PROVE  \E p, q \in 1..Len(h) : p < q /\ h[p] = new[i] /\ h[q] = new[j]
          <6>1. /\ i \in 1..Len(old) /\ new[i] = old[i]
                /\ j \in 1..Len(old) /\ new[j] = old[j]
            BY <5>1, <5>2
          <6> QED
            BY <4>2, <5>2, <6>1 DEF InOrder
        <5> QED
          BY <5>2 DEF InOrder
      <4>6. InOrder(copy'[u].events, stored, n, h)
        BY <2>6, <3>2, <4>2, <4>5
      <4> QED
        BY <4>4, <4>6 DEF CopyOrdered
    <3> QED
      BY <3>1, <3>2
  <2> QED
    BY <2>8, <2>9, <2>10, <2>11 DEF Copied
<1>5. ASSUME NEW t \in Threads, AddEvent(t)
      PROVE  Copied'
  <2>1. at[t].entry \in Entries /\ at[t].event \in Events
    BY <1>5, <1>t, EntryLocated
    DEF AddEvent, Indexing, Appending, Critical, Addressed, Located
  <2> PICK e \in Events, m \in Entries : e = at[t].event /\ m = at[t].entry
    BY <2>1
  <2>2. PICK old \in Seq(Events) : old = heap[m].events
    BY <1>r DEF SessionType
  <2>3. SubSeq(old, 1, at[t].size) = old
    BY <1>5, <2>2, SubSeqFull DEF AddEvent, Sized
  <2>4. PICK new \in Seq(Events) : new = Append(old, e)
    <3>1. Append(old, e) \in Seq(Events)
      BY <2>2
    <3> QED
      BY <3>1
  <2>5. /\ Len(old) \in Nat /\ Len(new) = Len(old) + 1 /\ new[Len(old) + 1] = e
        /\ \A i \in 1..Len(old) : i \in 1..Len(new) /\ new[i] = old[i]
    BY <2>4
  <2>6. /\ heap'[m].events = new
        /\ \A n \in Entries : n # m => heap'[n].events = heap[n].events
    BY <1>5, <1>t, <2>2, <2>3, <2>4 DEF AddEvent, TypeOK, SessionType
  <2>7. /\ sent' = sent /\ copy' = copy /\ at' = at /\ pc[t] = "add" /\ pc'[t] = "release"
        /\ \A u \in Threads : u # t => pc'[u] = pc[u]
        /\ stored'[e] = m /\ \A d \in Events : d # e => stored'[d] = stored[d]
    BY <1>5, <1>t DEF AddEvent, TypeOK
  <2>8. pc[t] \in Before /\ pc'[t] \notin Before
    BY <2>7 DEF Before, Appending, Critical
  <2>9. /\ \A u \in Threads : CopyLinked(u)'
        /\ CopySent'
    BY <2>7 DEF Copied, CopyLinked, CopySent
  <2>10. CopyPending'
    BY <2>7, <2>8 DEF Copied, CopyPending
  <2>11. ASSUME NEW u \in Threads PROVE CopyOrdered(u)'
    <3>1. PICK c \in Seq(Events) : c = copy[u].events
      BY <1>r DEF CopyType
    <3>2. PICK n \in 0..MaxEntries : n = copy[u].entry
      BY <1>r DEF CopyType
    <3>3. \A i \in 1..Len(c) : c[i] = e => i = Len(c)
      BY <2>8, <3>1 DEF Copied, CopyPending
    <3>4. ASSUME NEW i \in 1..Len(c), NEW j \in 1..Len(c), i < j,
                 stored'[c[i]] = n, stored'[c[j]] = n
          PROVE  \E p, q \in 1..Len(heap'[n].events) :
                   p < q /\ heap'[n].events[p] = c[i] /\ heap'[n].events[q] = c[j]
      <4>1. c[i] # e /\ c[i] \in Events /\ c[j] \in Events /\ stored[c[i]] = n
        BY <2>7, <3>3, <3>4
      <4>2. n \in Entries
        BY <3>1, <3>2, <3>4 DEF Copied, CopyLinked
      <4>3. CASE c[j] = e
        <5>1. n = m
          BY <2>7, <3>4, <4>3
        <5>2. PICK p \in 1..Len(old) : old[p] = c[i]
          <6>1. stored[c[i]] = m /\ m # 0
            BY <4>1, <5>1, ConstantsAssumption DEF Entries
          <6>2. \E p \in 1..Len(heap[m].events) : heap[m].events[p] = c[i]
            BY SMTT(30), <4>1, <6>1 DEF Accounted, NoLostEvent
          <6> QED
            BY <2>2, <6>2
        <5>3. p \in 1..Len(new) /\ Len(old) + 1 \in 1..Len(new) /\ p < Len(old) + 1
          BY <2>5
        <5> QED
          BY <2>5, <2>6, <4>3, <5>1, <5>2, <5>3
      <4>4. CASE c[j] # e
        <5>1. stored[c[j]] = n
          BY <2>7, <3>4, <4>1, <4>4
        <5>2. PICK p \in 1..Len(heap[n].events), q \in 1..Len(heap[n].events) :
                 p < q /\ heap[n].events[p] = c[i] /\ heap[n].events[q] = c[j]
          <6>1. InOrder(c, stored, n, heap[n].events)
            BY <3>1, <3>2 DEF Copied, CopyOrdered
          <6> QED
            BY <3>4, <4>1, <5>1, <6>1 DEF InOrder
        <5>3. CASE n = m
          <6>1. heap'[n].events = new /\ p \in 1..Len(old) /\ q \in 1..Len(old)
                /\ old[p] = c[i] /\ old[q] = c[j]
            BY <2>2, <2>6, <5>2, <5>3
          <6> QED
            BY <2>5, <5>2, <6>1
        <5>4. CASE n # m
          BY <2>6, <4>2, <5>2, <5>4
        <5> QED
          BY <5>3, <5>4
      <4> QED
        BY <4>3, <4>4
    <3> QED
      BY SMTT(30), <2>7, <3>1, <3>2, <3>4 DEF CopyOrdered, InOrder
  <2> QED
    BY <2>9, <2>10, <2>11 DEF Copied
<1>6. ASSUME NEW t \in Threads,
             \/ LookupEntry(t) \/ GetSessionLock(t) \/ WaitLock(t) \/ WriteScoped(t)
             \/ StoreState(t) \/ Release(t) \/ DropLock(t)
      PROVE  Copied'
  <2>1. copy' = copy /\ stored' = stored /\ sent' = sent
    BY <1>6 DEF LookupEntry, GetSessionLock, WaitLock, WriteScoped, StoreState, Release,
       DropLock
  <2>2. \A n \in Entries : heap'[n].events = heap[n].events
    <3>1. CASE StoreState(t)
      BY <1>t, <3>1 DEF StoreState, TypeOK, SessionType
    <3>2. CASE ~StoreState(t)
      BY <1>6, <3>2 DEF LookupEntry, GetSessionLock, WaitLock, WriteScoped, Release,
         DropLock
    <3> QED
      BY <3>1, <3>2
  <2>3. \A u \in Threads : u # t => pc'[u] = pc[u] /\ at'[u] = at[u]
    BY <1>6, <1>t DEF TypeOK, LookupEntry, GetSessionLock, WaitLock, WriteScoped,
       StoreState, Release, DropLock
  <2>4. /\ pc'[t] \notin Cloning \cup {"overlay"}
        /\ pc'[t] \in Before => pc[t] \in Before
    <3>1. CASE LookupEntry(t)
      BY <1>t, <3>1 DEF TypeOK, LookupEntry, Cloning, Before, Appending, Critical
    <3>2. CASE WriteScoped(t)
      BY <1>t, <3>2 DEF TypeOK, WriteScoped, Cloning, Before, Appending, Critical
    <3>3. CASE GetSessionLock(t) \/ WaitLock(t) \/ StoreState(t)
      BY <1>t, <3>3 DEF TypeOK, GetSessionLock, WaitLock, StoreState, Cloning, Before,
         Appending, Critical
    <3>4. CASE Release(t) \/ DropLock(t)
      BY <1>t, <3>4 DEF TypeOK, Release, DropLock, Cloning, Before, Appending, Critical
    <3> QED
      BY <1>6, <3>1, <3>2, <3>3, <3>4
  <2>5. at'[t].event = at[t].event
    <3>1. CASE LookupEntry(t)
      BY <1>t, <1>r, <3>1 DEF TypeOK, LocalType, LookupEntry
    <3>2. CASE GetSessionLock(t)
      BY <1>t, <1>r, <3>2 DEF TypeOK, LocalType, GetSessionLock
    <3>3. CASE StoreState(t)
      BY <1>t, <1>r, <3>3 DEF TypeOK, LocalType, StoreState
    <3>4. CASE WaitLock(t) \/ WriteScoped(t) \/ Release(t) \/ DropLock(t)
      BY <3>4 DEF WaitLock, WriteScoped, Release, DropLock
    <3> QED
      BY <1>6, <3>1, <3>2, <3>3, <3>4
  <2>6. \A u \in Threads : CopyLinked(u)'
    BY <2>1, <2>3, <2>4 DEF Copied, CopyLinked, Cloning
  <2> QED
    BY <1>h, <2>1, <2>2, <2>3, <2>4, <2>5, <2>6
<1>7. CASE UNCHANGED vars
  BY <1>7 DEF vars, Copied, CopyLinked, CopySent, CopyPending, CopyOrdered
<1> QED
  BY <1>1, <1>2, <1>3, <1>4, <1>5, <1>6, <1>7, Zenon DEF Next, Call, Progress, AtRest

\* In every behaviour in which no delete overlaps an append to its id:
\* however other callers' appends come in between, a caller's copy never
\* shows two stored events in another order than the service keeps.
THEOREM CopyKeepsOrder == Spec /\ []DeletesApart => []CopyOrderKept
<1>1. Init => Copied
  BY CopiedInit
<1>2. Inv /\ Copied /\ [Next]_vars => Copied'
  BY CopiedNext DEF Inv
<1>3. Copied => CopyOrderKept
  BY DEF Copied, CopyOrdered, InOrder, CopyOrderKept
<1> QED
  BY <1>1, <1>2, <1>3, InvInductive, PTL DEF Spec
=============================================================================
