------------------------ MODULE FunctionCallsProofs -------------------------
(***************************************************************************)
(* The semaphore of FunctionCallHandler keeps its permits, nothing of the  *)
(* handler outlives it, and its event answers the calls in their order,    *)
(* for any number of function calls and of workers.                        *)
(*                                                                         *)
(* A release hands the permit to the head of the queue, so the proof needs *)
(* to know that the head is a task that waits, that no task is queued      *)
(* twice, and that a call Select has not come to is not in the queue yet.  *)
(* For the merged response it needs to know what has become of a task that *)
(* is over (Settled), and what the recursive function Answered lists, by   *)
(* induction on the number of calls (Lists).                               *)
(***************************************************************************)
EXTENDS FunctionCalls, TLAPS, FiniteSetTheorems, SequenceTheorems, NaturalsInduction,
        WellFoundedInduction

Types ==
    /\ pc \in [Calls -> Places]
    /\ next \in Nat
    /\ permits \in Nat
    /\ queue \in Seq(Calls)

\* The queue is the waiting tasks, each once.
Queued ==
    /\ \A i \in 1..Len(queue) : pc[queue[i]] = "waiting"
    /\ \A c \in Calls : pc[c] = "waiting" => \E i \in 1..Len(queue) : queue[i] = c
    /\ \A i, j \in 1..Len(queue) : queue[i] = queue[j] => i = j

\* Select has not come to the later calls.
NotBegun == \A c \in Calls : c >= next => pc[c] = "new"

Balanced ==
    /\ Cardinality(Inside) + permits = MaxWorkers
    /\ queue # << >> => permits = 0

Inv == Types /\ Queued /\ NotBegun /\ Balanced /\ NothingRunsOn

-----------------------------------------------------------------------------
(* What the actions do to the semaphore                                    *)

\* A task that goes on with its permit.
Pass(c) ==
    /\ pc[c] \in Working
    /\ \E p \in Working : pc' = [pc EXCEPT ![c] = p]
    /\ UNCHANGED <<next, permits, queue, handler>>

\* A task that ends.
Leave(c) ==
    /\ pc[c] \in Working
    /\ \E over \in Over : Release(c, over)
    /\ UNCHANGED <<next, handler>>

LEMMA TaskShape ==
    ASSUME NEW c \in Calls, Task(c)
    PROVE  Pass(c) \/ Leave(c)
<1> USE DEF Working, Over
<1>1. CASE Before(c)
  BY <1>1 DEF Before, GoOn, Pass
<1>2. CASE ToolReturns(c) \/ ToolThrows(c)
  BY <1>2 DEF ToolReturns, ToolThrows, GoOn, Pass
<1>3. CASE PluginOnError(c)
  BY <1>3 DEF PluginOnError, GoOn, Pass
<1>4. CASE AgentOnError(c)
  <2>1. CASE response[c] = "none"
    BY <1>4, <2>1 DEF AgentOnError, GoOn, Pass
  <2>2. CASE response[c] # "none"
    BY <1>4, <2>2 DEF AgentOnError, GoOn, Pass
  <2> QED BY <2>1, <2>2
<1>5. CASE After(c)
  BY <1>5 DEF After, GoOn, Pass
<1>6. CASE Finish(c)
  <2>1. CASE response[c] = "none" /\ kind[c] = "long"
    BY <1>6, <2>1 DEF Finish, Leave
  <2>2. CASE ~(response[c] = "none" /\ kind[c] = "long")
    BY <1>6, <2>2 DEF Finish, Leave
  <2> QED BY <2>1, <2>2
<1>7. CASE CallbackThrows(c)
  BY <1>7 DEF CallbackThrows, Leave
<1> QED BY <1>1, <1>2, <1>3, <1>4, <1>5, <1>6, <1>7 DEF Task

\* The handler comes to an end only in Join, and nothing else changes there.
LEMMA RestShape ==
    ASSUME Join \/ AtRest \/ UNCHANGED vars
    PROVE  /\ UNCHANGED <<pc, next, permits, queue>>
           /\ handler' # handler => \A c \in Calls : pc[c] \in Over
  BY DEF Join, AtRest, vars

-----------------------------------------------------------------------------
(* How many tasks are at work                                              *)

LEMMA InsideFinite == IsFiniteSet(Inside) /\ IsFiniteSet(Inside')
<1>1. IsFiniteSet(Calls)
  BY CallsAssumption, FS_Interval DEF Calls
<1>2. Inside \subseteq Calls /\ Inside' \subseteq Calls
  BY DEF Inside
<1> QED BY <1>1, <1>2, FS_Subset

LEMMA Enters ==
    ASSUME NEW c \in Calls, Inside' = Inside \cup {c}, c \notin Inside
    PROVE  Cardinality(Inside') = Cardinality(Inside) + 1
  BY InsideFinite, FS_AddElement

LEMMA Leaves ==
    ASSUME NEW c \in Calls, Inside' = Inside \ {c}, c \in Inside
    PROVE  Cardinality(Inside') = Cardinality(Inside) - 1
  BY InsideFinite, FS_RemoveElement

LEMMA InsideNat == Cardinality(Inside) \in Nat /\ Cardinality(Inside') \in Nat
  BY InsideFinite, FS_CardinalityType

-----------------------------------------------------------------------------
LEMMA InvInit == Init => Inv
<1> SUFFICES ASSUME Init PROVE Inv
  OBVIOUS
<1>1. /\ pc = [c \in Calls |-> "new"] /\ next = 1 /\ permits = MaxWorkers
      /\ queue = << >> /\ handler = "running"
  BY DEF Init
<1>2. << >> \in Seq(Calls) /\ Len(<< >>) = 0
  BY EmptySeq
<1>3. Types
  BY <1>1, <1>2, CallsAssumption DEF Types, Places
<1>4. Queued
  BY <1>1, <1>2 DEF Queued
<1>5. NotBegun /\ NothingRunsOn
  BY <1>1 DEF NotBegun, NothingRunsOn
<1>6. Inside = {}
  BY <1>1 DEF Inside, Working
<1>7. Balanced
  BY <1>1, <1>6, FS_EmptySet, CallsAssumption DEF Balanced
<1> QED BY <1>3, <1>4, <1>5, <1>7 DEF Inv

\* A step of a task that keeps its permit.
LEMMA PassInv ==
    ASSUME Inv, NEW c \in Calls, Pass(c)
    PROVE  Inv'
<1> USE DEF Inv
<1>0. PICK p \in Working : pc' = [pc EXCEPT ![c] = p]
  BY DEF Pass
<1>f. UNCHANGED <<next, permits, queue, handler>> /\ pc[c] \in Working
  BY DEF Pass
<1>t. pc \in [Calls -> Places]
  BY DEF Types
<1>1. Types'
  BY <1>0, <1>f DEF Types, Places
<1>w. pc[c] \notin {"new", "waiting"} /\ p \notin {"new", "waiting"}
  BY <1>0, <1>f DEF Working
<1>p. \A d \in Calls : pc'[d] = IF d = c THEN p ELSE pc[d]
  BY <1>0, <1>t
<1>q. \A i \in 1..Len(queue) : queue[i] \in Calls
  BY ElementOfSeq DEF Types
<1>2. Queued'
  <2>1. \A i \in 1..Len(queue) : pc'[queue[i]] = "waiting"
    BY <1>p, <1>q, <1>w DEF Queued
  <2>2. \A d \in Calls : pc'[d] = "waiting" => \E i \in 1..Len(queue) : queue[i] = d
    BY <1>p, <1>w DEF Queued
  <2> QED BY <1>f, <2>1, <2>2 DEF Queued
<1>3. NotBegun'
  BY <1>p, <1>w, <1>f DEF NotBegun
<1>4. Inside' = Inside
  BY <1>p, <1>f, <1>0 DEF Inside
<1>5. Balanced'
  BY <1>4, <1>f DEF Balanced
<1>6. NothingRunsOn'
  BY <1>f DEF NothingRunsOn, Working, Over
<1> QED BY <1>1, <1>2, <1>3, <1>5, <1>6

\* The last step of a task: its permit goes to the head of the queue, or back.
LEMMA LeaveInv ==
    ASSUME Inv, NEW c \in Calls, Leave(c)
    PROVE  Inv'
<1> USE DEF Inv
<1>0. PICK over \in Over : Release(c, over)
  BY DEF Leave
<1>f. UNCHANGED <<next, handler>> /\ pc[c] \in Working
  BY DEF Leave
<1>t. pc \in [Calls -> Places] /\ queue \in Seq(Calls) /\ permits \in Nat /\ next \in Nat
  BY DEF Types
<1>w. pc[c] \notin {"new", "waiting"} /\ over \notin {"new", "waiting"} \cup Working
  BY <1>0, <1>f DEF Working, Over
<1>o. over \in Places
  BY <1>0 DEF Places
<1>q. \A i \in 1..Len(queue) : queue[i] \in Calls
  BY <1>t, ElementOfSeq
<1>i. c \in Inside
  BY <1>f DEF Inside
<1>n. NothingRunsOn'
  BY <1>f DEF NothingRunsOn, Working, Over
<1>1. CASE queue = << >>
  <2>1. pc' = [pc EXCEPT ![c] = over] /\ permits' = permits + 1 /\ queue' = queue
    BY <1>0, <1>1 DEF Release
  <2>p. \A d \in Calls : pc'[d] = IF d = c THEN over ELSE pc[d]
    BY <2>1, <1>t
  <2>2. Types'
    BY <2>1, <1>t, <1>f, <1>o DEF Types
  <2>3. Queued'
    <3>1. \A i \in 1..Len(queue) : pc'[queue[i]] = "waiting"
      BY <2>p, <1>q, <1>w DEF Queued
    <3>2. \A d \in Calls : pc'[d] = "waiting" => \E i \in 1..Len(queue) : queue[i] = d
      BY <2>p, <1>w DEF Queued
    <3> QED BY <2>1, <3>1, <3>2 DEF Queued
  <2>4. NotBegun'
    BY <2>p, <1>w, <1>f DEF NotBegun
  <2>5. Inside' = Inside \ {c}
    BY <2>p, <1>w DEF Inside
  <2>6. Balanced'
    <3>1. Cardinality(Inside') = Cardinality(Inside) - 1
      BY <2>5, <1>i, Leaves
    <3> QED BY <3>1, InsideNat, <2>1, <1>1, <1>t, CallsAssumption DEF Balanced
  <2> QED BY <2>2, <2>3, <2>4, <2>6, <1>n
<1>2. CASE queue # << >>
  <2> DEFINE h == Head(queue)
  <2>1. /\ pc' = [pc EXCEPT ![c] = over, ![h] = "pluginBefore"]
        /\ queue' = Tail(queue) /\ permits' = permits
    BY <1>0, <1>2 DEF Release
  <2>h. h \in Calls /\ h = queue[1] /\ Len(queue) >= 1 /\ Len(queue) \in Nat
    BY <1>2, <1>t, HeadTailProperties, LenProperties, EmptySeq
  <2>a. /\ Tail(queue) \in Seq(Calls) /\ Len(Tail(queue)) = Len(queue) - 1
        /\ \A i \in 1..Len(Tail(queue)) : Tail(queue)[i] = queue[i + 1]
    BY <1>2, <1>t, HeadTailProperties
  <2>v. pc[h] = "waiting" /\ h # c
    BY <2>h, <1>w DEF Queued
  <2> HIDE DEF h
  <2>p. \A d \in Calls : pc'[d] = IF d = h THEN "pluginBefore"
                                  ELSE IF d = c THEN over ELSE pc[d]
    BY <2>1, <1>t
  <2>2. Types'
    <3>1. pc' \in [Calls -> Places]
      BY <2>1, <1>t, <1>o DEF Places, Working
    <3> QED BY <3>1, <2>1, <2>a, <1>t, <1>f DEF Types
  <2>i. \A i \in 1..Len(Tail(queue)) : i + 1 \in 1..Len(queue) /\ 1 \in 1..Len(queue) /\ i + 1 # 1
    BY <2>a, <2>h
  <2>3. Queued'
    <3>1. ASSUME NEW i \in 1..Len(queue') PROVE pc'[queue'[i]] = "waiting"
      <4>1. queue'[i] = queue[i + 1] /\ i + 1 \in 1..Len(queue) /\ i + 1 # 1
        BY <3>1, <2>1, <2>a, <2>i
      <4>2. queue[i + 1] # h
        BY <4>1, <2>h, <2>i, <3>1, <2>1 DEF Queued
      <4>3. pc[queue[i + 1]] = "waiting" /\ queue[i + 1] \in Calls
        BY <4>1, <1>q DEF Queued
      <4> QED BY <4>1, <4>2, <4>3, <2>p, <1>w
    <3>2. ASSUME NEW d \in Calls, pc'[d] = "waiting"
          PROVE \E i \in 1..Len(queue') : queue'[i] = d
      <4>1. d # h /\ pc[d] = "waiting"
        BY <3>2, <2>p, <1>w
      <4>2. PICK j \in 1..Len(queue) : queue[j] = d
        BY <4>1 DEF Queued
      <4>3. j # 1
        BY <4>1, <4>2, <2>h
      <4>4. j - 1 \in 1..Len(Tail(queue)) /\ (j - 1) + 1 = j
        BY <4>3, <2>a, <2>h
      <4>5. Tail(queue)[j - 1] = queue[(j - 1) + 1]
        BY <4>4, <2>a
      <4> QED BY <4>2, <4>4, <4>5, <2>1
    <3>3. ASSUME NEW i \in 1..Len(queue'), NEW j \in 1..Len(queue'), queue'[i] = queue'[j]
          PROVE i = j
      <4>1. queue[i + 1] = queue[j + 1] /\ i + 1 \in 1..Len(queue) /\ j + 1 \in 1..Len(queue)
        BY <3>3, <2>1, <2>a, <2>i
      <4>2. i + 1 = j + 1
        BY <4>1 DEF Queued
      <4> QED BY <4>2
    <3> QED BY <3>1, <3>2, <3>3 DEF Queued
  <2>4. NotBegun'
    <3>1. \A d \in Calls : d >= next => d # h /\ d # c
      BY <2>v, <1>w DEF NotBegun
    <3> QED BY <3>1, <2>p, <1>f DEF NotBegun
  <2>5. Inside' = (Inside \ {c}) \cup {h} /\ h \notin Inside
    BY <2>p, <2>v, <2>h, <1>w DEF Inside, Working
  <2>6. Cardinality(Inside') = Cardinality(Inside)
    <3>1. IsFiniteSet(Inside \ {c}) /\ Cardinality(Inside \ {c}) = Cardinality(Inside) - 1
      BY <1>i, InsideFinite, FS_RemoveElement
    <3>2. Cardinality((Inside \ {c}) \cup {h}) = Cardinality(Inside \ {c}) + 1
      BY <2>5, <3>1, FS_AddElement
    <3> QED BY <2>5, <3>1, <3>2, InsideNat
  <2>7. Balanced'
    BY <2>6, <2>1, <1>2 DEF Balanced
  <2> QED BY <2>2, <2>3, <2>4, <2>7, <1>n
<1> QED BY <1>1, <1>2

\* Select starts the next call: it ends at once, gets a permit or waits.
LEMMA BeginInv ==
    ASSUME Inv, NEW c \in Calls, Begin(c)
    PROVE  Inv'
<1> USE DEF Inv
<1>f. c = next /\ next' = next + 1 /\ handler = "running" /\ handler' = handler
  BY DEF Begin
<1>t. pc \in [Calls -> Places] /\ queue \in Seq(Calls) /\ permits \in Nat /\ next \in Nat
  BY DEF Types
<1>c. pc[c] = "new" /\ c \notin Inside /\ \A d \in Calls : d >= next' => d >= next /\ d # c
  BY <1>f, <1>t DEF NotBegun, Inside, Working, Calls
<1>q. /\ Len(queue) \in Nat
      /\ \A i \in 1..Len(queue) : queue[i] \in Calls /\ queue[i] # c
  BY <1>t, <1>c, ElementOfSeq, LenProperties DEF Queued
<1>n. NothingRunsOn'
  BY <1>f DEF NothingRunsOn
\* What the first await's outcome decides is only where the call is next.
<1>k. ASSUME NEW p \in Places, pc' = [pc EXCEPT ![c] = p]
      PROVE  /\ pc' \in [Calls -> Places] /\ NotBegun'
             /\ \A d \in Calls : pc'[d] = IF d = c THEN p ELSE pc[d]
             /\ \A i \in 1..Len(queue) : pc'[queue[i]] = "waiting"
  <2>1. \A d \in Calls : pc'[d] = IF d = c THEN p ELSE pc[d]
    BY <1>k, <1>t
  <2>2. NotBegun'
    BY <2>1, <1>c DEF NotBegun
  <2>3. pc' \in [Calls -> Places]
    BY <1>k, <1>t
  <2> QED BY <2>1, <2>2, <2>3, <1>q DEF Queued
<1>1. ASSUME NEW p \in Over, pc' = [pc EXCEPT ![c] = p], permits' = permits, queue' = queue
      PROVE  Inv'
  <2>1. p \in Places /\ p \notin {"waiting"} \cup Working
    BY <1>1 DEF Places, Over, Working
  <2>2. Types'
    BY <1>1, <2>1, <1>k, <1>t, <1>f DEF Types
  <2>3. Queued'
    <3>1. \A d \in Calls : pc'[d] = "waiting" => \E i \in 1..Len(queue) : queue[i] = d
      BY <1>1, <2>1, <1>k DEF Queued
    <3> QED BY <1>1, <2>1, <1>k, <3>1 DEF Queued
  <2>4. Inside' = Inside
    BY <1>1, <2>1, <1>k, <1>c DEF Inside
  <2>5. Balanced'
    BY <1>1, <2>4 DEF Balanced
  <2> QED BY <1>1, <2>1, <1>k, <2>2, <2>3, <2>5, <1>n
<1>2. ASSUME permits > 0, permits' = permits - 1, queue' = queue,
             pc' = [pc EXCEPT ![c] = "pluginBefore"]
      PROVE  Inv'
  <2>1. "pluginBefore" \in Places /\ "pluginBefore" \in Working
    BY DEF Places, Working
  <2>2. Types'
    BY <1>2, <2>1, <1>k, <1>t, <1>f DEF Types
  <2>3. Queued'
    <3>1. \A d \in Calls : pc'[d] = "waiting" => \E i \in 1..Len(queue) : queue[i] = d
      BY <1>2, <2>1, <1>k DEF Queued
    <3> QED BY <1>2, <2>1, <1>k, <3>1 DEF Queued
  <2>4. Inside' = Inside \cup {c}
    BY <1>2, <2>1, <1>k DEF Inside
  <2>5. Balanced'
    <3>1. Cardinality(Inside') = Cardinality(Inside) + 1
      BY <2>4, <1>c, Enters
    <3>2. queue = << >>
      BY <1>2 DEF Balanced
    <3> QED BY <1>2, <3>1, <3>2, <1>t, InsideNat, CallsAssumption DEF Balanced
  <2> QED BY <1>2, <2>1, <1>k, <2>2, <2>3, <2>5, <1>n
<1>3. ASSUME permits = 0, permits' = permits, queue' = Append(queue, c),
             pc' = [pc EXCEPT ![c] = "waiting"]
      PROVE  Inv'
  <2>1. "waiting" \in Places /\ "waiting" \notin Working
    BY DEF Places, Working
  <2>a. /\ queue' \in Seq(Calls) /\ Len(queue') = Len(queue) + 1
        /\ \A i \in 1..Len(queue) : queue'[i] = queue[i]
        /\ queue'[Len(queue) + 1] = c
    BY <1>3, <1>t, AppendProperties
  <2>2. Types'
    BY <1>3, <2>1, <2>a, <1>k, <1>t, <1>f DEF Types
  <2>i. \A i \in 1..Len(queue') : i \in 1..Len(queue) \/ i = Len(queue) + 1
    BY <2>a, <1>q
  <2>3. Queued'
    <3>1. ASSUME NEW i \in 1..Len(queue') PROVE pc'[queue'[i]] = "waiting"
      BY <3>1, <2>i, <2>a, <1>3, <2>1, <1>k
    <3>2. ASSUME NEW d \in Calls, pc'[d] = "waiting"
          PROVE \E i \in 1..Len(queue') : queue'[i] = d
      <4>1. CASE d = c
        BY <4>1, <2>a, <1>q
      <4>2. CASE d # c
        <5>1. pc[d] = "waiting"
          BY <3>2, <4>2, <1>3, <2>1, <1>k
        <5>2. PICK i \in 1..Len(queue) : queue[i] = d
          BY <5>1 DEF Queued
        <5> QED BY <5>2, <2>a, <1>q
      <4> QED BY <4>1, <4>2
    <3>3. ASSUME NEW i \in 1..Len(queue'), NEW j \in 1..Len(queue'), queue'[i] = queue'[j]
          PROVE i = j
      BY <3>3, <2>i, <2>a, <1>q DEF Queued
    <3> QED BY <3>1, <3>2, <3>3 DEF Queued
  <2>4. Inside' = Inside
    BY <1>3, <2>1, <1>k, <1>c DEF Inside
  <2>5. Balanced'
    BY <1>3, <2>4 DEF Balanced
  <2> QED BY <1>3, <2>1, <1>k, <2>2, <2>3, <2>5, <1>n
<1>4. CASE kind[c] = "filtered" /\ pc' = [pc EXCEPT ![c] = "silent"]
           /\ UNCHANGED <<permits, queue>>
  BY <1>4, <1>1 DEF Over
<1>5. CASE kind[c] = "missing" /\ pc' = [pc EXCEPT ![c] = "answered"]
           /\ UNCHANGED <<permits, queue>>
  BY <1>5, <1>1 DEF Over
<1> QED BY <1>2, <1>3, <1>4, <1>5 DEF Begin

\* The invariant holds after every step.
LEMMA InvNext == Inv /\ [Next]_vars => Inv'
<1> SUFFICES ASSUME Inv, [Next]_vars PROVE Inv'
  OBVIOUS
<1>1. ASSUME NEW c \in Calls, Begin(c) PROVE Inv'
  BY <1>1, BeginInv
<1>2. ASSUME NEW c \in Calls, Task(c) PROVE Inv'
  BY <1>2, TaskShape, PassInv, LeaveInv
<1>3. ASSUME Join \/ AtRest \/ UNCHANGED vars PROVE Inv'
  <2>1. /\ UNCHANGED <<pc, next, permits, queue>>
        /\ handler' # handler => \A c \in Calls : pc[c] \in Over
    BY <1>3, RestShape
  <2>2. Inside' = Inside
    BY <2>1 DEF Inside
  <2>3. Types' /\ Queued' /\ NotBegun' /\ Balanced'
    BY <2>1, <2>2 DEF Inv, Types, Queued, NotBegun, Balanced
  <2>4. NothingRunsOn'
    BY <2>1 DEF Inv, NothingRunsOn
  <2> QED BY <2>3, <2>4 DEF Inv
<1> QED BY <1>1, <1>2, <1>3 DEF Next

LEMMA InvAlways == Spec => []Inv
  BY InvInit, InvNext, PTL DEF Spec

\* What Queued and Balanced say is what PermitsConserved says.
LEMMA InvPermits == Inv => PermitsConserved
<1> SUFFICES ASSUME Inv PROVE PermitsConserved
  OBVIOUS
<1>1. DOMAIN queue = 1..Len(queue) /\ \A i \in 1..Len(queue) : queue[i] \in Calls
  BY LenProperties, ElementOfSeq DEF Inv, Types
<1>2. {queue[i] : i \in DOMAIN queue} = {c \in Calls : pc[c] = "waiting"}
  BY <1>1 DEF Inv, Queued
<1> QED BY <1>2 DEF Inv, Balanced, PermitsConserved

-----------------------------------------------------------------------------
(* Induction over the numbers, as a fact about sets                        *)

Below == {p \in Nat \X Nat : p[1] < p[2]}

LEMMA LeastElement ==
    ASSUME NEW T \in SUBSET Nat, T # {}
    PROVE  \E x \in T : \A y \in T : x <= y
<1>1. IsWellFoundedOn(Below, Nat)
  BY NatLessThanWellFounded DEF OpToRel, Below
<1>2. \E x \in T : \A y \in T : <<y, x>> \notin Below
  BY <1>1, WFMin, Zenon
<1>3. \A x \in T, y \in T : <<y, x>> \notin Below => x <= y
  BY DEF Below
<1> QED BY <1>2, <1>3

LEMMA UpTo ==
    ASSUME NEW n \in Nat, NEW T, 0 \in T, \A i \in 0..n - 1 : i \in T => i + 1 \in T
    PROVE  \A i \in 0..n : i \in T
<1> SUFFICES ASSUME (0..n) \ T # {} PROVE FALSE
  OBVIOUS
<1>1. (0..n) \ T \in SUBSET Nat
  OBVIOUS
<1>2. PICK m \in (0..n) \ T : \A y \in (0..n) \ T : m <= y
  BY <1>1, LeastElement
<1>3. m # 0 /\ m - 1 \in 0..n - 1
  BY <1>2
<1>4. m - 1 \in T
  BY <1>2, <1>3
<1> QED BY <1>2, <1>3, <1>4

-----------------------------------------------------------------------------
(* The calls the merged event answers                                      *)

\* One value of the recursive function of Answered from the one before.
AnsweredNext(f, n) ==
    IF n = 0 THEN << >>
    ELSE IF pc[n] = "answered" THEN Append(f[n - 1], n) ELSE f[n - 1]

LEMMA AnsweredExists == \E f : f = [n \in 0..N |-> AnsweredNext(f, n)]
<1> DEFINE Upto(m) == \E f : f = [n \in 0..m |-> AnsweredNext(f, n)]
           T == {m \in Nat : Upto(m)}
<1>1. 0 \in T
  <2>1. [n \in 0..0 |-> << >>] = [n \in 0..0 |-> AnsweredNext([k \in 0..0 |-> << >>], n)]
    BY DEF AnsweredNext
  <2> QED BY <2>1
<1>2. ASSUME NEW m \in Nat, m \in T PROVE m + 1 \in T
  <2>1. PICK f : f = [n \in 0..m |-> AnsweredNext(f, n)]
    BY <1>2
  <2>2. PICK g : g = [n \in 0..m + 1 |-> IF n <= m THEN f[n] ELSE AnsweredNext(f, n)]
    OBVIOUS
  <2>3. ASSUME NEW n \in 0..m + 1 PROVE AnsweredNext(f, n) = AnsweredNext(g, n)
    <3>1. n # 0 => n - 1 \in 0..m + 1 /\ n - 1 <= m
      OBVIOUS
    <3>2. n # 0 => g[n - 1] = f[n - 1]
      BY <3>1, <2>2
    <3> QED BY <3>2 DEF AnsweredNext
  <2>4. \A n \in 0..m : f[n] = AnsweredNext(f, n)
    BY <2>1
  <2>5. \A n \in 0..m + 1 : g[n] = AnsweredNext(g, n)
    <3> TAKE n \in 0..m + 1
    <3>1. CASE n <= m
      BY <3>1, <2>2, <2>3, <2>4
    <3>2. CASE n > m
      BY <3>2, <2>2, <2>3
    <3> QED BY <3>1, <3>2
  <2>6. g = [n \in 0..m + 1 |-> AnsweredNext(g, n)]
    BY <2>2, <2>5
  <2> QED BY <2>6
<1> HIDE DEF T
<1>3. N \in Nat
  BY CallsAssumption
<1>4. \A i \in 0..N : i \in T
  BY <1>1, <1>2, <1>3, UpTo
<1> QED BY <1>3, <1>4 DEF T

LEMMA AnsweredValue ==
    /\ Answered[0] = << >>
    /\ \A n \in 1..N : Answered[n] = IF pc[n] = "answered" THEN Append(Answered[n - 1], n)
                                                           ELSE Answered[n - 1]
<1>1. Answered = [n \in 0..N |-> AnsweredNext(Answered, n)]
  BY AnsweredExists DEF Answered, AnsweredNext
<1>2. N \in Nat /\ 0 \in 0..N /\ \A n \in 1..N : n \in 0..N /\ n # 0
  BY CallsAssumption
<1>3. PICK f : f = Answered
  OBVIOUS
<1>4. \A n \in 0..N : f[n] = AnsweredNext(f, n)
  BY <1>1, <1>3
<1>5. /\ f[0] = << >>
      /\ \A n \in 1..N : f[n] = IF pc[n] = "answered" THEN Append(f[n - 1], n) ELSE f[n - 1]
  BY <1>2, <1>4 DEF AnsweredNext
<1> QED BY <1>3, <1>5

\* Of the calls up to n exactly those with a response, each once and in order.
Lists(s, n) ==
    /\ s \in Seq(Calls)
    /\ \A i, j \in 1..Len(s) : i < j => s[i] < s[j]
    /\ \A i \in 1..Len(s) : s[i] <= n /\ pc[s[i]] = "answered"
    /\ \A c \in 1..n : pc[c] = "answered" => \E i \in 1..Len(s) : s[i] = c

LEMMA AnsweredLists == Lists(Answered[N], N)
<1> DEFINE T == {n \in 0..N : Lists(Answered[n], n)}
<1>0. N \in Nat
  BY CallsAssumption
<1>1. 0 \in T
  <2>1. << >> \in Seq(Calls) /\ Len(<< >>) = 0
    BY EmptySeq
  <2>2. Lists(<< >>, 0)
    BY <2>1 DEF Lists
  <2> QED BY <2>2, <1>0, AnsweredValue
<1>2. ASSUME NEW n \in 0..N - 1, n \in T PROVE n + 1 \in T
  <2>1. n + 1 \in 1..N /\ n + 1 \in Calls /\ n + 1 \in 0..N /\ (n + 1) - 1 = n /\ n \in Nat
    BY <1>0 DEF Calls
  <2>2. PICK s : s = Answered[n]
    OBVIOUS
  <2>3. Lists(s, n)
    BY <1>2, <2>2
  <2>4. \A c \in 1..n + 1 : c \in 1..n \/ c = n + 1
    BY <2>1
  <2>5. CASE pc[n + 1] # "answered"
    <3>1. Answered[n + 1] = s
      BY <2>1, <2>2, <2>5, AnsweredValue
    <3>2. Lists(s, n + 1)
      <4>1. \A i \in 1..Len(s) : s[i] \in Calls
        BY <2>3, ElementOfSeq DEF Lists
      <4>2. \A i \in 1..Len(s) : s[i] <= n + 1
        BY <2>3, <2>1, <4>1 DEF Lists, Calls
      <4> QED BY <2>3, <2>4, <2>5, <4>2 DEF Lists
    <3> QED BY <3>1, <3>2, <2>1
  <2>6. CASE pc[n + 1] = "answered"
    <3>1. PICK t : t = Append(s, n + 1)
      OBVIOUS
    <3>2. Answered[n + 1] = t
      BY <2>1, <2>2, <2>6, <3>1, AnsweredValue
    <3>3. /\ t \in Seq(Calls) /\ Len(t) = Len(s) + 1 /\ Len(s) \in Nat
          /\ \A i \in 1..Len(s) : t[i] = s[i] /\ s[i] \in Calls
          /\ t[Len(s) + 1] = n + 1
      <4>1. s \in Seq(Calls)
        BY <2>3 DEF Lists
      <4> QED BY <4>1, <3>1, <2>1, AppendProperties, LenProperties, ElementOfSeq
    <3>4. \A i \in 1..Len(t) : i \in 1..Len(s) \/ i = Len(s) + 1
      BY <3>3
    <3>5. \A i \in 1..Len(s) : s[i] < n + 1
      BY <2>3, <3>3, <2>1 DEF Lists, Calls
    <3>6. ASSUME NEW i \in 1..Len(t), NEW j \in 1..Len(t), i < j PROVE t[i] < t[j]
      <4>1. i \in 1..Len(s)
        BY <3>6, <3>3, <3>4
      <4>2. CASE j \in 1..Len(s)
        BY <4>1, <4>2, <3>3, <2>3, <3>6 DEF Lists
      <4>3. CASE j = Len(s) + 1
        BY <4>1, <4>3, <3>3, <3>5
      <4> QED BY <4>2, <4>3, <3>4
    <3>7. \A i \in 1..Len(t) : t[i] <= n + 1 /\ pc[t[i]] = "answered"
      <4> TAKE i \in 1..Len(t)
      <4>1. CASE i \in 1..Len(s)
        BY <4>1, <3>3, <2>3, <2>1 DEF Lists, Calls
      <4>2. CASE i = Len(s) + 1
        BY <4>2, <3>3, <2>6, <2>1
      <4> QED BY <4>1, <4>2, <3>4
    <3>8. ASSUME NEW c \in 1..n + 1, pc[c] = "answered" PROVE \E i \in 1..Len(t) : t[i] = c
      <4>1. CASE c \in 1..n
        <5>1. PICK i \in 1..Len(s) : s[i] = c
          BY <4>1, <3>8, <2>3 DEF Lists
        <5> QED BY <5>1, <3>3
      <4>2. CASE c = n + 1
        BY <4>2, <3>3
      <4> QED BY <4>1, <4>2, <2>4
    <3>9. Lists(t, n + 1)
      BY <3>3, <3>6, <3>7, <3>8 DEF Lists
    <3> QED BY <3>2, <3>9, <2>1
  <2> QED BY <2>5, <2>6
<1> HIDE DEF T
<1>3. \A i \in 0..N : i \in T
  BY <1>0, <1>1, <1>2, UpTo
<1> QED BY <1>0, <1>3 DEF T

-----------------------------------------------------------------------------
(* Which calls have a response                                             *)

\* What is known of a call where its task is.
SettledAt(c) ==
    /\ pc[c] \in {"waiting"} \cup Working => kind[c] \in {"plain", "long"}
    /\ pc[c] \in {"pluginError", "agentError"} => c \in threw
    /\ pc[c] \in {"pluginAfter", "agentAfter"} => response[c] # "none"
    /\ pc[c] = "finish" => response[c] # "none" \/ c \in threw
    /\ pc[c] = "answered" => kind[c] # "filtered" /\ response[c] # "none"
    /\ pc[c] = "silent" => \/ kind[c] = "filtered"
                           \/ kind[c] = "long" /\ c \in threw /\ response[c] = "none"

Settled ==
    /\ TypeOK
    /\ \A c \in Calls : SettledAt(c)
    /\ EveryCallAnswered

LEMMA SettledInit == Init => Settled
<1> SUFFICES ASSUME Init PROVE Settled
  OBVIOUS
<1>1. << >> \in Seq(Calls)
  BY EmptySeq
<1>2. TypeOK
  BY <1>1, CallsAssumption DEF Init, TypeOK, Places, Sources
<1>3. \A c \in Calls : SettledAt(c)
  BY DEF Init, SettledAt, Working
<1>4. EveryCallAnswered
  BY DEF Init, EveryCallAnswered
<1> QED BY <1>2, <1>3, <1>4 DEF Settled

\* A step of a running handler that moves call c to place p, with the
\* response s, keeps what is known of the calls that stay.
LEMMA StayingSettled ==
    ASSUME Settled, NEW d \in Calls, kind' = kind, threw \subseteq threw',
           d \notin threw => d \notin threw',
           pc'[d] = pc[d], response'[d] = response[d]
    PROVE  SettledAt(d)'
  BY DEF Settled, SettledAt

\* A task that goes on, whatever it learns.
LEMMA GoOnSettled ==
    ASSUME Settled, NEW c \in Calls, Task(c), ~Finish(c), ~CallbackThrows(c)
    PROVE  /\ \A d \in Calls : SettledAt(d)'
           /\ pc' \in [Calls -> Places] /\ response' \in [Calls -> Sources]
           /\ threw' \subseteq Calls /\ saved' \subseteq Calls
           /\ handler' = handler /\ pc[c] \in Working
           /\ UNCHANGED <<kind, onError, next, permits, queue, merged>>
<1> USE DEF Settled
<1>t. /\ pc \in [Calls -> Places] /\ response \in [Calls -> Sources]
      /\ threw \subseteq Calls /\ saved \subseteq Calls
  BY DEF TypeOK
<1>1. PICK p \in Working, s \in Sources :
         /\ pc' = [pc EXCEPT ![c] = p] /\ response' = [response EXCEPT ![c] = s]
         /\ UNCHANGED <<kind, onError, next, permits, queue, handler, merged>>
         /\ pc[c] \in Working
         /\ threw' \in {threw, threw \cup {c}} /\ saved' \in {saved, saved \cup {c}}
         /\ p \in {"pluginError", "agentError"} => c \in threw'
         /\ p \in {"pluginAfter", "agentAfter"} => s # "none"
         /\ p = "finish" => s # "none" \/ c \in threw'
  <2> USE DEF Working, Sources
  <2>s. SettledAt(c) /\ response[c] \in Sources
    BY <1>t
  <2>1. CASE Before(c)
    BY <2>1 DEF Before, GoOn
  <2>2. CASE ToolReturns(c)
    BY <2>2 DEF ToolReturns, GoOn
  <2>3. CASE ToolThrows(c)
    BY <2>3 DEF ToolThrows, GoOn
  <2>4. CASE PluginOnError(c)
    BY <2>4, <2>s DEF PluginOnError, GoOn, SettledAt
  <2>5. CASE AgentOnError(c)
    <3>1. CASE response[c] = "none"
      BY <2>5, <2>s, <3>1 DEF AgentOnError, GoOn, SettledAt
    <3>2. CASE response[c] # "none"
      BY <2>5, <2>s, <3>2 DEF AgentOnError, GoOn, SettledAt
    <3> QED BY <3>1, <3>2
  <2>6. CASE After(c)
    BY <2>6, <2>s DEF After, GoOn, SettledAt
  <2> QED BY <2>1, <2>2, <2>3, <2>4, <2>5, <2>6 DEF Task
<1>2. p \in Places
  BY DEF Places
<1>3. /\ \A d \in Calls \ {c} : pc'[d] = pc[d] /\ response'[d] = response[d]
      /\ pc'[c] = p /\ response'[c] = s
  BY <1>1, <1>t
<1>4. SettledAt(c)'
  BY <1>1, <1>3 DEF SettledAt, Working
<1>5. \A d \in Calls \ {c} : SettledAt(d)'
  BY <1>1, <1>3, StayingSettled
<1>6. pc' \in [Calls -> Places] /\ response' \in [Calls -> Sources]
  BY <1>1, <1>2, <1>t
<1>7. threw' \subseteq Calls /\ saved' \subseteq Calls
  BY <1>1, <1>t
<1> QED BY <1>1, <1>4, <1>5, <1>6, <1>7

\* A task that ends, with the permit for the head of the queue or back.
LEMMA EndSettled ==
    ASSUME Inv, Settled, NEW c \in Calls, Finish(c) \/ CallbackThrows(c)
    PROVE  /\ \A d \in Calls : SettledAt(d)'
           /\ pc' \in [Calls -> Places] /\ response' \in [Calls -> Sources]
           /\ queue' \in Seq(Calls)
           /\ handler' = handler /\ pc[c] \in Working
           /\ UNCHANGED <<kind, onError, threw, saved, next, merged>>
<1> USE DEF Settled
<1>t. /\ pc \in [Calls -> Places] /\ response \in [Calls -> Sources]
      /\ queue \in Seq(Calls) /\ threw \subseteq Calls
  BY DEF TypeOK
<1>1. PICK over \in Over, s \in Sources :
         /\ Release(c, over) /\ response' = [response EXCEPT ![c] = s]
         /\ UNCHANGED <<kind, onError, threw, saved, next, handler, merged>>
         /\ pc[c] \in Working
         /\ over = "answered" => s # "none"
         /\ over = "silent" => kind[c] = "long" /\ c \in threw /\ s = "none"
  <2>s. SettledAt(c) /\ response[c] \in Sources /\ response = [response EXCEPT ![c] = response[c]]
    BY <1>t
  <2>1. CASE Finish(c)
    <3>w. pc[c] \in Working /\ pc[c] = "finish"
      BY <2>1 DEF Finish, Working
    <3>1. CASE response[c] = "none" /\ kind[c] = "long"
      <4>1. Release(c, "silent") /\ UNCHANGED <<kind, onError, response, threw, saved, next, handler, merged>>
        BY <2>1, <3>1 DEF Finish
      <4>2. c \in threw
        BY <3>1, <3>w, <2>s DEF SettledAt
      <4> QED BY <4>1, <4>2, <3>1, <3>w, <2>s DEF Over
    <3>2. CASE ~(response[c] = "none" /\ kind[c] = "long")
      <4>1. Release(c, "answered")
            /\ UNCHANGED <<kind, onError, threw, saved, next, handler, merged>>
        BY <2>1, <3>2 DEF Finish
      <4>2. PICK s : s = IF response[c] = "none" THEN "error" ELSE response[c]
        OBVIOUS
      <4>3. response' = [response EXCEPT ![c] = s]
        BY <2>1, <3>2, <4>2 DEF Finish
      <4>4. s \in Sources /\ s # "none"
        BY <4>2, <2>s DEF Sources
      <4> QED BY <4>1, <4>3, <4>4, <3>w DEF Over
    <3> QED BY <3>1, <3>2
  <2>2. CASE CallbackThrows(c)
    BY <2>2, <2>s DEF CallbackThrows, Over
  <2> QED BY <2>1, <2>2
<1>o. over \in Places
  BY DEF Places
<1>2. ASSUME NEW d \in Calls, d # c PROVE response'[d] = response[d]
  BY <1>1, <1>2, <1>t
<1>3. response' \in [Calls -> Sources] /\ response'[c] = s
  BY <1>1, <1>t
<1>4. CASE queue = << >>
  <2>1. pc' = [pc EXCEPT ![c] = over] /\ queue' = queue
    BY <1>1, <1>4 DEF Release
  <2>2. pc' \in [Calls -> Places] /\ pc'[c] = over /\ \A d \in Calls : d # c => pc'[d] = pc[d]
    BY <2>1, <1>t, <1>o
  <2>3. SettledAt(c)'
    BY <1>1, <1>3, <2>2 DEF SettledAt, Over, Working
  <2>4. \A d \in Calls : d # c => SettledAt(d)'
    BY <1>1, <1>2, <2>2, StayingSettled
  <2> QED BY <1>1, <1>3, <1>t, <2>1, <2>2, <2>3, <2>4
<1>5. CASE queue # << >>
  <2>0. PICK h : h = Head(queue)
    OBVIOUS
  <2>1. pc' = [pc EXCEPT ![c] = over, ![h] = "pluginBefore"] /\ queue' = Tail(queue)
    BY <1>1, <1>5, <2>0 DEF Release
  <2>2. h \in Calls /\ h = queue[1] /\ Tail(queue) \in Seq(Calls) /\ 1 \in 1..Len(queue)
    BY <1>5, <1>t, <2>0, HeadTailProperties, LenProperties, EmptySeq
  <2>3. pc[h] = "waiting" /\ h # c
    BY <2>2, <1>1 DEF Inv, Queued, Working
  <2>4. /\ pc' \in [Calls -> Places] /\ pc'[c] = over /\ pc'[h] = "pluginBefore"
        /\ \A d \in Calls : d # c /\ d # h => pc'[d] = pc[d]
    BY <2>1, <2>2, <2>3, <1>t, <1>o DEF Places, Working
  <2>5. SettledAt(c)'
    BY <1>1, <1>3, <2>4 DEF SettledAt, Over, Working
  <2>6. SettledAt(h)'
    <3>1. SettledAt(h)
      BY <2>2
    <3> QED BY <3>1, <2>2, <2>3, <2>4, <1>1, <1>2 DEF SettledAt, Working
  <2>7. \A d \in Calls : d # c /\ d # h => SettledAt(d)'
    BY <1>1, <1>2, <2>4, StayingSettled
  <2>8. \A d \in Calls : SettledAt(d)'
    BY <2>5, <2>6, <2>7, Zenon
  <2> QED BY <1>1, <1>3, <2>1, <2>2, <2>4, <2>8
<1> QED BY <1>4, <1>5

LEMMA BeginSettled ==
    ASSUME Inv, Settled, NEW c \in Calls, Begin(c)
    PROVE  /\ \A d \in Calls : SettledAt(d)'
           /\ pc' \in [Calls -> Places] /\ response' \in [Calls -> Sources]
           /\ next' \in 1..N + 1 /\ queue' \in Seq(Calls)
           /\ handler = "running" /\ handler' = handler
           /\ UNCHANGED <<kind, onError, threw, saved, merged>>
<1> USE DEF Settled
<1>t. /\ pc \in [Calls -> Places] /\ response \in [Calls -> Sources]
      /\ queue \in Seq(Calls) /\ kind \in [Calls -> Kinds]
  BY DEF TypeOK
<1>f. /\ c = next /\ next' = next + 1 /\ handler = "running"
      /\ UNCHANGED <<kind, onError, threw, saved, handler, merged>>
  BY DEF Begin
<1>n. next' \in 1..N + 1
  BY <1>f, CallsAssumption DEF Calls
<1>1. PICK p \in Places, s \in Sources :
         /\ pc' = [pc EXCEPT ![c] = p] /\ response' = [response EXCEPT ![c] = s]
         /\ queue' \in {queue, Append(queue, c)}
         /\ \/ p = "silent" /\ kind[c] = "filtered"
            \/ p = "answered" /\ kind[c] = "missing" /\ s # "none"
            \/ p \in {"waiting", "pluginBefore"} /\ kind[c] \in {"plain", "long"}
  <2> USE DEF Places, Working, Over, Sources
  <2>s. response[c] \in Sources /\ response = [response EXCEPT ![c] = response[c]]
    BY <1>t
  <2> QED BY <2>s, Zenon DEF Begin
<1>2. queue' \in Seq(Calls)
  BY <1>1, <1>t, AppendProperties
<1>3. /\ pc' \in [Calls -> Places] /\ pc'[c] = p /\ \A d \in Calls : d # c => pc'[d] = pc[d]
      /\ response' \in [Calls -> Sources] /\ response'[c] = s
      /\ \A d \in Calls : d # c => response'[d] = response[d]
  BY <1>1, <1>t
<1>4. SettledAt(c)'
  BY <1>1, <1>3, <1>f DEF SettledAt, Working
<1>5. \A d \in Calls : d # c => SettledAt(d)'
  BY <1>3, <1>f, StayingSettled
<1> QED BY <1>2, <1>3, <1>4, <1>5, <1>n, <1>f

\* What the merged event holds says which calls ended without a response.
LEMMA JoinSettled ==
    ASSUME Settled, Join
    PROVE  Settled'
<1> USE DEF Settled
<1>1. /\ \A c \in Calls : pc[c] \in Over
      /\ UNCHANGED <<kind, onError, pc, response, threw, saved, next, permits, queue>>
  BY DEF Join
<1>2. \A c \in Calls : SettledAt(c)'
  BY <1>1 DEF SettledAt
<1>3. CASE \E c \in Calls : pc[c] = "failed"
  <2>1. handler' = "threw" /\ merged' = merged
    BY <1>3 DEF Join
  <2>2. TypeOK'
    BY <1>1, <2>1 DEF TypeOK
  <2>3. EveryCallAnswered'
    BY <2>1 DEF EveryCallAnswered
  <2> QED BY <1>2, <2>2, <2>3
<1>4. CASE ~\E c \in Calls : pc[c] = "failed"
  <2>1. PICK s : s = Answered[N]
    OBVIOUS
  <2>2. handler' = "returned" /\ merged' = s
    BY <1>4, <2>1 DEF Join
  <2>3. Lists(s, N)
    BY <2>1, AnsweredLists
  <2>4. TypeOK'
    BY <1>1, <2>2, <2>3 DEF TypeOK, Lists
  <2>5. DOMAIN s = 1..Len(s)
    BY <2>3, LenProperties DEF Lists
  <2>6. ASSUME NEW c \in Calls
        PROVE (\E i \in DOMAIN s : s[i] = c)
                 <=> /\ kind[c] # "filtered"
                     /\ kind[c] = "long" /\ c \in threw => response[c] # "none"
    <3>1. (\E i \in DOMAIN s : s[i] = c) <=> pc[c] = "answered"
      BY <2>3, <2>5, <2>6 DEF Lists, Calls
    <3>2. pc[c] \in {"answered", "silent"}
      BY <1>1, <1>4, <2>6 DEF Over
    <3>3. SettledAt(c)
      BY <2>6
    <3> QED BY <3>1, <3>2, <3>3 DEF SettledAt
  <2>7. EveryCallAnswered'
    <3>1. \A i, j \in DOMAIN s : i < j => s[i] < s[j]
      BY <2>3, <2>5 DEF Lists
    <3> QED BY <1>1, <2>2, <2>6, <3>1 DEF EveryCallAnswered
  <2> QED BY <1>2, <2>4, <2>7
<1> QED BY <1>3, <1>4

LEMMA SettledNext == Inv /\ Inv' /\ Settled /\ [Next]_vars => Settled'
<1> SUFFICES ASSUME Inv, Inv', Settled, [Next]_vars PROVE Settled'
  OBVIOUS
<1>p. permits' \in 0..MaxWorkers
  BY InsideNat, CallsAssumption DEF Inv, Types, Balanced
<1>t. TypeOK /\ EveryCallAnswered
  BY DEF Settled
<1>1. ASSUME NEW c \in Calls, Begin(c) PROVE Settled'
  <2>1. TypeOK'
    BY <1>1, <1>p, <1>t, BeginSettled DEF TypeOK
  <2>2. EveryCallAnswered'
    BY <1>1, BeginSettled DEF EveryCallAnswered
  <2> QED BY <1>1, <2>1, <2>2, BeginSettled DEF Settled
\* A task at work means that the handler has not returned.
<1>w. ASSUME NEW c \in Calls, pc[c] \in Working, handler' = handler PROVE EveryCallAnswered'
  <2>1. handler = "running"
    BY <1>w DEF Inv, NothingRunsOn, Working, Over
  <2> QED BY <2>1, <1>w DEF EveryCallAnswered
<1>2. ASSUME NEW c \in Calls, Task(c), ~Finish(c), ~CallbackThrows(c) PROVE Settled'
  <2>1. TypeOK'
    BY <1>2, <1>t, GoOnSettled DEF TypeOK
  <2>2. EveryCallAnswered'
    BY <1>2, <1>w, GoOnSettled
  <2> QED BY <1>2, <2>1, <2>2, GoOnSettled DEF Settled
<1>3. ASSUME NEW c \in Calls, Finish(c) \/ CallbackThrows(c) PROVE Settled'
  <2>1. TypeOK'
    BY <1>3, <1>p, <1>t, EndSettled DEF TypeOK
  <2>2. EveryCallAnswered'
    BY <1>3, <1>w, EndSettled
  <2> QED BY <1>3, <2>1, <2>2, EndSettled DEF Settled
<1>4. CASE Join
  BY <1>4, JoinSettled
<1>5. CASE AtRest \/ UNCHANGED vars
  <2>1. UNCHANGED vars
    BY <1>5 DEF AtRest
  <2> QED BY <2>1 DEF vars, Settled, TypeOK, SettledAt, EveryCallAnswered
<1> QED BY <1>1, <1>2, <1>3, <1>4, <1>5 DEF Next

LEMMA SettledAlways == Spec => []Settled
<1>1. Init => Inv /\ Settled
  BY InvInit, SettledInit
<1>2. Inv /\ Settled /\ [Next]_vars => (Inv /\ Settled)'
  BY InvNext, SettledNext
<1> QED BY <1>1, <1>2, PTL DEF Spec

-----------------------------------------------------------------------------
\* The semaphore of HandleFunctionCallsAsync is never over- or under-released,
\* whatever throws, and a task waits for it only while MaxWorkers are at work.
THEOREM PermitsAlwaysConserved == Spec => []PermitsConserved
  BY InvAlways, InvPermits, PTL

\* Never more than MaxWorkers tools and callbacks of one response at a time:
\* what ToolThreadPoolConfig.MaxWorkers is for.
THEOREM WorkersBounded == Spec => [](Cardinality(Inside) <= MaxWorkers)
<1>1. Inv => Cardinality(Inside) <= MaxWorkers
  BY InsideNat, CallsAssumption DEF Inv, Types, Balanced
<1> QED BY <1>1, InvAlways, PTL

\* HandleFunctionCallsAsync returns or throws only after every task of its.
THEOREM NothingRunsAfterwards == Spec => []NothingRunsOn
<1>1. Inv => NothingRunsOn
  BY DEF Inv
<1> QED BY <1>1, InvAlways, PTL

\* The handler's state has its types, the merged response among them.
THEOREM FunctionCallsTyped == Spec => []TypeOK
<1>1. Settled => TypeOK
  BY DEF Settled
<1> QED BY <1>1, SettledAlways, PTL

\* The event that HandleFunctionCallsAsync merges answers each call that was
\* not filtered out, once and in the order of the calls; only a long-running
\* tool that threw leaves none.
THEOREM CallsAnswered == Spec => []EveryCallAnswered
<1>1. Settled => EveryCallAnswered
  BY DEF Settled
<1> QED BY <1>1, SettledAlways, PTL
=============================================================================
