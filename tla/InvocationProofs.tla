--------------------------- MODULE InvocationProofs ---------------------------
(***************************************************************************)
(* An invocation for any tree of agents, any models, tools and callbacks,  *)
(* and any number of turns and calls.                                      *)
(*                                                                         *)
(* Between the yield of an event and its being persisted the frames are    *)
(* ahead of the history, so the invariant speaks of Ahead, the history     *)
(* with the event that is on its way.  Of each frame it says what the      *)
(* steps it still has to take rely on (StepInv: a response is about to     *)
(* follow an open call, the tools run last), where each call of its run is *)
(* (OwnInv: still to be yielded, answered, promised an answer, or the run  *)
(* is over) and that a loop knows of an escalation (ExitInv); of the       *)
(* stack, that only the top has steps to take and that an interruption     *)
(* reaches every frame above; of the history, that each event follows what *)
(* it answers.                                                             *)
(***************************************************************************)
EXTENDS Invocation, TLAPS, SequenceTheorems, NaturalsInduction, WellFoundedInduction

-----------------------------------------------------------------------------
(* The inductive invariant                                                 *)

\* An event as the runner persists it.
Persisted(e) == [e EXCEPT !.edited = e.kind \in Edits]

\* The history with the event that is on its way.
With(h, e) == IF e.kind = "chunk" THEN h ELSE Append(h, Persisted(e))

\* What the session's history is when the agent on top goes on.
Ahead == IF pc = "event" THEN With(history, out[1]) ELSE history

\* Where the runner is there is an event on its way, or a running agent.
Control ==
    /\ pc \in {"idle", "resume"} => stack = << >>
    /\ pc \in {"agent", "event"} => stack # << >>
    /\ pc \in {"idle", "resume", "agent"} => out = << >>
    /\ pc \in {"event", "yield"} => Len(out) = 1

Emits(d) == d.do = "emit"
Calls(d) == Emits(d) /\ d.event.kind \in CallKinds
Answers(d) == Emits(d) /\ d.event.kind \in {"response", "skipped"}

\* Call c of agent a is in history h, and nothing has answered it; only
\* authentication requests follow it.
OpenCall(h, a, c) ==
    /\ \E i \in 1..Len(h) : /\ h[i].kind \in CallKinds /\ h[i].call = c /\ h[i].by = a
                            /\ \A k \in i + 1..Len(h) : h[k].kind = "auth"
    /\ \A i \in 1..Len(h) : h[i].call = c => h[i].kind \in CallKinds

\* If the model asked for call c, there is an answer to it.
Answered(h, c) ==
    \A i \in 1..Len(h) : h[i].kind = "call" /\ h[i].call = c =>
        \E j \in i + 1..Len(h) : IsAnswer(h[j]) /\ h[j].call = c

\* Step k of what agent a has to do after history h and n calls.
StepInv(t, k, a, h, n) ==
    LET d == t[k] IN
    /\ Emits(d) => /\ d.event.by = a /\ d.event.call <= n
                   /\ d.event.kind \notin {"answer", "user"}
                   /\ d.event.kind \notin CallKinds \cup {"response", "skipped"} => d.event.call = 0
    /\ Calls(d) => /\ k = 1 /\ d.event.call = n /\ n >= 1
                   /\ \A i \in 1..Len(h) : h[i].call # n
    /\ Answers(d) => /\ OpenCall(h, a, d.event.call) /\ d.event.call >= 1
                     /\ \A l \in 1..k - 1 : Emits(t[l]) /\ t[l].event.kind = "auth"
    /\ d.do = "tools" =>
         /\ k = Len(t)
         /\ \/ k = 1 /\ OpenCall(h, a, n) /\ n >= 1 /\ (d.long => Answered(h, n))
            \/ k = 2 /\ Calls(t[1]) /\ (d.long => t[1].event.kind = "longCall")
    /\ d.do = "go" => k = Len(t)

\* The steps t go on to the response of call c, or end the invocation.
Promised(t, c, n) ==
    \/ t # << >> /\ t[1].do = "tools" /\ c = n
    \/ \E k \in 1..Len(t) : Emits(t[k]) /\ (t[k].end \/ (Answers(t[k]) /\ t[k].event.call = c))

\* Where call c of a run is: still to be yielded, or in the history and
\* answered, unless the run is over or about to answer it.
OwnInv(f, c, h, n) ==
    \/ Len(f.todo) = 2 /\ Calls(f.todo[1]) /\ f.todo[1].event.call = c /\ f.todo[2].do = "tools"
    \/ /\ \E i \in 1..Len(h) : h[i].call = c
       /\ f.end \/ Answered(h, c) \/ Promised(f.todo, c, n)

\* A loop knows that an agent it runs has escalated.
ExitInv(f, h) ==
    (Kind[f.agent] = "loop" /\ \E j \in f.from + 1..Len(h) : h[j].esc) => f.exit

FrameInv(f, h, n) ==
    /\ f.at = "stream" => Kind[f.agent] = "llm"
    /\ f.at # "stream" => f.todo = << >>
    /\ \A k \in 1..Len(f.todo) : StepInv(f.todo, k, f.agent, h, n)
    /\ \A c \in f.own : c \in 1..n /\ OwnInv(f, c, h, n)
    /\ ExitInv(f, h)

StackInv(s, h, n) ==
    /\ \A i \in 1..Len(s) : FrameInv(s[i], h, n)
    /\ \A i, j \in 1..Len(s) : i < j => s[i].todo = << >> /\ (s[i].end => s[j].end)

\* A response or a skipped call at place j has its call right before it.
Follows(h, j) ==
    /\ \E i \in 1..j - 1 :
         /\ h[i].kind \in CallKinds /\ h[i].call = h[j].call /\ h[i].by = h[j].by
         /\ \A k \in i + 1..j - 1 : h[k].kind = "auth"
    /\ \A i \in 1..j - 1 : h[i].call = h[j].call => h[i].kind \in CallKinds

EventInv(h, j, n) ==
    /\ h[j].call <= n
    /\ h[j].kind \in CallKinds => h[j].by \in Agents /\ h[j].call >= 1
    /\ h[j].kind = "answer" => \E i \in 1..j - 1 : h[i].kind \in CallKinds /\ h[i].call = h[j].call
    /\ h[j].kind \in {"response", "skipped"} => Follows(h, j)

HistoryInv(h, n) == \A j \in 1..Len(h) : EventInv(h, j, n)

Resumed == pc = "resume" => base = Len(history)

Inv ==
    /\ TypeOK
    /\ Control
    /\ HistoryInv(Ahead, calls)
    /\ StackInv(stack, Ahead, calls)
    /\ Resumed
    /\ AnswerReachesCaller

-----------------------------------------------------------------------------
(* Induction over the numbers, as a fact about sets                        *)

Below == {p \in Nat \X Nat : p[1] < p[2]}

\* A set of numbers that is not empty has a least element.
LEMMA LeastElement ==
    ASSUME NEW T \in SUBSET Nat, T # {}
    PROVE  \E x \in T : \A y \in T : x <= y
<1>1. IsWellFoundedOn(Below, Nat)
  BY NatLessThanWellFounded DEF OpToRel, Below
<1>2. \E x \in T : \A y \in T : <<y, x>> \notin Below
  BY <1>1, WFMin, Zenon
<1>3. \A x \in T, y \in T : <<y, x>> \notin Below => x <= y
  BY DEF Below
<1> QED BY <1>2, <1>3

\* Induction up to n, for a set in place of a predicate.
LEMMA UpTo ==
    ASSUME NEW n \in Nat, NEW T, 0 \in T, \A i \in 0..n - 1 : i \in T => i + 1 \in T
    PROVE  \A i \in 0..n : i \in T
<1> SUFFICES ASSUME (0..n) \ T # {} PROVE FALSE
  OBVIOUS
<1>1. (0..n) \ T \in SUBSET Nat
  OBVIOUS
<1>2. PICK m \in (0..n) \ T : \A y \in (0..n) \ T : m <= y
  BY <1>1, LeastElement
<1>3. m # 0 /\ m - 1 \in 0..n - 1
  BY <1>2
<1>4. m - 1 \in T
  BY <1>2, <1>3
<1> QED BY <1>2, <1>3, <1>4

\* The latest of some places of a sequence is one of them.
LEMMA LatestIn ==
    ASSUME NEW n \in Nat, NEW S \in SUBSET (1..n), S # {}
    PROVE  Latest(S) \in S
<1> DEFINE T == {m \in Nat : \A i \in S : i <= m}
<1>1. n \in T
  OBVIOUS
<1>2. PICK m \in T : \A y \in T : m <= y
  BY <1>1, LeastElement
<1>3. m \in S
  <2> SUFFICES ASSUME m \notin S PROVE FALSE
    OBVIOUS
  <2>1. \A i \in S : i <= m - 1 /\ i >= 1
    BY <1>2
  <2>2. m - 1 \in Nat
    <3>1. PICK i \in S : TRUE
      OBVIOUS
    <3> QED BY <3>1, <2>1, <1>2
  <2>3. m - 1 \in T
    BY <2>1, <2>2
  <2> QED BY <1>2, <2>3
<1>4. m \in S /\ \A j \in S : j <= m
  BY <1>2, <1>3
<1> QED BY <1>4 DEF Latest

-----------------------------------------------------------------------------
(* What Kept keeps                                                         *)

\* One value of the recursive function of Kept from the one before.
KeptNext(s, f, n) ==
    IF n = 0 THEN << >>
    ELSE IF s[n].kind = "chunk" THEN f[n - 1] ELSE Append(f[n - 1], s[n])

\* The recursive function of Kept exists.
LEMMA KeptExists ==
    ASSUME NEW s, NEW N \in Nat
    PROVE  \E f : f = [n \in 0..N |-> KeptNext(s, f, n)]
<1> DEFINE Upto(m) == \E f : f = [n \in 0..m |-> KeptNext(s, f, n)]
           T == {m \in Nat : Upto(m)}
<1>1. 0 \in T
  <2>1. [n \in 0..0 |-> << >>] = [n \in 0..0 |-> KeptNext(s, [k \in 0..0 |-> << >>], n)]
    BY DEF KeptNext
  <2> QED BY <2>1
<1>2. ASSUME NEW m \in Nat, m \in T PROVE m + 1 \in T
  <2>1. PICK f : f = [n \in 0..m |-> KeptNext(s, f, n)]
    BY <1>2
  <2>2. PICK g : g = [n \in 0..m + 1 |-> IF n <= m THEN f[n] ELSE KeptNext(s, f, n)]
    OBVIOUS
  <2>3. ASSUME NEW n \in 0..m + 1 PROVE KeptNext(s, f, n) = KeptNext(s, g, n)
    <3>1. n # 0 => n - 1 \in 0..m + 1 /\ n - 1 <= m
      OBVIOUS
    <3>2. n # 0 => g[n - 1] = f[n - 1]
      BY <3>1, <2>2
    <3> QED BY <3>2 DEF KeptNext
  <2>4. \A n \in 0..m : f[n] = KeptNext(s, f, n)
    BY <2>1
  <2>5. \A n \in 0..m + 1 : g[n] = KeptNext(s, g, n)
    <3> TAKE n \in 0..m + 1
    <3>1. CASE n <= m
      BY <3>1, <2>2, <2>3, <2>4
    <3>2. CASE n > m
      BY <3>2, <2>2, <2>3
    <3> QED BY <3>1, <3>2
  <2>6. g = [n \in 0..m + 1 |-> KeptNext(s, g, n)]
    BY <2>2, <2>5
  <2> QED BY <2>6
<1> HIDE DEF T
<1>4. \A i \in 0..N : i \in T
  BY <1>1, <1>2, UpTo
<1> QED BY <1>4 DEF T

\* Kept is the last value of a function that obeys its recursion.
LEMMA KeptValue ==
    ASSUME NEW S, NEW s \in Seq(S)
    PROVE  \E f : /\ Kept(s) = f[Len(s)]
                  /\ \A n \in 0..Len(s) : f[n] = KeptNext(s, f, n)
<1>0. Len(s) \in Nat
  BY LenProperties
<1>1. PICK f : f = CHOOSE kept : kept = [n \in 0..Len(s) |-> KeptNext(s, kept, n)]
  OBVIOUS
<1>2. f = [n \in 0..Len(s) |-> KeptNext(s, f, n)]
  BY <1>0, <1>1, KeptExists
<1>3. Kept(s) = f[Len(s)]
  BY <1>1 DEF Kept, KeptNext
<1>4. \A n \in 0..Len(s) : f[n] = KeptNext(s, f, n)
  BY <1>2
<1> QED BY <1>3, <1>4

LEMMA KeptEmpty == Kept(<< >>) = << >>
<1>1. << >> \in Seq({}) /\ Len(<< >>) = 0 /\ 0 \in 0..0
  BY EmptySeq
<1>2. PICK f : Kept(<< >>) = f[0] /\ \A n \in 0..0 : f[n] = KeptNext(<< >>, f, n)
  BY <1>1, KeptValue
<1> QED BY <1>1, <1>2 DEF KeptNext

\* A partial event adds nothing to what is kept, any other event itself.
LEMMA KeptAppend ==
    ASSUME NEW S, NEW s \in Seq(S), NEW e \in S
    PROVE  Kept(Append(s, e)) = IF e.kind = "chunk" THEN Kept(s) ELSE Append(Kept(s), e)
<1>1. PICK t : t = Append(s, e)
  OBVIOUS
<1>2. /\ t \in Seq(S) /\ Len(t) = Len(s) + 1 /\ Len(s) \in Nat
      /\ \A i \in 1..Len(s) : t[i] = s[i]
      /\ t[Len(s) + 1] = e
  BY <1>1, AppendProperties, LenProperties
<1>3. PICK f : Kept(s) = f[Len(s)] /\ \A n \in 0..Len(s) : f[n] = KeptNext(s, f, n)
  BY KeptValue
<1>4. PICK g : Kept(t) = g[Len(t)] /\ \A n \in 0..Len(t) : g[n] = KeptNext(t, g, n)
  BY <1>2, KeptValue
<1> DEFINE T == {n \in 0..Len(s) : f[n] = g[n]}
<1>5. 0 \in T
  BY <1>2, <1>3, <1>4 DEF KeptNext
<1>6. ASSUME NEW n \in 0..Len(s) - 1, n \in T PROVE n + 1 \in T
  <2>1. n + 1 \in 0..Len(s) /\ n + 1 \in 0..Len(t) /\ n + 1 \in 1..Len(s) /\ (n + 1) - 1 = n
        /\ n + 1 # 0
    BY <1>2
  <2>2. f[n + 1] = KeptNext(s, f, n + 1) /\ g[n + 1] = KeptNext(t, g, n + 1)
    BY <2>1, <1>3, <1>4
  <2>3. t[n + 1] = s[n + 1] /\ f[n] = g[n]
    BY <2>1, <1>2, <1>6
  <2>4. KeptNext(s, f, n + 1) = KeptNext(t, g, n + 1)
    BY <2>1, <2>3 DEF KeptNext
  <2> QED BY <2>1, <2>2, <2>4
<1> HIDE DEF T
<1>7. Len(s) \in T
  <2>1. \A i \in 0..Len(s) : i \in T
    BY <1>2, <1>5, <1>6, UpTo
  <2> QED BY <2>1, <1>2
<1>8. f[Len(s)] = g[Len(s)]
  BY <1>7 DEF T
<1>9. g[Len(t)] = KeptNext(t, g, Len(t)) /\ Len(t) # 0 /\ Len(t) - 1 = Len(s) /\ t[Len(t)] = e
  BY <1>2, <1>4
<1> QED BY <1>1, <1>3, <1>4, <1>8, <1>9 DEF KeptNext

-----------------------------------------------------------------------------
(* Frames and events                                                       *)

\* What a frame makes of an event, whatever its agent is.
SeenFrame(f, e) ==
    [f EXCEPT
        !.last = IF Kind[f.agent] = "llm"
                   THEN IF IsFinalResponse(e) THEN "final" ELSE e.kind ELSE @,
        !.exit = @ \/ (Kind[f.agent] = "loop" /\ e.esc)]

LEMMA SeenFrameFields ==
    ASSUME NEW f \in FrameType, NEW e \in EventType
    PROVE  /\ SeenFrame(f, e) \in FrameType
           /\ SeenFrame(f, e).agent = f.agent /\ SeenFrame(f, e).at = f.at
           /\ SeenFrame(f, e).todo = f.todo /\ SeenFrame(f, e).own = f.own
           /\ SeenFrame(f, e).end = f.end /\ SeenFrame(f, e).from = f.from
           /\ SeenFrame(f, e).exit = (f.exit \/ (Kind[f.agent] = "loop" /\ e.esc))
  BY DEF SeenFrame, FrameType, EventType, EventKinds, IsFinalResponse

\* Seen changes the frames one by one.
LEMMA SeenStack ==
    ASSUME NEW s \in Seq(FrameType), NEW e \in EventType
    PROVE  /\ Seen(s, e) \in Seq(FrameType) /\ Len(Seen(s, e)) = Len(s)
           /\ \A i \in 1..Len(s) : Seen(s, e)[i] = SeenFrame(s[i], e)
<1>1. Seen(s, e) = [i \in 1..Len(s) |-> SeenFrame(s[i], e)]
  BY LenProperties DEF Seen, SeenFrame
<1>2. \A i \in 1..Len(s) : SeenFrame(s[i], e) \in FrameType
  BY ElementOfSeq, SeenFrameFields
<1>3. Len(s) \in Nat
  BY LenProperties
<1>4. Seen(s, e) \in Seq(FrameType)
  BY <1>1, <1>2, <1>3, IsASeq
<1>5. Seen(s, e) \in [1..Len(s) -> FrameType]
  BY <1>1, <1>2
<1>6. Len(Seen(s, e)) = Len(s)
  BY <1>3, <1>4, <1>5, LenProperties
<1> QED BY <1>1, <1>4, <1>6

LEMMA TopTyped ==
    ASSUME NEW s \in Seq(FrameType), s # << >>
    PROVE  s[Len(s)] \in FrameType /\ Len(s) \in Nat /\ Len(s) >= 1 /\ Len(s) \in 1..Len(s)
  BY ElementOfSeq, LenProperties, EmptySeq

LEMMA ReplacedStack ==
    ASSUME NEW s \in Seq(FrameType), s # << >>, NEW f \in FrameType
    PROVE  /\ [s EXCEPT ![Len(s)] = f] \in Seq(FrameType)
           /\ Len([s EXCEPT ![Len(s)] = f]) = Len(s)
           /\ \A i \in 1..Len(s) : [s EXCEPT ![Len(s)] = f][i] = IF i = Len(s) THEN f ELSE s[i]
  BY ExceptSeq, TopTyped

\* Whose calls and what events may come next.
NewEvent(h, e, n) ==
    /\ e \in EventType /\ e.call <= n
    /\ e.kind \in CallKinds => e.by \in Agents /\ e.call >= 1 /\ \A i \in 1..Len(h) : h[i].call # e.call
    /\ e.kind = "answer" => \E i \in 1..Len(h) : h[i].kind \in CallKinds /\ h[i].call = e.call
    /\ e.kind \in {"response", "skipped"} => OpenCall(h, e.by, e.call)

\* onEvent leaves alone what the resumption and the agents look at.
LEMMA PersistedFields ==
    ASSUME NEW e \in EventType
    PROVE  /\ Persisted(e) \in EventType
           /\ Persisted(e).by = e.by /\ Persisted(e).kind = e.kind
           /\ Persisted(e).call = e.call /\ Persisted(e).esc = e.esc
<1>1. CASE e.kind \in Edits
  <2>1. Persisted(e) = [e EXCEPT !.edited = TRUE]
    BY <1>1, Zenon DEF Persisted
  <2> QED BY <2>1 DEF EventType
<1>2. CASE e.kind \notin Edits
  <2>0. (e.kind \in Edits) = FALSE
    BY <1>2
  <2>1. Persisted(e) = [e EXCEPT !.edited = FALSE]
    BY <2>0, Zenon DEF Persisted
  <2> QED BY <2>1 DEF EventType
<1> QED BY <1>1, <1>2

\* A history that grows by one event.
Grows(h, p, e) ==
    /\ p \in Seq(EventType) /\ Len(h) \in Nat
    /\ Len(p) = Len(h) + 1 /\ \A i \in 1..Len(h) : p[i] = h[i]
    /\ p[Len(p)].by = e.by /\ p[Len(p)].kind = e.kind
    /\ p[Len(p)].call = e.call /\ p[Len(p)].esc = e.esc

\* A partial event leaves the history as it is, any other is appended.
LEMMA WithGrows ==
    ASSUME NEW h \in Seq(EventType), NEW e \in EventType
    PROVE  /\ e.kind = "chunk" => With(h, e) = h
           /\ e.kind # "chunk" => Grows(h, With(h, e), e)
  BY PersistedFields, AppendProperties, LenProperties DEF With, Grows

\* The history stays sound when a sound event is appended.
LEMMA HistoryGrows ==
    ASSUME NEW h \in Seq(EventType), NEW p, NEW n \in Nat, NEW e, HistoryInv(h, n),
           NewEvent(h, e, n), Grows(h, p, e)
    PROVE  HistoryInv(p, n)
<1> SUFFICES ASSUME NEW j \in 1..Len(p) PROVE EventInv(p, j, n)
  BY DEF HistoryInv
<1>0. Len(h) \in Nat /\ Len(p) = Len(h) + 1 /\ \A i \in 1..Len(h) : p[i] = h[i]
  BY DEF Grows
<1>1. CASE j \in 1..Len(h)
  <2>1. EventInv(h, j, n)
    BY <1>1 DEF HistoryInv
  <2>2. \A i \in 1..j - 1 : i \in 1..Len(h) /\ p[i] = h[i]
    BY <1>0, <1>1
  <2>3. p[j] = h[j]
    BY <1>0, <1>1
  <2>4. ASSUME Follows(h, j) PROVE Follows(p, j)
    <3>1. PICK i \in 1..j - 1 : /\ h[i].kind \in CallKinds /\ h[i].call = h[j].call /\ h[i].by = h[j].by
                                /\ \A k \in i + 1..j - 1 : h[k].kind = "auth"
      BY <2>4 DEF Follows
    <3>2. \A k \in i + 1..j - 1 : k \in 1..j - 1
      OBVIOUS
    <3>3. \A k \in i + 1..j - 1 : p[k].kind = "auth"
      BY <3>1, <3>2, <2>2
    <3>4. \A k \in 1..j - 1 : p[k].call = p[j].call => p[k].kind \in CallKinds
      BY <2>2, <2>3, <2>4 DEF Follows
    <3> QED BY <3>1, <3>3, <3>4, <2>2, <2>3 DEF Follows
  <2>5. p[j].kind = "answer" => \E i \in 1..j - 1 : p[i].kind \in CallKinds /\ p[i].call = p[j].call
    BY <2>1, <2>2, <2>3 DEF EventInv
  <2> QED BY <2>1, <2>3, <2>4, <2>5 DEF EventInv
<1>2. CASE j = Len(p)
  <2>1. j - 1 = Len(h) /\ p[j].by = e.by /\ p[j].kind = e.kind /\ p[j].call = e.call
    BY <1>0, <1>2 DEF Grows
  <2>2. \A i \in 1..j - 1 : p[i] = h[i]
    BY <2>1, <1>0
  <2>3. e.kind \in {"response", "skipped"} => Follows(p, j)
    <3> SUFFICES ASSUME OpenCall(h, e.by, e.call) PROVE Follows(p, j)
      BY DEF NewEvent
    <3>1. PICK i \in 1..Len(h) : /\ h[i].kind \in CallKinds /\ h[i].call = e.call /\ h[i].by = e.by
                                 /\ \A k \in i + 1..Len(h) : h[k].kind = "auth"
      BY DEF OpenCall
    <3>2. \A k \in i + 1..j - 1 : k \in 1..Len(h) /\ k \in i + 1..Len(h)
      BY <2>1
    <3>3. \A k \in i + 1..j - 1 : p[k].kind = "auth"
      BY <3>1, <3>2, <1>0
    <3>4. \A k \in 1..j - 1 : p[k].call = p[j].call => p[k].kind \in CallKinds
      BY <2>1, <2>2 DEF OpenCall
    <3> QED BY <3>1, <3>3, <3>4, <2>1, <2>2 DEF Follows
  <2>4. e.kind = "answer" => \E i \in 1..j - 1 : p[i].kind \in CallKinds /\ p[i].call = p[j].call
    BY <2>1, <2>2 DEF NewEvent
  <2> QED BY <2>1, <2>3, <2>4 DEF EventInv, NewEvent
<1> QED BY <1>0, <1>1, <1>2

-----------------------------------------------------------------------------
(* What a frame's invariant asks of its changes                            *)

\* The agent goes on, with nothing left to do and nothing new of its own.
QuietFrame(f, g) ==
    /\ f \in FrameType
    /\ f.agent = g.agent /\ f.from = g.from /\ f.own = g.own /\ f.exit = g.exit
    /\ f.todo = << >> /\ g.todo = << >>
    /\ g.end => f.end
    /\ f.at = "stream" => Kind[f.agent] = "llm"

LEMMA QuietFrameInv ==
    ASSUME NEW g, NEW f, NEW h, NEW n \in Nat, FrameInv(g, h, n), QuietFrame(f, g)
    PROVE  FrameInv(f, h, n)
<1>1. \A c \in f.own : c \in 1..n /\ OwnInv(f, c, h, n)
  BY DEF QuietFrame, FrameInv, OwnInv, Promised
<1>2. \A k \in 1..Len(f.todo) : StepInv(f.todo, k, f.agent, h, n)
  BY DEF QuietFrame, FrameInv
<1> QED BY <1>1, <1>2 DEF QuietFrame, FrameInv, ExitInv

\* The event is not one that opens a call the history knows.
LEMMA AnsweredStays ==
    ASSUME NEW h, NEW p, NEW e, NEW c, Grows(h, p, e), Answered(h, c),
           e.kind = "call" => e.call # c
    PROVE  Answered(p, c)
<1> SUFFICES ASSUME NEW i \in 1..Len(p), p[i].kind = "call", p[i].call = c
             PROVE  \E j \in i + 1..Len(p) : IsAnswer(p[j]) /\ p[j].call = c
  BY DEF Answered
<1>0. Len(h) \in Nat /\ Len(p) = Len(h) + 1 /\ \A k \in 1..Len(h) : p[k] = h[k]
  BY DEF Grows
<1>1. i \in 1..Len(h)
  <2>1. i # Len(p)
    BY DEF Grows
  <2> QED BY <1>0, <2>1
<1>2. PICK j \in i + 1..Len(h) : IsAnswer(h[j]) /\ h[j].call = c
  BY <1>0, <1>1 DEF Answered
<1>3. j \in i + 1..Len(p) /\ p[j] = h[j]
  BY <1>0, <1>1, <1>2
<1> QED BY <1>2, <1>3

\* An answer settles its call.
LEMMA AnsweredNow ==
    ASSUME NEW h, NEW p, NEW e, Grows(h, p, e), IsAnswer(e)
    PROVE  Answered(p, e.call)
<1> SUFFICES ASSUME NEW i \in 1..Len(p), p[i].kind = "call", p[i].call = e.call
             PROVE  \E j \in i + 1..Len(p) : IsAnswer(p[j]) /\ p[j].call = e.call
  BY DEF Answered
<1>0. Len(h) \in Nat /\ Len(p) = Len(h) + 1 /\ p[Len(p)].kind = e.kind /\ p[Len(p)].call = e.call
  BY DEF Grows
<1>1. i # Len(p)
  BY <1>0 DEF IsAnswer
<1> QED BY <1>0, <1>1 DEF IsAnswer

\* A loop that sees an event escalate keeps that in exit.
LEMMA ExitSeen ==
    ASSUME NEW f \in FrameType, NEW h \in Seq(EventType), NEW e \in EventType, ExitInv(f, h)
    PROVE  ExitInv(SeenFrame(f, e), With(h, e))
<1>1. PICK p : p = With(h, e)
  OBVIOUS
<1>2. PICK g : g = SeenFrame(f, e)
  OBVIOUS
<1>3. /\ g.agent = f.agent /\ g.from = f.from /\ f.from \in Nat
      /\ g.exit = (f.exit \/ (Kind[f.agent] = "loop" /\ e.esc))
  BY <1>2, SeenFrameFields DEF FrameType
<1> SUFFICES ASSUME Kind[g.agent] = "loop", NEW j \in g.from + 1..Len(p), p[j].esc
             PROVE  g.exit
  BY <1>1, <1>2 DEF ExitInv
<1>4. CASE e.kind = "chunk"
  <2>1. p = h
    BY <1>1, <1>4, WithGrows
  <2> QED BY <2>1, <1>3 DEF ExitInv
<1>5. CASE e.kind # "chunk"
  <2>1. Grows(h, p, e)
    BY <1>1, <1>5, WithGrows
  <2>0. Len(h) \in Nat /\ Len(p) = Len(h) + 1 /\ \A k \in 1..Len(h) : p[k] = h[k]
    BY <2>1 DEF Grows
  <2>2. CASE j = Len(p)
    BY <2>2, <1>3, <2>1 DEF Grows
  <2>3. CASE j # Len(p)
    <3>1. j \in f.from + 1..Len(h) /\ j \in 1..Len(h)
      BY <2>0, <2>3, <1>3
    <3>2. h[j].esc
      BY <2>0, <3>1
    <3>3. f.exit
      BY <3>1, <3>2, <1>3 DEF ExitInv
    <3> QED BY <3>3, <1>3
  <2> QED BY <2>2, <2>3
<1> QED BY <1>4, <1>5

\* A frame that waits for the one above it, or has nothing to do, while an
\* event goes by.
LEMMA BystanderInv ==
    ASSUME NEW f \in FrameType, NEW h \in Seq(EventType), NEW n \in Nat, NEW e,
           FrameInv(f, h, n), f.todo = << >>, NewEvent(h, e, n)
    PROVE  FrameInv(SeenFrame(f, e), With(h, e), n)
<1>e. e \in EventType
  BY DEF NewEvent
<1>1. PICK p : p = With(h, e)
  OBVIOUS
<1>2. PICK g : g = SeenFrame(f, e)
  OBVIOUS
<1>3. /\ g.agent = f.agent /\ g.at = f.at /\ g.todo = << >> /\ g.own = f.own /\ g.end = f.end
  BY <1>e, <1>2, SeenFrameFields
<1>4. ExitInv(g, p)
  BY <1>e, <1>1, <1>2, ExitSeen DEF FrameInv
<1>5. \A k \in 1..Len(g.todo) : StepInv(g.todo, k, g.agent, p, n)
  BY <1>3, EmptySeq
<1>6. ASSUME NEW c \in g.own PROVE c \in 1..n /\ OwnInv(g, c, p, n)
  <2>1. c \in 1..n /\ (\E i \in 1..Len(h) : h[i].call = c) /\ (f.end \/ Answered(h, c))
    BY <1>3, <1>6, EmptySeq DEF FrameInv, OwnInv, Promised
  <2>2. CASE e.kind = "chunk"
    <3>1. p = h
      BY <1>e, <1>1, <2>2, WithGrows
    <3> QED BY <3>1, <2>1, <1>3 DEF OwnInv
  <2>3. CASE e.kind # "chunk"
    <3>1. Grows(h, p, e)
      BY <1>e, <1>1, <2>3, WithGrows
    <3>2. \E i \in 1..Len(p) : p[i].call = c
      BY <3>1, <2>1 DEF Grows
    <3>3. e.kind = "call" => e.call # c
      BY <2>1 DEF NewEvent, CallKinds
    <3>4. Answered(h, c) => Answered(p, c)
      BY <3>1, <3>3, AnsweredStays
    <3> QED BY <1>3, <2>1, <3>2, <3>4 DEF OwnInv
  <2> QED BY <2>2, <2>3
<1>7. FrameInv(g, p, n)
  BY <1>3, <1>4, <1>5, <1>6 DEF FrameInv
<1> QED BY <1>1, <1>2, <1>7

\* What a run begins with.
LEMMA NewFrameInv ==
    ASSUME NEW a \in Agents, NEW end \in BOOLEAN, history \in Seq(EventType), NEW n \in Nat
    PROVE  /\ Frame(a, end) \in FrameType /\ Frame(a, end).end = end
           /\ Frame(a, end).agent = a /\ Frame(a, end).own = {}
           /\ FrameInv(Frame(a, end), history, n)
<1>1. PICK f : f = Frame(a, end)
  OBVIOUS
<1>2. /\ f.agent = a /\ f.end = end /\ f.calls = 0 /\ f.at = "before" /\ f.todo = << >> /\ f.left = 0
      /\ f.sub = 0 /\ f.iter = 0 /\ f.last = "none" /\ f.exit = FALSE /\ f.from = Len(history)
      /\ f.own = {}
  BY <1>1 DEF Frame
<1>3. Len(history) \in Nat
  BY LenProperties
<1>4. f \in FrameType
  <2>1. << >> \in Seq(StepType)
    BY EmptySeq
  <2> QED BY <1>1, <1>3, <2>1, InvocationAssumption DEF Frame, FrameType
<1>5. FrameInv(f, history, n)
  <2>1. ~\E j \in f.from + 1..Len(history) : history[j].esc
    BY <1>2, <1>3
  <2>2. \A k \in 1..Len(f.todo) : StepInv(f.todo, k, f.agent, history, n)
    BY <1>2, EmptySeq
  <2> QED BY <1>2, <2>1, <2>2 DEF FrameInv, ExitInv
<1> QED BY <1>1, <1>2, <1>4, <1>5

-----------------------------------------------------------------------------
(* What the model and the tools leave to do                                *)

\* A frame takes up the steps of a response.
RespondedFrame(f, g, r) ==
    /\ f \in FrameType
    /\ f.agent = g.agent /\ f.from = g.from /\ f.own = Own(r) /\ f.exit = g.exit
    /\ f.todo = Handle(r) /\ g.todo = << >> /\ f.end = g.end
    /\ f.at = "stream" /\ Kind[f.agent] = "llm"

LEMMA EventTyped ==
    ASSUME NEW a \in Agents, NEW k \in EventKinds, NEW c \in 0..MaxCalls, NEW esc \in BOOLEAN
    PROVE  /\ Event(a, k, c, esc) \in EventType
           /\ Event(a, k, c, esc).by = a /\ Event(a, k, c, esc).kind = k
           /\ Event(a, k, c, esc).call = c /\ Event(a, k, c, esc).esc = esc
  BY DEF Event, EventType

LEMMA EmitTyped ==
    ASSUME NEW e \in EventType, NEW end \in BOOLEAN
    PROVE  /\ Emit(e, end) \in StepType
           /\ Emit(e, end).do = "emit" /\ Emit(e, end).event = e /\ Emit(e, end).end = end
  BY DEF Emit, StepType

LEMMA OtherStepsTyped ==
    /\ \A long \in BOOLEAN : /\ CallTools(long) \in StepType
                             /\ CallTools(long).do = "tools" /\ CallTools(long).long = long
    /\ \A a \in Targets : /\ GoTo(a) \in StepType /\ GoTo(a).do = "go" /\ GoTo(a).to = a
  BY DEF CallTools, GoTo, StepType

\* The steps of a response: nothing, its event, or a call and its tools.
LEMMA HandleShape ==
    ASSUME Top \in FrameType, calls \in 0..MaxCalls, NEW r \in Responses, Allowed(r)
    PROVE  /\ Handle(r) \in Seq(StepType)
           /\ \/ r \notin CallKinds /\ Handle(r) = << >>
              \/ /\ r \in {"text", "chunk"}
                 /\ \E d \in StepType :
                      /\ Handle(r) = <<d>> /\ d.do = "emit"
                      /\ d.event = Event(Top.agent, r, 0, FALSE) /\ ~d.end
              \/ /\ r \in CallKinds /\ calls + 1 \in 1..MaxCalls
                 /\ \E d \in StepType, t \in StepType :
                      /\ Handle(r) = <<d, t>> /\ d.do = "emit"
                      /\ d.event = Event(Top.agent, r, calls + 1, FALSE)
                      /\ t.do = "tools" /\ t.long = (r = "longCall")
<1>1. Top.agent \in Agents /\ MaxCalls \in Nat /\ r \in {"empty", "text", "chunk", "call", "longCall"}
  BY InvocationAssumption DEF FrameType
<1>2. CASE r = "empty"
  <2>1. Handle(r) = << >>
    BY <1>2 DEF Handle, CallKinds
  <2> QED BY <1>2, <2>1, EmptySeq DEF CallKinds
<1>3. CASE r \in {"text", "chunk"}
  <2>1. PICK e : e = Event(Top.agent, r, 0, FALSE)
    OBVIOUS
  <2>2. r \in EventKinds /\ 0 \in 0..MaxCalls
    BY <1>1, <1>3 DEF EventKinds
  <2>3. e \in EventType
    BY <1>1, <2>1, <2>2, EventTyped
  <2>4. PICK d : d = Emit(e, FALSE)
    OBVIOUS
  <2>5. d \in StepType /\ d.do = "emit" /\ d.event = e /\ ~d.end
    BY <2>3, <2>4, EmitTyped
  <2>6. Handle(r) = <<d>>
    BY <1>3, <2>1, <2>4, Zenon DEF Handle, CallKinds
  <2>7. <<d>> \in Seq(StepType)
    BY <2>5
  <2> QED BY <1>3, <2>1, <2>5, <2>6, <2>7
<1>4. CASE r \in CallKinds
  <2>0. calls + 1 \in 1..MaxCalls /\ r \in EventKinds /\ calls + 1 \in 0..MaxCalls
    BY <1>1, <1>4 DEF Allowed, CallKinds, EventKinds
  <2>1. PICK e : e = Event(Top.agent, r, calls + 1, FALSE)
    OBVIOUS
  <2>2. e \in EventType
    BY <1>1, <2>1, <2>0, EventTyped
  <2>3. PICK d : d = Emit(e, FALSE)
    OBVIOUS
  <2>4. d \in StepType /\ d.do = "emit" /\ d.event = e
    BY <2>2, <2>3, EmitTyped
  <2>5. PICK t : t = CallTools(r = "longCall")
    OBVIOUS
  <2>6. t \in StepType /\ t.do = "tools" /\ t.long = (r = "longCall")
    BY <2>5, OtherStepsTyped
  <2>7. Handle(r) = <<d, t>>
    BY <1>4, <2>1, <2>3, <2>5, Zenon DEF Handle, CallKinds
  <2>8. <<d, t>> \in Seq(StepType)
    BY <2>4, <2>6
  <2> QED BY <1>4, <2>0, <2>1, <2>4, <2>6, <2>7, <2>8
<1> QED BY <1>1, <1>2, <1>3, <1>4 DEF CallKinds

\* A step that yields an event of no call.
LEMMA OtherEventStep ==
    ASSUME NEW t, NEW k, NEW a, NEW h, NEW n \in Nat, NEW d, t[k] = d, d.do = "emit",
           d.event.by = a, d.event.call = 0,
           d.event.kind \notin {"answer", "user", "response", "skipped"} \cup CallKinds
    PROVE  StepInv(t, k, a, h, n)
<1>1. Emits(d) /\ ~Calls(d) /\ ~Answers(d) /\ d.do # "tools" /\ d.do # "go"
  BY DEF Emits, Calls, Answers
<1>2. d.event.call <= n
  OBVIOUS
<1> QED BY <1>1, <1>2 DEF StepInv

\* A step that yields a function call.
LEMMA CallStep ==
    ASSUME NEW t, NEW a, NEW h, NEW n \in Nat, n >= 1, NEW d, t[1] = d, d.do = "emit",
           d.event.by = a, d.event.call = n, d.event.kind \in CallKinds,
           \A i \in 1..Len(h) : h[i].call # n
    PROVE  StepInv(t, 1, a, h, n)
<1>1. Emits(d) /\ Calls(d) /\ ~Answers(d) /\ d.do # "tools" /\ d.do # "go"
  BY DEF Emits, Calls, Answers, CallKinds
<1>2. d.event.call <= n /\ d.event.kind \notin {"answer", "user"}
  BY DEF CallKinds
<1> QED BY <1>1, <1>2 DEF StepInv

\* A step that yields the response to a call.
LEMMA AnswerStep ==
    ASSUME NEW t, NEW k, NEW a, NEW h, NEW n \in Nat, NEW d, t[k] = d, d.do = "emit",
           d.event.by = a, d.event.kind \in {"response", "skipped"},
           d.event.call \in 1..n, OpenCall(h, a, d.event.call),
           \A l \in 1..k - 1 : Emits(t[l]) /\ t[l].event.kind = "auth"
    PROVE  StepInv(t, k, a, h, n)
<1>1. Emits(d) /\ ~Calls(d) /\ Answers(d) /\ d.do # "tools" /\ d.do # "go"
  BY DEF Emits, Calls, Answers, CallKinds
<1>2. d.event.call <= n /\ d.event.call >= 1 /\ d.event.kind \notin {"answer", "user"}
  OBVIOUS
<1> QED BY <1>1, <1>2 DEF StepInv

\* A frame that is given more calls to count keeps its invariant while it has
\* nothing to do.
LEMMA MoreCalls ==
    ASSUME NEW f, NEW h, NEW n \in Nat, NEW m \in Nat, m >= n, FrameInv(f, h, n), f.todo = << >>
    PROVE  FrameInv(f, h, m)
<1>1. \A c \in f.own : c \in 1..m /\ OwnInv(f, c, h, m)
  BY EmptySeq DEF FrameInv, OwnInv, Promised
<1>2. \A k \in 1..Len(f.todo) : StepInv(f.todo, k, f.agent, h, m)
  BY EmptySeq
<1> QED BY <1>1, <1>2 DEF FrameInv

\* The frame is sound after it took up a response and its call.
LEMMA RespondedInv ==
    ASSUME Top \in FrameType, calls \in 0..MaxCalls, NEW r \in Responses, Allowed(r),
           NEW h, HistoryInv(h, calls), FrameInv(Top, h, calls), NEW f, RespondedFrame(f, Top, r)
    PROVE  FrameInv(f, h, IF r \in CallKinds THEN calls + 1 ELSE calls)
<1>0. calls \in Nat /\ Top.agent \in Agents /\ Top.agent \notin {User, Early}
  BY InvocationAssumption DEF FrameType
<1>f. /\ f.agent = Top.agent /\ f.from = Top.from /\ f.exit = Top.exit /\ f.end = Top.end
      /\ f.todo = Handle(r) /\ Top.todo = << >> /\ f.own = Own(r)
      /\ f.at = "stream" /\ Kind[f.agent] = "llm"
  BY DEF RespondedFrame
<1>o. \A c \in Top.own : c \in 1..calls /\ (\E i \in 1..Len(h) : h[i].call = c)
                         /\ (f.end \/ Answered(h, c))
  BY <1>f, EmptySeq DEF FrameInv, OwnInv, Promised
<1>1. CASE r \notin CallKinds
  <2>1. f.own = Top.own
    BY <1>1, <1>f DEF Own
  <2>2. \A c \in f.own : c \in 1..calls /\ OwnInv(f, c, h, calls)
    BY <2>1, <1>o DEF OwnInv
  <2>3. ASSUME NEW k \in 1..Len(f.todo) PROVE StepInv(f.todo, k, f.agent, h, calls)
    <3>1. CASE Handle(r) = << >>
      BY <2>3, <3>1, <1>f, EmptySeq
    <3>2. CASE r \in {"text", "chunk"} /\ \E d \in StepType :
                  Handle(r) = <<d>> /\ d.do = "emit" /\ d.event = Event(Top.agent, r, 0, FALSE) /\ ~d.end
      <4>1. PICK d \in StepType : Handle(r) = <<d>> /\ d.do = "emit"
                                  /\ d.event = Event(Top.agent, r, 0, FALSE)
        BY <3>2
      <4>2. d.event.by = Top.agent /\ d.event.kind = r /\ d.event.call = 0
        BY <4>1 DEF Event
      <4>3. f.todo = <<d>> /\ Len(f.todo) = 1 /\ k = 1 /\ f.todo[k] = d
        BY <4>1, <1>f, <2>3
      <4>4. d.event.kind \notin {"answer", "user"} \cup CallKinds \cup {"response", "skipped"}
        BY <3>2, <4>2 DEF CallKinds
      <4> QED BY <4>1, <4>2, <4>3, <4>4, <1>0, <1>f, OtherEventStep
    <3> QED BY <1>1, <3>1, <3>2, HandleShape
  <2>4. FrameInv(f, h, calls)
    BY <2>2, <2>3, <1>f DEF FrameInv, ExitInv
  <2> QED BY <1>1, <2>4
<1>2. CASE r \in CallKinds
  <2>1. PICK d \in StepType, t \in StepType :
              /\ Handle(r) = <<d, t>> /\ d.do = "emit"
              /\ d.event = Event(Top.agent, r, calls + 1, FALSE)
              /\ t.do = "tools" /\ t.long = (r = "longCall")
    BY <1>2, HandleShape DEF CallKinds
  <2>2. d.event.by = Top.agent /\ d.event.kind = r /\ d.event.call = calls + 1
    BY <2>1 DEF Event
  <2>3. f.todo = <<d, t>> /\ Len(f.todo) = 2 /\ f.todo[1] = d /\ f.todo[2] = t
    BY <2>1, <1>f
  <2>4. \A i \in 1..Len(h) : h[i].call <= calls
    BY DEF HistoryInv, EventInv
  <2>5. Calls(d)
    BY <1>2, <2>1, <2>2 DEF Calls, Emits
  <2>6. StepInv(f.todo, 1, f.agent, h, calls + 1)
    <3>1. \A i \in 1..Len(h) : h[i].call # calls + 1
      <4> SUFFICES ASSUME NEW i \in 1..Len(h), h[i].call = calls + 1 PROVE FALSE
        OBVIOUS
      <4>1. calls + 1 <= calls
        BY <2>4
      <4> QED BY <4>1, <1>0
    <3>2. d.event.kind \in CallKinds /\ calls + 1 \in Nat /\ calls + 1 >= 1
      BY <1>0, <1>2, <2>2
    <3> QED BY <2>1, <2>2, <2>3, <3>1, <3>2, <1>f, CallStep
  <2>7. StepInv(f.todo, 2, f.agent, h, calls + 1)
    BY <2>1, <2>2, <2>3, <2>5 DEF StepInv, Emits, Calls, Answers
  <2>8. \A k \in 1..Len(f.todo) : StepInv(f.todo, k, f.agent, h, calls + 1)
    <3>1. \A k \in 1..Len(f.todo) : k = 1 \/ k = 2
      BY <2>3
    <3> QED BY <3>1, <2>6, <2>7
  <2>9. ASSUME NEW c \in f.own PROVE c \in 1..calls + 1 /\ OwnInv(f, c, h, calls + 1)
    <3>1. CASE c \in Top.own
      BY <3>1, <1>o, <1>0 DEF OwnInv
    <3>2. CASE c = calls + 1
      <4>1. Len(f.todo) = 2 /\ Calls(f.todo[1]) /\ f.todo[1].event.call = c /\ f.todo[2].do = "tools"
        BY <3>2, <2>1, <2>2, <2>3, <2>5
      <4> QED BY <3>2, <4>1, <1>0 DEF OwnInv
    <3> QED BY <2>9, <3>1, <3>2, <1>2, <1>f DEF Own
  <2>10. FrameInv(f, h, calls + 1)
    BY <2>8, <2>9, <1>f DEF FrameInv, ExitInv
  <2> QED BY <1>2, <2>10
<1> QED BY <1>1, <1>2

\* A frame yields the event at the head of what it has to do.
EmitFrame(f, g) ==
    /\ f \in FrameType
    /\ f.agent = g.agent /\ f.from = g.from /\ f.own = g.own /\ f.exit = g.exit /\ f.at = g.at
    /\ g.todo # << >> /\ Emits(g.todo[1]) /\ f.todo = Tail(g.todo)
    /\ f.end = (g.end \/ g.todo[1].end)

\* An authentication request leaves the call open, and the call's own event
\* opens it.
LEMMA OpenStays ==
    ASSUME NEW h, NEW p, NEW e, NEW a, NEW c \in Nat, c >= 1, Grows(h, p, e), OpenCall(h, a, c),
           e.kind = "auth", e.call = 0
    PROVE  OpenCall(p, a, c)
<1>0. /\ Len(h) \in Nat /\ Len(p) = Len(h) + 1 /\ \A k \in 1..Len(h) : p[k] = h[k]
      /\ p[Len(p)].kind = "auth" /\ p[Len(p)].call = 0
  BY DEF Grows
<1>1. PICK i \in 1..Len(h) : /\ h[i].kind \in CallKinds /\ h[i].call = c /\ h[i].by = a
                             /\ \A k \in i + 1..Len(h) : h[k].kind = "auth"
  BY DEF OpenCall
<1>2. \A k \in i + 1..Len(p) : k = Len(p) \/ (k \in i + 1..Len(h) /\ k \in 1..Len(h))
  BY <1>0
<1>3. \A k \in i + 1..Len(p) : p[k].kind = "auth"
  BY <1>0, <1>1, <1>2
<1>4. \A k \in 1..Len(p) : k = Len(p) \/ k \in 1..Len(h)
  BY <1>0
<1>5. \A k \in 1..Len(p) : p[k].call = c => p[k].kind \in CallKinds
  BY <1>0, <1>4 DEF OpenCall
<1>6. i \in 1..Len(p) /\ p[i] = h[i]
  BY <1>0, <1>1
<1> QED BY <1>1, <1>3, <1>5, <1>6 DEF OpenCall

\* A call that was just persisted is open.
LEMMA OpenNow ==
    ASSUME NEW h, NEW p, NEW e, Grows(h, p, e), e.kind \in CallKinds,
           \A i \in 1..Len(h) : h[i].call # e.call
    PROVE  OpenCall(p, e.by, e.call)
<1>0. /\ Len(h) \in Nat /\ Len(p) = Len(h) + 1 /\ \A k \in 1..Len(h) : p[k] = h[k]
      /\ p[Len(p)].kind = e.kind /\ p[Len(p)].call = e.call /\ p[Len(p)].by = e.by
  BY DEF Grows
<1>1. Len(p) \in 1..Len(p) /\ \A k \in 1..Len(p) : k = Len(p) \/ k \in 1..Len(h)
  BY <1>0
<1>2. \A k \in Len(p) + 1..Len(p) : FALSE
  BY <1>0
<1> QED BY <1>0, <1>1, <1>2 DEF OpenCall

\* The event a frame is about to yield is one the history may get.
LEMMA EmitNew ==
    ASSUME NEW g \in FrameType, NEW h \in Seq(EventType), NEW n \in Nat, FrameInv(g, h, n),
           g.todo # << >>, Emits(g.todo[1])
    PROVE  /\ NewEvent(h, g.todo[1].event, n)
           /\ g.todo[1].event.kind \notin CallKinds \cup {"response", "skipped"} => g.todo[1].event.call = 0
<1>1. g.todo \in Seq(StepType) /\ 1 \in 1..Len(g.todo) /\ g.todo[1] \in StepType
  BY EmptySeq, LenProperties, ElementOfSeq DEF FrameType
<1>2. PICK d \in StepType : d = g.todo[1]
  BY <1>1
<1>3. StepInv(g.todo, 1, g.agent, h, n)
  BY <1>1 DEF FrameInv
<1>4. d.event \in EventType
  BY <1>2 DEF Emits, StepType
<1>5. g.agent \in Agents
  BY DEF FrameType
<1>6. d.event.by = g.agent /\ d.event.call <= n /\ d.event.kind # "answer"
  BY <1>2, <1>3 DEF StepInv
<1>7. d.event.kind \in CallKinds => d.event.call >= 1 /\ \A i \in 1..Len(h) : h[i].call # d.event.call
  BY <1>2, <1>3 DEF StepInv, Calls
<1>8. d.event.kind \in {"response", "skipped"} => OpenCall(h, g.agent, d.event.call)
  BY <1>2, <1>3 DEF StepInv, Answers
<1>9. d.event.kind \notin CallKinds \cup {"response", "skipped"} => d.event.call = 0
  BY <1>2, <1>3 DEF StepInv
<1> QED BY <1>2, <1>4, <1>5, <1>6, <1>7, <1>8, <1>9 DEF NewEvent

\* The frame is sound once its event is on the way.
LEMMA EmitInv ==
    ASSUME NEW g \in FrameType, NEW h \in Seq(EventType), NEW n \in Nat, FrameInv(g, h, n),
           NEW f, EmitFrame(f, g), g.at = "stream"
    PROVE  FrameInv(SeenFrame(f, g.todo[1].event), With(h, g.todo[1].event), n)
<1>1. PICK t : t = g.todo
  OBVIOUS
<1>2. PICK u : u = f.todo
  OBVIOUS
<1>3. PICK e : e = t[1].event
  OBVIOUS
<1>4. PICK p : p = With(h, e)
  OBVIOUS
<1>5. PICK r : r = SeenFrame(f, e)
  OBVIOUS
<1>6. /\ t \in Seq(StepType) /\ t # << >> /\ u = Tail(t) /\ Emits(t[1]) /\ f.agent = g.agent
      /\ f.own = g.own /\ f.at = "stream" /\ Kind[f.agent] = "llm"
      /\ f.end = (g.end \/ t[1].end) /\ f \in FrameType /\ f.from = g.from /\ f.exit = g.exit
  BY <1>1, <1>2 DEF EmitFrame, FrameType, FrameInv
<1>7. /\ Len(t) \in Nat /\ Len(u) = Len(t) - 1 /\ Len(t) >= 1
      /\ \A k \in 1..Len(u) : k + 1 \in 1..Len(t) /\ u[k] = t[k + 1]
  BY <1>6, HeadTailProperties, LenProperties, EmptySeq
<1>20. Len(u) = 1 => u # << >>
  <2> SUFFICES ASSUME u = << >>, Len(u) = 1 PROVE FALSE
    OBVIOUS
  <2> QED BY EmptySeq
<1>8. NewEvent(h, e, n) /\ (e.kind \notin CallKinds \cup {"response", "skipped"} => e.call = 0)
  BY <1>1, <1>3, <1>6, EmitNew
<1>9. e \in EventType
  BY <1>8 DEF NewEvent
<1>10. /\ r.agent = g.agent /\ r.at = "stream" /\ r.todo = u /\ r.own = g.own /\ r.end = f.end
  BY <1>2, <1>5, <1>6, <1>9, SeenFrameFields
<1>11. ExitInv(r, p)
  <2>1. ExitInv(f, h)
    BY <1>6 DEF FrameInv, ExitInv
  <2> QED BY <2>1, <1>4, <1>5, <1>6, <1>9, ExitSeen
<1>12. \A k \in 1..Len(t) : StepInv(t, k, g.agent, h, n)
  BY <1>1 DEF FrameInv
<1>13. StepInv(t, 1, g.agent, h, n) /\ e.by = g.agent
  <2>1. StepInv(t, 1, g.agent, h, n)
    BY <1>7, <1>12
  <2> QED BY <2>1, <1>3, <1>6 DEF StepInv
<1>14. e.kind \in CallKinds => e.call = n
  BY <1>3, <1>6, <1>13 DEF StepInv, Calls
<1>15. e.kind # "chunk" => Grows(h, p, e)
  BY <1>4, <1>9, WithGrows
<1>16. e.kind = "chunk" => p = h
  BY <1>4, <1>9, WithGrows
<1>17. ASSUME NEW k \in 1..Len(u) PROVE StepInv(u, k, r.agent, p, n)
  <2>1. PICK d : d = u[k]
    OBVIOUS
  <2>2. d = t[k + 1] /\ k + 1 \in 1..Len(t) /\ k \in Nat /\ k >= 1 /\ StepInv(t, k + 1, g.agent, h, n)
    BY <1>7, <1>12, <1>17, <2>1
  <2>3. Emits(d) => /\ d.event.by = r.agent /\ d.event.call <= n
                    /\ d.event.kind \notin {"answer", "user"}
                    /\ d.event.kind \notin CallKinds \cup {"response", "skipped"} => d.event.call = 0
    BY <2>2, <1>10 DEF StepInv
  <2>4. ~Calls(d)
    BY <2>2 DEF StepInv
  <2>5. ASSUME Answers(d)
        PROVE  /\ OpenCall(p, r.agent, d.event.call) /\ d.event.call >= 1
               /\ \A l \in 1..k - 1 : Emits(u[l]) /\ u[l].event.kind = "auth"
    <3>1. /\ OpenCall(h, g.agent, d.event.call) /\ d.event.call >= 1
          /\ \A l \in 1..k : Emits(t[l]) /\ t[l].event.kind = "auth"
      BY <2>2, <2>5 DEF StepInv
    <3>2. e.kind = "auth" /\ e.call = 0
      BY <1>3, <1>8, <2>2, <3>1 DEF CallKinds
    <3>3. d.event.call \in Nat
      <4>1. d \in StepType
        BY <1>6, <2>2, ElementOfSeq
      <4> QED BY <4>1, <2>5, InvocationAssumption DEF Answers, Emits, StepType, EventType
    <3>4. OpenCall(p, r.agent, d.event.call)
      BY <3>1, <3>2, <3>3, <1>10, <1>15, OpenStays
    <3>5. \A l \in 1..k - 1 : l + 1 \in 1..k /\ l \in 1..Len(u)
      BY <2>2, <1>7
    <3>6. \A l \in 1..k - 1 : Emits(u[l]) /\ u[l].event.kind = "auth"
      BY <3>1, <3>5, <1>7
    <3> QED BY <3>1, <3>4, <3>6
  <2>6. ASSUME d.do = "tools"
        PROVE  /\ k = Len(u) /\ k = 1 /\ OpenCall(p, r.agent, n) /\ n >= 1
               /\ d.long => Answered(p, n)
    <3>1. k + 1 = Len(t) /\ k + 1 = 2 /\ Calls(t[1]) /\ (d.long => t[1].event.kind = "longCall")
      BY <2>2, <2>6 DEF StepInv
    <3>2. e.kind \in CallKinds /\ e.call = n /\ n >= 1 /\ \A i \in 1..Len(h) : h[i].call # n
      BY <3>1, <1>3, <1>13 DEF StepInv, Calls
    <3>3. Grows(h, p, e)
      BY <3>2, <1>15 DEF CallKinds
    <3>4. OpenCall(p, r.agent, n)
      BY <3>2, <3>3, <1>10, <1>13, OpenNow
    <3>5. ASSUME d.long PROVE Answered(p, n)
      <4>1. e.kind = "longCall"
        BY <3>1, <3>5, <1>3
      <4>2. \A i \in 1..Len(p) : p[i].call = n => p[i].kind # "call"
        BY <3>2, <3>3, <4>1 DEF Grows
      <4> QED BY <4>2 DEF Answered
    <3> QED BY <3>1, <3>2, <3>4, <3>5, <2>2, <1>7
  <2>7. d.do = "go" => k = Len(u)
    BY <2>2, <1>7 DEF StepInv
  <2> QED BY <2>1, <2>3, <2>4, <2>5, <2>6, <2>7 DEF StepInv
<1>18. ASSUME NEW c \in r.own PROVE c \in 1..n /\ OwnInv(r, c, p, n)
  <2>1. c \in 1..n /\ OwnInv(g, c, h, n)
    BY <1>10, <1>18 DEF FrameInv
  <2>2. CASE Len(t) = 2 /\ Calls(t[1]) /\ t[1].event.call = c /\ t[2].do = "tools"
    <3>1. e.kind \in CallKinds /\ e.call = c /\ c = n
      BY <2>2, <1>3, <1>14 DEF Calls
    <3>2. \E i \in 1..Len(p) : p[i].call = c
      BY <3>1, <1>15 DEF Grows, CallKinds
    <3>3. Len(u) = 1 /\ u[1].do = "tools"
      BY <2>2, <1>7
    <3>4. Promised(u, c, n)
      BY <3>1, <3>3, <1>20 DEF Promised
    <3> QED BY <2>1, <3>2, <3>4, <1>10 DEF OwnInv
  <2>3. CASE (\E i \in 1..Len(h) : h[i].call = c) /\ (g.end \/ Answered(h, c) \/ Promised(t, c, n))
    <3>1. \E i \in 1..Len(p) : p[i].call = c
      BY <2>3, <1>15, <1>16 DEF Grows
    <3>2. e.kind = "call" => e.call # c
      BY <2>3, <1>8 DEF NewEvent, CallKinds
    <3>3. Answered(h, c) => Answered(p, c)
      BY <3>2, <1>15, <1>16, AnsweredStays
    <3>4. ASSUME Promised(t, c, n) PROVE f.end \/ Answered(p, c) \/ Promised(u, c, n)
      <4>1. PICK k \in 1..Len(t) : Emits(t[k]) /\ (t[k].end \/ (Answers(t[k]) /\ t[k].event.call = c))
        BY <3>4, <1>6 DEF Promised, Emits
      <4>2. CASE k = 1
        <5>1. CASE t[1].end
          BY <5>1, <1>6
        <5>2. CASE Answers(t[1]) /\ e.call = c
          <6>1. IsAnswer(e) /\ e.kind # "chunk"
            BY <5>2, <1>3 DEF Answers, IsAnswer
          <6> QED BY <6>1, <5>2, <1>15, AnsweredNow
        <5> QED BY <4>1, <4>2, <5>1, <5>2, <1>3
      <4>3. CASE k # 1
        <5>1. k - 1 \in 1..Len(u) /\ u[k - 1] = t[(k - 1) + 1] /\ (k - 1) + 1 = k
          BY <4>3, <1>7
        <5> QED BY <4>1, <5>1 DEF Promised
      <4> QED BY <4>2, <4>3
    <3> QED BY <2>1, <2>3, <3>1, <3>3, <3>4, <1>6, <1>10 DEF OwnInv
  <2> QED BY <2>1, <2>2, <2>3, <1>1 DEF OwnInv
<1>19. FrameInv(r, p, n)
  BY <1>6, <1>10, <1>11, <1>17, <1>18 DEF FrameInv
<1> QED BY <1>1, <1>3, <1>4, <1>5, <1>19

\* What the steps of an outcome are made of.
LEMMA EmitEventTyped ==
    ASSUME NEW a \in Agents, NEW k \in {"response", "skipped", "auth", "confirm", "text"},
           NEW c \in 0..MaxCalls, NEW esc \in BOOLEAN, NEW end \in BOOLEAN
    PROVE  /\ Emit(Event(a, k, c, esc), end) \in StepType
           /\ Emit(Event(a, k, c, esc), end).do = "emit"
           /\ Emit(Event(a, k, c, esc), end).event.by = a
           /\ Emit(Event(a, k, c, esc), end).event.kind = k
           /\ Emit(Event(a, k, c, esc), end).event.call = c
           /\ Emit(Event(a, k, c, esc), end).end = end
  BY EventTyped, EmitTyped DEF EventKinds

\* What the outcome of a call leaves to do is sound where the call is open.
LEMMA StepsInv ==
    ASSUME Top \in FrameType, NEW n \in 1..MaxCalls, NEW o \in Outcomes, NEW to \in Targets,
           NEW h, OpenCall(h, Top.agent, n), o = "none" => Answered(h, n)
    PROVE  /\ Steps(o, n, to) \in Seq(StepType)
           /\ \A k \in 1..Len(Steps(o, n, to)) : StepInv(Steps(o, n, to), k, Top.agent, h, n)
           /\ Answered(h, n) \/ Promised(Steps(o, n, to), n, n)
<1>1. PICK a \in Agents : a = Top.agent
  BY DEF FrameType
<1>2. n \in Nat /\ n >= 1 /\ n \in 0..MaxCalls /\ 0 \in 0..MaxCalls /\ n \in 1..n
  BY InvocationAssumption
<1>3. PICK r : r = Emit(Event(a, "response", n, o = "escalate"), FALSE)
  OBVIOUS
<1>4. PICK x : x = Emit(Event(a, "skipped", n, o = "exit"), FALSE)
  OBVIOUS
<1>5. PICK u : u = Emit(Event(a, "auth", 0, FALSE), TRUE)
  OBVIOUS
<1>6. PICK v : v = Emit(Event(a, "confirm", 0, FALSE), TRUE)
  OBVIOUS
<1>7. PICK w : w = Emit(Event(a, "text", 0, FALSE), TRUE)
  OBVIOUS
<1>8. PICK g : g = GoTo(to)
  OBVIOUS
<1>9. PICK q : q = [r EXCEPT !.end = TRUE]
  OBVIOUS
<1>10. /\ r \in StepType /\ r.do = "emit" /\ r.event.by = a /\ r.event.kind = "response"
       /\ r.event.call = n
  <2>1. PICK esc \in BOOLEAN : esc = (o = "escalate")
    OBVIOUS
  <2>2. PICK end \in BOOLEAN : end = FALSE
    OBVIOUS
  <2>3. r = Emit(Event(a, "response", n, esc), end)
    BY <1>3, <2>1, <2>2
  <2> QED BY <2>2, <2>3, <1>2, EmitEventTyped
<1>11. /\ x \in StepType /\ x.do = "emit" /\ x.event.by = a /\ x.event.kind = "skipped"
       /\ x.event.call = n
  <2>1. PICK esc \in BOOLEAN : esc = (o = "exit")
    OBVIOUS
  <2>2. PICK end \in BOOLEAN : end = FALSE
    OBVIOUS
  <2>3. x = Emit(Event(a, "skipped", n, esc), end)
    BY <1>4, <2>1, <2>2
  <2> QED BY <2>2, <2>3, <1>2, EmitEventTyped
<1>12. /\ u \in StepType /\ u.do = "emit" /\ u.event.by = a /\ u.event.kind = "auth"
       /\ u.event.call = 0 /\ u.end
  <2>1. PICK esc \in BOOLEAN : esc = (FALSE)
    OBVIOUS
  <2>2. PICK end \in BOOLEAN : end = TRUE
    OBVIOUS
  <2>3. u = Emit(Event(a, "auth", 0, esc), end)
    BY <1>5, <2>1, <2>2
  <2>4. u.end = end
    BY <2>3, <1>2, EmitEventTyped
  <2>5. u.end
    BY <2>2, <2>4
  <2>6. /\ u \in StepType /\ u.do = "emit" /\ u.event.by = a /\ u.event.kind = "auth" /\ u.event.call = 0
    BY <2>3, <1>2, EmitEventTyped
  <2> QED BY <2>5, <2>6
<1>13. /\ v \in StepType /\ v.do = "emit" /\ v.event.by = a /\ v.event.kind = "confirm"
       /\ v.event.call = 0 /\ v.end
  <2>1. PICK esc \in BOOLEAN : esc = (FALSE)
    OBVIOUS
  <2>2. PICK end \in BOOLEAN : end = TRUE
    OBVIOUS
  <2>3. v = Emit(Event(a, "confirm", 0, esc), end)
    BY <1>6, <2>1, <2>2
  <2>4. v.end = end
    BY <2>3, <1>2, EmitEventTyped
  <2>5. v.end
    BY <2>2, <2>4
  <2>6. /\ v \in StepType /\ v.do = "emit" /\ v.event.by = a /\ v.event.kind = "confirm" /\ v.event.call = 0
    BY <2>3, <1>2, EmitEventTyped
  <2> QED BY <2>5, <2>6
<1>14. /\ w \in StepType /\ w.do = "emit" /\ w.event.by = a /\ w.event.kind = "text"
       /\ w.event.call = 0 /\ w.end
  <2>1. PICK esc \in BOOLEAN : esc = (FALSE)
    OBVIOUS
  <2>2. PICK end \in BOOLEAN : end = TRUE
    OBVIOUS
  <2>3. w = Emit(Event(a, "text", 0, esc), end)
    BY <1>7, <2>1, <2>2
  <2>4. w.end = end
    BY <2>3, <1>2, EmitEventTyped
  <2>5. w.end
    BY <2>2, <2>4
  <2>6. /\ w \in StepType /\ w.do = "emit" /\ w.event.by = a /\ w.event.kind = "text" /\ w.event.call = 0
    BY <2>3, <1>2, EmitEventTyped
  <2> QED BY <2>5, <2>6
<1>15. g \in StepType /\ g.do = "go"
  BY <1>8, OtherStepsTyped
<1>16. /\ q \in StepType /\ q.do = "emit" /\ q.event.by = a /\ q.event.kind = "response"
       /\ q.event.call = n
  BY <1>9, <1>10 DEF StepType
<1>17. \A t, k : t[k] \in {u, v, w} => StepInv(t, k, a, h, n)
  BY <1>2, <1>12, <1>13, <1>14, OtherEventStep DEF CallKinds
<1>18. ASSUME NEW t, NEW k, t[k] \in {r, q, x}, \A l \in 1..k - 1 : t[l] = u
       PROVE  StepInv(t, k, a, h, n)
  <2>1. \A l \in 1..k - 1 : Emits(t[l]) /\ t[l].event.kind = "auth"
    BY <1>12, <1>18 DEF Emits
  <2>2. t[k].do = "emit" /\ t[k].event.by = a /\ t[k].event.kind \in {"response", "skipped"} /\ t[k].event.call = n
    BY <1>10, <1>11, <1>16, <1>18
  <2>3. OpenCall(h, a, t[k].event.call) /\ t[k].event.call \in 1..n
    BY <2>2, <1>1, <1>2
  <2> QED BY <1>2, <2>1, <2>2, <2>3, AnswerStep
<1>19. ASSUME NEW t, t[Len(t)] = g PROVE StepInv(t, Len(t), a, h, n)
  BY <1>15, <1>19 DEF StepInv, Emits, Calls, Answers
<1>20. ASSUME NEW t, NEW k \in 1..Len(t),
              (t[k] \in {r, q, x}) \/ (t[k] \in {u, v, w})
       PROVE  Promised(t, n, n)
  <2>1. Emits(t[k]) /\ (t[k].end \/ (Answers(t[k]) /\ t[k].event.call = n))
    BY <1>20, <1>10, <1>11, <1>12, <1>13, <1>14, <1>16 DEF Emits, Answers
  <2> QED BY <2>1, <1>20 DEF Promised
<1>21. PICK s : s = Steps(o, n, to)
  OBVIOUS
<1>22. \/ s = <<r>> \/ s = <<x>> \/ (s = << >> /\ o = "none") \/ s = <<q>> \/ s = <<u, r>> \/ s = <<v>>
       \/ s = <<u, v>> \/ s = <<r, w>> \/ s = <<r, g>> \/ s = <<u, r, g>>
  <2>1. o \in {"plain", "none", "escalate", "skip", "auth", "confirm", "authConfirm", "structured",
               "end", "exit", "transfer", "authTransfer"}
    BY InvocationAssumption
  <2>2. /\ o \in {"plain", "escalate"} => s = <<r>>
        /\ o \in {"skip", "exit"} => s = <<x>>
        /\ o = "none" => s = << >>
        /\ o = "end" => s = <<q>>
        /\ o = "auth" => s = <<u, r>>
        /\ o = "confirm" => s = <<v>>
    BY <1>1, <1>3, <1>4, <1>5, <1>6, <1>9, <1>21 DEF Steps
  <2>3. /\ o = "authConfirm" => s = <<u, v>>
        /\ o = "structured" => s = <<r, w>>
        /\ o = "transfer" => s = <<r, g>>
        /\ o = "authTransfer" => s = <<u, r, g>>
    BY <1>1, <1>3, <1>5, <1>6, <1>7, <1>8, <1>21 DEF Steps
  <2>4. \/ o \in {"plain", "escalate"} \/ o \in {"skip", "exit"} \/ o = "none" \/ o = "end" \/ o = "auth"
        \/ o = "confirm" \/ o = "authConfirm" \/ o = "structured" \/ o = "transfer" \/ o = "authTransfer"
    BY <2>1
  <2> QED BY <2>2, <2>3, <2>4, Zenon
<1>23. s \in Seq(StepType)
  <2>1. CASE s = << >>
    BY <2>1, EmptySeq
  <2>2. <<r>> \in Seq(StepType) /\ <<x>> \in Seq(StepType) /\ <<q>> \in Seq(StepType) /\ <<v>> \in Seq(StepType)
    BY <1>10, <1>11, <1>13, <1>16
  <2>3. <<u, r>> \in Seq(StepType) /\ <<u, v>> \in Seq(StepType) /\ <<r, w>> \in Seq(StepType)
        /\ <<r, g>> \in Seq(StepType)
    BY <1>10, <1>12, <1>13, <1>14, <1>15
  <2>4. <<u, r, g>> \in Seq(StepType)
    BY <1>10, <1>12, <1>15
  <2> QED BY <1>22, <2>1, <2>2, <2>3, <2>4
<1>24. ASSUME NEW k \in 1..Len(s) PROVE StepInv(s, k, a, h, n)
  <2>1. CASE s = << >>
    BY <1>24, <2>1, EmptySeq
  <2>2. CASE s \in {<<r>>, <<x>>, <<q>>}
    <3>0. Len(s) = 1 /\ (s[1] = r \/ s[1] = x \/ s[1] = q)
      BY <2>2
    <3>1. k = 1 /\ s[k] \in {r, q, x} /\ \A l \in 1..k - 1 : s[l] = u
      BY <1>24, <3>0
    <3> QED BY <3>1, <1>18
  <2>3. CASE s \in {<<v>>, <<u, v>>}
    <3>1. s[k] \in {u, v, w}
      BY <1>24, <2>3
    <3> QED BY <3>1, <1>17
  <2>4. CASE s = <<u, r>>
    <3>1. CASE k = 1
      BY <3>1, <2>4, <1>17
    <3>2. CASE k = 2
      <4>1. s[k] = r /\ \A l \in 1..k - 1 : s[l] = u
        BY <3>2, <2>4
      <4> QED BY <4>1, <1>18
    <3> QED BY <1>24, <2>4, <3>1, <3>2
  <2>5. CASE s \in {<<r, w>>, <<r, g>>}
    <3>0. Len(s) = 2 /\ s[1] = r /\ (s[2] = w \/ s[2] = g)
      BY <2>5
    <3>1. CASE k = 1
      BY <3>0, <3>1, <1>18
    <3>2. CASE k = 2
      BY <3>0, <3>2, <1>17, <1>19
    <3> QED BY <1>24, <3>0, <3>1, <3>2
  <2>6. CASE s = <<u, r, g>>
    <3>1. CASE k = 1
      BY <3>1, <2>6, <1>17
    <3>2. CASE k = 2
      <4>1. s[k] = r /\ \A l \in 1..k - 1 : s[l] = u
        BY <3>2, <2>6
      <4> QED BY <4>1, <1>18
    <3>3. CASE k = 3
      <4>1. s[Len(s)] = g /\ k = Len(s)
        BY <3>3, <2>6
      <4> QED BY <4>1, <1>19
    <3> QED BY <1>24, <2>6, <3>1, <3>2, <3>3
  <2> QED BY <1>22, <2>1, <2>2, <2>3, <2>4, <2>5, <2>6
<1>25. Answered(h, n) \/ Promised(s, n, n)
  <2>1. CASE s = << >> /\ o = "none"
    BY <2>1
  <2>2. CASE s \in {<<r>>, <<x>>, <<q>>, <<u, r>>, <<v>>, <<u, v>>, <<r, w>>, <<r, g>>, <<u, r, g>>}
    <3>1. 1 \in 1..Len(s) /\ ((s[1] \in {r, q, x}) \/ (s[1] \in {u, v, w}))
      BY <2>2
    <3> QED BY <3>1, <1>20
  <2> QED BY <1>22, <2>1, <2>2
<1> QED BY <1>1, <1>21, <1>23, <1>24, <1>25

\* The tools are next: they are the last step, and the call is open.
LEMMA ToolsNext ==
    ASSUME NEW g \in FrameType, NEW h, NEW n \in Nat, FrameInv(g, h, n),
           g.todo # << >>, g.todo[1].do \in {"tools", "go"}
    PROVE  /\ Len(g.todo) = 1 /\ g.todo = <<g.todo[1]>>
           /\ g.todo[1].do = "tools" =>
                OpenCall(h, g.agent, n) /\ n >= 1 /\ (g.todo[1].long => Answered(h, n))
           /\ \A c \in g.own : /\ c \in 1..n /\ \E i \in 1..Len(h) : h[i].call = c
                               /\ \/ g.end \/ Answered(h, c)
                                  \/ g.todo[1].do = "tools" /\ c = n
<1>1. g.todo \in Seq(StepType) /\ Len(g.todo) \in Nat /\ Len(g.todo) >= 1 /\ 1 \in 1..Len(g.todo)
  BY EmptySeq, LenProperties DEF FrameType
<1>2. PICK t : t = g.todo
  OBVIOUS
<1>3. StepInv(t, 1, g.agent, h, n)
  BY <1>1, <1>2 DEF FrameInv
<1>4. Len(t) = 1
  BY <1>2, <1>3 DEF StepInv
<1>5. g.todo[1].do = "tools" => OpenCall(h, g.agent, n) /\ n >= 1 /\ (g.todo[1].long => Answered(h, n))
  BY <1>2, <1>3 DEF StepInv
<1>6. g.todo = <<g.todo[1]>>
  BY <1>1, <1>2, <1>4
<1>7. ASSUME NEW c \in g.own
      PROVE  /\ c \in 1..n /\ \E i \in 1..Len(h) : h[i].call = c
             /\ g.end \/ Answered(h, c) \/ (g.todo[1].do = "tools" /\ c = n)
  <2>1. c \in 1..n /\ OwnInv(g, c, h, n)
    BY <1>7 DEF FrameInv
  <2>2. Promised(t, c, n) => g.todo[1].do = "tools" /\ c = n
    <3>1. \A k \in 1..Len(t) : ~Emits(t[k])
      BY <1>2, <1>4 DEF Emits
    <3> QED BY <1>2, <3>1 DEF Promised
  <2> QED BY <2>1, <2>2, <1>2, <1>4 DEF OwnInv
<1> QED BY <1>2, <1>4, <1>5, <1>6, <1>7

\* A frame whose call was handled.
HandledFrame(f, g) ==
    /\ f \in FrameType
    /\ f.agent = g.agent /\ f.from = g.from /\ f.own = g.own /\ f.exit = g.exit /\ f.at = g.at
    /\ g.todo # << >> /\ g.at = "stream"

\* The frame is sound after the tools ran: the call is answered, promised
\* an answer, or the run is over.
LEMMA HandledInv ==
    ASSUME NEW g \in FrameType, NEW h, NEW n \in Nat, FrameInv(g, h, n), NEW f, HandledFrame(f, g),
           g.todo[1].do = "tools", g.end => f.end,
           \A k \in 1..Len(f.todo) : StepInv(f.todo, k, f.agent, h, n),
           f.end \/ Answered(h, n) \/ Promised(f.todo, n, n)
    PROVE  FrameInv(f, h, n)
<1>1. ASSUME NEW c \in f.own PROVE c \in 1..n /\ OwnInv(f, c, h, n)
  <2>1. /\ c \in 1..n /\ \E i \in 1..Len(h) : h[i].call = c
        /\ g.end \/ Answered(h, c) \/ c = n
    BY <1>1, ToolsNext DEF HandledFrame
  <2>2. f.end \/ Answered(h, c) \/ Promised(f.todo, c, n)
    BY <2>1
  <2> QED BY <2>1, <2>2 DEF OwnInv
<1> QED BY <1>1 DEF HandledFrame, FrameInv, ExitInv

\* The frame is sound while the agent it transferred to runs.
LEMMA TransferredInv ==
    ASSUME NEW g \in FrameType, NEW h, NEW n \in Nat, FrameInv(g, h, n), NEW f, HandledFrame(f, g),
           g.todo[1].do = "go", f.end = g.end, f.todo = << >>
    PROVE  FrameInv(f, h, n)
<1>1. ASSUME NEW c \in f.own PROVE c \in 1..n /\ OwnInv(f, c, h, n)
  <2>1. /\ c \in 1..n /\ \E i \in 1..Len(h) : h[i].call = c
        /\ g.end \/ Answered(h, c)
    BY <1>1, ToolsNext DEF HandledFrame
  <2> QED BY <2>1 DEF OwnInv
<1>2. \A k \in 1..Len(f.todo) : StepInv(f.todo, k, f.agent, h, n)
  BY EmptySeq
<1> QED BY <1>1, <1>2 DEF HandledFrame, FrameInv, ExitInv

-----------------------------------------------------------------------------
(* The stack                                                               *)

\* The frames of a sound stack.
LEMMA StackParts ==
    ASSUME NEW s \in Seq(FrameType), s # << >>, NEW h, NEW n, StackInv(s, h, n)
    PROVE  /\ Len(s) \in Nat /\ Len(s) >= 1 /\ Len(s) \in 1..Len(s) /\ s[Len(s)] \in FrameType
           /\ FrameInv(s[Len(s)], h, n)
           /\ \A i \in 1..Len(s) : s[i] \in FrameType /\ FrameInv(s[i], h, n)
           /\ \A i \in 1..Len(s) : i # Len(s) => s[i].todo = << >> /\ (s[i].end => s[Len(s)].end)
<1>1. Len(s) \in Nat /\ Len(s) >= 1 /\ Len(s) \in 1..Len(s)
  BY TopTyped
<1>2. \A i \in 1..Len(s) : s[i] \in FrameType /\ FrameInv(s[i], h, n)
  BY ElementOfSeq DEF StackInv
<1>3. \A i \in 1..Len(s) : i # Len(s) => i < Len(s)
  BY <1>1
<1>4. \A i \in 1..Len(s) : i # Len(s) => s[i].todo = << >> /\ (s[i].end => s[Len(s)].end)
  BY <1>1, <1>3 DEF StackInv
<1> QED BY <1>1, <1>2, <1>4

\* The top goes on.
LEMMA ReplacedInv ==
    ASSUME NEW s \in Seq(FrameType), s # << >>, NEW f \in FrameType, NEW h,
           NEW n \in Nat, NEW m \in Nat, m >= n, StackInv(s, h, n), FrameInv(f, h, m),
           s[Len(s)].end => f.end
    PROVE  StackInv([s EXCEPT ![Len(s)] = f], h, m)
<1>1. PICK z : z = [s EXCEPT ![Len(s)] = f]
  OBVIOUS
<1>2. z \in Seq(FrameType) /\ Len(z) = Len(s) /\ \A i \in 1..Len(s) : z[i] = IF i = Len(s) THEN f ELSE s[i]
  BY <1>1, ReplacedStack
<1>3. ASSUME NEW i \in 1..Len(z) PROVE FrameInv(z[i], h, m)
  <2>1. CASE i = Len(s)
    BY <2>1, <1>2, <1>3
  <2>2. CASE i # Len(s)
    BY <2>2, <1>2, <1>3, StackParts, MoreCalls
  <2> QED BY <2>1, <2>2
<1>4. ASSUME NEW i \in 1..Len(z), NEW j \in 1..Len(z), i < j
      PROVE  z[i].todo = << >> /\ (z[i].end => z[j].end)
  <2>1. i # Len(s) /\ i \in 1..Len(s) /\ j \in 1..Len(s) /\ z[i] = s[i]
    BY <1>2, <1>4, StackParts
  <2>2. CASE j = Len(s)
    BY <2>1, <2>2, <1>2, StackParts
  <2>3. CASE j # Len(s)
    BY <2>1, <2>3, <1>2, <1>4 DEF StackInv
  <2> QED BY <2>2, <2>3
<1> QED BY <1>1, <1>3, <1>4 DEF StackInv

\* An event passes all frames.
LEMMA YieldedInv ==
    ASSUME NEW s \in Seq(FrameType), s # << >>, NEW f \in FrameType, NEW h \in Seq(EventType),
           NEW n \in Nat, NEW e, NewEvent(h, e, n), StackInv(s, h, n),
           FrameInv(SeenFrame(f, e), With(h, e), n), s[Len(s)].end => f.end
    PROVE  /\ Seen([s EXCEPT ![Len(s)] = f], e) \in Seq(FrameType)
           /\ StackInv(Seen([s EXCEPT ![Len(s)] = f], e), With(h, e), n)
<1>e. e \in EventType
  BY DEF NewEvent
<1>1. PICK y : y = [s EXCEPT ![Len(s)] = f]
  OBVIOUS
<1>2. y \in Seq(FrameType) /\ Len(y) = Len(s) /\ \A i \in 1..Len(s) : y[i] = IF i = Len(s) THEN f ELSE s[i]
  BY <1>1, ReplacedStack
<1>3. PICK z : z = Seen(y, e)
  OBVIOUS
<1>4. z \in Seq(FrameType) /\ Len(z) = Len(s) /\ \A i \in 1..Len(s) : z[i] = SeenFrame(y[i], e)
  BY <1>e, <1>2, <1>3, SeenStack
<1>5. \A i \in 1..Len(s) : y[i] \in FrameType
  BY <1>2, ElementOfSeq
<1>6. ASSUME NEW i \in 1..Len(s) PROVE z[i].todo = y[i].todo /\ z[i].end = y[i].end
  <2>1. y[i] \in FrameType /\ z[i] = SeenFrame(y[i], e)
    BY <1>4, <1>5, <1>6
  <2> QED BY <2>1, <1>e, SeenFrameFields
<1>7. ASSUME NEW i \in 1..Len(z) PROVE FrameInv(z[i], With(h, e), n)
  <2>1. CASE i = Len(s)
    BY <2>1, <1>2, <1>4, <1>7
  <2>2. CASE i # Len(s)
    <3>1. z[i] = SeenFrame(s[i], e) /\ s[i] \in FrameType /\ FrameInv(s[i], h, n) /\ s[i].todo = << >>
      BY <2>2, <1>2, <1>4, <1>7, StackParts
    <3> QED BY <3>1, BystanderInv
  <2> QED BY <2>1, <2>2
<1>8. ASSUME NEW i \in 1..Len(z), NEW j \in 1..Len(z), i < j
      PROVE  z[i].todo = << >> /\ (z[i].end => z[j].end)
  <2>1. i # Len(s) /\ i \in 1..Len(s) /\ j \in 1..Len(s) /\ y[i] = s[i]
    BY <1>2, <1>4, <1>8, StackParts
  <2>2. s[i].todo = << >> /\ (s[i].end => s[j].end)
    BY <2>1, <1>8 DEF StackInv
  <2>3. CASE j = Len(s)
    BY <2>1, <2>2, <2>3, <1>2, <1>6
  <2>4. CASE j # Len(s)
    BY <2>1, <2>2, <2>4, <1>2, <1>6
  <2> QED BY <2>3, <2>4
<1> QED BY <1>1, <1>3, <1>4, <1>7, <1>8 DEF StackInv

\* An agent runs another, which inherits the interruption.
LEMMA PushedInv ==
    ASSUME NEW s \in Seq(FrameType), s # << >>, NEW f \in FrameType, NEW g \in FrameType, NEW h,
           NEW n \in Nat, StackInv(s, h, n), FrameInv(f, h, n), FrameInv(g, h, n),
           f.todo = << >>, s[Len(s)].end => f.end, f.end => g.end
    PROVE  /\ Append([s EXCEPT ![Len(s)] = f], g) \in Seq(FrameType)
           /\ StackInv(Append([s EXCEPT ![Len(s)] = f], g), h, n)
<1>1. PICK y : y = [s EXCEPT ![Len(s)] = f]
  OBVIOUS
<1>2. y \in Seq(FrameType) /\ Len(y) = Len(s) /\ \A i \in 1..Len(s) : y[i] = IF i = Len(s) THEN f ELSE s[i]
  BY <1>1, ReplacedStack
<1>3. StackInv(y, h, n)
  <2>1. n >= n
    OBVIOUS
  <2> QED BY <2>1, <1>1, ReplacedInv
<1>4. PICK z : z = Append(y, g)
  OBVIOUS
<1>5. /\ z \in Seq(FrameType) /\ Len(z) = Len(s) + 1 /\ Len(s) \in Nat
      /\ \A i \in 1..Len(s) : z[i] = y[i]
      /\ z[Len(s) + 1] = g
  BY <1>2, <1>4, AppendProperties, LenProperties
<1>6. \A i \in 1..Len(z) : i = Len(z) \/ i \in 1..Len(s)
  BY <1>5
<1>7. \A i \in 1..Len(z) : FrameInv(z[i], h, n)
  BY <1>2, <1>3, <1>5, <1>6 DEF StackInv
<1>8. ASSUME NEW i \in 1..Len(s) PROVE y[i].todo = << >> /\ (y[i].end => f.end)
  <2>1. CASE i = Len(s)
    BY <1>2, <1>8, <2>1
  <2>2. CASE i # Len(s)
    BY <1>2, <1>8, <2>2, StackParts
  <2> QED BY <2>1, <2>2
<1>9. ASSUME NEW i \in 1..Len(z), NEW j \in 1..Len(z), i < j
      PROVE  z[i].todo = << >> /\ (z[i].end => z[j].end)
  <2>1. i \in 1..Len(s) /\ z[i] = y[i] /\ y[i].todo = << >> /\ (y[i].end => f.end)
    BY <1>5, <1>8, <1>9
  <2>2. CASE j = Len(z)
    BY <2>1, <2>2, <1>5
  <2>3. CASE j # Len(z)
    BY <2>1, <2>3, <1>2, <1>3, <1>5, <1>6, <1>9 DEF StackInv
  <2> QED BY <2>2, <2>3
<1> QED BY <1>1, <1>4, <1>5, <1>7, <1>9 DEF StackInv

\* An agent is done.
LEMMA PoppedInv ==
    ASSUME NEW s \in Seq(FrameType), s # << >>, NEW h, NEW n, StackInv(s, h, n)
    PROVE  /\ SubSeq(s, 1, Len(s) - 1) \in Seq(FrameType)
           /\ Len(SubSeq(s, 1, Len(s) - 1)) = Len(s) - 1
           /\ \A i \in 1..Len(s) - 1 : SubSeq(s, 1, Len(s) - 1)[i] = s[i]
           /\ StackInv(SubSeq(s, 1, Len(s) - 1), h, n)
<1>1. PICK m \in Nat : m = Len(s) - 1
  BY StackParts
<1>2. PICK z : z = SubSeq(s, 1, m)
  OBVIOUS
<1>3. z \in Seq(FrameType) /\ Len(z) = m /\ \A i \in 1..m : z[i] = s[i] /\ i \in 1..Len(s)
  BY <1>1, <1>2, StackParts, SubSeqProperties
<1>4. StackInv(z, h, n)
  BY <1>3 DEF StackInv
<1> QED BY <1>1, <1>2, <1>3, <1>4

LEMMA EmptyStackInv == \A h, n : StackInv(<< >>, h, n)
  BY EmptySeq DEF StackInv

-----------------------------------------------------------------------------
(* What a step of the agent on top does to the rest                        *)

\* What there is to know where an agent makes a step.
LEMMA AgentRuns ==
    ASSUME Inv, pc = "agent"
    PROVE  /\ stack \in Seq(FrameType) /\ stack # << >> /\ out = << >> /\ Ahead = history
           /\ Top \in FrameType /\ FrameInv(Top, history, calls)
           /\ history \in Seq(EventType) /\ HistoryInv(history, calls)
           /\ StackInv(stack, history, calls)
           /\ calls \in Nat /\ calls \in 0..MaxCalls /\ MaxCalls \in Nat
           /\ Top = stack[Len(stack)]
<1>1. /\ stack \in Seq(FrameType) /\ stack # << >> /\ out = << >> /\ Ahead = history
      /\ history \in Seq(EventType) /\ HistoryInv(history, calls)
      /\ StackInv(stack, history, calls)
      /\ calls \in Nat /\ calls \in 0..MaxCalls /\ MaxCalls \in Nat
  BY InvocationAssumption DEF Inv, TypeOK, Control, Ahead
<1>2. stack[Len(stack)] \in FrameType /\ FrameInv(stack[Len(stack)], history, calls)
  BY <1>1, StackParts
<1> QED BY <1>1, <1>2 DEF Top

\* The history stays sound when there are more calls.
LEMMA MoreCallsKnown ==
    ASSUME NEW h \in Seq(EventType), NEW n \in Nat, NEW m \in Nat, m >= n, HistoryInv(h, n)
    PROVE  HistoryInv(h, m)
<1> SUFFICES ASSUME NEW j \in 1..Len(h) PROVE EventInv(h, j, m)
  BY DEF HistoryInv
<1>1. EventInv(h, j, n) /\ h[j] \in EventType
  BY ElementOfSeq DEF HistoryInv
<1>2. h[j].call \in Nat
  BY <1>1, InvocationAssumption DEF EventType
<1> QED BY <1>1, <1>2 DEF EventInv

\* The agent of the user's answer stays the caller of the call.
LEMMA CallerStays ==
    ASSUME AnswerReachesCaller, stack # << >>, base' = base, base \in 0..Len(history),
           Len(history) \in Nat, \A i \in 1..Len(history) : history'[i] = history[i],
           stack' # << >> => stack'[1].agent = stack[1].agent
    PROVE  AnswerReachesCaller'
<1> SUFFICES ASSUME stack' # << >>, base > 0, history'[base].kind = "answer"
             PROVE  \E i \in 1..base - 1 : /\ history'[i].kind \in CallKinds
                                           /\ history'[i].call = history'[base].call
                                           /\ stack'[1].agent = history'[i].by
  BY DEF AnswerReachesCaller
<1>1. base \in 1..Len(history) /\ \A i \in 1..base - 1 : i \in 1..Len(history)
  OBVIOUS
<1>2. history'[base] = history[base] /\ \A i \in 1..base - 1 : history'[i] = history[i]
  BY <1>1
<1>3. PICK i \in 1..base - 1 : /\ history[i].kind \in CallKinds
                               /\ history[i].call = history[base].call
                               /\ stack[1].agent = history[i].by
  BY <1>2 DEF AnswerReachesCaller
<1> QED BY <1>2, <1>3

LEMMA ContinuedInv ==
    ASSUME Inv, pc = "agent", NEW f \in FrameType, Continue(f), f.agent = Top.agent,
           Top.end => f.end, calls' \in 0..MaxCalls, calls' >= calls,
           FrameInv(f, history, calls'), asked' \in Nat,
           UNCHANGED <<history, streamed, base, turns, pause>>
    PROVE  Inv'
<1>1. /\ stack \in Seq(FrameType) /\ stack # << >> /\ out = << >> /\ Top \in FrameType
      /\ history \in Seq(EventType) /\ HistoryInv(history, calls)
      /\ StackInv(stack, history, calls) /\ calls \in Nat /\ MaxCalls \in Nat
      /\ Top = stack[Len(stack)]
  BY AgentRuns
<1>2. PICK m \in Nat : m = calls' /\ m \in 0..MaxCalls /\ m >= calls
  BY <1>1
<1>3. stack' = [stack EXCEPT ![Len(stack)] = f] /\ pc' = "agent" /\ out' = << >>
  BY <1>1 DEF Continue, WithTop
<1>4. /\ stack' \in Seq(FrameType) /\ Len(stack') = Len(stack)
      /\ \A i \in 1..Len(stack) : stack'[i] = IF i = Len(stack) THEN f ELSE stack[i]
  BY <1>1, <1>3, ReplacedStack
<1>5. StackInv(stack', history, m)
  BY <1>1, <1>2, <1>3, ReplacedInv
<1>6. HistoryInv(history, m)
  BY <1>1, <1>2, MoreCallsKnown
<1>7. TypeOK'
  BY <1>2, <1>3, <1>4 DEF Inv, TypeOK
<1>8. stack' # << >> /\ 1 \in 1..Len(stack)
  BY <1>1, <1>4, TopTyped, EmptySeq
<1>9. Control' /\ Resumed' /\ Ahead' = history
  BY <1>3, <1>8, <1>1 DEF Control, Resumed, Ahead
<1>10. stack'[1].agent = stack[1].agent
  BY <1>1, <1>4, <1>8
<1>11. AnswerReachesCaller'
  BY <1>1, <1>10, CallerStays, LenProperties DEF Inv, TypeOK
<1> QED BY <1>2, <1>5, <1>6, <1>7, <1>9, <1>11 DEF Inv

LEMMA YieldedEventInv ==
    ASSUME Inv, pc = "agent", NEW f \in FrameType, NEW e, Yield(f, e), f.agent = Top.agent,
           Top.end => f.end, NewEvent(history, e, calls),
           FrameInv(SeenFrame(f, e), With(history, e), calls),
           UNCHANGED <<history, streamed, base, asked, calls, turns, pause>>
    PROVE  Inv'
<1>1. /\ stack \in Seq(FrameType) /\ stack # << >> /\ out = << >> /\ Top \in FrameType
      /\ history \in Seq(EventType) /\ HistoryInv(history, calls)
      /\ StackInv(stack, history, calls) /\ calls \in Nat /\ MaxCalls \in Nat
      /\ Top = stack[Len(stack)]
  BY AgentRuns
<1>2. e \in EventType
  BY DEF NewEvent
<1>3. stack' = Seen([stack EXCEPT ![Len(stack)] = f], e) /\ pc' = "event" /\ out' = <<e>>
  BY DEF Yield, WithTop
<1>4. stack' \in Seq(FrameType) /\ StackInv(stack', With(history, e), calls)
  BY <1>1, <1>3, YieldedInv
<1>5. PICK y : y = [stack EXCEPT ![Len(stack)] = f]
  OBVIOUS
<1>6. /\ y \in Seq(FrameType) /\ Len(y) = Len(stack)
      /\ \A i \in 1..Len(stack) : y[i] = IF i = Len(stack) THEN f ELSE stack[i]
  BY <1>1, <1>5, ReplacedStack
<1>7. /\ Len(stack') = Len(stack) /\ \A i \in 1..Len(stack) : stack'[i] = SeenFrame(y[i], e)
  <2>1. stack' = Seen(y, e)
    BY <1>3, <1>5
  <2>2. Len(Seen(y, e)) = Len(y) /\ \A i \in 1..Len(y) : Seen(y, e)[i] = SeenFrame(y[i], e)
    BY <1>2, <1>6, SeenStack
  <2> QED BY <1>6, <2>1, <2>2
<1>8. 1 \in 1..Len(stack) /\ y[1] \in FrameType /\ y[1].agent = stack[1].agent /\ stack' # << >>
  BY <1>1, <1>6, <1>7, <1>4, TopTyped, EmptySeq, ElementOfSeq
<1>9. stack'[1].agent = stack[1].agent
  BY <1>2, <1>7, <1>8, SeenFrameFields
<1>10. HistoryInv(With(history, e), calls)
  <2>1. PICK p : p = With(history, e)
    OBVIOUS
  <2>2. CASE e.kind = "chunk"
    BY <2>2, <1>1, <1>2, WithGrows
  <2>3. CASE e.kind # "chunk"
    <3>1. Grows(history, p, e)
      BY <2>1, <2>3, <1>1, <1>2, WithGrows
    <3> QED BY <3>1, <2>1, <1>1, HistoryGrows
  <2> QED BY <2>2, <2>3
<1>11. Len(out') = 1 /\ out'[1] = e /\ out' \in Seq(EventType)
  BY <1>2, <1>3
<1>12. TypeOK'
  BY <1>3, <1>4, <1>11 DEF Inv, TypeOK
<1>13. Control' /\ Resumed' /\ Ahead' = With(history, e)
  BY <1>3, <1>8, <1>11 DEF Control, Resumed, Ahead
<1>14. AnswerReachesCaller'
  BY <1>1, <1>9, CallerStays, LenProperties DEF Inv, TypeOK
<1> QED BY <1>4, <1>10, <1>12, <1>13, <1>14 DEF Inv

LEMMA PushedAgentInv ==
    ASSUME Inv, pc = "agent", NEW f \in FrameType, NEW a \in Agents, Push(f, a), f.agent = Top.agent,
           Top.end => f.end, f.todo = << >>, FrameInv(f, history, calls),
           UNCHANGED <<history, streamed, base, asked, calls, turns, pause>>
    PROVE  Inv'
<1>1. /\ stack \in Seq(FrameType) /\ stack # << >> /\ out = << >> /\ Top \in FrameType
      /\ history \in Seq(EventType) /\ HistoryInv(history, calls)
      /\ StackInv(stack, history, calls) /\ calls \in Nat /\ MaxCalls \in Nat
      /\ Top = stack[Len(stack)]
  BY AgentRuns
<1>2. PICK g : g = Frame(a, f.end)
  OBVIOUS
<1>3. f.end \in BOOLEAN
  BY DEF FrameType
<1>4. g \in FrameType /\ g.end = f.end /\ FrameInv(g, history, calls)
  BY <1>1, <1>2, <1>3, NewFrameInv
<1>5. stack' = Append([stack EXCEPT ![Len(stack)] = f], g) /\ pc' = "agent" /\ out' = << >>
  BY <1>1, <1>2 DEF Push, WithTop
<1>6. stack' \in Seq(FrameType) /\ StackInv(stack', history, calls)
  BY <1>1, <1>4, <1>5, PushedInv
<1>7. PICK y : y = [stack EXCEPT ![Len(stack)] = f]
  OBVIOUS
<1>8. /\ y \in Seq(FrameType) /\ Len(y) = Len(stack)
      /\ \A i \in 1..Len(stack) : y[i] = IF i = Len(stack) THEN f ELSE stack[i]
  BY <1>1, <1>7, ReplacedStack
<1>9. /\ Len(stack') = Len(stack) + 1 /\ \A i \in 1..Len(stack) : stack'[i] = y[i]
  BY <1>4, <1>5, <1>7, <1>8, AppendProperties
<1>10. 1 \in 1..Len(stack) /\ stack' # << >>
  BY <1>1, <1>6, <1>9, TopTyped, EmptySeq
<1>11. stack'[1].agent = stack[1].agent
  BY <1>1, <1>8, <1>9, <1>10
<1>12. TypeOK'
  BY <1>5, <1>6 DEF Inv, TypeOK
<1>13. Control' /\ Resumed' /\ Ahead' = history
  BY <1>1, <1>5, <1>10 DEF Control, Resumed, Ahead
<1>14. AnswerReachesCaller'
  BY <1>1, <1>11, CallerStays, LenProperties DEF Inv, TypeOK
<1> QED BY <1>1, <1>6, <1>12, <1>13, <1>14 DEF Inv

LEMMA ThrownInv ==
    ASSUME Inv, pc = "agent", Throw,
           UNCHANGED <<history, streamed, base, asked, calls, turns, pause>>
    PROVE  Inv'
<1>1. /\ stack' = << >> /\ pc' = "idle" /\ out' = << >> /\ out = << >>
      /\ HistoryInv(history, calls)
  BY AgentRuns DEF Throw
<1>2. stack' \in Seq(FrameType)
  BY <1>1, EmptySeq
<1>3. TypeOK'
  BY <1>1, <1>2 DEF Inv, TypeOK
<1>4. Control' /\ Resumed' /\ Ahead' = history /\ AnswerReachesCaller'
  BY <1>1 DEF Control, Resumed, Ahead, AnswerReachesCaller
<1>5. StackInv(stack', history, calls)
  BY <1>1, EmptyStackInv
<1> QED BY <1>1, <1>3, <1>4, <1>5 DEF Inv

-----------------------------------------------------------------------------
(* The steps of the agents                                                 *)

\* An agent goes on with nothing left to do.
LEMMA QuietStep ==
    ASSUME Inv, pc = "agent", NEW f, Continue(f), QuietFrame(f, Top), asked' \in Nat,
           UNCHANGED <<history, streamed, base, calls, turns, pause>>
    PROVE  Inv'
<1>1. f \in FrameType /\ f.agent = Top.agent /\ (Top.end => f.end)
  BY DEF QuietFrame
<1>2. FrameInv(f, history, calls)
  BY AgentRuns, QuietFrameInv
<1>3. calls' \in 0..MaxCalls /\ calls' >= calls
  BY AgentRuns
<1> QED BY <1>1, <1>2, <1>3, ContinuedInv

\* A text is always sound.
LEMMA PlainEvent ==
    ASSUME NEW a \in Agents, NEW k \in {"text", "chunk", "delta"}, NEW h, NEW n \in Nat
    PROVE  Event(a, k, 0, FALSE) \in EventType /\ NewEvent(h, Event(a, k, 0, FALSE), n)
  BY InvocationAssumption DEF Event, EventType, EventKinds, NewEvent, CallKinds

\* An agent's callback yields an event.
QuietYield(f, g) ==
    /\ f \in FrameType
    /\ f.agent = g.agent /\ f.from = g.from /\ f.own = g.own /\ f.exit = g.exit
    /\ f.todo = << >> /\ g.todo = << >>
    /\ g.end => f.end
    /\ f.at # "stream"

LEMMA QuietYieldStep ==
    ASSUME Inv, pc = "agent", NEW f, NEW k \in {"text", "delta"}, QuietYield(f, Top),
           Yield(f, Event(Top.agent, k, 0, FALSE)),
           UNCHANGED <<history, streamed, base, asked, calls, turns, pause>>
    PROVE  Inv'
<1>1. PICK e : e = Event(Top.agent, k, 0, FALSE)
  OBVIOUS
<1>2. Top.agent \in Agents /\ calls \in Nat /\ history \in Seq(EventType)
  BY AgentRuns DEF FrameType
<1>3. e \in EventType /\ NewEvent(history, e, calls)
  BY <1>1, <1>2, PlainEvent
<1>4. f \in FrameType /\ f.agent = Top.agent /\ (Top.end => f.end) /\ f.todo = << >>
  BY DEF QuietYield
<1>5. FrameInv(f, history, calls)
  <2>1. FrameInv(Top, history, calls)
    BY AgentRuns
  <2>2. \A c \in f.own : c \in 1..calls /\ OwnInv(f, c, history, calls)
    BY <2>1, EmptySeq DEF QuietYield, FrameInv, OwnInv, Promised
  <2>3. \A j \in 1..Len(f.todo) : StepInv(f.todo, j, f.agent, history, calls)
    BY <1>4, EmptySeq
  <2> QED BY <2>1, <2>2, <2>3 DEF QuietYield, FrameInv, ExitInv
<1>6. FrameInv(SeenFrame(f, e), With(history, e), calls)
  BY <1>2, <1>3, <1>4, <1>5, BystanderInv
<1> QED BY <1>1, <1>3, <1>4, <1>6, YieldedEventInv

LEMMA BeforeAgentInv ==
    ASSUME Inv, NEW c, BeforeAgent(c)
    PROVE  Inv'
<1>1. pc = "agent" /\ Top.at = "before"
  BY DEF BeforeAgent, Running
<1>2. Top \in FrameType /\ Top.todo = << >> /\ c \in {"none", "content", "delta"}
  <2>1. Top \in FrameType /\ FrameInv(Top, history, calls)
    BY <1>1, AgentRuns
  <2>2. Callbacks[Top.agent] \subseteq {"none", "content", "delta"}
    BY <2>1, InvocationAssumption DEF FrameType
  <2> QED BY <1>1, <2>1, <2>2 DEF FrameInv, BeforeAgent
<1>3. UNCHANGED <<history, streamed, base, asked, calls, turns, pause>>
  BY DEF BeforeAgent
<1>4. CASE c = "none"
  <2>1. PICK f : f = [Top EXCEPT !.at = "run"]
    OBVIOUS
  <2>2. Continue(f)
    BY <1>4, <2>1, Zenon DEF BeforeAgent
  <2>3. QuietFrame(f, Top)
    BY <1>2, <2>1 DEF QuietFrame, FrameType
  <2>4. asked' \in Nat
    BY <1>3 DEF Inv, TypeOK
  <2> QED BY <1>1, <1>3, <2>2, <2>3, <2>4, QuietStep
<1>5. CASE c = "content"
  <2>1. PICK f : f = [Top EXCEPT !.end = TRUE, !.at = "done"]
    OBVIOUS
  <2>2. Yield(f, Event(Top.agent, "text", 0, FALSE))
    BY <1>5, <2>1 DEF BeforeAgent
  <2>3. QuietYield(f, Top)
    BY <1>2, <2>1 DEF QuietYield, FrameType
  <2> QED BY <1>1, <1>3, <2>2, <2>3, QuietYieldStep
<1>6. CASE c = "delta"
  <2>1. PICK f : f = [Top EXCEPT !.at = IF Top.end THEN "done" ELSE "run"]
    OBVIOUS
  <2>2. Yield(f, Event(Top.agent, "delta", 0, FALSE))
    BY <1>6, <2>1 DEF BeforeAgent
  <2>3. QuietYield(f, Top)
    BY <1>2, <2>1 DEF QuietYield, FrameType
  <2> QED BY <1>1, <1>3, <2>2, <2>3, QuietYieldStep
<1> QED BY <1>2, <1>4, <1>5, <1>6

LEMMA AfterAgentInv ==
    ASSUME Inv, NEW c, AfterAgent(c)
    PROVE  Inv'
<1>1. pc = "agent" /\ Top.at = "after"
  BY DEF AfterAgent, Running
<1>2. Top \in FrameType /\ Top.todo = << >>
  BY <1>1, AgentRuns DEF FrameInv
<1>3. UNCHANGED <<history, streamed, base, asked, calls, turns, pause>>
  BY DEF AfterAgent
<1>4. PICK f : f = [Top EXCEPT !.at = "done"]
  OBVIOUS
<1>5. QuietYield(f, Top)
  BY <1>2, <1>4 DEF QuietYield, FrameType
<1>6. PICK k \in {"text", "delta"} : k = IF c = "content" THEN "text" ELSE "delta"
  OBVIOUS
<1>7. Yield(f, Event(Top.agent, k, 0, FALSE))
  BY <1>4, <1>6 DEF AfterAgent
<1> QED BY <1>1, <1>3, <1>5, <1>7, QuietYieldStep

LEMMA ReturnInv ==
    ASSUME Inv, Return
    PROVE  Inv'
<1>1. pc = "agent" /\ stack' = SubSeq(stack, 1, Len(stack) - 1)
      /\ pc' = IF Len(stack) = 1 THEN "idle" ELSE "agent"
  BY DEF Return, Running
<1>2. UNCHANGED <<out, history, streamed, base, asked, calls, turns, pause>>
  BY DEF Return
<1>3. /\ stack \in Seq(FrameType) /\ stack # << >> /\ out = << >>
      /\ history \in Seq(EventType) /\ HistoryInv(history, calls) /\ StackInv(stack, history, calls)
  BY <1>1, AgentRuns
<1>4. /\ stack' \in Seq(FrameType) /\ Len(stack') = Len(stack) - 1 /\ StackInv(stack', history, calls)
      /\ \A i \in 1..Len(stack) - 1 : stack'[i] = stack[i]
  BY <1>1, <1>3, PoppedInv
<1>5. Len(stack) \in Nat /\ Len(stack) >= 1
  BY <1>3, TopTyped
<1>6. (Len(stack) = 1 => stack' = << >>) /\ (Len(stack) # 1 => stack' # << >> /\ 1 \in 1..Len(stack) - 1)
  BY <1>4, <1>5, EmptySeq
<1>7. TypeOK'
  BY <1>1, <1>2, <1>4 DEF Inv, TypeOK
<1>8. Control' /\ Resumed' /\ Ahead' = history
  BY <1>1, <1>2, <1>3, <1>6 DEF Control, Resumed, Ahead
<1>9. AnswerReachesCaller'
  <2>1. stack' # << >> => stack'[1].agent = stack[1].agent
    BY <1>4, <1>6
  <2> QED BY <1>2, <1>3, <2>1, CallerStays, LenProperties DEF Inv, TypeOK
<1> QED BY <1>2, <1>3, <1>4, <1>7, <1>8, <1>9 DEF Inv

LEMMA NextSubInv ==
    ASSUME Inv, NextSub
    PROVE  Inv'
<1>1. pc = "agent" /\ Top.at = "run"
  BY DEF NextSub, Running
<1>2. Top \in FrameType /\ Top.todo = << >> /\ FrameInv(Top, history, calls) /\ calls \in Nat
  BY <1>1, AgentRuns DEF FrameInv
<1>3. UNCHANGED <<history, streamed, base, asked, calls, turns, pause>>
  BY DEF NextSub
<1>4. CASE Top.sub < Len(Subs[Top.agent])
  <2>1. PICK f : f = [Top EXCEPT !.sub = @ + 1]
    OBVIOUS
  <2>2. PICK a : a = Subs[Top.agent][Top.sub + 1]
    OBVIOUS
  <2>3. Push(f, a)
    BY <1>4, <2>1, <2>2 DEF NextSub
  <2>4. Subs[Top.agent] \in Seq(Agents) /\ Top.sub \in Nat
    BY <1>2, InvocationAssumption DEF FrameType
  <2>5. a \in Agents
    BY <1>4, <2>2, <2>4
  <2>6. QuietFrame(f, Top)
    BY <1>1, <1>2, <2>1 DEF QuietFrame, FrameType
  <2>7. FrameInv(f, history, calls)
    BY <1>2, <2>6, QuietFrameInv
  <2> QED BY <1>1, <1>3, <2>3, <2>5, <2>6, <2>7, PushedAgentInv DEF QuietFrame
<1>5. CASE ~(Top.sub < Len(Subs[Top.agent]))
  <2>1. PICK f : f = [Top EXCEPT !.at = "after"]
    OBVIOUS
  <2>2. Continue(f)
    BY <1>5, <2>1 DEF NextSub
  <2>3. QuietFrame(f, Top)
    BY <1>2, <2>1 DEF QuietFrame, FrameType
  <2>4. asked' \in Nat
    BY <1>3 DEF Inv, TypeOK
  <2> QED BY <1>1, <1>3, <2>2, <2>3, <2>4, QuietStep
<1> QED BY <1>4, <1>5

LEMMA IterateInv ==
    ASSUME Inv, Iterate
    PROVE  Inv'
<1>1. pc = "agent" /\ Top.at = "run"
  BY DEF Iterate, Running
<1>2. Top \in FrameType /\ Top.todo = << >> /\ FrameInv(Top, history, calls) /\ calls \in Nat
  BY <1>1, AgentRuns DEF FrameInv
<1>3. UNCHANGED <<history, streamed, base, asked, calls, turns, pause>>
  BY DEF Iterate
<1>4. asked' \in Nat
  BY <1>3 DEF Inv, TypeOK
<1>5. Top.iter \in 0..MaxIterations /\ MaxIterations \in Nat
  BY <1>2, InvocationAssumption DEF FrameType
<1>6. CASE Top.exit \/ Top.iter = MaxIterations
  <2>1. PICK f : f = [Top EXCEPT !.at = "after"]
    OBVIOUS
  <2>2. Continue(f)
    BY <1>5, <1>6, <2>1 DEF Iterate
  <2>3. QuietFrame(f, Top)
    BY <1>2, <2>1 DEF QuietFrame, FrameType
  <2> QED BY <1>1, <1>3, <1>4, <2>2, <2>3, QuietStep
<1>7. CASE ~Top.exit /\ Top.iter < MaxIterations /\ Top.sub < Len(Subs[Top.agent])
  <2>1. PICK f : f = [Top EXCEPT !.sub = @ + 1, !.exit = FALSE]
    OBVIOUS
  <2>2. PICK a : a = Subs[Top.agent][Top.sub + 1]
    OBVIOUS
  <2>3. Push(f, a)
    BY <1>5, <1>7, <2>1, <2>2 DEF Iterate
  <2>4. Subs[Top.agent] \in Seq(Agents) /\ Top.sub \in Nat
    BY <1>2, InvocationAssumption DEF FrameType
  <2>5. a \in Agents
    BY <1>7, <2>2, <2>4
  <2>6. QuietFrame(f, Top)
    <3>1. PICK b \in BOOLEAN : b = FALSE
      OBVIOUS
    <3>2. Top.exit = b
      BY <1>2, <1>7, <3>1 DEF FrameType
    <3>7. PICK m \in Nat : m = Top.sub + 1
      BY <2>4
    <3>3. f = [Top EXCEPT !.sub = m, !.exit = b]
      BY <2>1, <3>1, <3>7
    <3>4. f \in FrameType
      BY <1>2, <3>3 DEF FrameType
    <3>5. f.exit = b
      BY <1>2, <3>3 DEF FrameType
    <3>6. f.agent = Top.agent /\ f.from = Top.from /\ f.own = Top.own /\ f.todo = Top.todo
          /\ f.end = Top.end /\ f.at = Top.at
      BY <1>2, <3>3 DEF FrameType
    <3> QED BY <1>1, <1>2, <3>2, <3>4, <3>5, <3>6 DEF QuietFrame
  <2>7. FrameInv(f, history, calls)
    BY <1>2, <2>6, QuietFrameInv
  <2> QED BY <1>1, <1>3, <2>3, <2>5, <2>6, <2>7, PushedAgentInv DEF QuietFrame
<1>8. CASE /\ ~(Top.exit \/ Top.iter = MaxIterations)
           /\ ~(~Top.exit /\ Top.iter < MaxIterations /\ Top.sub < Len(Subs[Top.agent]))
  <2>1. PICK f : f = [Top EXCEPT !.sub = 0, !.iter = @ + 1]
    OBVIOUS
  <2>2. Continue(f)
    BY <1>8, <2>1 DEF Iterate
  <2>3. QuietFrame(f, Top)
    <3>1. Top.iter + 1 \in 0..MaxIterations
      BY <1>5, <1>8
    <3> QED BY <1>1, <1>2, <2>1, <3>1 DEF QuietFrame, FrameType
  <2> QED BY <1>1, <1>3, <1>4, <2>2, <2>3, QuietStep
<1> QED BY <1>6, <1>7, <1>8

-----------------------------------------------------------------------------
(* The steps of an LlmAgent                                                *)

LEMMA LeaveLoopInv ==
    ASSUME Inv, LeaveLoop
    PROVE  Inv'
<1>1. pc = "agent" /\ Top.at = "run"
  BY DEF LeaveLoop, AtStep, Running
<1>2. Top \in FrameType /\ Top.todo = << >>
  BY <1>1, AgentRuns DEF FrameInv
<1>3. PICK f : f = [Top EXCEPT !.at = "after"]
  OBVIOUS
<1>4. Continue(f) /\ UNCHANGED <<history, streamed, base, asked, calls, turns, pause>>
  BY <1>3 DEF LeaveLoop
<1>5. QuietFrame(f, Top)
  BY <1>2, <1>3 DEF QuietFrame, FrameType
<1>6. asked' \in Nat
  BY <1>4 DEF Inv, TypeOK
<1> QED BY <1>1, <1>4, <1>5, <1>6, QuietStep

\* A response is handled.
LEMMA ResponseStep ==
    ASSUME Inv, pc = "agent", NEW r \in Responses, Allowed(r), Count(r), NEW f, Continue(f),
           RespondedFrame(f, Top, r), UNCHANGED <<history, streamed, base, asked, turns, pause>>
    PROVE  Inv'
<1>1. /\ Top \in FrameType /\ FrameInv(Top, history, calls) /\ HistoryInv(history, calls)
      /\ calls \in 0..MaxCalls /\ calls \in Nat /\ MaxCalls \in Nat
  BY AgentRuns
<1>2. calls' = (IF r \in CallKinds THEN calls + 1 ELSE calls)
  BY DEF Count
<1>3. calls' \in 0..MaxCalls /\ calls' >= calls
  BY <1>1, <1>2 DEF Allowed
<1>4. FrameInv(f, history, calls')
  BY <1>1, <1>2, RespondedInv
<1>5. f \in FrameType /\ f.agent = Top.agent /\ (Top.end => f.end)
  BY DEF RespondedFrame
<1>6. asked' \in Nat
  BY DEF Inv, TypeOK
<1> QED BY <1>3, <1>4, <1>5, <1>6, ContinuedInv

LEMMA OwnTyped ==
    ASSUME Top \in FrameType, calls \in 0..MaxCalls, NEW r \in Responses, Allowed(r)
    PROVE  Own(r) \in SUBSET (1..MaxCalls) /\ Handle(r) \in Seq(StepType)
<1>1. Top.own \in SUBSET (1..MaxCalls) /\ MaxCalls \in Nat
  BY InvocationAssumption DEF FrameType
<1>2. r \in CallKinds => calls + 1 \in 1..MaxCalls
  BY <1>1 DEF Allowed
<1>3. Own(r) \in SUBSET (1..MaxCalls)
  BY <1>1, <1>2 DEF Own
<1> QED BY <1>3, HandleShape

LEMMA ShortCircuitInv ==
    ASSUME Inv, NEW r \in Responses, ShortCircuit(r)
    PROVE  Inv'
<1>1. pc = "agent" /\ Top.at = "run" /\ Kind[Top.agent] = "llm" /\ Allowed(r) /\ Count(r)
      /\ UNCHANGED <<history, streamed, base, asked, turns, pause>>
  BY DEF ShortCircuit, AtStep, Running
<1>2. Top \in FrameType /\ Top.todo = << >> /\ calls \in 0..MaxCalls
  BY <1>1, AgentRuns DEF FrameInv
<1>3. PICK t \in Seq(StepType) : t = Handle(r)
  BY <1>1, <1>2, OwnTyped
<1>4. PICK o \in SUBSET (1..MaxCalls) : o = Own(r)
  BY <1>1, <1>2, OwnTyped
<1>5. PICK f : f = [Top EXCEPT !.at = "stream", !.last = "none", !.left = 0, !.todo = t, !.own = o]
  OBVIOUS
<1>6. Continue(f)
  BY <1>3, <1>4, <1>5 DEF ShortCircuit
<1>7. f \in FrameType
  <2>1. 0 \in 0..MaxResponses
    BY InvocationAssumption
  <2> QED BY <1>2, <1>5, <2>1 DEF FrameType
<1>8. /\ f.agent = Top.agent /\ f.from = Top.from /\ f.own = o /\ f.exit = Top.exit /\ f.todo = t
      /\ f.end = Top.end /\ f.at = "stream"
  BY <1>2, <1>5 DEF FrameType
<1> QED BY <1>1, <1>2, <1>3, <1>4, <1>6, <1>7, <1>8, ResponseStep DEF RespondedFrame

LEMMA RespondInv ==
    ASSUME Inv, NEW r \in Responses, Respond(r)
    PROVE  Inv'
<1>1. pc = "agent" /\ Top.at = "stream" /\ Top.todo = << >> /\ Top.left > 0 /\ Allowed(r) /\ Count(r)
      /\ UNCHANGED <<history, streamed, base, asked, turns, pause>>
  BY DEF Respond, Running, Idle
<1>2. Top \in FrameType /\ Kind[Top.agent] = "llm" /\ calls \in 0..MaxCalls
  BY <1>1, AgentRuns DEF FrameInv
<1>3. PICK t \in Seq(StepType) : t = Handle(r)
  BY <1>1, <1>2, OwnTyped
<1>4. PICK o \in SUBSET (1..MaxCalls) : o = Own(r)
  BY <1>1, <1>2, OwnTyped
<1>9. PICK m \in 0..MaxResponses : m = Top.left - 1
  BY <1>1, <1>2, InvocationAssumption DEF FrameType
<1>5. PICK f : f = [Top EXCEPT !.left = m, !.todo = t, !.own = o]
  OBVIOUS
<1>6. Continue(f)
  BY <1>3, <1>4, <1>5, <1>9 DEF Respond
<1>7. f \in FrameType
  BY <1>2, <1>5 DEF FrameType
<1>8. /\ f.agent = Top.agent /\ f.from = Top.from /\ f.own = o /\ f.exit = Top.exit /\ f.todo = t
      /\ f.end = Top.end /\ f.at = Top.at
  BY <1>2, <1>5 DEF FrameType
<1> QED BY <1>1, <1>2, <1>3, <1>4, <1>6, <1>7, <1>8, ResponseStep DEF RespondedFrame

LEMMA RecoverModelInv ==
    ASSUME Inv, NEW r \in Responses, RecoverModel(r)
    PROVE  Inv'
<1>1. pc = "agent" /\ Top.at = "stream" /\ Top.todo = << >> /\ Top.left > 0 /\ Allowed(r) /\ Count(r)
      /\ UNCHANGED <<history, streamed, base, asked, turns, pause>>
  BY DEF RecoverModel, Running, Idle
<1>2. Top \in FrameType /\ Kind[Top.agent] = "llm" /\ calls \in 0..MaxCalls
  BY <1>1, AgentRuns DEF FrameInv
<1>3. PICK t \in Seq(StepType) : t = Handle(r)
  BY <1>1, <1>2, OwnTyped
<1>4. PICK o \in SUBSET (1..MaxCalls) : o = Own(r)
  BY <1>1, <1>2, OwnTyped
<1>5. PICK f : f = [Top EXCEPT !.left = 0, !.todo = t, !.own = o]
  OBVIOUS
<1>6. Continue(f)
  BY <1>3, <1>4, <1>5 DEF RecoverModel
<1>7. f \in FrameType
  <2>1. 0 \in 0..MaxResponses
    BY InvocationAssumption
  <2> QED BY <1>2, <1>5, <2>1 DEF FrameType
<1>8. /\ f.agent = Top.agent /\ f.from = Top.from /\ f.own = o /\ f.exit = Top.exit /\ f.todo = t
      /\ f.end = Top.end /\ f.at = Top.at
  BY <1>2, <1>5 DEF FrameType
<1> QED BY <1>1, <1>2, <1>3, <1>4, <1>6, <1>7, <1>8, ResponseStep DEF RespondedFrame

LEMMA CallLlmInv ==
    ASSUME Inv, CallLlm
    PROVE  Inv'
<1>1. pc = "agent" /\ Top.at = "run" /\ Kind[Top.agent] = "llm"
      /\ UNCHANGED <<history, streamed, base, calls, turns, pause>>
  BY DEF CallLlm, AtStep, Running
<1>2. Top \in FrameType /\ Top.todo = << >> /\ asked \in Nat
  BY <1>1, AgentRuns DEF FrameInv, Inv, TypeOK
<1>3. CASE MaxLlmCalls > 0 /\ Top.calls = MaxLlmCalls
  BY <1>1, <1>3, ThrownInv DEF CallLlm
<1>4. CASE ~(MaxLlmCalls > 0 /\ Top.calls = MaxLlmCalls)
  <2>1. PICK m \in 0..MaxLlmCalls : m = IF MaxLlmCalls > 0 THEN Top.calls + 1 ELSE Top.calls
    BY <1>2, <1>4, InvocationAssumption DEF FrameType
  <2>2. PICK f : f = [Top EXCEPT !.at = "stream", !.last = "none", !.left = MaxResponses, !.calls = m]
    OBVIOUS
  <2>3. Continue(f) /\ asked' = asked + 1
    <3>1. CASE MaxLlmCalls > 0
      BY <3>1, <1>4, <2>1, <2>2 DEF CallLlm
    <3>2. CASE ~(MaxLlmCalls > 0)
      BY <3>2, <1>4, <2>1, <2>2 DEF CallLlm
    <3> QED BY <3>1, <3>2
  <2>4. QuietFrame(f, Top)
    <3>1. MaxResponses \in 0..MaxResponses
      BY InvocationAssumption
    <3> QED BY <1>1, <1>2, <2>2, <3>1 DEF QuietFrame, FrameType
  <2>5. asked' \in Nat
    BY <1>2, <2>3
  <2> QED BY <1>1, <2>3, <2>4, <2>5, QuietStep
<1> QED BY <1>3, <1>4

LEMMA EndStepInv ==
    ASSUME Inv, EndStep
    PROVE  Inv'
<1>1. pc = "agent" /\ Top.at = "stream" /\ Top.todo = << >>
      /\ UNCHANGED <<history, streamed, base, asked, calls, turns, pause>>
  BY DEF EndStep, Running, Idle
<1>2. Top \in FrameType /\ asked \in Nat
  BY <1>1, AgentRuns DEF Inv, TypeOK
<1>3. PICK w \in {"after", "run"} :
          w = IF Top.last \in {"none", "final", "chunk"} THEN "after" ELSE "run"
  OBVIOUS
<1>4. PICK f : f = [Top EXCEPT !.left = 0, !.at = w]
  OBVIOUS
<1>5. Continue(f)
  BY <1>3, <1>4 DEF EndStep
<1>6. QuietFrame(f, Top)
  <2>1. 0 \in 0..MaxResponses /\ (Top.at = "stream" => Kind[Top.agent] = "llm")
    BY <1>1, AgentRuns, InvocationAssumption DEF FrameInv
  <2> QED BY <1>1, <1>2, <1>4, <2>1 DEF QuietFrame, FrameType
<1> QED BY <1>1, <1>2, <1>5, <1>6, QuietStep

LEMMA FailModelInv ==
    ASSUME Inv, FailModel
    PROVE  Inv'
  BY ThrownInv DEF FailModel, Running

\* The step at the head of what the top agent has to do.
LEMMA NextStep ==
    ASSUME Inv, NEW d, Doing(d)
    PROVE  /\ pc = "agent" /\ Top.at = "stream" /\ Top \in FrameType /\ Kind[Top.agent] = "llm"
           /\ Top.todo \in Seq(StepType) /\ Top.todo # << >>
           /\ Head(Top.todo) = Top.todo[1] /\ Top.todo[1] \in StepType /\ Top.todo[1].do = d
           /\ Tail(Top.todo) \in Seq(StepType)
           /\ FrameInv(Top, history, calls)
<1>1. pc = "agent" /\ Top.at = "stream" /\ Top.todo # << >> /\ Head(Top.todo).do = d
  BY DEF Doing, Running, Idle
<1>2. Top \in FrameType /\ FrameInv(Top, history, calls) /\ Kind[Top.agent] = "llm"
  BY <1>1, AgentRuns DEF FrameInv
<1>3. Top.todo \in Seq(StepType)
  BY <1>2 DEF FrameType
<1>4. /\ Head(Top.todo) = Top.todo[1] /\ Top.todo[1] \in StepType /\ Tail(Top.todo) \in Seq(StepType)
  BY <1>1, <1>3, HeadTailProperties
<1> QED BY <1>1, <1>2, <1>3, <1>4

LEMMA EmitEventInv ==
    ASSUME Inv, EmitEvent
    PROVE  Inv'
<1>1. /\ pc = "agent" /\ Top.at = "stream" /\ Top \in FrameType
      /\ Top.todo \in Seq(StepType) /\ Top.todo # << >>
      /\ Head(Top.todo) = Top.todo[1] /\ Top.todo[1] \in StepType /\ Top.todo[1].do = "emit"
      /\ Tail(Top.todo) \in Seq(StepType)
      /\ FrameInv(Top, history, calls)
  BY NextStep DEF EmitEvent
<1>2. UNCHANGED <<history, streamed, base, asked, calls, turns, pause>>
  BY DEF EmitEvent
<1>3. PICK d \in StepType : d = Top.todo[1]
  BY <1>1
<1>4. d.end \in BOOLEAN /\ d.event \in EventType /\ Emits(d)
  BY <1>1, <1>3 DEF StepType, Emits
<1>5. PICK t \in Seq(StepType) : t = Tail(Top.todo)
  BY <1>1
<1>6. PICK b \in BOOLEAN : b = (Top.end \/ d.end)
  OBVIOUS
<1>7. PICK f : f = [Top EXCEPT !.todo = t, !.end = b]
  OBVIOUS
<1>8. Yield(f, d.event)
  <2>1. f = [Top EXCEPT !.todo = Tail(@), !.end = @ \/ Head(Top.todo).end]
    BY <1>1, <1>3, <1>5, <1>6, <1>7
  <2>2. d.event = Head(Top.todo).event
    BY <1>1, <1>3
  <2> QED BY <2>1, <2>2 DEF EmitEvent
<1>9. f \in FrameType
  BY <1>1, <1>7 DEF FrameType
<1>10. /\ f.agent = Top.agent /\ f.from = Top.from /\ f.own = Top.own /\ f.exit = Top.exit
       /\ f.at = Top.at /\ f.todo = t /\ f.end = b
  BY <1>1, <1>7 DEF FrameType
<1>11. EmitFrame(f, Top)
  BY <1>1, <1>3, <1>4, <1>5, <1>6, <1>9, <1>10 DEF EmitFrame
<1>12. history \in Seq(EventType) /\ calls \in Nat
  BY <1>1, AgentRuns
<1>13. NewEvent(history, d.event, calls)
  BY <1>1, <1>3, <1>4, <1>12, EmitNew
<1>14. FrameInv(SeenFrame(f, d.event), With(history, d.event), calls)
  BY <1>1, <1>3, <1>11, <1>12, EmitInv
<1>15. Top.end => f.end
  BY <1>6, <1>10
<1> QED BY <1>1, <1>2, <1>8, <1>9, <1>10, <1>13, <1>14, <1>15, YieldedEventInv

LEMMA HandleCallsInv ==
    ASSUME Inv, NEW o \in Outcomes, NEW to \in Targets, HandleCalls(o, to)
    PROVE  Inv'
<1>1. /\ pc = "agent" /\ Top.at = "stream" /\ Top \in FrameType /\ Kind[Top.agent] = "llm"
      /\ Top.todo # << >> /\ Head(Top.todo) = Top.todo[1] /\ Top.todo[1].do = "tools"
      /\ FrameInv(Top, history, calls)
  BY NextStep DEF HandleCalls
<1>2. UNCHANGED <<history, streamed, base, asked, calls, turns, pause>>
  BY DEF HandleCalls
<1>3. calls \in Nat /\ calls \in 0..MaxCalls
  BY <1>1, AgentRuns
<1>4. OpenCall(history, Top.agent, calls) /\ calls >= 1 /\ (Top.todo[1].long => Answered(history, calls))
  BY <1>1, <1>3, ToolsNext
<1>5. o = "none" => Answered(history, calls)
  BY <1>1, <1>4 DEF HandleCalls
<1>6. asked' \in Nat /\ calls' \in 0..MaxCalls /\ calls' >= calls /\ calls' = calls
  BY <1>2, <1>3 DEF Inv, TypeOK
<1>7. CASE pause
  <2>1. PICK t \in Seq(StepType) : t = << >>
    BY EmptySeq
  <2>2. PICK f : f = [Top EXCEPT !.todo = t, !.end = TRUE]
    OBVIOUS
  <2>3. Continue(f)
    BY <1>7, <2>1, <2>2 DEF HandleCalls
  <2>4. f \in FrameType
    BY <1>1, <2>2 DEF FrameType
  <2>5. /\ f.agent = Top.agent /\ f.from = Top.from /\ f.own = Top.own /\ f.exit = Top.exit
        /\ f.at = Top.at /\ f.todo = t /\ f.end
    BY <1>1, <2>2 DEF FrameType
  <2>6. \A k \in 1..Len(f.todo) : StepInv(f.todo, k, f.agent, history, calls)
    BY <2>1, <2>5, EmptySeq
  <2>7. FrameInv(f, history, calls)
    BY <1>1, <1>3, <2>4, <2>5, <2>6, HandledInv DEF HandledFrame
  <2> QED BY <1>1, <1>2, <1>6, <2>3, <2>4, <2>5, <2>7, ContinuedInv
<1>8. CASE ~pause
  <2>0. calls \in 1..MaxCalls
    BY <1>3, <1>4
  <2>1. PICK t : t = Steps(o, calls, to)
    OBVIOUS
  <2>2. /\ t \in Seq(StepType)
        /\ \A k \in 1..Len(t) : StepInv(t, k, Top.agent, history, calls)
        /\ Answered(history, calls) \/ Promised(t, calls, calls)
    BY <1>1, <1>4, <1>5, <2>0, <2>1, StepsInv
  <2>3. PICK f : f = [Top EXCEPT !.todo = t]
    OBVIOUS
  <2>4. Continue(f)
    BY <1>8, <2>1, <2>3 DEF HandleCalls
  <2>5. f \in FrameType
    BY <1>1, <2>2, <2>3 DEF FrameType
  <2>6. /\ f.agent = Top.agent /\ f.from = Top.from /\ f.own = Top.own /\ f.exit = Top.exit
        /\ f.at = Top.at /\ f.todo = t /\ f.end = Top.end
    BY <1>1, <2>3 DEF FrameType
  <2>7. FrameInv(f, history, calls)
    BY <1>1, <1>3, <2>2, <2>5, <2>6, HandledInv DEF HandledFrame
  <2> QED BY <1>1, <1>2, <1>6, <2>4, <2>5, <2>6, <2>7, ContinuedInv
<1> QED BY <1>7, <1>8

LEMMA TransferInv ==
    ASSUME Inv, Transfer
    PROVE  Inv'
<1>1. /\ pc = "agent" /\ Top.at = "stream" /\ Top \in FrameType /\ Kind[Top.agent] = "llm"
      /\ Top.todo # << >> /\ Head(Top.todo) = Top.todo[1] /\ Top.todo[1].do = "go"
      /\ FrameInv(Top, history, calls)
  BY NextStep DEF Transfer
<1>2. UNCHANGED <<history, streamed, base, asked, calls, turns, pause>>
  BY DEF Transfer
<1>3. calls \in Nat
  BY <1>1, AgentRuns
<1>4. PICK to : to = Head(Top.todo).to
  OBVIOUS
<1>5. CASE \/ to \notin Agents
           \/ /\ Top.agent \in DisallowPeers /\ to # Top.agent
              /\ Parents(to) = Parents(Top.agent)
  <2>1. Throw
    BY <1>4, <1>5 DEF Transfer
  <2> QED BY <1>1, <1>2, <2>1, ThrownInv
<1>6. CASE ~(\/ to \notin Agents
             \/ /\ Top.agent \in DisallowPeers /\ to # Top.agent
                /\ Parents(to) = Parents(Top.agent))
  <2>1. Tail(Top.todo) = << >>
    <3>1. PICK d : d = Top.todo[1]
      OBVIOUS
    <3>2. Top.todo = <<d>>
      BY <1>1, <1>3, <3>1, ToolsNext
    <3> QED BY <3>2
  <2>2. PICK t \in Seq(StepType) : t = << >>
    BY EmptySeq
  <2>3. PICK f : f = [Top EXCEPT !.todo = t]
    OBVIOUS
  <2>4. Push(f, to) /\ to \in Agents
    BY <1>4, <1>6, <2>1, <2>2, <2>3 DEF Transfer
  <2>5. f \in FrameType
    BY <1>1, <2>3 DEF FrameType
  <2>6. /\ f.agent = Top.agent /\ f.from = Top.from /\ f.own = Top.own /\ f.exit = Top.exit
        /\ f.at = Top.at /\ f.todo = << >> /\ f.end = Top.end
    BY <1>1, <2>2, <2>3 DEF FrameType
  <2>7. FrameInv(f, history, calls)
    BY <1>1, <1>3, <2>5, <2>6, TransferredInv DEF HandledFrame
  <2> QED BY <1>1, <1>2, <2>4, <2>5, <2>6, <2>7, PushedAgentInv
<1> QED BY <1>5, <1>6

-----------------------------------------------------------------------------
(* The steps of the runner                                                 *)

LEMMA InitInv ==
    ASSUME Init
    PROVE  Inv
<1>1. stack = << >> /\ out = << >> /\ history = << >> /\ streamed = << >> /\ pc = "idle"
      /\ base = 0 /\ asked = 0 /\ calls = 0 /\ turns = 0 /\ pause = FALSE
  BY DEF Init
<1>2. TypeOK
  <2>1. /\ stack \in Seq(FrameType) /\ out \in Seq(EventType) /\ history \in Seq(EventType)
        /\ streamed \in Seq(EventType) /\ Len(out) = 0 /\ Len(history) = 0
    BY <1>1, EmptySeq
  <2>2. pause \in BOOLEAN
    BY <1>1
  <2>3. base \in 0..Len(history) /\ asked \in Nat /\ calls \in 0..MaxCalls /\ turns \in 0..MaxTurns
    BY <1>1, <2>1, InvocationAssumption
  <2> QED BY <1>1, <2>1, <2>2, <2>3 DEF TypeOK
<1>3. Control /\ Resumed /\ Ahead = history /\ AnswerReachesCaller
  BY <1>1 DEF Control, Resumed, Ahead, AnswerReachesCaller
<1>4. HistoryInv(history, calls)
  BY <1>1, EmptySeq DEF HistoryInv
<1>5. StackInv(stack, history, calls)
  BY <1>1, EmptyStackInv
<1> QED BY <1>2, <1>3, <1>4, <1>5 DEF Inv

\* An event that is appended as it is.
LEMMA AppendGrows ==
    ASSUME NEW h \in Seq(EventType), NEW e \in EventType
    PROVE  Append(h, e) \in Seq(EventType) /\ Grows(h, Append(h, e), e)
  BY AppendProperties, LenProperties DEF Grows

LEMMA StartTurnInv ==
    ASSUME Inv, NEW message \in Messages, NEW mode \in PauseModes, StartTurn(message, mode)
    PROVE  Inv'
<1>1. /\ pc = "idle" /\ pause' = mode /\ turns < MaxTurns /\ turns' = turns + 1
      /\ history' = history \o message /\ base' = Len(history') /\ streamed' = << >> /\ asked' = 0
      /\ pc' = "resume" /\ UNCHANGED <<stack, out, calls>>
  BY DEF StartTurn
<1>2. /\ history \in Seq(EventType) /\ calls \in 0..MaxCalls /\ calls \in Nat /\ turns \in 0..MaxTurns
      /\ stack = << >> /\ out = << >> /\ HistoryInv(history, calls) /\ MaxTurns \in Nat /\ MaxCalls \in Nat
  BY <1>1, InvocationAssumption DEF Inv, TypeOK, Control, Ahead
<1>3. history' \in Seq(EventType) /\ HistoryInv(history', calls)
  <2>1. CASE message = << >>
    <3>1. history' = history
      BY <1>1, <1>2, <2>1, ConcatEmptySeq
    <3> QED BY <3>1, <1>2
  <2>2. CASE \E e \in EventType : message = <<e>> /\ NewEvent(history, e, calls)
    <3>1. PICK e \in EventType : message = <<e>> /\ NewEvent(history, e, calls)
      BY <2>2
    <3>2. history' = Append(history, e)
      BY <1>1, <1>2, <3>1
    <3> QED BY <3>1, <3>2, <1>2, AppendGrows, HistoryGrows
  <2>3. CASE message = <<Event(User, "user", 0, FALSE)>>
    <3>1. PICK e : e = Event(User, "user", 0, FALSE)
      OBVIOUS
    <3>2. e \in EventType /\ e.kind = "user" /\ e.call = 0
      BY <1>2, <3>1 DEF Event, EventType, EventKinds
    <3>3. NewEvent(history, e, calls)
      BY <1>2, <3>2 DEF NewEvent, CallKinds
    <3> QED BY <2>2, <2>3, <3>1, <3>2, <3>3
  <2>4. CASE \E j \in 1..Len(history) : history[j].kind \in CallKinds
                /\ message = <<Event(User, "answer", history[j].call, FALSE)>>
    <3>1. PICK j \in 1..Len(history) : history[j].kind \in CallKinds
                /\ message = <<Event(User, "answer", history[j].call, FALSE)>>
      BY <2>4
    <3>2. PICK e : e = Event(User, "answer", history[j].call, FALSE)
      OBVIOUS
    <3>3. history[j] \in EventType /\ history[j].call <= calls
      BY <1>2, ElementOfSeq DEF HistoryInv, EventInv
    <3>4. e \in EventType /\ e.kind = "answer" /\ e.call = history[j].call
      BY <3>2, <3>3 DEF Event, EventType, EventKinds
    <3>5. NewEvent(history, e, calls)
      BY <3>1, <3>3, <3>4 DEF NewEvent, CallKinds
    <3> QED BY <2>2, <3>1, <3>2, <3>4, <3>5
  <2> QED BY <2>1, <2>3, <2>4 DEF Messages
<1>4. Len(history') \in Nat /\ base' \in 0..Len(history')
  BY <1>1, <1>3, LenProperties
<1>5. streamed' \in Seq(EventType) /\ asked' \in Nat /\ turns' \in 0..MaxTurns /\ pause' \in BOOLEAN
  BY <1>1, <1>2, EmptySeq, InvocationAssumption
<1>6. TypeOK'
  BY <1>1, <1>3, <1>4, <1>5 DEF Inv, TypeOK
<1>7. Control' /\ Resumed' /\ Ahead' = history' /\ AnswerReachesCaller'
  BY <1>1, <1>2 DEF Control, Resumed, Ahead, AnswerReachesCaller
<1>8. StackInv(stack', history', calls)
  BY <1>1, <1>2, EmptyStackInv
<1> QED BY <1>1, <1>3, <1>6, <1>7, <1>8 DEF Inv

\* The resumption finds an agent, and for an answer the caller of the call.
LEMMA ResumptionAgent ==
    ASSUME NEW h \in Seq(EventType), NEW n, HistoryInv(h, n)
    PROVE  /\ DetermineAgentForResumption(h) \in Agents
           /\ Len(h) > 0 /\ h[Len(h)].kind = "answer" =>
                \E i \in 1..Len(h) - 1 : /\ h[i].kind \in CallKinds /\ h[i].call = h[Len(h)].call
                                         /\ DetermineAgentForResumption(h) = h[i].by
<1> DEFINE answered == {i \in 1..Len(h) - 1 : /\ IsAnswer(h[Len(h)])
                                              /\ h[i].kind \in CallKinds
                                              /\ h[i].call = h[Len(h)].call}
           spoke == {i \in 1..Len(h) : /\ h[i].by \in Agents
                                       /\ h[i].by = Root \/ Routable[h[i].by]}
<1>1. Len(h) \in Nat
  BY LenProperties
<1>2. CASE answered # {}
  <2>1. Len(h) - 1 \in Nat /\ answered \in SUBSET (1..Len(h) - 1)
    BY <1>1, <1>2
  <2>2. Latest(answered) \in answered
    BY <2>1, <1>2, LatestIn
  <2>3. PICK i : i = Latest(answered)
    OBVIOUS
  <2>4. i \in 1..Len(h) - 1 /\ i \in 1..Len(h) /\ h[i].kind \in CallKinds /\ h[i].call = h[Len(h)].call
    BY <2>2, <2>3, <1>1
  <2>5. DetermineAgentForResumption(h) = h[i].by
    BY <1>2, <2>3 DEF DetermineAgentForResumption
  <2>6. h[i].by \in Agents
    BY <2>4 DEF HistoryInv, EventInv
  <2> QED BY <2>4, <2>5, <2>6
<1>3. CASE answered = {}
  <2>1. DetermineAgentForResumption(h) \in Agents
    <3>1. CASE spoke # {}
      <4>1. Latest(spoke) \in spoke
        BY <1>1, <3>1, LatestIn
      <4>2. DetermineAgentForResumption(h) = h[Latest(spoke)].by
        BY <1>3, <3>1 DEF DetermineAgentForResumption
      <4> QED BY <4>1, <4>2
    <3>2. CASE spoke = {}
      <4>1. DetermineAgentForResumption(h) = Root
        BY <1>3, <3>2 DEF DetermineAgentForResumption
      <4> QED BY <4>1, InvocationAssumption
    <3> QED BY <3>1, <3>2
  <2>2. ~(Len(h) > 0 /\ h[Len(h)].kind = "answer")
    <3> SUFFICES ASSUME Len(h) > 0, h[Len(h)].kind = "answer" PROVE FALSE
      OBVIOUS
    <3>1. Len(h) \in 1..Len(h)
      BY <1>1
    <3>2. PICK i \in 1..Len(h) - 1 : h[i].kind \in CallKinds /\ h[i].call = h[Len(h)].call
      BY <3>1 DEF HistoryInv, EventInv
    <3>3. i \in answered
      BY <3>2 DEF IsAnswer
    <3> QED BY <3>3, <1>3
  <2> QED BY <2>1, <2>2
<1> QED BY <1>2, <1>3

LEMMA StartAgentInv ==
    ASSUME Inv, StartAgent
    PROVE  Inv'
<1>1. pc = "resume" /\ pc' = "agent" /\ UNCHANGED <<out, history, streamed, base, asked, calls, turns, pause>>
      /\ stack' = <<Frame(DetermineAgentForResumption(history), FALSE)>>
  BY DEF StartAgent
<1>2. /\ history \in Seq(EventType) /\ calls \in Nat /\ out = << >> /\ base = Len(history)
      /\ HistoryInv(history, calls)
  BY <1>1, InvocationAssumption DEF Inv, TypeOK, Control, Ahead, Resumed
<1>3. PICK a : a = DetermineAgentForResumption(history)
  OBVIOUS
<1>4. /\ a \in Agents
      /\ Len(history) > 0 /\ history[Len(history)].kind = "answer" =>
            \E i \in 1..Len(history) - 1 : /\ history[i].kind \in CallKinds
                                           /\ history[i].call = history[Len(history)].call
                                           /\ a = history[i].by
  BY <1>2, <1>3, ResumptionAgent
<1>5. PICK end \in BOOLEAN : end = FALSE
  OBVIOUS
<1>6. PICK f : f = Frame(a, end)
  OBVIOUS
<1>7. f \in FrameType /\ f.agent = a /\ FrameInv(f, history, calls)
  BY <1>2, <1>4, <1>6, NewFrameInv
<1>8. stack' = <<f>>
  BY <1>1, <1>3, <1>5, <1>6
<1>9. stack' \in Seq(FrameType) /\ Len(stack') = 1 /\ stack'[1] = f /\ stack' # << >>
  BY <1>7, <1>8
<1>10. StackInv(stack', history, calls)
  BY <1>7, <1>9 DEF StackInv
<1>11. TypeOK'
  BY <1>1, <1>9 DEF Inv, TypeOK
<1>12. Control' /\ Resumed' /\ Ahead' = history
  BY <1>1, <1>2, <1>9 DEF Control, Resumed, Ahead
<1>13. AnswerReachesCaller'
  BY <1>1, <1>2, <1>4, <1>7, <1>9 DEF AnswerReachesCaller
<1> QED BY <1>1, <1>2, <1>10, <1>11, <1>12, <1>13 DEF Inv

LEMMA EarlyExitInv ==
    ASSUME Inv, EarlyExit
    PROVE  Inv'
<1>1. PICK e : e = Event(Early, "text", 0, FALSE)
  OBVIOUS
<1>2. /\ pc = "resume" /\ history' = Append(history, e) /\ out' = <<e>> /\ pc' = "yield"
      /\ UNCHANGED <<stack, streamed, base, asked, calls, turns, pause>>
  BY <1>1 DEF EarlyExit
<1>3. /\ history \in Seq(EventType) /\ calls \in Nat /\ stack = << >> /\ base = Len(history)
      /\ HistoryInv(history, calls) /\ MaxCalls \in Nat
  BY <1>2, InvocationAssumption DEF Inv, TypeOK, Control, Ahead, Resumed
<1>4. e \in EventType /\ e.kind = "text" /\ e.call = 0
  BY <1>1, <1>3 DEF Event, EventType, EventKinds
<1>5. NewEvent(history, e, calls)
  BY <1>3, <1>4 DEF NewEvent, CallKinds
<1>6. history' \in Seq(EventType) /\ HistoryInv(history', calls)
  BY <1>2, <1>3, <1>4, <1>5, AppendGrows, HistoryGrows
<1>7. out' \in Seq(EventType) /\ Len(out') = 1
  BY <1>2, <1>4
<1>8. base' \in 0..Len(history')
  BY <1>2, <1>3, <1>4, AppendProperties, LenProperties
<1>9. TypeOK'
  BY <1>2, <1>6, <1>7, <1>8 DEF Inv, TypeOK
<1>10. Control' /\ Resumed' /\ Ahead' = history' /\ AnswerReachesCaller'
  BY <1>2, <1>3, <1>7 DEF Control, Resumed, Ahead, AnswerReachesCaller
<1>11. StackInv(stack', history', calls)
  BY <1>2, <1>3, EmptyStackInv
<1> QED BY <1>2, <1>6, <1>9, <1>10, <1>11 DEF Inv

LEMMA PersistEventInv ==
    ASSUME Inv, PersistEvent
    PROVE  Inv'
<1>1. PICK e : e = out[1]
  OBVIOUS
<1>2. /\ pc = "event" /\ out' = <<Persisted(e)>> /\ pc' = "yield"
      /\ history' = IF Persisted(e).kind = "chunk" THEN history ELSE Append(history, Persisted(e))
      /\ UNCHANGED <<stack, streamed, base, asked, calls, turns, pause>>
  BY <1>1 DEF PersistEvent, Persisted
<1>3. /\ history \in Seq(EventType) /\ out \in Seq(EventType) /\ Len(out) = 1 /\ stack # << >>
      /\ base \in 0..Len(history) /\ Ahead = With(history, e)
  BY <1>1, <1>2 DEF Inv, TypeOK, Control, Ahead
<1>4. e \in EventType
  BY <1>1, <1>3, ElementOfSeq
<1>5. Persisted(e) \in EventType /\ Persisted(e).kind = e.kind
  BY <1>4, PersistedFields
<1>6. history' = Ahead
  BY <1>2, <1>3, <1>5 DEF With
<1>7. /\ history' \in Seq(EventType) /\ Len(history) \in Nat /\ Len(history') >= Len(history)
      /\ Len(history') \in Nat /\ \A i \in 1..Len(history) : history'[i] = history[i]
  BY <1>2, <1>3, <1>5, AppendProperties, LenProperties
<1>8. out' \in Seq(EventType) /\ Len(out') = 1
  BY <1>2, <1>5
<1>9. TypeOK'
  BY <1>2, <1>3, <1>7, <1>8 DEF Inv, TypeOK
<1>10. Control' /\ Resumed' /\ Ahead' = history'
  BY <1>2, <1>3, <1>8 DEF Control, Resumed, Ahead
<1>11. AnswerReachesCaller'
  BY <1>2, <1>3, <1>7, CallerStays DEF Inv
<1> QED BY <1>2, <1>6, <1>9, <1>10, <1>11 DEF Inv

LEMMA YieldEventInv ==
    ASSUME Inv, YieldEvent
    PROVE  Inv'
<1>1. /\ pc = "yield" /\ streamed' = streamed \o out /\ out' = << >>
      /\ pc' = IF stack = << >> THEN "idle" ELSE "agent"
      /\ UNCHANGED <<stack, history, base, asked, calls, turns, pause>>
  BY DEF YieldEvent
<1>2. streamed' \in Seq(EventType) /\ out' \in Seq(EventType) /\ Len(out') = 0
  BY <1>1, ConcatProperties, EmptySeq DEF Inv, TypeOK
<1>3. TypeOK'
  BY <1>1, <1>2 DEF Inv, TypeOK
<1>4. Control' /\ Resumed' /\ Ahead' = Ahead /\ AnswerReachesCaller'
  BY <1>1 DEF Inv, Control, Resumed, Ahead, AnswerReachesCaller
<1> QED BY <1>1, <1>3, <1>4 DEF Inv

LEMMA AbandonInv ==
    ASSUME Inv, Abandon
    PROVE  Inv'
<1>1. /\ pc = "yield" /\ streamed' = streamed \o out /\ out' = << >> /\ stack' = << >> /\ pc' = "idle"
      /\ UNCHANGED <<history, base, asked, calls, turns, pause>>
  BY DEF Abandon
<1>2. streamed' \in Seq(EventType) /\ out' \in Seq(EventType) /\ Len(out') = 0 /\ stack' \in Seq(FrameType)
  BY <1>1, ConcatProperties, EmptySeq DEF Inv, TypeOK
<1>3. TypeOK'
  BY <1>1, <1>2 DEF Inv, TypeOK
<1>4. Control' /\ Resumed' /\ Ahead' = Ahead /\ AnswerReachesCaller'
  BY <1>1 DEF Inv, Control, Resumed, Ahead, AnswerReachesCaller
<1>5. StackInv(stack', Ahead', calls)
  BY <1>1, EmptyStackInv
<1> QED BY <1>1, <1>3, <1>4, <1>5 DEF Inv

LEMMA StillInv ==
    ASSUME Inv, UNCHANGED vars
    PROVE  Inv'
<1>1. /\ pc' = pc /\ stack' = stack /\ out' = out /\ history' = history /\ streamed' = streamed
      /\ base' = base /\ asked' = asked /\ calls' = calls /\ turns' = turns /\ pause' = pause
  BY DEF vars
<1>2. TypeOK' /\ Control' /\ Resumed' /\ Ahead' = Ahead /\ AnswerReachesCaller'
  BY <1>1 DEF Inv, TypeOK, Control, Resumed, Ahead, AnswerReachesCaller
<1> QED BY <1>1, <1>2 DEF Inv

LEMMA RunnerStepInv ==
    ASSUME Inv, RunnerStep
    PROVE  Inv'
  BY StartAgentInv, EarlyExitInv, PersistEventInv, YieldEventInv, AbandonInv DEF RunnerStep

LEMMA AgentStepInv ==
    ASSUME Inv, AgentStep
    PROVE  Inv'
  BY BeforeAgentInv, AfterAgentInv, ReturnInv, NextSubInv, IterateInv DEF AgentStep

LEMMA LlmStepInv ==
    ASSUME Inv, LlmStep
    PROVE  Inv'
<1>1. CASE LeaveLoop \/ CallLlm \/ FailModel \/ EndStep \/ EmitEvent \/ Transfer
  BY <1>1, LeaveLoopInv, CallLlmInv, FailModelInv, EndStepInv, EmitEventInv, TransferInv
<1>2. CASE \E r \in Responses : ShortCircuit(r) \/ Respond(r) \/ RecoverModel(r)
  BY <1>2, ShortCircuitInv, RespondInv, RecoverModelInv
<1>3. CASE \E o \in Outcomes, to \in Targets : HandleCalls(o, to)
  BY <1>3, HandleCallsInv
<1> QED BY <1>1, <1>2, <1>3 DEF LlmStep

LEMMA NextInv ==
    ASSUME Inv, [Next]_vars
    PROVE  Inv'
<1>1. CASE AtRest
  BY <1>1, StillInv DEF AtRest
<1>2. CASE \E m \in Messages, mode \in PauseModes : StartTurn(m, mode)
  BY <1>2, StartTurnInv
<1>3. CASE UNCHANGED vars
  BY <1>3, StillInv
<1> QED BY <1>1, <1>2, <1>3, RunnerStepInv, AgentStepInv, LlmStepInv, Zenon DEF Next

-----------------------------------------------------------------------------
(* The invariant gives the properties                                      *)

\* The history is no longer than what it is about to be.
LEMMA InvPairs ==
    ASSUME Inv
    PROVE  ResponsesFollowCalls
<1>1. history \in Seq(EventType) /\ out \in Seq(EventType) /\ (pc = "event" => Len(out) = 1)
      /\ Len(history) \in Nat
  BY LenProperties DEF Inv, TypeOK, Control
<1>2. PICK p : p = Ahead
  OBVIOUS
<1>3. HistoryInv(p, calls) /\ Len(p) \in Nat /\ Len(p) >= Len(history)
      /\ \A i \in 1..Len(history) : p[i] = history[i]
  <2>1. HistoryInv(p, calls)
    BY <1>2 DEF Inv
  <2>2. CASE pc = "event"
    <3>1. out[1] \in EventType /\ p = With(history, out[1])
      BY <1>1, <1>2, <2>2, ElementOfSeq DEF Ahead
    <3>2. p = history \/ Grows(history, p, out[1])
      BY <1>1, <3>1, WithGrows
    <3> QED BY <2>1, <3>2, <1>1 DEF Grows
  <2>3. CASE pc # "event"
    BY <1>1, <1>2, <2>1, <2>3 DEF Ahead
  <2> QED BY <2>2, <2>3
<1> SUFFICES ASSUME NEW j \in 1..Len(history), history[j].kind \in {"response", "skipped"}
             PROVE  Follows(history, j)
  BY DEF ResponsesFollowCalls, Follows
<1>4. j \in 1..Len(p) /\ p[j] = history[j] /\ \A i \in 1..j - 1 : i \in 1..Len(history) /\ p[i] = history[i]
  BY <1>1, <1>3
<1>5. Follows(p, j)
  BY <1>3, <1>4 DEF HistoryInv, EventInv
<1>6. PICK i \in 1..j - 1 : /\ p[i].kind \in CallKinds /\ p[i].call = p[j].call /\ p[i].by = p[j].by
                            /\ \A k \in i + 1..j - 1 : p[k].kind = "auth"
  BY <1>5 DEF Follows
<1>7. \A k \in i + 1..j - 1 : k \in 1..j - 1
  OBVIOUS
<1>8. \A k \in i + 1..j - 1 : history[k].kind = "auth"
  BY <1>4, <1>6, <1>7
<1>9. \A k \in 1..j - 1 : history[k].call = history[j].call => history[k].kind \in CallKinds
  BY <1>4, <1>5 DEF Follows
<1> QED BY <1>4, <1>6, <1>8, <1>9 DEF Follows

-----------------------------------------------------------------------------
(* The session's history and what the caller got                           *)

\* What the caller got, with the event being yielded.
Given == streamed \o (IF pc = "yield" THEN out ELSE << >>)

\* The agents neither persist nor yield to the caller.
LEMMA AgentsLeaveHistory ==
    ASSUME AgentStep \/ LlmStep
    PROVE  pc = "agent" /\ pc' # "yield" /\ UNCHANGED <<history, streamed, base>>
<1>1. CASE AgentStep
  <2>1. ASSUME NEW c \in {"none", "content", "delta"}, BeforeAgent(c)
        PROVE  pc = "agent" /\ pc' # "yield" /\ UNCHANGED <<history, streamed, base>>
    <3>1. pc = "agent" /\ UNCHANGED <<history, streamed, base>>
      BY <2>1 DEF BeforeAgent, Running
    <3> QED BY <2>1, <3>1 DEF BeforeAgent, Continue, Yield
  <2>2. ASSUME NEW c, AfterAgent(c) PROVE pc = "agent" /\ pc' # "yield" /\ UNCHANGED <<history, streamed, base>>
    BY <2>2 DEF AfterAgent, Running, Yield
  <2>3. CASE Return
    BY <2>3 DEF Return, Running
  <2>4. CASE NextSub
    BY <2>4 DEF NextSub, Running, Push, Continue
  <2>5. CASE Iterate
    BY <2>5 DEF Iterate, Running, Push, Continue
  <2> QED BY <1>1, <2>1, <2>2, <2>3, <2>4, <2>5 DEF AgentStep
<1>2. CASE LlmStep
  <2>1. CASE LeaveLoop
    BY <2>1 DEF LeaveLoop, AtStep, Running, Continue
  <2>2. CASE CallLlm
    BY <2>2 DEF CallLlm, AtStep, Running, Continue, Throw
  <2>3. CASE FailModel
    BY <2>3 DEF FailModel, Running, Throw
  <2>4. CASE EndStep
    BY <2>4 DEF EndStep, Running, Continue
  <2>5. CASE EmitEvent
    BY <2>5 DEF EmitEvent, Doing, Running, Yield
  <2>6. CASE Transfer
    BY <2>6 DEF Transfer, Doing, Running, Push, Throw
  <2>7. ASSUME NEW r, ShortCircuit(r) \/ Respond(r) \/ RecoverModel(r)
        PROVE  pc = "agent" /\ pc' # "yield" /\ UNCHANGED <<history, streamed, base>>
    BY <2>7 DEF ShortCircuit, Respond, RecoverModel, AtStep, Running, Continue
  <2>8. ASSUME NEW o, NEW to, HandleCalls(o, to)
        PROVE  pc = "agent" /\ pc' # "yield" /\ UNCHANGED <<history, streamed, base>>
    BY <2>8 DEF HandleCalls, Doing, Running, Continue
  <2> QED BY <1>2, <2>1, <2>2, <2>3, <2>4, <2>5, <2>6, <2>7, <2>8 DEF LlmStep
<1> QED BY <1>1, <1>2

\* What a turn has added, after one more event.
LEMMA SuffixAppend ==
    ASSUME NEW S, NEW h \in Seq(S), NEW e \in S, NEW b \in 0..Len(h)
    PROVE  SubSeq(Append(h, e), b + 1, Len(Append(h, e))) = Append(SubSeq(h, b + 1, Len(h)), e)
<1>1. PICK p : p = Append(h, e)
  OBVIOUS
<1>2. PICK n \in Nat : n = Len(h)
  BY LenProperties
<1>3. p \in Seq(S) /\ Len(p) = n + 1 /\ p[n + 1] = e /\ \A i \in 1..n : p[i] = h[i]
  BY <1>1, <1>2, AppendProperties
<1>4. b \in Nat /\ b <= n /\ b + 1 \in Int /\ n \in Int /\ n + 1 \in Int
  BY <1>2
<1>5. PICK u : u = SubSeq(h, b + 1, n)
  OBVIOUS
<1>6. u \in Seq(S) /\ Len(u) = n - b /\ \A i \in 1..n - b : u[i] = h[b + i]
  <2>1. \A i \in b + 1..n : h[i] \in S
    BY <1>2, <1>4, ElementOfSeq
  <2>2. /\ u \in Seq(S) /\ Len(u) = IF b + 1 <= n THEN n - (b + 1) + 1 ELSE 0
        /\ \A i \in 1..n - (b + 1) + 1 : u[i] = h[(b + 1) + i - 1]
    BY <1>4, <1>5, <2>1, SubSeqProperties
  <2>3. Len(u) = n - b
    BY <1>4, <2>2
  <2>4. ASSUME NEW i \in 1..n - b PROVE u[i] = h[b + i]
    <3>1. i \in 1..n - (b + 1) + 1 /\ (b + 1) + i - 1 = b + i
      BY <1>4
    <3> QED BY <2>2, <3>1
  <2> QED BY <2>2, <2>3, <2>4
<1>7. PICK v : v = SubSeq(p, b + 1, n + 1)
  OBVIOUS
<1>8. v \in Seq(S) /\ Len(v) = n + 1 - b /\ \A i \in 1..n + 1 - b : v[i] = p[b + i]
  <2>1. \A i \in b + 1..n + 1 : p[i] \in S
    BY <1>3, <1>4, ElementOfSeq
  <2>2. /\ v \in Seq(S) /\ Len(v) = IF b + 1 <= n + 1 THEN (n + 1) - (b + 1) + 1 ELSE 0
        /\ \A i \in 1..(n + 1) - (b + 1) + 1 : v[i] = p[(b + 1) + i - 1]
    BY <1>4, <1>7, <2>1, SubSeqProperties
  <2>3. (n + 1) - (b + 1) + 1 = n + 1 - b /\ \A i \in Int : (b + 1) + i - 1 = b + i
    BY <1>4
  <2> QED BY <1>4, <2>2, <2>3
<1>9. PICK w : w = Append(u, e)
  OBVIOUS
<1>10. w \in Seq(S) /\ Len(w) = n + 1 - b /\ w[n + 1 - b] = e /\ \A i \in 1..n - b : w[i] = u[i]
  <2>1. (n - b) + 1 = n + 1 - b
    BY <1>4
  <2> QED BY <1>6, <1>9, <2>1, AppendProperties
<1>11. ASSUME NEW i \in 1..n + 1 - b PROVE v[i] = w[i]
  <2>1. CASE i = n + 1 - b
    BY <2>1, <1>3, <1>4, <1>8, <1>10
  <2>2. CASE i # n + 1 - b
    <3>1. i \in 1..n - b /\ b + i \in 1..n
      BY <2>2, <1>4, <1>11
    <3> QED BY <3>1, <1>3, <1>6, <1>8, <1>10
  <2> QED BY <2>1, <2>2
<1>12. v = w
  BY <1>8, <1>10, <1>11, SeqEqual
<1> QED BY <1>1, <1>2, <1>3, <1>5, <1>7, <1>9, <1>12

\* One event is persisted and yielded.
LEMMA PersistedAndYielded ==
    ASSUME HistoryMatchesStream, pc # "yield", pc' = "yield", NEW e \in EventType,
           history \in Seq(EventType), streamed \in Seq(EventType), base \in 0..Len(history),
           streamed' = streamed, base' = base, out' = <<e>>,
           history' = IF e.kind = "chunk" THEN history ELSE Append(history, e)
    PROVE  HistoryMatchesStream'
<1>1. SubSeq(history, base + 1, Len(history)) = Kept(streamed)
  <2>1. streamed \o << >> = streamed
    BY ConcatEmptySeq
  <2> QED BY <2>1 DEF HistoryMatchesStream
<1>2. streamed \o <<e>> = Append(streamed, e)
  OBVIOUS
<1>3. Kept(Append(streamed, e)) = IF e.kind = "chunk" THEN Kept(streamed) ELSE Append(Kept(streamed), e)
  BY KeptAppend
<1>4. SubSeq(history', base + 1, Len(history')) = Kept(Append(streamed, e))
  <2>1. CASE e.kind = "chunk"
    BY <2>1, <1>1, <1>3
  <2>2. CASE e.kind # "chunk"
    BY <2>2, <1>1, <1>3, SuffixAppend
  <2> QED BY <2>1, <2>2
<1> QED BY <1>2, <1>4 DEF HistoryMatchesStream

LEMMA StreamStays ==
    ASSUME HistoryMatchesStream, history' = history, base' = base, Given' = Given
    PROVE  HistoryMatchesStream'
  BY DEF HistoryMatchesStream, Given

\* The turn's part of the history and what the caller was given grow together.
LEMMA HistoryMatchesStreamStep ==
    ASSUME Inv, HistoryMatchesStream, [Next]_vars
    PROVE  HistoryMatchesStream'
<1>1. /\ history \in Seq(EventType) /\ streamed \in Seq(EventType) /\ base \in 0..Len(history)
      /\ out \in Seq(EventType)
  BY DEF Inv, TypeOK
<1>2. CASE AgentStep \/ LlmStep
  <2>1. pc = "agent" /\ pc' # "yield" /\ UNCHANGED <<history, streamed, base>>
    BY <1>2, AgentsLeaveHistory
  <2>2. Given' = Given
    BY <2>1 DEF Given
  <2> QED BY <2>1, <2>2, StreamStays
<1>3. CASE \E m \in Messages, mode \in PauseModes : StartTurn(m, mode)
  <2>1. /\ base' = Len(history') /\ streamed' = << >> /\ pc' = "resume"
    BY <1>3 DEF StartTurn
  <2>2. history' \in Seq(EventType) /\ Len(history') \in Nat
    BY NextInv, LenProperties DEF Inv, TypeOK
  <2>3. SubSeq(history', base' + 1, Len(history')) = << >>
    BY <2>1, <2>2
  <2>4. << >> \o << >> = << >>
    OBVIOUS
  <2> QED BY <2>1, <2>3, <2>4, KeptEmpty DEF HistoryMatchesStream
<1>4. CASE StartAgent
  <2>1. history' = history /\ base' = base /\ Given' = Given
    BY <1>4 DEF StartAgent, Given
  <2> QED BY <2>1, StreamStays
<1>5. CASE EarlyExit
  <2>1. PICK e : e = Event(Early, "text", 0, FALSE)
    OBVIOUS
  <2>2. /\ history' = Append(history, e) /\ out' = <<e>> /\ pc' = "yield" /\ pc = "resume"
        /\ streamed' = streamed /\ base' = base
    BY <1>5, <2>1 DEF EarlyExit
  <2>3. e \in EventType /\ e.kind = "text"
    BY <2>1, InvocationAssumption DEF Event, EventType, EventKinds
  <2> QED BY <1>1, <2>2, <2>3, PersistedAndYielded
<1>6. CASE PersistEvent
  <2>1. PICK e : e = out[1]
    OBVIOUS
  <2>2. e \in EventType
    <3>1. pc = "event"
      BY <1>6 DEF PersistEvent
    <3>2. Len(out) = 1
      BY <3>1 DEF Inv, Control
    <3>3. 1 \in 1..Len(out)
      BY <3>2
    <3> QED BY <1>1, <2>1, <3>3, ElementOfSeq
  <2>3. PICK p : p = Persisted(e)
    OBVIOUS
  <2>4. /\ history' = (IF p.kind = "chunk" THEN history ELSE Append(history, p))
        /\ out' = <<p>> /\ pc' = "yield" /\ pc = "event" /\ streamed' = streamed /\ base' = base
    BY <1>6, <2>1, <2>3 DEF PersistEvent, Persisted
  <2>5. p \in EventType
    BY <2>2, <2>3, PersistedFields
  <2> QED BY <1>1, <2>4, <2>5, PersistedAndYielded
<1>7. CASE YieldEvent \/ Abandon
  <2>1. /\ pc = "yield" /\ streamed' = streamed \o out /\ history' = history /\ base' = base
        /\ pc' \in {"idle", "agent"}
    BY <1>7 DEF YieldEvent, Abandon
  <2>2. (streamed \o out) \o << >> = streamed \o out
    BY <1>1, ConcatProperties, ConcatEmptySeq
  <2>3. Given' = Given
    BY <2>1, <2>2 DEF Given
  <2> QED BY <2>1, <2>3, StreamStays
<1>8. CASE UNCHANGED vars
  <2>1. history' = history /\ base' = base /\ Given' = Given
    BY <1>8 DEF vars, Given
  <2> QED BY <2>1, StreamStays
<1>9. CASE AtRest
  BY <1>8, <1>9 DEF AtRest
<1> QED BY <1>2, <1>3, <1>4, <1>5, <1>6, <1>7, <1>8, <1>9, Zenon DEF Next, RunnerStep

-----------------------------------------------------------------------------
(* What one step may not do                                                *)

\* Only a call of the model counts as one.
LEMMA Asking ==
    ASSUME Inv, [Next]_vars, asked' > asked
    PROVE  CallLlm /\ asked' = asked + 1
<1>1. asked \in Nat
  BY DEF Inv, TypeOK
<1>2. asked' # asked /\ asked' # 0
  BY <1>1
<1>3. CASE AgentStep
  BY <1>2, <1>3 DEF AgentStep, BeforeAgent, AfterAgent, Return, NextSub, Iterate
<1>4. CASE LlmStep
  <2>1. CallLlm
    BY <1>2, <1>4 DEF LlmStep, LeaveLoop, FailModel, EndStep, EmitEvent, Transfer, ShortCircuit, Respond,
                     RecoverModel, HandleCalls
  <2> QED BY <1>2, <2>1 DEF CallLlm
<1>5. CASE RunnerStep
  BY <1>2, <1>5 DEF RunnerStep, StartAgent, EarlyExit, PersistEvent, YieldEvent, Abandon
<1>6. CASE AtRest \/ UNCHANGED vars
  BY <1>2, <1>6 DEF AtRest, vars
<1>7. CASE \E m \in Messages, mode \in PauseModes : StartTurn(m, mode)
  BY <1>2, <1>7 DEF StartTurn
<1> QED BY <1>3, <1>4, <1>5, <1>6, <1>7, Zenon DEF Next

\* The agent that asks its model is not interrupted and has nothing left to do.
LEMMA AskingTop ==
    ASSUME Inv, [Next]_vars, asked' > asked
    PROVE  /\ pc = "agent" /\ ~Top.end /\ Top.todo = << >>
<1>1. pc = "agent" /\ ~Top.end /\ Top.at = "run"
  BY Asking DEF CallLlm, AtStep, Running
<1>2. FrameInv(Top, history, calls)
  BY <1>1, AgentRuns
<1> QED BY <1>1, <1>2 DEF FrameInv

LEMMA EndedFrameStep ==
    ASSUME Inv, [Next]_vars, asked' > asked
    PROVE  \A i \in DOMAIN stack : ~stack[i].end
<1>1. pc = "agent" /\ ~Top.end
  BY AskingTop
<1>2. stack \in Seq(FrameType) /\ stack # << >> /\ StackInv(stack, history, calls) /\ Top = stack[Len(stack)]
  BY <1>1, AgentRuns
<1>3. ASSUME NEW i \in 1..Len(stack) PROVE ~stack[i].end
  <2>1. CASE i = Len(stack)
    BY <2>1, <1>1, <1>2
  <2>2. CASE i # Len(stack)
    BY <2>2, <1>1, <1>2, <1>3, StackParts
  <2> QED BY <2>1, <2>2
<1>4. DOMAIN stack = 1..Len(stack)
  BY <1>2, LenProperties
<1> QED BY <1>3, <1>4

LEMMA AnsweredBeforeStep ==
    ASSUME Inv, [Next]_vars, asked' > asked
    PROVE  \A i \in 1..Len(history) :
              history[i].kind = "call" /\ history[i].call \in Top.own =>
                \E j \in i + 1..Len(history) :
                   IsAnswer(history[j]) /\ history[j].call = history[i].call
<1>1. pc = "agent" /\ ~Top.end /\ Top.todo = << >>
  BY AskingTop
<1>2. FrameInv(Top, history, calls)
  BY <1>1, AgentRuns
<1>3. ASSUME NEW c \in Top.own PROVE Answered(history, c)
  BY <1>1, <1>2, <1>3, EmptySeq DEF FrameInv, OwnInv, Promised
<1> QED BY <1>3 DEF Answered

\* A frame that is replaced, and one that sees an event, leave the stack as high.
LEMMA SameHeight ==
    ASSUME NEW S, NEW s \in Seq(S), s # << >>, NEW f, NEW e
    PROVE  Len([s EXCEPT ![Len(s)] = f]) = Len(s) /\ Len(Seen([s EXCEPT ![Len(s)] = f], e)) = Len(s)
<1>1. PICK y : y = [s EXCEPT ![Len(s)] = f]
  OBVIOUS
<1>2. DOMAIN s = 1..Len(s) /\ Len(s) \in Nat
  BY LenProperties
<1>3. y \in Seq(S \cup {f}) /\ Len(y) = Len(s)
  <2>1. s \in Seq(S \cup {f}) /\ Len(s) \in 1..Len(s)
    BY <1>2, EmptySeq, SeqMonotonic
  <2> QED BY <1>1, <2>1, ExceptSeq
<1>4. PICK z : z = Seen(y, e)
  OBVIOUS
<1>5. Len(z) = Len(s)
  <2>1. DOMAIN y = 1..Len(s)
    BY <1>2, <1>3, LenProperties
  <2>2. z = [i \in 1..Len(s) |-> SeenFrame(y[i], e)]
    BY <1>4, <2>1 DEF Seen, SeenFrame
  <2>3. PICK T : T = {SeenFrame(y[i], e) : i \in 1..Len(s)}
    OBVIOUS
  <2>4. \A i \in 1..Len(s) : SeenFrame(y[i], e) \in T
    BY <2>3
  <2>5. z \in Seq(T)
    BY <1>2, <2>2, <2>4, IsASeq
  <2>6. DOMAIN z = 1..Len(s) /\ DOMAIN z = 1..Len(z) /\ Len(z) \in Nat
    BY <2>2, <2>5, LenProperties
  <2> QED BY <1>2, <2>6
<1> QED BY <1>1, <1>3, <1>4, <1>5

\* The stack gets higher only where an agent runs another.
Pushes ==
    /\ pc = "agent"
    /\ \/ Top.at = "stream" /\ Kind[Top.agent] = "llm"
       \/ Kind[Top.agent] = "seq"
       \/ Kind[Top.agent] = "loop" /\ ~Top.exit

LEMMA Stays ==
    ASSUME Inv, pc = "agent",
           \E f, e : stack' \in {WithTop(f), Seen(WithTop(f), e)}
    PROVE  Len(stack') = Len(stack)
<1>1. stack \in Seq(FrameType) /\ stack # << >>
  BY AgentRuns
<1>2. PICK f, e : stack' = [stack EXCEPT ![Len(stack)] = f]
                  \/ stack' = Seen([stack EXCEPT ![Len(stack)] = f], e)
  BY DEF WithTop
<1>3. /\ Len([stack EXCEPT ![Len(stack)] = f]) = Len(stack)
      /\ Len(Seen([stack EXCEPT ![Len(stack)] = f], e)) = Len(stack)
  BY <1>1, SameHeight
<1> QED BY <1>2, <1>3

\* Only a run of another agent puts a frame on a stack that is not empty.
LEMMA Higher ==
    ASSUME Inv, [Next]_vars, stack # << >>, Len(stack') = Len(stack) + 1
    PROVE  Pushes
<1>1. stack \in Seq(FrameType) /\ Len(stack) \in Nat /\ Len(stack') # Len(stack) /\ Len(stack) # 0
  BY LenProperties, EmptySeq DEF Inv, TypeOK
<1>2. stack' # << >> /\ stack' # stack
  <2>1. stack' # << >>
    <3> SUFFICES ASSUME stack' = << >> PROVE FALSE
      OBVIOUS
    <3>1. Len(stack') = 0
      BY EmptySeq
    <3> QED BY <3>1, <1>1
  <2> QED BY <2>1, <1>1
<1>3. pc = "agent" => ~\E f, e : stack' \in {WithTop(f), Seen(WithTop(f), e)}
  BY <1>1, Stays
<1>4. CASE AgentStep
  <2>0. pc = "agent"
    BY <1>4, AgentsLeaveHistory
  <2>1. ~\E f, e : stack' = WithTop(f) \/ stack' = Seen(WithTop(f), e)
    BY <1>3, <2>0
  <2>2. ASSUME NEW c \in {"none", "content", "delta"}, BeforeAgent(c) PROVE FALSE
    BY <2>1, <2>2 DEF BeforeAgent, Continue, Yield
  <2>3. ASSUME NEW c, AfterAgent(c) PROVE FALSE
    BY <2>1, <2>3 DEF AfterAgent, Yield
  <2>4. CASE Return
    <3>1. Len(stack') = Len(stack) - 1
      BY <2>4, <1>1, AgentRuns, <2>0, PoppedInv DEF Return
    <3> QED BY <3>1, <1>1
  <2>5. CASE NextSub
    BY <2>0, <2>5 DEF NextSub, Pushes
  <2>6. CASE Iterate
    <3>1. Kind[Top.agent] = "loop"
      BY <2>6 DEF Iterate
    <3>2. ~Top.exit
      <4> SUFFICES ASSUME Top.exit PROVE FALSE
        OBVIOUS
      <4>1. Continue([Top EXCEPT !.at = "after"])
        BY <2>6 DEF Iterate
      <4> QED BY <4>1, <2>1 DEF Continue
    <3> QED BY <3>1, <3>2, <2>0 DEF Pushes
  <2> QED BY <1>4, <2>2, <2>3, <2>4, <2>5, <2>6 DEF AgentStep
<1>5. CASE LlmStep
  <2>0. pc = "agent"
    BY <1>5, AgentsLeaveHistory
  <2>1. ~\E f, e : stack' = WithTop(f) \/ stack' = Seen(WithTop(f), e)
    BY <1>3, <2>0
  <2>2. ~(LeaveLoop \/ EndStep \/ FailModel)
    BY <1>2, <2>1 DEF LeaveLoop, EndStep, FailModel, Continue, Throw
  <2>3. ~CallLlm
    BY <1>2, <2>1 DEF CallLlm, Continue, Throw
  <2>4. ~EmitEvent
    BY <2>1 DEF EmitEvent, Yield
  <2>5. ~\E r \in Responses : ShortCircuit(r) \/ Respond(r) \/ RecoverModel(r)
    BY <2>1 DEF ShortCircuit, Respond, RecoverModel, Continue
  <2>6. ~\E o \in Outcomes, to \in Targets : HandleCalls(o, to)
    BY <2>1 DEF HandleCalls, Continue
  <2>7. Transfer
    BY <1>5, <2>2, <2>3, <2>4, <2>5, <2>6 DEF LlmStep
  <2> QED BY <2>0, <2>7, NextStep DEF Transfer, Pushes
<1>6. CASE RunnerStep
  <2>1. ~StartAgent
    BY DEF StartAgent, Inv, Control
  <2> QED BY <1>2, <1>6, <2>1 DEF RunnerStep, EarlyExit, PersistEvent, YieldEvent, Abandon
<1>7. CASE AtRest \/ UNCHANGED vars \/ \E m \in Messages, mode \in PauseModes : StartTurn(m, mode)
  BY <1>2, <1>7 DEF AtRest, vars, StartTurn
<1> QED BY <1>4, <1>5, <1>6, <1>7, Zenon DEF Next

LEMMA EscalateStep ==
    ASSUME Inv, [Next]_vars, NEW i \in DOMAIN stack, Kind[stack[i].agent] = "loop",
           \E j \in stack[i].from + 1..Len(history) : history[j].esc,
           Len(stack) = i, Len(stack') = i + 1
    PROVE  FALSE
<1>1. stack # << >>
  <2>1. DOMAIN stack = 1..Len(stack)
    BY LenProperties DEF Inv, TypeOK
  <2> QED BY <2>1, EmptySeq
<1>2. Pushes
  BY <1>1, Higher
<1>3. pc = "agent" /\ Top = stack[i] /\ FrameInv(Top, history, calls)
  BY <1>2, AgentRuns DEF Pushes
<1>4. Top.exit
  BY <1>3 DEF FrameInv, ExitInv
<1> QED BY <1>2, <1>3, <1>4 DEF Pushes

-----------------------------------------------------------------------------
(* The theorems                                                            *)

\* The inductive invariant holds in every state.
LEMMA InvAlways == Spec => []Inv
<1>1. Init => Inv
  BY InitInv
<1>2. Inv /\ [Next]_vars => Inv'
  BY NextInv
<1> QED BY <1>1, <1>2, PTL DEF Spec

\* Every variable keeps its type: no frame, event or count leaves its range,
\* with any agents, callbacks, outcomes and bounds.
THEOREM InvocationTyped == Spec => []TypeOK
<1>1. Inv => TypeOK
  BY DEF Inv
<1> QED BY <1>1, InvAlways, PTL

\* PostprocessAsync and the function call handler: every response and every
\* skipped call in the session follows the one call it answers, of the same agent,
\* with nothing but authentication requests between them.
THEOREM ResponsesPaired == Spec => []ResponsesFollowCalls
<1>1. Inv => ResponsesFollowCalls
  BY InvPairs
<1> QED BY <1>1, InvAlways, PTL

\* DetermineAgentForResumption: a turn that the user begins with the result of a
\* call runs the agent that made the call.
THEOREM AnswersReachCallers == Spec => []AnswerReachesCaller
<1>1. Inv => AnswerReachesCaller
  BY DEF Inv
<1> QED BY <1>1, InvAlways, PTL

\* RunAsync of the runner: in every turn the session gets exactly the events
\* the caller gets, in that order and as onEvent changed them, partial ones left out.
THEOREM HistoryIsStream == Spec => []HistoryMatchesStream
<1>1. Init => HistoryMatchesStream
  <2> SUFFICES ASSUME Init PROVE HistoryMatchesStream
    OBVIOUS
  <2>1. history = << >> /\ base = 0 /\ streamed = << >> /\ pc = "idle"
    BY DEF Init
  <2>2. SubSeq(<< >>, 0 + 1, Len(<< >>)) = << >> /\ << >> \o << >> = << >>
    OBVIOUS
  <2> QED BY <2>1, <2>2, KeptEmpty DEF HistoryMatchesStream
<1>2. Inv /\ HistoryMatchesStream /\ [Next]_vars => HistoryMatchesStream'
  BY HistoryMatchesStreamStep
<1> QED BY <1>1, <1>2, InvAlways, PTL DEF Spec

\* EndInvocation, copied into each child context: no agent asks its model while
\* it is set for the agent itself or for one that runs it.
THEOREM EndedFramesAskNothing == Spec => EndedFrameAsksNothing
<1>1. Inv /\ [Next]_vars => [asked' > asked => \A i \in DOMAIN stack : ~stack[i].end]_vars
  BY EndedFrameStep
<1> QED BY <1>1, InvAlways, PTL DEF Spec, EndedFrameAsksNothing

\* LlmAgent's loop: an agent asks its model again only after each call the
\* model made in this run was answered, long-running calls excepted, whatever the
\* outcome of the calls, the interruptions and the transfers.
THEOREM CallsAnsweredBeforeNext == Spec => AnsweredBeforeNextCall
<1>1. Inv /\ [Next]_vars =>
        [asked' > asked =>
           \A i \in 1..Len(history) :
              history[i].kind = "call" /\ history[i].call \in Top.own =>
                \E j \in i + 1..Len(history) :
                   IsAnswer(history[j]) /\ history[j].call = history[i].call]_vars
  BY AnsweredBeforeStep
<1> QED BY <1>1, InvAlways, PTL DEF Spec, AnsweredBeforeNextCall

\* LoopAgent: a loop around an agent that escalated starts no sub-agent again,
\* however deep that agent is and whatever was yielded since.
THEOREM EscalationEndsLoops == Spec => EscalateEndsLoops
<1>1. Inv /\ [Next]_vars =>
        [\A i \in DOMAIN stack :
           /\ Kind[stack[i].agent] = "loop"
           /\ \E j \in stack[i].from + 1..Len(history) : history[j].esc
           => ~(Len(stack) = i /\ Len(stack') = i + 1)]_vars
  BY EscalateStep
<1> QED BY <1>1, InvAlways, PTL DEF Spec, EscalateEndsLoops
=============================================================================
