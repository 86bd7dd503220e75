------------------------ MODULE ParallelAgentProofs -------------------------
(***************************************************************************)
(* ParallelAgent keeps the promise of OrderedMerge, for any number of      *)
(* sub-agents and any number of tool calls.                                *)
(*                                                                         *)
(* Everything between a task and the session is one pipe: the history, the *)
(* event the runner is about to append, the channel.  A task only adds at  *)
(* its end and the runner only moves the border between its parts, so the  *)
(* numbers of one branch ascend along the pipe and none is missing.        *)
(***************************************************************************)
EXTENDS ParallelAgent, TLAPS, SequenceTheorems

Pending == IF runner = "append" THEN out ELSE << >>
Pipe == history \o Pending \o channel

\* What the runner holds, and who is still running.
Control ==
    /\ IF runner \in {"append", "yield"} THEN Len(out) = 1 ELSE out = << >>
    /\ runner \in {"finished", "threw"} => completed # "no"
    /\ completed # "no" => \A b \in Branches : pc[b] \in Over

\* The events of a branch in the pipe are 1..written[b], ascending.
Ascending ==
    \A i, j \in 1..Len(Pipe) : Pipe[i].by = Pipe[j].by /\ i < j => Pipe[i].n < Pipe[j].n
Bounded ==
    \A i \in 1..Len(Pipe) : Pipe[i].n \in 1..written[Pipe[i].by]
Complete ==
    \A b \in Branches : \A n \in 1..written[b] :
        \E i \in 1..Len(Pipe) : Pipe[i] = [by |-> b, n |-> n]

\* An enumeration that has begun is of a prefix of the history.
Prefix == \A b \in Branches : size[b] <= Len(history)

TypeInv == TypeOK /\ Prefix

Inv == TypeInv /\ Control /\ Ascending /\ Bounded /\ Complete /\ BranchIsolated

-----------------------------------------------------------------------------
\* The types hold at first and after every step; an enumeration of the
\* history stays within it.
LEMMA TypeInit == Init => TypeInv
<1> SUFFICES ASSUME Init PROVE TypeInv
  OBVIOUS
<1>1. << >> \in Seq(Events) /\ Len(<< >>) = 0
  BY EmptySeq
<1>2. request \in [Branches -> SUBSET Events]
  BY DEF Init
<1>3. pc \in [Branches -> Places]
  BY DEF Init, Places
<1>4. /\ written \in [Branches -> Nat] /\ size \in [Branches -> Nat]
      /\ \A b \in Branches : size[b] = 0
  BY DEF Init
<1>5. channel = << >> /\ out = << >> /\ history = << >>
  BY DEF Init
<1>6. runner = "read" /\ completed = "no" /\ cancelled = FALSE
  BY DEF Init
<1>7. TypeOK
  BY <1>1, <1>2, <1>3, <1>4, <1>5, <1>6 DEF TypeOK
<1>8. Prefix
  BY <1>1, <1>4, <1>5 DEF Prefix
<1> QED BY <1>7, <1>8 DEF TypeInv

LEMMA TypeNext == TypeInv /\ [Next]_vars => TypeInv'
<1> SUFFICES ASSUME TypeInv, [Next]_vars PROVE TypeInv'
  OBVIOUS
<1> USE DEF TypeInv, TypeOK, Places, Over, Prefix
<1>len. Len(history) \in Nat
  BY LenProperties
<1>1. ASSUME NEW b \in Branches, BeginRead(b) PROVE TypeInv'
  BY <1>1, <1>len DEF BeginRead
<1>2. ASSUME NEW b \in Branches, EndRead(b) PROVE TypeInv'
  <2> DEFINE seen == {history[i] : i \in {j \in 1..size[b] : history[j].by = b}}
  <2>1. \A i \in 1..size[b] : history[i] \in Events
    BY <1>len, ElementOfSeq
  <2>2. seen \in SUBSET Events
    BY <2>1
  <2>3. request' = [request EXCEPT ![b] = seen]
    BY <1>2 DEF EndRead
  <2> HIDE DEF seen
  <2>4. request' \in [Branches -> SUBSET Events]
    BY <2>2, <2>3
  <2> QED BY <1>2, <2>4 DEF EndRead
<1>3. ASSUME NEW b \in Branches, ReadThrows(b) PROVE TypeInv'
  BY <1>3 DEF ReadThrows
<1>4. ASSUME NEW b \in Branches, NEW next \in Places, WriteEvent(b, next),
             UNCHANGED <<size, request, out, history, runner, completed, cancelled>>
      PROVE TypeInv'
  <2>1. Event(b) \in Events
    BY DEF Event, Events
  <2>2. CASE cancelled
    BY <1>4, <2>2 DEF WriteEvent
  <2>3. CASE ~cancelled
    <3>0. PICK e \in Events : e = Event(b)
      BY <2>1
    <3>1. Append(channel, e) \in Seq(Events)
      BY AppendProperties
    <3>2. channel' \in Seq(Events)
      BY <1>4, <2>3, <3>0, <3>1 DEF WriteEvent
    <3>3. written' = [written EXCEPT ![b] = @ + 1] /\ pc' = [pc EXCEPT ![b] = next]
      BY <1>4, <2>3 DEF WriteEvent
    <3>4. written' \in [Branches -> Nat] /\ pc' \in [Branches -> Places]
      BY <3>3
    <3> QED BY <1>4, <3>2, <3>4
  <2> QED BY <2>2, <2>3
<1>5. ASSUME NEW b \in Branches, Fails(b) PROVE TypeInv'
  BY <1>5 DEF Fails
<1>6. ASSUME CompleteChannel PROVE TypeInv'
  BY <1>6 DEF CompleteChannel
<1>7. ASSUME Consumer PROVE TypeInv'
  <2>1. ASSUME ReadChannel PROVE TypeInv'
    <3>1. Head(channel) \in Events /\ Tail(channel) \in Seq(Events)
      BY <2>1, HeadTailProperties DEF ReadChannel
    <3>2. <<Head(channel)>> \in Seq(Events)
      BY <3>1
    <3> QED BY <2>1, <3>1, <3>2 DEF ReadChannel
  <2>2. ASSUME AppendEvent PROVE TypeInv'
    <3>1. history' \in Seq(Events) /\ Len(history') >= Len(history)
      BY <2>2, <1>len, ConcatProperties, LenProperties DEF AppendEvent
    <3>2. Len(history') \in Nat
      BY <3>1, LenProperties
    <3>3. Prefix'
      BY <2>2, <3>1, <3>2, <1>len DEF AppendEvent
    <3> QED BY <2>2, <3>1, <3>3 DEF AppendEvent
  <2>3. ASSUME YieldEvent \/ FinishTurn \/ StopReading \/ ReadCancelled PROVE TypeInv'
    <3>1. << >> \in Seq(Events)
      BY EmptySeq
    <3> QED BY <2>3, <3>1 DEF YieldEvent, FinishTurn, StopReading, ReadCancelled
  <2> QED BY <1>7, <2>1, <2>2, <2>3 DEF Consumer
<1>8. ASSUME Cancel PROVE TypeInv'
  BY <1>8 DEF Cancel
<1>9. ASSUME UNCHANGED vars PROVE TypeInv'
  BY <1>9 DEF vars
<1>10. ASSUME NEW b \in Branches, ModelCalls(b) \/ ModelAnswers(b) \/ ToolReturns(b)
       PROVE TypeInv'
  BY <1>10, <1>4 DEF ModelCalls, ModelAnswers, ToolReturns
<1> QED BY <1>1, <1>2, <1>3, <1>5, <1>6, <1>7, <1>8, <1>9, <1>10
        DEF Next, Task, AtRest

-----------------------------------------------------------------------------
(* Control                                                                 *)

\* A write is by a task that is not over.
LEMMA ControlNext == TypeInv /\ Control /\ [Next]_vars => Control'
<1> SUFFICES ASSUME TypeInv, Control, [Next]_vars PROVE Control'
  OBVIOUS
<1> USE DEF Control, Over
<1>1. ASSUME NEW b \in Branches, pc[b] \notin Over,
             UNCHANGED <<runner, completed, out>>
      PROVE Control'
  BY <1>1
<1>2. ASSUME NEW b \in Branches, Task(b) PROVE Control'
  <2>1. pc[b] \notin Over /\ UNCHANGED <<runner, completed, out>>
    BY <1>2 DEF Task, BeginRead, EndRead, ReadThrows, ModelCalls, ModelAnswers,
                ToolReturns, Fails
  <2> QED BY <2>1, <1>1
<1>3. ASSUME CompleteChannel PROVE Control'
  BY <1>3 DEF CompleteChannel
<1>4. ASSUME ReadChannel PROVE Control'
  <2>1. Len(out') = 1
    BY <1>4 DEF ReadChannel
  <2> QED BY <1>4, <2>1 DEF ReadChannel
<1>5. ASSUME AppendEvent \/ YieldEvent \/ FinishTurn \/ StopReading \/ ReadCancelled
      PROVE Control'
  BY <1>5 DEF AppendEvent, YieldEvent, FinishTurn, StopReading, ReadCancelled
<1>6. ASSUME Cancel \/ UNCHANGED vars PROVE Control'
  BY <1>6 DEF Cancel, vars
<1> QED BY <1>2, <1>3, <1>4, <1>5, <1>6 DEF Next, Consumer, AtRest

-----------------------------------------------------------------------------
(* The pipe                                                                *)

\* Three sequences one after the other.
LEMMA ThreeParts ==
    ASSUME NEW S, NEW p \in Seq(S), NEW q \in Seq(S), NEW r \in Seq(S)
    PROVE  /\ p \o q \o r \in Seq(S)
           /\ Len(p \o q \o r) = Len(p) + Len(q) + Len(r)
           /\ \A i \in 1..Len(p) : (p \o q \o r)[i] = p[i]
           /\ \A i \in 1..Len(q) : (p \o q \o r)[Len(p) + i] = q[i]
           /\ \A i \in 1..Len(r) : (p \o q \o r)[Len(p) + Len(q) + i] = r[i]
<1>1. Len(p) \in Nat /\ Len(q) \in Nat /\ Len(r) \in Nat
  BY LenProperties
<1>2. PICK f \in Seq(S) : f = p \o q
  BY ConcatProperties
<1>3. /\ Len(f) = Len(p) + Len(q)
      /\ \A i \in 1..Len(p) + Len(q) : f[i] = IF i <= Len(p) THEN p[i] ELSE q[i - Len(p)]
  BY <1>2, ConcatProperties
<1>4. PICK g \in Seq(S) : g = f \o r
  BY ConcatProperties
<1>5. /\ Len(g) = Len(f) + Len(r)
      /\ \A i \in 1..Len(f) + Len(r) : g[i] = IF i <= Len(f) THEN f[i] ELSE r[i - Len(f)]
  BY <1>4, ConcatProperties
<1>6. g = p \o q \o r
  BY <1>2, <1>4
<1>7. ASSUME NEW i \in 1..Len(p) PROVE g[i] = p[i]
  BY <1>1, <1>3, <1>5
<1>8. ASSUME NEW i \in 1..Len(q) PROVE g[Len(p) + i] = q[i]
  <2>1. /\ Len(p) + i \in 1..Len(p) + Len(q) /\ ~(Len(p) + i <= Len(p))
        /\ (Len(p) + i) - Len(p) = i
    BY <1>1
  <2>2. f[Len(p) + i] = q[i]
    BY <2>1, <1>3
  <2> QED BY <2>1, <2>2, <1>1, <1>3, <1>5
<1>9. ASSUME NEW i \in 1..Len(r) PROVE g[Len(p) + Len(q) + i] = r[i]
  <2>1. /\ Len(f) + i \in 1..Len(f) + Len(r) /\ ~(Len(f) + i <= Len(f))
        /\ (Len(f) + i) - Len(f) = i
    BY <1>1, <1>3
  <2> QED BY <2>1, <1>3, <1>5
<1> QED BY <1>1, <1>3, <1>5, <1>6, <1>7, <1>8, <1>9

\* The pipe as its three parts.
LEMMA PipeParts ==
    ASSUME TypeInv
    PROVE  /\ Pipe \in Seq(Events)
           /\ Pending \in Seq(Events)
           /\ Len(Pipe) = Len(history) + Len(Pending) + Len(channel)
           /\ \A i \in 1..Len(history) : Pipe[i] = history[i]
           /\ \A i \in 1..Len(Pending) : Pipe[Len(history) + i] = Pending[i]
           /\ \A i \in 1..Len(channel) :
                 Pipe[Len(history) + Len(Pending) + i] = channel[i]
<1>1. history \in Seq(Events) /\ channel \in Seq(Events)
  BY DEF TypeInv, TypeOK
<1>2. Pending \in Seq(Events)
  BY EmptySeq DEF TypeInv, TypeOK, Pending
<1> QED BY <1>1, <1>2, ThreeParts DEF Pipe

\* Moving the border between the parts leaves the pipe as it is.
LEMMA PipeKept ==
    ASSUME TypeInv, Control,
           \/ ReadChannel \/ AppendEvent \/ YieldEvent \/ FinishTurn \/ StopReading
           \/ ReadCancelled \/ UNCHANGED <<channel, out, history, runner>>
    PROVE  Pipe' = Pipe
<1>1. /\ history \in Seq(Events) /\ channel \in Seq(Events) /\ out \in Seq(Events)
      /\ << >> \in Seq(Events)
  BY EmptySeq DEF TypeInv, TypeOK
<1>2. CASE ReadChannel
  <2>1. /\ Pending = << >> /\ Pending' = <<Head(channel)>>
        /\ history' = history /\ channel' = Tail(channel) /\ channel # << >>
    BY <1>2 DEF ReadChannel, Pending
  <2>2. PICK e \in Events : e = Head(channel)
    BY <1>1, <2>1, HeadTailProperties
  <2>3. PICK t \in Seq(Events) : t = Tail(channel)
    BY <1>1, <2>1, HeadTailProperties
  <2>4. /\ Len(t) = Len(channel) - 1 /\ channel[1] = e
        /\ \A i \in 1..Len(t) : t[i] = channel[i + 1]
    BY <1>1, <2>1, <2>2, <2>3, HeadTailProperties
  <2>5. <<e>> \in Seq(Events) /\ Len(<<e>>) = 1 /\ <<e>>[1] = e
    OBVIOUS
  <2>6. PICK p \in Seq(Events) : p = history \o << >> \o channel
    BY <1>1, ThreeParts
  <2>7. PICK q \in Seq(Events) : q = history \o <<e>> \o t
    BY <1>1, <2>5, ThreeParts
  <2>8. Len(history) \in Nat /\ Len(channel) \in Nat /\ Len(t) \in Nat /\ Len(<< >>) = 0
    BY <1>1, LenProperties
  <2>9. /\ Len(p) = Len(history) + Len(channel)
        /\ \A i \in 1..Len(history) : p[i] = history[i]
        /\ \A i \in 1..Len(channel) : p[Len(history) + i] = channel[i]
    BY <1>1, <2>6, <2>8, ThreeParts
  <2>10. /\ Len(q) = Len(history) + 1 + Len(t)
         /\ \A i \in 1..Len(history) : q[i] = history[i]
         /\ q[Len(history) + 1] = e
         /\ \A i \in 1..Len(t) : q[Len(history) + 1 + i] = t[i]
    BY <1>1, <2>5, <2>7, <2>8, ThreeParts
  <2>11. ASSUME NEW i \in 1..Len(p) PROVE q[i] = p[i]
    <3>1. CASE i <= Len(history)
      BY <3>1, <2>8, <2>9, <2>10
    <3>2. CASE i = Len(history) + 1
      <4>1. 1 \in 1..Len(channel)
        BY <3>2, <2>8, <2>9
      <4> QED BY <3>2, <4>1, <2>4, <2>8, <2>9, <2>10
    <3>3. CASE i > Len(history) + 1
      <4>0. i \in Nat /\ i <= Len(history) + Len(channel)
        BY <2>8, <2>9
      <4>1. PICK k \in 1..Len(t) : i = Len(history) + 1 + k
        <5>1. /\ i - (Len(history) + 1) \in 1..Len(t)
              /\ i = Len(history) + 1 + (i - (Len(history) + 1))
          BY <3>3, <4>0, <2>4, <2>8
        <5> QED BY ONLY <5>1
      <4>2. k + 1 \in 1..Len(channel) /\ i = Len(history) + (k + 1)
        BY <4>1, <2>4, <2>8
      <4>3. p[i] = channel[k + 1]
        BY <4>2, <2>9
      <4>4. q[i] = t[k]
        BY <4>1, <2>10
      <4> QED BY <4>1, <4>3, <4>4, <2>4
    <3> QED BY <3>1, <3>2, <3>3, <2>8, <2>9
  <2>12. q = p
    BY <2>4, <2>8, <2>9, <2>10, <2>11, SeqEqual
  <2> QED BY <2>1, <2>2, <2>3, <2>6, <2>7, <2>12 DEF Pipe
<1>3. CASE AppendEvent
  <2>1. /\ Pending = out /\ Pending' = << >>
        /\ history' = history \o out /\ channel' = channel
    BY <1>3 DEF AppendEvent, Pending
  <2>2. PICK h \in Seq(Events) : h = history \o out
    BY <1>1, ConcatProperties
  <2>3. h \o << >> = h
    BY <2>2, ConcatEmptySeq
  <2> QED BY <2>1, <2>2, <2>3 DEF Pipe
<1>4. CASE YieldEvent \/ FinishTurn \/ StopReading \/ ReadCancelled
           \/ UNCHANGED <<channel, out, history, runner>>
  <2>1. history' = history /\ channel' = channel /\ Pending' = Pending
    BY <1>4 DEF YieldEvent, FinishTurn, StopReading, ReadCancelled, Pending
  <2> QED BY <2>1 DEF Pipe
<1> QED BY <1>2, <1>3, <1>4

\* A task's write goes to the end of the pipe.
LEMMA PipeGrows ==
    ASSUME TypeInv, NEW e \in Events, channel' = Append(channel, e),
           UNCHANGED <<out, history, runner>>
    PROVE  /\ Len(Pipe') = Len(Pipe) + 1
           /\ \A i \in 1..Len(Pipe) : Pipe'[i] = Pipe[i]
           /\ Pipe'[Len(Pipe) + 1] = e
<1>1. history \in Seq(Events) /\ channel \in Seq(Events)
  BY DEF TypeInv, TypeOK
<1>2. Pending \in Seq(Events)
  BY EmptySeq DEF TypeInv, TypeOK, Pending
<1>3. PICK f \in Seq(Events) : f = history \o Pending
  BY <1>1, <1>2, ConcatProperties
<1>4. Pipe = f \o channel
  BY <1>3 DEF Pipe
<1>5. Pipe' = f \o Append(channel, e)
  <2>1. Pending' = Pending /\ history' = history
    BY DEF Pending
  <2> QED BY <2>1, <1>3 DEF Pipe
<1>6. f \o Append(channel, e) = Append(f \o channel, e)
  BY <1>1
<1>7. f \o channel \in Seq(Events)
  BY <1>1, ConcatProperties
<1> QED BY <1>4, <1>5, <1>6, <1>7, AppendProperties

\* Every step keeps the pipe or adds the next event of one branch to it.
LEMMA PipeStep ==
    ASSUME TypeInv, Control, [Next]_vars
    PROVE  \/ Pipe' = Pipe /\ written' = written
           \/ \E b \in Branches :
                /\ written' = [written EXCEPT ![b] = @ + 1]
                /\ Len(Pipe') = Len(Pipe) + 1
                /\ \A i \in 1..Len(Pipe) : Pipe'[i] = Pipe[i]
                /\ Pipe'[Len(Pipe) + 1] = [by |-> b, n |-> written[b] + 1]
<1> DEFINE Kept == Pipe' = Pipe /\ written' = written
           Grown(b) == /\ written' = [written EXCEPT ![b] = @ + 1]
                       /\ Len(Pipe') = Len(Pipe) + 1
                       /\ \A i \in 1..Len(Pipe) : Pipe'[i] = Pipe[i]
                       /\ Pipe'[Len(Pipe) + 1] = [by |-> b, n |-> written[b] + 1]
<1>1. ASSUME NEW b \in Branches, NEW next \in Places, WriteEvent(b, next),
             UNCHANGED <<out, history, runner>>
      PROVE Kept \/ Grown(b)
  <2>1. CASE cancelled
    <3>1. UNCHANGED <<channel, out, history, runner>> /\ written' = written
      BY <1>1, <2>1 DEF WriteEvent
    <3> QED BY <3>1, PipeKept
  <2>2. CASE ~cancelled
    <3>1. written[b] + 1 \in Nat
      BY DEF TypeInv, TypeOK
    <3>2. Event(b) \in Events
      BY <3>1 DEF Event, Events
    <3>3. PICK e \in Events : e = Event(b)
      BY <3>2
    <3>4. channel' = Append(channel, e) /\ written' = [written EXCEPT ![b] = @ + 1]
      BY <1>1, <2>2, <3>3 DEF WriteEvent
    <3>5. e = [by |-> b, n |-> written[b] + 1]
      BY <3>3 DEF Event
    <3> QED BY <1>1, <3>4, <3>5, PipeGrows
  <2> QED BY <2>1, <2>2
<1>2. ASSUME UNCHANGED <<channel, out, history, runner>>, written' = written
      PROVE Kept
  BY <1>2, PipeKept
<1>3. ASSUME Consumer PROVE Kept
  <2>1. written' = written
    BY <1>3 DEF Consumer, ReadChannel, AppendEvent, YieldEvent, FinishTurn, StopReading,
                ReadCancelled
  <2> QED BY <1>3, <2>1, PipeKept DEF Consumer
<1>4. ASSUME NEW b \in Branches, Task(b) PROVE Kept \/ Grown(b)
  <2>1. CASE BeginRead(b) \/ EndRead(b) \/ ReadThrows(b) \/ Fails(b)
    <3>1. UNCHANGED <<channel, out, history, runner>> /\ written' = written
      BY <2>1 DEF BeginRead, EndRead, ReadThrows, Fails
    <3> QED BY <3>1, <1>2
  <2>2. CASE ModelCalls(b) \/ ModelAnswers(b) \/ ToolReturns(b)
    <3>1. PICK next \in Places : WriteEvent(b, next)
      BY <2>2 DEF ModelCalls, ModelAnswers, ToolReturns, Places
    <3>2. UNCHANGED <<out, history, runner>>
      BY <2>2 DEF ModelCalls, ModelAnswers, ToolReturns
    <3> QED BY <3>1, <3>2, <1>1
  <2> QED BY <1>4, <2>1, <2>2 DEF Task
<1>5. ASSUME CompleteChannel \/ Cancel \/ UNCHANGED vars PROVE Kept
  <2>1. UNCHANGED <<channel, out, history, runner>> /\ written' = written
    BY <1>5 DEF CompleteChannel, Cancel, vars
  <2> QED BY <2>1, <1>2
<1>6. Kept \/ \E b \in Branches : Grown(b)
  <2> HIDE DEF Kept, Grown
  <2> QED BY <1>3, <1>4, <1>5 DEF Next, AtRest
<1> QED BY <1>6

\* Along the pipe the numbers of a branch go up by one from 1 to written[b].
LEMMA NumbersNext ==
    ASSUME TypeInv, Control, Ascending, Bounded, Complete, [Next]_vars
    PROVE  Ascending' /\ Bounded' /\ Complete'
<1>1. CASE Pipe' = Pipe /\ written' = written
  BY <1>1 DEF Ascending, Bounded, Complete
<1>2. ASSUME NEW b \in Branches,
             written' = [written EXCEPT ![b] = @ + 1],
             Len(Pipe') = Len(Pipe) + 1,
             \A i \in 1..Len(Pipe) : Pipe'[i] = Pipe[i],
             Pipe'[Len(Pipe) + 1] = [by |-> b, n |-> written[b] + 1]
      PROVE Ascending' /\ Bounded' /\ Complete'
  <2>p. PICK p \in Seq(Events) : p = Pipe
    BY PipeParts
  <2>q. PICK q : q = Pipe'
    OBVIOUS
  <2>m. PICK m \in Nat : m = Len(p)
    BY LenProperties
  <2>w. /\ written \in [Branches -> Nat] /\ written[b] \in Nat
        /\ written'[b] = written[b] + 1
        /\ \A c \in Branches : written'[c] >= written[c] /\ written'[c] \in Nat
    BY <1>2 DEF TypeInv, TypeOK
  <2>e. \A i \in 1..m : p[i].by \in Branches /\ p[i].n \in Nat
    <3>1. \A i \in 1..m : p[i] \in Events
      BY <2>m, ElementOfSeq
    <3> QED BY <3>1 DEF Events
  <2>1. /\ Len(q) = m + 1
        /\ \A i \in 1..m : q[i] = p[i]
        /\ q[m + 1] = [by |-> b, n |-> written[b] + 1]
    BY <1>2, <2>p, <2>q, <2>m
  <2>2. \A i \in 1..m + 1 : i \in 1..m \/ i = m + 1
    OBVIOUS
  <2>3. /\ \A i, j \in 1..m : p[i].by = p[j].by /\ i < j => p[i].n < p[j].n
        /\ \A i \in 1..m : p[i].n \in 1..written[p[i].by]
        /\ \A c \in Branches : \A n \in 1..written[c] :
              \E i \in 1..m : p[i] = [by |-> c, n |-> n]
    BY <2>p, <2>m DEF Ascending, Bounded, Complete
  <2>4. Ascending'
    <3>1. ASSUME NEW i \in 1..m + 1, NEW j \in 1..m + 1, q[i].by = q[j].by, i < j
          PROVE q[i].n < q[j].n
      <4>1. i \in 1..m
        BY <3>1
      <4>2. CASE j \in 1..m
        BY <3>1, <4>1, <4>2, <2>1, <2>3
      <4>3. CASE j = m + 1
        <5>1. q[j].by = b /\ q[j].n = written[b] + 1
          BY <4>3, <2>1
        <5>2. p[i].by = b /\ q[i] = p[i]
          BY <5>1, <3>1, <4>1, <2>1
        <5>3. p[i].n \in 1..written[b]
          BY <5>2, <4>1, <2>3
        <5> QED BY <5>1, <5>2, <5>3, <2>w
      <4> QED BY <4>2, <4>3, <2>2
    <3> QED BY <3>1, <2>1, <2>q DEF Ascending
  <2>5. Bounded'
    <3>1. ASSUME NEW i \in 1..m + 1 PROVE q[i].n \in 1..written'[q[i].by]
      <4>1. CASE i \in 1..m
        <5>1. /\ q[i] = p[i] /\ p[i].by \in Branches
              /\ p[i].n \in 1..written[p[i].by]
          BY <4>1, <2>1, <2>3, <2>e
        <5> QED BY <5>1, <2>w
      <4>2. CASE i = m + 1
        <5>1. q[i].by = b /\ q[i].n = written[b] + 1
          BY <4>2, <2>1
        <5> QED BY <5>1, <2>w
      <4> QED BY <4>1, <4>2, <2>2
    <3> QED BY <3>1, <2>1, <2>q DEF Bounded
  <2>6. Complete'
    <3>1. ASSUME NEW c \in Branches, NEW n \in 1..written'[c]
          PROVE \E i \in 1..m + 1 : q[i] = [by |-> c, n |-> n]
      <4>1. CASE n \in 1..written[c]
        <5>1. PICK i \in 1..m : p[i] = [by |-> c, n |-> n]
          BY <4>1, <2>3
        <5>2. i \in 1..m + 1 /\ q[i] = p[i]
          BY <2>1
        <5> QED BY <5>1, <5>2
      <4>2. CASE n \notin 1..written[c]
        <5>1. c = b /\ n = written[b] + 1
          BY <4>2, <1>2, <2>w
        <5>2. m + 1 \in 1..m + 1
          OBVIOUS
        <5> QED BY <5>1, <5>2, <2>1
      <4> QED BY <4>1, <4>2
    <3> QED BY <3>1, <2>1, <2>q DEF Complete
  <2> QED BY <2>4, <2>5, <2>6
<1> QED BY <1>1, <1>2, PipeStep

-----------------------------------------------------------------------------
(* What a sub-agent's model sees                                           *)

\* The own events among the first events of the history have no gap.
LEMMA OwnEventsHaveNoGap ==
    ASSUME TypeInv, Ascending, Bounded, Complete, NEW b \in Branches,
           NEW i \in 1..Len(history), history[i].by = b,
           NEW n \in 1..history[i].n
    PROVE  \E j \in 1..i : history[j] = [by |-> b, n |-> n]
<1>1. PICK p \in Seq(Events) : p = Pipe
  BY PipeParts
<1>2. /\ Len(history) \in Nat /\ Len(p) \in Nat /\ Len(p) >= Len(history)
      /\ \A k \in 1..Len(history) : p[k] = history[k]
  <2>1. Len(history) \in Nat /\ Len(channel) \in Nat /\ Len(Pending) \in Nat
    BY PipeParts, LenProperties DEF TypeInv, TypeOK
  <2> QED BY <1>1, <2>1, PipeParts
<1>3. /\ \A k, j \in 1..Len(p) : p[k].by = p[j].by /\ k < j => p[k].n < p[j].n
      /\ \A k \in 1..Len(p) : p[k].n \in 1..written[p[k].by]
      /\ \A m \in 1..written[b] : \E j \in 1..Len(p) : p[j] = [by |-> b, n |-> m]
  BY <1>1 DEF Ascending, Bounded, Complete
<1>4. written[b] \in Nat
  BY DEF TypeInv, TypeOK
<1>5. i \in 1..Len(p) /\ p[i] = history[i]
  BY <1>2
<1>6. p[i].n \in 1..written[b]
  BY <1>3, <1>5
<1>7. n \in 1..written[b] /\ n <= p[i].n /\ p[i].n \in Nat
  BY <1>4, <1>5, <1>6
<1>8. PICK j \in 1..Len(p) : p[j] = [by |-> b, n |-> n]
  BY <1>3, <1>7
<1>9. ~(i < j)
  <2>1. SUFFICES ASSUME i < j PROVE FALSE
    OBVIOUS
  <2>2. p[i].n < p[j].n
    BY <2>1, <1>3, <1>5, <1>8
  <2> QED BY <2>2, <1>7, <1>8
<1>10. j \in 1..i /\ j \in 1..Len(history)
  BY <1>9, <1>2
<1> QED BY <1>8, <1>10, <1>2

LEMMA IsolatedNext ==
    ASSUME TypeInv, Ascending, Bounded, Complete, BranchIsolated, [Next]_vars
    PROVE  BranchIsolated'
<1>t. request \in [Branches -> SUBSET Events] /\ Len(history) \in Nat
  BY LenProperties DEF TypeInv, TypeOK
<1>1. ASSUME NEW b \in Branches, EndRead(b) PROVE BranchIsolated'
  <2> DEFINE seen == {history[i] : i \in {j \in 1..size[b] : history[j].by = b}}
  <2>s. size[b] \in Nat /\ size[b] <= Len(history)
    BY DEF TypeInv, TypeOK, Prefix
  <2>1. ASSUME NEW e \in seen
        PROVE e.by = b /\ \A n \in 1..e.n : [by |-> b, n |-> n] \in seen
    <3>1. PICK i \in 1..size[b] : history[i].by = b /\ e = history[i]
      OBVIOUS
    <3>2. i \in 1..Len(history)
      BY <2>s, <1>t
    <3>3. ASSUME NEW n \in 1..e.n PROVE [by |-> b, n |-> n] \in seen
      <4>1. PICK j \in 1..i : history[j] = [by |-> b, n |-> n]
        BY <3>1, <3>2, <3>3, OwnEventsHaveNoGap
      <4>2. j \in 1..size[b] /\ history[j].by = b
        BY <4>1, <2>s
      <4> QED BY <4>1, <4>2
    <3> QED BY <3>1, <3>3
  <2>2. request' = [request EXCEPT ![b] = seen]
    BY <1>1 DEF EndRead
  <2> HIDE DEF seen
  <2>3. \A c \in Branches : request'[c] = IF c = b THEN seen ELSE request[c]
    BY <2>2, <1>t
  <2> QED BY <2>1, <2>3 DEF BranchIsolated
<1>2. ASSUME request' = request PROVE BranchIsolated'
  BY <1>2 DEF BranchIsolated
<1>3. ASSUME NEW b \in Branches, Task(b), ~EndRead(b) PROVE request' = request
  BY <1>3 DEF Task, BeginRead, ReadThrows, ModelCalls, ModelAnswers, ToolReturns, Fails
<1>4. ASSUME Consumer \/ CompleteChannel \/ Cancel \/ UNCHANGED vars
      PROVE request' = request
  BY <1>4 DEF Consumer, ReadChannel, AppendEvent, YieldEvent, FinishTurn, StopReading,
              ReadCancelled, CompleteChannel, Cancel, vars
<1> QED BY <1>1, <1>2, <1>3, <1>4 DEF Next, AtRest

-----------------------------------------------------------------------------
(* The inductive invariant and the theorems                                *)

LEMMA InvInit == Init => Inv
<1> SUFFICES ASSUME Init PROVE Inv
  OBVIOUS
<1>1. TypeInv
  BY TypeInit
<1>2. Control
  BY DEF Init, Control
<1>3. Len(<< >>) = 0 /\ << >> \in Seq(Events)
  BY EmptySeq
<1>4. Pending = << >> /\ history = << >> /\ channel = << >>
  BY DEF Init, Pending
<1>5. Len(Pipe) = 0
  BY <1>1, <1>3, <1>4, PipeParts
<1>6. Ascending /\ Bounded
  BY <1>5 DEF Ascending, Bounded
<1>7. Complete
  BY DEF Init, Complete
<1>8. BranchIsolated
  BY DEF Init, BranchIsolated
<1> QED BY <1>1, <1>2, <1>6, <1>7, <1>8 DEF Inv

LEMMA InvNext == Inv /\ [Next]_vars => Inv'
<1> SUFFICES ASSUME Inv, [Next]_vars PROVE Inv'
  OBVIOUS
<1>1. TypeInv'
  BY TypeNext DEF Inv
<1>2. Control'
  BY ControlNext DEF Inv
<1>3. Ascending' /\ Bounded' /\ Complete'
  BY NumbersNext DEF Inv
<1>4. BranchIsolated'
  BY IsolatedNext DEF Inv
<1> QED BY <1>1, <1>2, <1>3, <1>4 DEF Inv

LEMMA Invariance == Spec => []Inv
<1> QED BY InvInit, InvNext, PTL DEF Spec

\* Every variable of the agent, its tasks and its consumer keeps its type.
THEOREM ParallelTypeCorrect == Spec => []TypeOK
<1>1. Inv => TypeOK
  BY DEF Inv, TypeInv
<1> QED BY <1>1, Invariance, PTL

\* IsBranchVisible: no model sees a sibling's event, and what it sees of its
\* own branch has no gap, however the runner's appends fall between the reads.
THEOREM BranchesStayApart == Spec => []BranchIsolated
<1>1. Inv => BranchIsolated
  BY DEF Inv
<1> QED BY <1>1, Invariance, PTL

-----------------------------------------------------------------------------
(* The merge                                                               *)

Status == CASE runner \in {"finished", "threw"} -> "closed"
            [] runner = "abandoned"             -> "abandoned"
            [] OTHER                            -> "open"

\* The runner's append is the delivery of the oldest event of its branch that
\* is not yet in the history.
LEMMA AppendDelivers ==
    ASSUME Inv, AppendEvent
    PROVE  \E b \in Branches : \E n \in 1..written[b] : Merge!Deliver(b, n)
<1> USE DEF Inv
<1>1. /\ history \in Seq(Events) /\ out \in Seq(Events) /\ channel \in Seq(Events)
      /\ Len(history) \in Nat /\ Len(channel) \in Nat
  BY LenProperties DEF TypeInv, TypeOK
<1>2. Len(out) = 1 /\ Pending = out /\ runner = "append"
  BY DEF Control, AppendEvent, Pending
<1>3. PICK e \in Events : e = out[1]
  <2>1. 1 \in 1..Len(out)
    BY <1>2
  <2>2. out[1] \in Events
    BY <2>1, <1>1, ElementOfSeq
  <2> QED BY <2>2
<1>4. out = <<e>>
  BY <1>1, <1>2, <1>3
<1>5. PICK p \in Seq(Events) : p = Pipe
  BY PipeParts
<1>6. PICK l \in Nat : l = Len(history)
  BY <1>1
<1>7. /\ Len(p) = l + 1 + Len(channel)
      /\ \A i \in 1..l : p[i] = history[i]
      /\ p[l + 1] = e
  <2>1. /\ Len(p) = l + Len(Pending) + Len(channel)
        /\ \A i \in 1..l : p[i] = history[i]
        /\ \A i \in 1..Len(Pending) : p[l + i] = Pending[i]
    BY <1>5, <1>6, PipeParts
  <2>2. Len(Pending) = 1 /\ Pending[1] = e
    <3>1. Pending = out /\ Len(out) = 1
      BY <1>2
    <3> QED BY ONLY <3>1, <1>3
  <2>3. 1 \in 1..Len(Pending)
    BY <2>2
  <2>4. p[l + 1] = Pending[1]
    BY <2>1, <2>3
  <2> QED BY <2>1, <2>2, <2>4
<1>8. Len(p) \in Nat /\ l + 1 \in 1..Len(p) /\ \A i \in 1..l : i \in 1..Len(p) /\ i < l + 1
  BY <1>1, <1>7
<1>9. PICK b \in Branches, n \in Nat : e = [by |-> b, n |-> n]
  BY DEF Events
<1>10. /\ \A k, j \in 1..Len(p) : p[k].by = p[j].by /\ k < j => p[k].n < p[j].n
       /\ \A k \in 1..Len(p) : p[k].n \in 1..written[p[k].by]
       /\ \A m \in 1..written[b] : \E j \in 1..Len(p) : p[j] = [by |-> b, n |-> m]
  BY <1>5 DEF Ascending, Bounded, Complete
<1>11. n \in 1..written[b] /\ written[b] \in Nat
  BY <1>7, <1>8, <1>9, <1>10 DEF TypeInv, TypeOK
<1>12. e \notin {history[i] : i \in 1..l}
  <2>1. SUFFICES ASSUME NEW i \in 1..l, history[i] = e PROVE FALSE
    OBVIOUS
  <2>2. p[i] = e
    BY <2>1, <1>7
  <2>3. p[i].n < p[l + 1].n
    BY <2>2, <1>7, <1>8, <1>10
  <2> QED BY <2>2, <2>3, <1>7, <1>9
<1>13. ASSUME NEW m \in 1..n - 1
       PROVE [by |-> b, n |-> m] \in {history[i] : i \in 1..l}
  <2>1. m \in 1..written[b] /\ m < n
    BY <1>11
  <2>2. PICK j \in 1..Len(p) : p[j] = [by |-> b, n |-> m]
    BY <2>1, <1>10
  <2>3. ~(l + 1 < j)
    <3>1. SUFFICES ASSUME l + 1 < j PROVE FALSE
      OBVIOUS
    <3>2. p[l + 1].n < p[j].n
      BY <3>1, <2>2, <1>7, <1>8, <1>9, <1>10
    <3> QED BY <3>2, <2>1, <2>2, <1>7, <1>9
  <2>4. j # l + 1
    BY <2>1, <2>2, <1>7, <1>9
  <2>5. j \in 1..l
    BY <2>3, <2>4, <1>8
  <2> QED BY <2>2, <2>5, <1>7
<1>14. history' = Append(history, e)
  <2>1. history' = history \o <<e>>
    BY <1>4 DEF AppendEvent
  <2> QED BY <2>1, <1>1
<1>15. Status = "open" /\ Status' = "open" /\ written' = written
  BY <1>2 DEF AppendEvent, Status
<1>16. Merge!Deliver(b, n)
  BY <1>6, <1>9, <1>11, <1>12, <1>13, <1>14, <1>15
     DEF Merge!Deliver, Merge!Merged, Status
<1> QED BY <1>11, <1>16

\* When the turn is over everything that was written is in the history.
LEMMA FinishCloses == ASSUME Inv, FinishTurn PROVE Merge!Close
<1> USE DEF Inv
<1>1. channel = << >> /\ Pending = << >> /\ Len(<< >>) = 0
  BY DEF FinishTurn, Pending
<1>2. Len(history) \in Nat
  BY LenProperties DEF TypeInv, TypeOK
<1>3. Len(Pipe) = Len(history) /\ \A i \in 1..Len(history) : Pipe[i] = history[i]
  BY <1>1, <1>2, PipeParts
<1>4. \A b \in Branches : \A n \in 1..written[b] :
         [by |-> b, n |-> n] \in {history[i] : i \in 1..Len(history)}
  BY <1>3 DEF Complete
<1>5. Status = "open" /\ Status' = "closed" /\ UNCHANGED <<written, history>>
  BY DEF FinishTurn, Status
<1> QED BY <1>4, <1>5 DEF Merge!Close, Merge!Merged, Status

\* A task that writes finds the turn still going on.
LEMMA WriteEmits ==
    ASSUME Inv, NEW b \in Branches, pc[b] \notin Over, NEW next, WriteEvent(b, next),
           UNCHANGED <<history, runner>>
    PROVE  Merge!Emit(b) \/ UNCHANGED <<written, history, Status>>
<1>1. Status' = Status
  BY DEF Status
<1>2. CASE cancelled
  BY <1>1, <1>2 DEF WriteEvent
<1>3. CASE ~cancelled
  <2>1. runner \notin {"finished", "threw"}
    BY DEF Inv, Control
  <2>2. Status # "closed"
    BY <2>1 DEF Status
  <2>3. written' = [written EXCEPT ![b] = @ + 1]
    BY <1>3 DEF WriteEvent
  <2> QED BY <1>1, <2>2, <2>3 DEF Merge!Emit, Status
<1> QED BY <1>2, <1>3

LEMMA StepMerges == Inv /\ [Next]_vars => [Merge!Next]_<<written, history, Status>>
<1> SUFFICES ASSUME Inv, [Next]_vars
             PROVE Merge!Next \/ UNCHANGED <<written, history, Status>>
  OBVIOUS
<1>1. ASSUME NEW b \in Branches, Task(b)
      PROVE Merge!Next \/ UNCHANGED <<written, history, Status>>
  <2>1. CASE BeginRead(b) \/ EndRead(b) \/ ReadThrows(b) \/ Fails(b)
    BY <2>1 DEF BeginRead, EndRead, ReadThrows, Fails, Status
  <2>2. CASE ModelCalls(b) \/ ModelAnswers(b) \/ ToolReturns(b)
    <3>1. PICK next : WriteEvent(b, next)
      BY <2>2 DEF ModelCalls, ModelAnswers, ToolReturns
    <3>2. pc[b] \notin Over /\ UNCHANGED <<history, runner>>
      BY <2>2 DEF ModelCalls, ModelAnswers, ToolReturns, Over
    <3> QED BY <3>1, <3>2, WriteEmits DEF Merge!Next
  <2> QED BY <1>1, <2>1, <2>2 DEF Task
<1>2. ASSUME AppendEvent PROVE Merge!Next
  BY <1>2, AppendDelivers DEF Merge!Next
<1>3. ASSUME FinishTurn PROVE Merge!Next
  BY <1>3, FinishCloses DEF Merge!Next
<1>4. ASSUME StopReading \/ ReadCancelled PROVE Merge!Next
  <2>1. Status = "open" /\ Status' = "abandoned" /\ UNCHANGED <<written, history>>
    BY <1>4 DEF StopReading, ReadCancelled, Status
  <2> QED BY <2>1 DEF Merge!Next, Merge!Abandon, Status
<1>5. ASSUME ReadChannel \/ YieldEvent \/ CompleteChannel \/ Cancel \/ UNCHANGED vars
      PROVE UNCHANGED <<written, history, Status>>
  BY <1>5 DEF ReadChannel, YieldEvent, CompleteChannel, Cancel, vars, Status
<1> QED BY <1>1, <1>2, <1>3, <1>4, <1>5 DEF Next, Consumer, AtRest

\* ParallelAgent, its channel and the runner merge the branches as OrderedMerge
\* promises: nothing lost, doubled or overtaken, and no end before the last task.
THEOREM ParallelImplementsMerge == Spec => MergeSpec
<1>1. Init => Merge!Init
  BY DEF Init, Merge!Init
<1>2. Inv /\ [Next]_vars
        => [Merge!Next]_<<written, history,
              CASE runner \in {"finished", "threw"} -> "closed"
                [] runner = "abandoned"             -> "abandoned"
                [] OTHER                            -> "open">>
  BY StepMerges DEF Status
<1> QED BY <1>1, <1>2, Invariance, PTL DEF Spec, MergeSpec, Merge!Spec
=============================================================================
