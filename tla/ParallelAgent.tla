--------------------------- MODULE ParallelAgent ----------------------------
(***************************************************************************)
(* ParallelAgent.RunAsyncImpl with its sub-agents' tasks, the channel they *)
(* write to, and the runner that takes the events out of it and appends    *)
(* them to the session all the tasks read.  The sub-agents are LlmAgents   *)
(* that call a tool until their model answers.                             *)
(*                                                                         *)
(* Writing to the unbounded channel returns at once: a branch goes on      *)
(* before the runner has seen its event.                                   *)
(*                                                                         *)
(* Abstractions: the history holds the turn's events only; an event is its *)
(* branch and its number in that branch; model and tool calls are steps    *)
(* that may fail.                                                          *)
(***************************************************************************)
EXTENDS Naturals, Sequences, FiniteSets

CONSTANTS Branches,   \* the sub-agents, each with a branch of its own
          MaxCalls    \* bound: tool calls of one sub-agent

ASSUME ParallelAssumption == Branches # {} /\ MaxCalls \in Nat

VARIABLES
    pc,        \* where each sub-agent's task is
    written,   \* how many events it wrote to the channel
    size,      \* the size of the history when its enumeration of it began
    request,   \* the events in the last request it built
    channel,   \* the events between the tasks and the runner
    out,       \* the event the runner works on
    history,   \* session.Events
    runner,    \* where the runner is
    completed, \* whether the channel's writer is completed, and how
    cancelled  \* the cancellation token

vars == <<pc, written, size, request, channel, out, history, runner, completed,
          cancelled>>

Places == {"ask", "read", "model", "tool", "ended", "failed"}
Over == {"ended", "failed"}
Event(b) == [by |-> b, n |-> written[b] + 1]
Events == [by : Branches, n : Nat]
\* A task's events: a call and a response for each tool call, then a text.
MaxEvents == 2 * MaxCalls + 1

Init ==
    /\ pc = [b \in Branches |-> "ask"]
    /\ written = [b \in Branches |-> 0]
    /\ size = [b \in Branches |-> 0]
    /\ request = [b \in Branches |-> {}]
    /\ channel = << >>
    /\ out = << >>
    /\ history = << >>
    /\ runner = "read"
    /\ completed = "no"
    /\ cancelled = FALSE

-----------------------------------------------------------------------------
(* RunSubAgentAsync: the steps of one sub-agent                            *)

\* A mutant: the index of the last event for the number of events.
BeginReadShort(b) ==
    /\ pc[b] = "ask"
    /\ size' = [size EXCEPT ![b] = Len(history) - 1]
    /\ pc' = [pc EXCEPT ![b] = "read"]
    /\ UNCHANGED <<written, request, channel, out, history, runner, completed,
                   cancelled>>

\* GetContents enumerates session.Events, a List the runner appends to.
BeginRead(b) ==
    /\ pc[b] = "ask"
    /\ size' = [size EXCEPT ![b] = Len(history)]
    /\ pc' = [pc EXCEPT ![b] = "read"]
    /\ UNCHANGED <<written, request, channel, out, history, runner, completed,
                   cancelled>>

\* A mutant: without IsBranchVisible.
EndReadAll(b) ==
    /\ pc[b] = "read"
    /\ request' = [request EXCEPT ![b] = {history[i] : i \in 1..size[b]}]
    /\ pc' = [pc EXCEPT ![b] = "model"]
    /\ UNCHANGED <<written, size, channel, out, history, runner, completed, cancelled>>

\* IsBranchVisible: of the branches below one ParallelAgent only the own one.
EndRead(b) ==
    /\ pc[b] = "read"
    /\ request' = [request EXCEPT ![b] =
                     {history[i] : i \in {j \in 1..size[b] : history[j].by = b}}]
    /\ pc' = [pc EXCEPT ![b] = "model"]
    /\ UNCHANGED <<written, size, channel, out, history, runner, completed, cancelled>>

\* The enumerator throws when it notices an Add; that ends the task.
ReadThrows(b) ==
    /\ pc[b] = "read"
    /\ Len(history) > size[b]
    /\ pc' = [pc EXCEPT ![b] = "failed"]
    /\ UNCHANGED <<written, size, request, channel, out, history, runner, completed,
                   cancelled>>

\* WriteAsync takes an event whatever the runner does, unless the token is
\* cancelled.
WriteEvent(b, next) ==
    IF cancelled
      THEN /\ pc' = [pc EXCEPT ![b] = "failed"]
           /\ UNCHANGED <<written, channel>>
      ELSE /\ channel' = Append(channel, Event(b))
           /\ written' = [written EXCEPT ![b] = @ + 1]
           /\ pc' = [pc EXCEPT ![b] = next]

\* The model asks for a tool call or gives the answer that ends the agent.
ModelCalls(b) ==
    /\ pc[b] = "model"
    /\ written[b] + 2 < MaxEvents
    /\ WriteEvent(b, "tool")
    /\ UNCHANGED <<size, request, out, history, runner, completed, cancelled>>

ModelAnswers(b) ==
    /\ pc[b] = "model"
    /\ WriteEvent(b, "ended")
    /\ UNCHANGED <<size, request, out, history, runner, completed, cancelled>>

ToolReturns(b) ==
    /\ pc[b] = "tool"
    /\ WriteEvent(b, "ask")
    /\ UNCHANGED <<size, request, out, history, runner, completed, cancelled>>

Fails(b) ==
    /\ pc[b] \in {"model", "tool"}
    /\ pc' = [pc EXCEPT ![b] = "failed"]
    /\ UNCHANGED <<written, size, request, channel, out, history, runner, completed,
                   cancelled>>

\* A mutant: WhenAny in place of WhenAll.
CompleteOnAny ==
    /\ \E b \in Branches : pc[b] \in Over
    /\ completed = "no"
    /\ completed' = IF \E b \in Branches : pc[b] = "failed" THEN "failed" ELSE "done"
    /\ UNCHANGED <<pc, written, size, request, channel, out, history, runner, cancelled>>

\* A mutant: the continuation is OnlyOnRanToCompletion.
CompleteOnSuccess ==
    /\ \A b \in Branches : pc[b] = "ended"
    /\ completed = "no"
    /\ completed' = "done"
    /\ UNCHANGED <<pc, written, size, request, channel, out, history, runner, cancelled>>

\* The continuation of WhenAll completes the writer once all tasks are over,
\* with the exception of one that failed.
CompleteChannel ==
    /\ \A b \in Branches : pc[b] \in Over
    /\ completed = "no"
    /\ completed' = IF \E b \in Branches : pc[b] = "failed" THEN "failed" ELSE "done"
    /\ UNCHANGED <<pc, written, size, request, channel, out, history, runner, cancelled>>

-----------------------------------------------------------------------------
(* The consumer: the agent's own iterator inside the runner's loop         *)

ReadChannel ==
    /\ runner = "read"
    /\ channel # << >>
    /\ out' = <<Head(channel)>>
    /\ channel' = Tail(channel)
    /\ runner' = "append"
    /\ UNCHANGED <<pc, written, size, request, history, completed, cancelled>>

AppendEvent ==
    /\ runner = "append"
    /\ history' = history \o out
    /\ runner' = "yield"
    /\ UNCHANGED <<pc, written, size, request, channel, out, completed, cancelled>>

YieldEvent ==
    /\ runner = "yield"
    /\ out' = << >>
    /\ runner' = "read"
    /\ UNCHANGED <<pc, written, size, request, channel, history, completed, cancelled>>

\* ReadAllAsync ends, or throws the exception the channel was completed with.
FinishTurn ==
    /\ runner = "read"
    /\ channel = << >>
    /\ completed # "no"
    /\ runner' = IF completed = "failed" THEN "threw" ELSE "finished"
    /\ UNCHANGED <<pc, written, size, request, channel, out, history, completed,
                   cancelled>>

\* A caller that stops reading disposes the iterators; the tasks go on.
StopReading ==
    /\ runner = "yield"
    /\ out' = << >>
    /\ runner' = "abandoned"
    /\ UNCHANGED <<pc, written, size, request, channel, history, completed, cancelled>>

Cancel ==
    /\ ~cancelled
    /\ cancelled' = TRUE
    /\ UNCHANGED <<pc, written, size, request, channel, out, history, runner, completed>>

\* WaitToReadAsync throws once the token is cancelled, whatever is left.
ReadCancelled ==
    /\ runner = "read"
    /\ cancelled
    /\ runner' = "abandoned"
    /\ UNCHANGED <<pc, written, size, request, channel, out, history, completed,
                   cancelled>>

-----------------------------------------------------------------------------
Task(b) == \/ BeginRead(b) \/ EndRead(b) \/ ReadThrows(b) \/ ModelCalls(b)
           \/ ModelAnswers(b) \/ ToolReturns(b) \/ Fails(b)

Consumer == ReadChannel \/ AppendEvent \/ YieldEvent \/ FinishTurn \/ StopReading
            \/ ReadCancelled

\* The turn is over and so is what it started.
AtRest == /\ runner \in {"finished", "threw", "abandoned"}
          /\ completed # "no"
          /\ UNCHANGED vars

Next == AtRest \/ Consumer \/ CompleteChannel \/ Cancel \/ \E b \in Branches : Task(b)

\* Models and tools answer or fail, the caller reads on or goes away.
Fairness == /\ \A b \in Branches : WF_vars(Task(b))
            /\ WF_vars(CompleteChannel) /\ WF_vars(Consumer)

Spec == Init /\ [][Next]_vars /\ Fairness

-----------------------------------------------------------------------------
TypeOK ==
    /\ pc \in [Branches -> Places]
    /\ written \in [Branches -> Nat]
    /\ size \in [Branches -> Nat]
    /\ request \in [Branches -> SUBSET Events]
    /\ channel \in Seq(Events)
    /\ out \in Seq(Events)
    /\ history \in Seq(Events)
    /\ runner \in {"read", "append", "yield", "finished", "threw", "abandoned"}
    /\ completed \in {"no", "done", "failed"}
    /\ cancelled \in BOOLEAN

\* The channel and the runner merge the branches as OrderedMerge says: no
\* event is lost, doubled or overtaken, also when a sibling fails, and the
\* turn is not over before every sub-agent is (docs/orchestration.md, "The
\* runner waits until all branches complete").
Merge == INSTANCE OrderedMerge WITH
    emitted <- written,
    merged <- history,
    status <- CASE runner \in {"finished", "threw"} -> "closed"
                [] runner = "abandoned"             -> "abandoned"
                [] OTHER                            -> "open"

MergeSpec == Merge!Spec

\* A sub-agent's model never sees a sibling's event, and of its own events it
\* sees the oldest ones without a gap.
BranchIsolated ==
    \A b \in Branches : \A e \in request[b] :
        /\ e.by = b
        /\ \A n \in 1..e.n : [by |-> b, n |-> n] \in request[b]

\* The turn ends, and with it every task it started.
TurnEnds == <>[](completed # "no" /\ runner \in {"finished", "threw", "abandoned"})

\* GetContents: "Gets full conversation history as contents for the LLM
\* request."  What a sub-agent's own model and tools did before is part of it.
RequestHasOwnHistory ==
    \A b \in Branches : pc[b] = "model" =>
        \A n \in 1..written[b] : [by |-> b, n |-> n] \in request[b]
=============================================================================
