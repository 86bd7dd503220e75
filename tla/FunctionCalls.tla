---------------------------- MODULE FunctionCalls -----------------------------
(***************************************************************************)
(* FunctionCallHandler.HandleFunctionCallsAsync: the function calls of one *)
(* model response, a task for each, a semaphore that lets MaxWorkers of    *)
(* them work at a time, the plugins' and the agent's callbacks around each *)
(* tool, and the one response event made of what they return.              *)
(*                                                                         *)
(* A task gives up control at its awaits only; every step below is what a  *)
(* task does from one await to the next.  SemaphoreSlim serves tasks that  *)
(* wait in the order they came.                                            *)
(*                                                                         *)
(* Abstractions: a response is where it comes from; what a tool does is a  *)
(* step that returns or throws; state deltas and other actions are left    *)
(* out.                                                                    *)
(***************************************************************************)
EXTENDS Naturals, Sequences, FiniteSets

CONSTANTS N,         \* function calls in the model's response
          MaxWorkers \* ToolThreadPoolConfig.MaxWorkers

ASSUME CallsAssumption ==
    /\ N \in Nat \ {0} /\ MaxWorkers \in Nat \ {0}

Calls == 1..N

VARIABLES
    kind,     \* what each call asks for
    onError,  \* whether the agent has an OnToolErrorCallback
    pc,       \* where its task is
    response, \* functionResponse of the task
    threw,    \* the calls whose tool threw
    saved,    \* the calls an error callback gave a response for
    next,     \* the call Select starts next
    permits,  \* what is left of the semaphore
    queue,    \* the tasks waiting for it
    handler,  \* where HandleFunctionCallsAsync is
    merged    \* the calls answered by the event it returns

vars == <<kind, onError, pc, response, threw, saved, next, permits, queue, handler,
          merged>>

\* A call whose id is not in the filter, one of a tool that is not there, of a
\* tool, of a long-running tool.
Kinds == {"filtered", "missing", "plain", "long"}
Working == {"pluginBefore", "agentBefore", "tool", "pluginError", "agentError",
            "pluginAfter", "agentAfter", "finish"}
Over == {"answered", "silent", "failed"}
Places == {"new", "waiting"} \cup Working \cup Over
Sources == {"none", "before", "tool", "recovered", "altered", "error"}

Init ==
    /\ kind \in [Calls -> Kinds]
    /\ onError \in BOOLEAN
    /\ pc = [c \in Calls |-> "new"]
    /\ response = [c \in Calls |-> "none"]
    /\ threw = {}
    /\ saved = {}
    /\ next = 1
    /\ permits = MaxWorkers
    /\ queue = << >>
    /\ handler = "running"
    /\ merged = << >>

-----------------------------------------------------------------------------
(* The semaphore                                                           *)

\* A mutant: the permit goes to the waiting task and back to the semaphore.
ReleaseTwice(c, over) ==
    /\ permits' = permits + 1
    /\ IF queue = << >>
         THEN pc' = [pc EXCEPT ![c] = over] /\ UNCHANGED queue
         ELSE /\ pc' = [pc EXCEPT ![c] = over, ![Head(queue)] = "pluginBefore"]
              /\ queue' = Tail(queue)

\* A mutant: the waiting tasks are forgotten.
ReleaseUnheard(c, over) ==
    /\ pc' = [pc EXCEPT ![c] = over]
    /\ permits' = permits + 1
    /\ UNCHANGED queue

\* Release gives the permit to the task that waits longest.
Release(c, over) ==
    IF queue = << >>
      THEN /\ pc' = [pc EXCEPT ![c] = over]
           /\ permits' = permits + 1
           /\ UNCHANGED queue
      ELSE /\ pc' = [pc EXCEPT ![c] = over, ![Head(queue)] = "pluginBefore"]
           /\ queue' = Tail(queue)
           /\ UNCHANGED permits

\* ProcessFunctionCallAsync up to its first await.
Begin(c) ==
    /\ handler = "running"
    /\ c = next
    /\ next' = next + 1
    /\ \/ /\ kind[c] = "filtered"
          /\ pc' = [pc EXCEPT ![c] = "silent"]
          /\ UNCHANGED <<response, permits, queue>>
       \/ /\ kind[c] = "missing"
          /\ pc' = [pc EXCEPT ![c] = "answered"]
          /\ response' = [response EXCEPT ![c] = "error"]
          /\ UNCHANGED <<permits, queue>>
       \/ /\ kind[c] \in {"plain", "long"}
          /\ permits > 0
          /\ permits' = permits - 1
          /\ pc' = [pc EXCEPT ![c] = "pluginBefore"]
          /\ UNCHANGED <<response, queue>>
       \/ /\ kind[c] \in {"plain", "long"}
          /\ permits = 0
          /\ queue' = Append(queue, c)
          /\ pc' = [pc EXCEPT ![c] = "waiting"]
          /\ UNCHANGED <<response, permits>>
    /\ UNCHANGED <<kind, onError, threw, saved, handler, merged>>

-----------------------------------------------------------------------------
(* A task that has its permit                                              *)

GoOn(c, place, source) ==
    /\ pc' = [pc EXCEPT ![c] = place]
    /\ response' = [response EXCEPT ![c] = source]
    /\ UNCHANGED <<kind, onError, next, permits, queue, handler, merged>>

\* A before callback that answers takes the place of the tool.
Before(c) ==
    /\ \/ pc[c] \in {"pluginBefore", "agentBefore"} /\ GoOn(c, "pluginAfter", "before")
       \/ pc[c] = "pluginBefore" /\ GoOn(c, "agentBefore", "none")
       \/ pc[c] = "agentBefore" /\ GoOn(c, "tool", "none")
    /\ UNCHANGED <<threw, saved>>

ToolReturns(c) ==
    /\ pc[c] = "tool"
    /\ GoOn(c, "pluginAfter", "tool")
    /\ UNCHANGED <<threw, saved>>

ToolThrows(c) ==
    /\ pc[c] = "tool"
    /\ threw' = threw \cup {c}
    /\ GoOn(c, "pluginError", "none")
    /\ UNCHANGED saved

PluginOnError(c) ==
    /\ pc[c] = "pluginError"
    /\ \/ GoOn(c, "agentError", "none") /\ UNCHANGED saved
       \/ GoOn(c, "agentError", "recovered") /\ saved' = saved \cup {c}
    /\ UNCHANGED threw

\* The agent's callback runs whatever the plugins answered, and what it
\* returns takes the place of their answer.  With no response left there is
\* nothing for the after callbacks.
AgentOnError(c) ==
    /\ pc[c] = "agentError"
    /\ \/ /\ ~onError
          /\ GoOn(c, IF response[c] = "none" THEN "finish" ELSE "pluginAfter", response[c])
          /\ UNCHANGED saved
       \/ /\ onError
          /\ GoOn(c, "pluginAfter", "recovered")
          /\ saved' = saved \cup {c}
       \/ /\ onError
          /\ GoOn(c, "finish", "none")
          /\ UNCHANGED saved
    /\ UNCHANGED threw

\* The agent's after callback runs only when the plugins' left the response.
After(c) ==
    /\ \/ pc[c] \in {"pluginAfter", "agentAfter"} /\ GoOn(c, "finish", "altered")
       \/ pc[c] = "pluginAfter" /\ GoOn(c, "agentAfter", response[c])
       \/ pc[c] = "agentAfter" /\ GoOn(c, "finish", response[c])
    /\ UNCHANGED <<threw, saved>>

\* A mutant: a long-running tool never has a response.
FinishLong(c) ==
    /\ pc[c] = "finish"
    /\ IF kind[c] = "long"
         THEN Release(c, "silent") /\ UNCHANGED response
         ELSE /\ Release(c, "answered")
              /\ response' = [response EXCEPT ![c] = IF @ = "none" THEN "error" ELSE @]
    /\ UNCHANGED <<kind, onError, threw, saved, next, handler, merged>>

\* A long-running tool that threw and was not recovered leaves no response; any
\* other tool that has none answers with its error.
Finish(c) ==
    /\ pc[c] = "finish"
    /\ IF response[c] = "none" /\ kind[c] = "long"
         THEN Release(c, "silent") /\ UNCHANGED response
         ELSE /\ Release(c, "answered")
              /\ response' = [response EXCEPT ![c] = IF @ = "none" THEN "error" ELSE @]
    /\ UNCHANGED <<kind, onError, threw, saved, next, handler, merged>>

\* A mutant: the release is not in a finally block.
CallbackThrowsOut(c) ==
    /\ pc[c] \in Working \ {"tool", "finish"} /\ (pc[c] = "agentError" => onError)
    /\ pc' = [pc EXCEPT ![c] = "failed"]
    /\ UNCHANGED <<kind, onError, response, threw, saved, next, permits, queue, handler,
                   merged>>

\* Nothing catches what a callback throws; the finally block still releases.
CallbackThrows(c) ==
    /\ pc[c] \in Working \ {"tool", "finish"} /\ (pc[c] = "agentError" => onError)
    /\ Release(c, "failed")
    /\ UNCHANGED <<kind, onError, response, threw, saved, next, handler, merged>>

Task(c) == \/ Before(c) \/ ToolReturns(c) \/ ToolThrows(c) \/ PluginOnError(c)
           \/ AgentOnError(c) \/ After(c) \/ Finish(c) \/ CallbackThrows(c)

-----------------------------------------------------------------------------
(* The handler after WhenAll                                               *)

\* Of the first n calls those with a response, in the order of the calls.
Answered[n \in 0..N] ==
    IF n = 0 THEN << >>
    ELSE IF pc[n] = "answered" THEN Append(Answered[n - 1], n) ELSE Answered[n - 1]

\* A mutant: the tasks are awaited one by one, and the first exception leaves.
JoinInOrder ==
    /\ handler = "running"
    /\ next = N + 1
    /\ \/ \A c \in Calls : pc[c] \in Over
       \/ \E c \in Calls : pc[c] = "failed" /\ \A d \in 1..c : pc[d] \in Over
    /\ IF \E c \in Calls : pc[c] = "failed"
         THEN handler' = "threw" /\ UNCHANGED merged
         ELSE /\ handler' = "returned"
              /\ merged' = Answered[N]
    /\ UNCHANGED <<kind, onError, pc, response, threw, saved, next, permits, queue>>

Join ==
    /\ handler = "running"
    /\ \A c \in Calls : pc[c] \in Over
    /\ IF \E c \in Calls : pc[c] = "failed"
         THEN handler' = "threw" /\ UNCHANGED merged
         ELSE /\ handler' = "returned"
              /\ merged' = Answered[N]
    /\ UNCHANGED <<kind, onError, pc, response, threw, saved, next, permits, queue>>

AtRest == handler # "running" /\ UNCHANGED vars

Next == AtRest \/ Join \/ \E c \in Calls : Begin(c) \/ Task(c)

\* Every task's awaits complete: callbacks and tools return or throw.
Fairness == \A c \in Calls : WF_vars(Begin(c)) /\ WF_vars(Task(c))

Spec == Init /\ [][Next]_vars /\ Fairness /\ WF_vars(Join)

-----------------------------------------------------------------------------
Inside == {c \in Calls : pc[c] \in Working}

TypeOK ==
    /\ kind \in [Calls -> Kinds]
    /\ onError \in BOOLEAN
    /\ pc \in [Calls -> Places]
    /\ response \in [Calls -> Sources]
    /\ threw \subseteq Calls
    /\ saved \subseteq Calls
    /\ next \in 1..N + 1
    /\ permits \in 0..MaxWorkers
    /\ queue \in Seq(Calls)
    /\ handler \in {"running", "returned", "threw"}
    /\ merged \in Seq(Calls)

\* The semaphore is never over- or under-released, on the paths that fail
\* too: the tasks at work and the permits left are MaxWorkers together, and a
\* task waits only while all of them are taken.
PermitsConserved ==
    /\ Cardinality(Inside) + permits = MaxWorkers
    /\ queue # << >> => permits = 0
    /\ {queue[i] : i \in DOMAIN queue} = {c \in Calls : pc[c] = "waiting"}

\* A model gets a response for each call of its own, once and in the order of
\* the calls, whatever the order the tools ended in; only a call that was
\* filtered out and a long-running tool that threw leave none.
EveryCallAnswered ==
    handler = "returned" =>
        /\ \A i, j \in DOMAIN merged : i < j => merged[i] < merged[j]
        /\ \A c \in Calls :
              (\E i \in DOMAIN merged : merged[i] = c)
                 <=> /\ kind[c] # "filtered"
                     /\ kind[c] = "long" /\ c \in threw => response[c] # "none"

\* Once the handler is over no tool or callback of it is at work: the rest of
\* the invocation runs alone.
NothingRunsOn == handler # "running" => \A c \in Calls : pc[c] \in Over

\* With tools and callbacks that end, every call gets its turn and the
\* handler ends, when one of them fails too.
HandlerEnds == <>(handler # "running")

\* BasePlugin: "Return a dictionary to recover gracefully."
PluginRecovers ==
    \A c \in saved : pc[c] = "answered" => response[c] # "error"
=============================================================================
