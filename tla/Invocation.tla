----------------------------- MODULE Invocation -----------------------------
(***************************************************************************)
(* One session driven by Runner.RunAsync turn after turn: the tree of      *)
(* agents that handles a turn, and the way every event takes from the      *)
(* agent that yields it, through the agents that run it, to the session's  *)
(* history and the caller.                                                 *)
(*                                                                         *)
(* C# async iterators run one at a time, so the invocation is a stack of   *)
(* frames, one for each RunAsync of an agent with the InvocationContext it *)
(* made for itself; the agent on top is the one that runs.  An event goes  *)
(* down the stack to the runner before the top agent goes on.              *)
(*                                                                         *)
(* Abstractions: an event with several function calls is one call; what    *)
(* the handler does for it is its outcome (its tool tasks are not here);   *)
(* a text is its kind; output keys and state deltas are left out.  A user  *)
(* answers calls that ran on the client or are long-running; answers to    *)
(* authentication and confirmation requests, which the request processors  *)
(* consume, are not given.                                                 *)
(***************************************************************************)
EXTENDS Integers, Sequences, FiniteSets

CONSTANTS Agents,
          Root,           \* the runner's agent
          Kind,           \* "llm", "seq" or "loop"
          Subs,           \* SubAgents, in order
          MaxIterations,  \* of the loop agents
          DisallowPeers,  \* LlmAgents with DisallowTransferToPeers
          DisallowParent, \* LlmAgents with DisallowTransferToParent
          MaxLlmCalls,    \* RunConfig.MaxLlmCalls, 0 for no limit
          PauseModes,     \* the values of RunConfig.PauseOnToolCalls of the turns
          Callbacks,      \* what each agent's before and after callbacks may return
          Responses,      \* what a model response can be
          Outcomes,       \* what handling a call can give
          Targets,        \* what a tool names as the agent to transfer to
          Edits,          \* the kinds of events the plugins' onEvent replaces
          MaxTurns,       \* bound: messages of the user
          MaxCalls,       \* bound: function calls of the models
          MaxResponses,   \* bound: responses of one model call
          User, Early

Kinds == {"llm", "seq", "loop"}
\* Of an event: what the agents, the runner and the resumption look at.
EventKinds == {"user", "answer", "text", "chunk", "call", "longCall", "response",
               "skipped", "auth", "confirm", "delta"}
CallKinds == {"call", "longCall"}

ASSUME InvocationAssumption ==
    /\ Root \in Agents
    /\ Kind \in [Agents -> Kinds]
    /\ Subs \in [Agents -> Seq(Agents)]
    /\ \A a \in Agents : Kind[a] # "llm" => Subs[a] # << >>
    /\ MaxIterations \in Nat \ {0} /\ MaxLlmCalls \in Nat
    /\ PauseModes \subseteq BOOLEAN
    /\ Callbacks \in [Agents -> SUBSET {"none", "content", "delta"}]
    /\ Responses \subseteq {"empty", "text", "chunk", "call", "longCall"}
    /\ Outcomes \subseteq {"plain", "none", "escalate", "skip", "auth", "confirm",
                           "authConfirm", "structured", "end", "exit", "transfer",
                           "authTransfer"}
    /\ Edits \subseteq EventKinds
    /\ MaxTurns \in Nat /\ MaxCalls \in Nat /\ MaxResponses \in Nat
    /\ {User, Early} \cap Agents = {} /\ User # Early

VARIABLES
    pc,        \* where the runner is
    stack,     \* the frames of the running agents, the root's first
    out,       \* the events on their way from the top agent, at most one
    history,   \* the session's events
    streamed,  \* the events the caller got in this turn
    base,      \* Len(history) when the turn's agents started
    asked,     \* model calls of this turn
    calls,     \* function calls of the session so far
    turns,
    pause      \* PauseOnToolCalls of this turn

vars == <<pc, stack, out, history, streamed, base, asked, calls, turns, pause>>

Event(by, kind, call, esc) ==
    [by |-> by, kind |-> kind, call |-> call, esc |-> esc, edited |-> FALSE]

\* Event.IsFinalResponse of an agent's event.
IsFinalResponse(e) == e.kind \notin {"call", "response", "chunk"}

\* A mutant: the copy constructor without EndInvocation.
FreshFrame(a, end) ==
    [agent |-> a, end |-> FALSE, calls |-> 0, at |-> "before", todo |-> << >>,
     left |-> 0, sub |-> 0, iter |-> 0, last |-> "none", exit |-> FALSE,
     from |-> Len(history), own |-> {}]

\* new InvocationContext(parent) { Agent = this }: EndInvocation is copied by
\* value, the count of model calls starts at zero.  Two fields are history:
\* from, where in the session the run began, and own, the calls its model made.
Frame(a, end) ==
    [agent |-> a, end |-> end, calls |-> 0, at |-> "before", todo |-> << >>,
     left |-> 0, sub |-> 0, iter |-> 0, last |-> "none", exit |-> FALSE,
     from |-> Len(history), own |-> {}]

Init ==
    /\ pc = "idle"
    /\ stack = << >>
    /\ out = << >>
    /\ history = << >>
    /\ streamed = << >>
    /\ base = 0
    /\ asked = 0
    /\ calls = 0
    /\ turns = 0
    /\ pause = FALSE

-----------------------------------------------------------------------------
(* The runner before the agents                                            *)

Parents(a) == {p \in Agents : \E i \in DOMAIN Subs[p] : Subs[p][i] = a}

\* IsRoutableLlmAgent: the agent and all its ancestors let a user's next
\* message go to the agent directly.
Routable[a \in Agents] ==
    /\ Kind[a] = "llm"
    /\ a \notin DisallowParent
    /\ \A p \in Parents(a) : Routable[p]

IsAnswer(e) == e.kind \in {"answer", "response", "skipped"}

Latest(S) == CHOOSE i \in S : \A j \in S : j <= i

\* A mutant: without case 1.
DetermineLastSpeaker(h) ==
    LET spoke == {i \in 1..Len(h) : /\ h[i].by \in Agents
                                    /\ h[i].by = Root \/ Routable[h[i].by]}
    IN  IF spoke # {} THEN h[Latest(spoke)].by ELSE Root

\* Case 1, the caller of the answered call; case 2, the last agent that spoke
\* and is routable; otherwise the root.
DetermineAgentForResumption(h) ==
    LET answered == {i \in 1..Len(h) - 1 : /\ IsAnswer(h[Len(h)])
                                           /\ h[i].kind \in CallKinds
                                           /\ h[i].call = h[Len(h)].call}
        spoke    == {i \in 1..Len(h) : /\ h[i].by \in Agents
                                       /\ h[i].by = Root \/ Routable[h[i].by]}
    IN  CASE answered # {}                 -> h[Latest(answered)].by
          [] answered = {} /\ spoke # {}   -> h[Latest(spoke)].by
          [] OTHER                         -> Root

\* What the user may send: nothing that is kept, a text, the result of a call.
Messages == {<< >>, <<Event(User, "user", 0, FALSE)>>}
            \cup {<<Event(User, "answer", c, FALSE)>> :
                     c \in {history[i].call : i \in {j \in 1..Len(history) :
                                                        history[j].kind \in CallKinds}}}

StartTurn(message, mode) ==
    /\ pc = "idle"
    /\ pause' = mode
    /\ turns < MaxTurns
    /\ turns' = turns + 1
    /\ history' = history \o message
    /\ base' = Len(history')
    /\ streamed' = << >>
    /\ asked' = 0
    /\ pc' = "resume"
    /\ UNCHANGED <<stack, out, calls>>

StartAgent ==
    /\ pc = "resume"
    /\ stack' = <<Frame(DetermineAgentForResumption(history), FALSE)>>
    /\ pc' = "agent"
    /\ UNCHANGED <<out, history, streamed, base, asked, calls, turns, pause>>

\* A plugin's beforeRun answers in place of the agents; its event does not
\* pass the plugins' onEvent.
EarlyExit ==
    /\ pc = "resume"
    /\ LET e == Event(Early, "text", 0, FALSE)
       IN  /\ history' = Append(history, e)
           /\ out' = <<e>>
    /\ pc' = "yield"
    /\ UNCHANGED <<stack, streamed, base, asked, calls, turns, pause>>

-----------------------------------------------------------------------------
(* The runner on an event                                                  *)

\* A mutant: the event is persisted before the plugins see it, as in
\* RunLiveAsync.
PersistOriginal ==
    /\ pc = "event"
    /\ out' = <<[out[1] EXCEPT !.edited = out[1].kind \in Edits]>>
    /\ history' = IF out[1].kind = "chunk" THEN history ELSE Append(history, out[1])
    /\ pc' = "yield"
    /\ UNCHANGED <<stack, streamed, base, asked, calls, turns, pause>>

\* The plugins' onEvent may replace the event; what it returns is persisted.
PersistEvent ==
    /\ pc = "event"
    /\ LET e == [out[1] EXCEPT !.edited = out[1].kind \in Edits]
       IN  /\ out' = <<e>>
           /\ history' = IF e.kind = "chunk" THEN history ELSE Append(history, e)
    /\ pc' = "yield"
    /\ UNCHANGED <<stack, streamed, base, asked, calls, turns, pause>>

YieldEvent ==
    /\ pc = "yield"
    /\ streamed' = streamed \o out
    /\ out' = << >>
    /\ pc' = IF stack = << >> THEN "idle" ELSE "agent"
    /\ UNCHANGED <<stack, history, base, asked, calls, turns, pause>>

\* The caller stops reading, a client that disconnects: the iterators are
\* disposed and the agents never go on.
Abandon ==
    /\ pc = "yield"
    /\ streamed' = streamed \o out
    /\ out' = << >>
    /\ stack' = << >>
    /\ pc' = "idle"
    /\ UNCHANGED <<history, base, asked, calls, turns, pause>>

-----------------------------------------------------------------------------
(* The frames                                                              *)

Top == stack[Len(stack)]
WithTop(f) == [stack EXCEPT ![Len(stack)] = f]
Running(at) == pc = "agent" /\ Top.at = at

\* A mutant: each event decides anew whether the loop ends.
SeenLast(frames, e) ==
    [i \in DOMAIN frames |->
        [frames[i] EXCEPT
            !.last = IF Kind[frames[i].agent] = "llm"
                       THEN IF IsFinalResponse(e) THEN "final" ELSE e.kind ELSE @,
            !.exit = Kind[frames[i].agent] = "loop" /\ e.esc]]

\* What the agents below see of an event: an LlmAgent keeps the last of the
\* step, a LoopAgent whether one of them escalated.
Seen(frames, e) ==
    [i \in DOMAIN frames |->
        [frames[i] EXCEPT
            !.last = IF Kind[frames[i].agent] = "llm"
                       THEN IF IsFinalResponse(e) THEN "final" ELSE e.kind ELSE @,
            !.exit = @ \/ (Kind[frames[i].agent] = "loop" /\ e.esc)]]

\* The top agent goes on as f, after it yielded e.
Yield(f, e) ==
    /\ out' = <<e>>
    /\ stack' = Seen(WithTop(f), e)
    /\ pc' = "event"

Continue(f) == stack' = WithTop(f) /\ UNCHANGED <<pc, out>>

Push(f, a) ==
    /\ stack' = Append(WithTop(f), Frame(a, f.end))
    /\ UNCHANGED <<pc, out>>

\* An exception goes through all iterators to the caller of the runner.
Throw ==
    /\ stack' = << >>
    /\ pc' = "idle"
    /\ UNCHANGED out

\* BaseAgent.RunAsync before and after RunAsyncImpl.  Content of the before
\* callback ends the invocation and skips the agent.
BeforeAgent(c) ==
    /\ Running("before") /\ c \in Callbacks[Top.agent]
    /\ CASE c = "none"    -> Continue([Top EXCEPT !.at = "run"])
         [] c = "content" -> Yield([Top EXCEPT !.end = TRUE, !.at = "done"],
                                   Event(Top.agent, "text", 0, FALSE))
         [] c = "delta"   -> Yield([Top EXCEPT !.at = IF Top.end THEN "done" ELSE "run"],
                                   Event(Top.agent, "delta", 0, FALSE))
    /\ UNCHANGED <<history, streamed, base, asked, calls, turns, pause>>

AfterAgent(c) ==
    /\ Running("after") /\ ~Top.end /\ c \in Callbacks[Top.agent] \ {"none"}
    /\ Yield([Top EXCEPT !.at = "done"],
             Event(Top.agent, IF c = "content" THEN "text" ELSE "delta", 0, FALSE))
    /\ UNCHANGED <<history, streamed, base, asked, calls, turns, pause>>

Return ==
    /\ Running("done") \/ (Running("after") /\ (Top.end \/ "none" \in Callbacks[Top.agent]))
    /\ stack' = SubSeq(stack, 1, Len(stack) - 1)
    /\ pc' = IF Len(stack) = 1 THEN "idle" ELSE "agent"
    /\ UNCHANGED <<out, history, streamed, base, asked, calls, turns, pause>>

\* SequentialAgent.RunAsyncImpl
NextSub ==
    /\ Running("run") /\ Kind[Top.agent] = "seq"
    /\ IF Top.sub < Len(Subs[Top.agent])
         THEN Push([Top EXCEPT !.sub = @ + 1], Subs[Top.agent][Top.sub + 1])
         ELSE Continue([Top EXCEPT !.at = "after"])
    /\ UNCHANGED <<history, streamed, base, asked, calls, turns, pause>>

\* A mutant: <= in place of <.
IterateOnceMore ==
    /\ Running("run") /\ Kind[Top.agent] = "loop"
    /\ CASE Top.exit \/ Top.iter > MaxIterations ->
              Continue([Top EXCEPT !.at = "after"])
         [] ~Top.exit /\ Top.iter <= MaxIterations /\ Top.sub < Len(Subs[Top.agent]) ->
              Push([Top EXCEPT !.sub = @ + 1, !.exit = FALSE], Subs[Top.agent][Top.sub + 1])
         [] OTHER ->
              Continue([Top EXCEPT !.sub = 0, !.iter = @ + 1])
    /\ UNCHANGED <<history, streamed, base, asked, calls, turns, pause>>

\* LoopAgent.RunAsyncImpl
Iterate ==
    /\ Running("run") /\ Kind[Top.agent] = "loop"
    /\ CASE Top.exit \/ Top.iter = MaxIterations ->
              Continue([Top EXCEPT !.at = "after"])
         [] ~Top.exit /\ Top.iter < MaxIterations /\ Top.sub < Len(Subs[Top.agent]) ->
              Push([Top EXCEPT !.sub = @ + 1, !.exit = FALSE], Subs[Top.agent][Top.sub + 1])
         [] OTHER ->
              Continue([Top EXCEPT !.sub = 0, !.iter = @ + 1])
    /\ UNCHANGED <<history, streamed, base, asked, calls, turns, pause>>

-----------------------------------------------------------------------------
(* LlmAgent.RunAsyncImpl                                                   *)

Emit(e, end) == [do |-> "emit", event |-> e, end |-> end]
CallTools(long) == [do |-> "tools", long |-> long]
GoTo(a) == [do |-> "go", to |-> a]

\* PostprocessAsync of one response: its event, then the call it brings.
Handle(r) ==
    LET a == Top.agent IN
    CASE r = "empty"             -> << >>
      [] r \in {"text", "chunk"} -> <<Emit(Event(a, r, 0, FALSE), FALSE)>>
      [] r \in CallKinds         -> <<Emit(Event(a, r, calls + 1, FALSE), FALSE),
                                     CallTools(r = "longCall")>>

\* A model call brings one more function call while the bound allows it.
Allowed(r) == r \in CallKinds => calls < MaxCalls
Count(r) == calls' = IF r \in CallKinds THEN calls + 1 ELSE calls
Own(r) == Top.own \cup (IF r \in CallKinds THEN {calls + 1} ELSE {})

AtStep == Running("run") /\ Kind[Top.agent] = "llm"

\* A mutant: continue in place of break.
ContinueLoop ==
    /\ AtStep /\ Top.end
    /\ Continue(Top)
    /\ UNCHANGED <<history, streamed, base, asked, calls, turns, pause>>

LeaveLoop ==
    /\ AtStep /\ Top.end
    /\ Continue([Top EXCEPT !.at = "after"])
    /\ UNCHANGED <<history, streamed, base, asked, calls, turns, pause>>

\* A before-model callback answers; the call is not counted.
ShortCircuit(r) ==
    /\ AtStep /\ ~Top.end /\ Allowed(r)
    /\ Continue([Top EXCEPT !.at = "stream", !.last = "none", !.left = 0,
                            !.todo = Handle(r), !.own = Own(r)])
    /\ Count(r)
    /\ UNCHANGED <<history, streamed, base, asked, turns, pause>>

\* IncrementLlmCallCount throws above the limit.
CallLlm ==
    /\ AtStep /\ ~Top.end
    /\ IF MaxLlmCalls > 0 /\ Top.calls = MaxLlmCalls
         THEN Throw /\ UNCHANGED asked
         ELSE /\ Continue([Top EXCEPT !.at = "stream", !.last = "none", !.left = MaxResponses,
                                      !.calls = IF MaxLlmCalls > 0 THEN @ + 1 ELSE @])
              /\ asked' = asked + 1
    /\ UNCHANGED <<history, streamed, base, calls, turns, pause>>

Idle(f) == f.todo = << >>

Respond(r) ==
    /\ Running("stream") /\ Idle(Top) /\ Top.left > 0 /\ Allowed(r)
    /\ Continue([Top EXCEPT !.left = @ - 1, !.todo = Handle(r), !.own = Own(r)])
    /\ Count(r)
    /\ UNCHANGED <<history, streamed, base, asked, turns, pause>>

\* The model fails: an error callback recovers with a last response, or the
\* turn is over.
RecoverModel(r) ==
    /\ Running("stream") /\ Idle(Top) /\ Top.left > 0 /\ Allowed(r)
    /\ Continue([Top EXCEPT !.left = 0, !.todo = Handle(r), !.own = Own(r)])
    /\ Count(r)
    /\ UNCHANGED <<history, streamed, base, asked, turns, pause>>

FailModel ==
    /\ Running("stream") /\ Idle(Top) /\ Top.left > 0
    /\ Throw
    /\ UNCHANGED <<history, streamed, base, asked, calls, turns, pause>>

\* The stream is over: another step only after an event that is not final.
EndStep ==
    /\ Running("stream") /\ Idle(Top)
    /\ Continue([Top EXCEPT !.left = 0,
                   !.at = IF Top.last \in {"none", "final", "chunk"} THEN "after" ELSE "run"])
    /\ UNCHANGED <<history, streamed, base, asked, calls, turns, pause>>

\* A mutant: no yield break after the confirmation request.
StepsOnwards(o, c, to) ==
    LET response == Emit(Event(Top.agent, "response", c, FALSE), FALSE)
        confirm  == Emit(Event(Top.agent, "confirm", 0, FALSE), TRUE)
    IN  IF o = "confirm" THEN <<confirm, response>> ELSE <<response>>

\* What PostprocessAsync yields for the outcome of call c, in order.
Steps(o, c, to) ==
    LET a        == Top.agent
        response == Emit(Event(a, "response", c, o = "escalate"), FALSE)
        skipped  == Emit(Event(a, "skipped", c, o = "exit"), FALSE)
        auth     == Emit(Event(a, "auth", 0, FALSE), TRUE)
        confirm  == Emit(Event(a, "confirm", 0, FALSE), TRUE)
        text     == Emit(Event(a, "text", 0, FALSE), TRUE)
    IN CASE o \in {"plain", "escalate"} -> <<response>>
         [] o \in {"skip", "exit"}      -> <<skipped>>
         [] o = "none"                  -> << >>
         [] o = "end"                   -> <<[response EXCEPT !.end = TRUE]>>
         [] o = "auth"                  -> <<auth, response>>
         [] o = "confirm"               -> <<confirm>>
         [] o = "authConfirm"           -> <<auth, confirm>>
         [] o = "structured"            -> <<response, text>>
         [] o = "transfer"              -> <<response, GoTo(to)>>
         [] o = "authTransfer"          -> <<auth, response, GoTo(to)>>

Doing(d) == Running("stream") /\ ~Idle(Top) /\ Head(Top.todo).do = d

EmitEvent ==
    /\ Doing("emit")
    /\ Yield([Top EXCEPT !.todo = Tail(@), !.end = @ \/ Head(Top.todo).end],
             Head(Top.todo).event)
    /\ UNCHANGED <<history, streamed, base, asked, calls, turns, pause>>

\* A mutant: PauseOnToolCalls without EndInvocation.
PauseCalls(o, to) ==
    /\ Doing("tools")
    /\ o = "none" => Head(Top.todo).long
    /\ Continue([Top EXCEPT !.todo = IF pause THEN << >> ELSE Steps(o, calls, to)])
    /\ UNCHANGED <<history, streamed, base, asked, calls, turns, pause>>

\* Only a long-running tool that threw and was not recovered leaves no response.
HandleCalls(o, to) ==
    /\ Doing("tools")
    /\ o = "none" => Head(Top.todo).long
    /\ IF pause
         THEN Continue([Top EXCEPT !.todo = << >>, !.end = TRUE])
         ELSE Continue([Top EXCEPT !.todo = Steps(o, calls, to)])
    /\ UNCHANGED <<history, streamed, base, asked, calls, turns, pause>>

\* A name that is not in the tree throws, as a peer does where not allowed.
Transfer ==
    /\ Doing("go")
    /\ LET to == Head(Top.todo).to
       IN  IF \/ to \notin Agents
              \/ /\ Top.agent \in DisallowPeers /\ to # Top.agent
                 /\ Parents(to) = Parents(Top.agent)
             THEN Throw
             ELSE Push([Top EXCEPT !.todo = Tail(@)], to)
    /\ UNCHANGED <<history, streamed, base, asked, calls, turns, pause>>

-----------------------------------------------------------------------------
RunnerStep ==
    \/ StartAgent \/ EarlyExit \/ PersistEvent \/ YieldEvent \/ Abandon

AgentStep ==
    \/ \E c \in {"none", "content", "delta"} : BeforeAgent(c) \/ AfterAgent(c)
    \/ Return \/ NextSub \/ Iterate

LlmStep ==
    \/ LeaveLoop \/ CallLlm \/ FailModel \/ EndStep \/ EmitEvent \/ Transfer
    \/ \E r \in Responses : ShortCircuit(r) \/ Respond(r) \/ RecoverModel(r)
    \/ \E o \in Outcomes, to \in Targets : HandleCalls(o, to)

AtRest == pc = "idle" /\ UNCHANGED vars

Next == AtRest \/ RunnerStep \/ AgentStep \/ LlmStep
        \/ \E m \in Messages, mode \in PauseModes : StartTurn(m, mode)

\* The caller reads on or goes away, the models and tools answer or fail.
Fairness == WF_vars(RunnerStep \/ AgentStep \/ LlmStep)

Spec == Init /\ [][Next]_vars /\ Fairness

-----------------------------------------------------------------------------
EventType == [by : Agents \cup {User, Early}, kind : EventKinds, call : 0..MaxCalls,
              esc : BOOLEAN, edited : BOOLEAN]
StepType == [do : {"emit"}, event : EventType, end : BOOLEAN]
            \cup [do : {"tools"}, long : BOOLEAN] \cup [do : {"go"}, to : Targets]
FrameType == [agent : Agents, end : BOOLEAN, calls : 0..MaxLlmCalls,
              at : {"before", "run", "stream", "after", "done"},
              todo : Seq(StepType), left : 0..MaxResponses, sub : Nat,
              iter : 0..MaxIterations,
              last : {"none", "final", "chunk", "call", "response"},
              exit : BOOLEAN, from : Nat, own : SUBSET (1..MaxCalls)]

TypeOK ==
    /\ pc \in {"idle", "resume", "agent", "event", "yield"}
    /\ stack \in Seq(FrameType)
    /\ out \in Seq(EventType) /\ Len(out) <= 1
    /\ history \in Seq(EventType)
    /\ streamed \in Seq(EventType)
    /\ base \in 0..Len(history)
    /\ asked \in Nat
    /\ calls \in 0..MaxCalls
    /\ turns \in 0..MaxTurns
    /\ pause \in BOOLEAN

\* The events of s that are not partial.
Kept(s) ==
    LET kept[n \in 0..Len(s)] ==
            IF n = 0 THEN << >>
            ELSE IF s[n].kind = "chunk" THEN kept[n - 1] ELSE Append(kept[n - 1], s[n])
    IN  kept[Len(s)]

\* The session's history is exactly what the caller was given, in order and
\* as the plugins changed it, without the partial events: the comment on
\* the runner's onEvent call.  The event being yielded is persisted already.
HistoryMatchesStream ==
    SubSeq(history, base + 1, Len(history)) =
        Kept(streamed \o (IF pc = "yield" THEN out ELSE << >>))

\* A tool's response follows the call it answers, of the same agent, with at
\* most the authentication request between them, and answers it alone: the
\* history a model is shown pairs calls and responses.
ResponsesFollowCalls ==
    \A j \in 1..Len(history) :
        history[j].kind \in {"response", "skipped"} =>
            /\ \E i \in 1..j - 1 :
                 /\ history[i].kind \in CallKinds
                 /\ history[i].call = history[j].call
                 /\ history[i].by = history[j].by
                 /\ \A k \in i + 1..j - 1 : history[k].kind = "auth"
            /\ \A i \in 1..j - 1 :
                 history[i].call = history[j].call => history[i].kind \in CallKinds

\* No agent asks its model while EndInvocation is set in its own context or
\* in that of an agent that runs it: a transfer made after the invocation
\* was interrupted starts an agent that does nothing.
EndedFrameAsksNothing ==
    [][asked' > asked => \A i \in DOMAIN stack : ~stack[i].end]_vars

\* An agent asks its model again only when each call the model made in this
\* run of the agent has its response, long-running ones excepted: pausing,
\* interrupting and transferring never leave a call open under a next request.
\* (A run of the same agent inside this one may leave its own call open.)
AnsweredBeforeNextCall ==
    [][asked' > asked =>
         \A i \in 1..Len(history) :
            history[i].kind = "call" /\ history[i].call \in Top.own =>
              \E j \in i + 1..Len(history) :
                 IsAnswer(history[j]) /\ history[j].call = history[i].call]_vars

\* After an event that escalates, whatever events follow it, no loop around
\* the agent that yielded it starts another of its sub-agents.
EscalateEndsLoops ==
    [][\A i \in DOMAIN stack :
         /\ Kind[stack[i].agent] = "loop"
         /\ \E j \in stack[i].from + 1..Len(history) : history[j].esc
         => ~(Len(stack) = i /\ Len(stack') = i + 1)]_vars

\* The result of a call that the user sends goes to the agent that made the
\* call, whoever spoke last and however deep in the tree that agent is.
AnswerReachesCaller ==
    (stack # << >> /\ base > 0 /\ history[base].kind = "answer")
    => \E i \in 1..base - 1 : /\ history[i].kind \in CallKinds
                              /\ history[i].call = history[base].call
                              /\ stack[1].agent = history[i].by

\* Every turn ends: when the agents stop, when one of them fails or when the
\* caller goes away.
TurnEnds == pc # "idle" ~> pc = "idle"

\* RunConfig: "A limit on the total number of LLM calls for a given run."
LlmCallLimit == MaxLlmCalls > 0 => asked <= MaxLlmCalls

\* PostprocessAsync after the authentication event: "Interrupt the invocation
\* so the client can perform the auth flow and resume.  Without this the run
\* loop would issue another LLM call."
AuthInterrupts ==
    [][asked' > asked => \A i \in base + 1..Len(history) : history[i].kind # "auth"]_vars
=============================================================================
