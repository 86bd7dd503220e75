# TLA+ models of the .NET Agent Development Kit

Models of the core of GoogleAdk (`src/src/GoogleAdk.Core`, `GoogleAdk.Core.Abstractions`) and of its
database services (`GoogleAdk.Sessions.EfCore`): how a message of a user becomes a turn of an agent tree, how
the events of that turn reach the session and the caller, how a tool waits for the user over several
turns, how concurrent turns share sessions and artifacts, and how a live session keeps what the user says. They are written from the C# code; a comment
of a property names the behaviour it is about, and `PROJECT.json` maps every definition to the lines it
stands for.

Run a model with `tlc -config MCSessionService.cfg MCSessionService`, check a proof with
`tlapm SessionServiceProofs.tla`.

## 1. Inventory

| Component (src/src/...) | State | Operations | What makes it hard | What makes it correct |
|---|---|---|---|---|
| `InMemorySessionService`, `BaseSessionService` | sessions by app, user and id; app and user state; a semaphore per id | create, get, append, delete, list | concurrent callers; a semaphore that a delete removes; copies that callers keep; unsynchronised clone | one writer per session; no stored event lost; state agrees with history; order kept; calls return |
| `Runner` | none of its own; the session | `RunAsync`, `RunLiveAsync`, resumption | plugins change events; the caller may leave between two events; the next turn starts where the last one stopped | stored history = what was streamed; an answer reaches the caller of the call |
| `BaseAgent`, `SequentialAgent`, `LoopAgent`, `InvocationContext` | a context per running agent | run, callbacks, transfer | flags copied by value down the tree; escalation through nested agents | an ended context asks nothing; escalation ends the loops around it; turns end |
| `LlmAgent` | todo of a model response | run loop, model call, postprocessing, transfer | early exits between auth, confirmation, response and transfer; errors recovered by callbacks | calls and responses pair; no model call over an open call |
| `FunctionCallHandler` | a task per call, a semaphore, one merged event | handle, auth and confirmation events | concurrent tools, failing callbacks, a limit on workers | permits conserved; each call answered once, in order; nothing runs on |
| `ParallelAgent` | a task per sub-agent, an unbounded channel | run | tasks go on before the runner has appended their events; failure, cancellation | an ordered, complete merge; isolated branches; all tasks end |
| request processors (content, auth, confirmation, transfer, cache, compaction, code execution), `SecurityPlugin` | the request; session events; a credential for the turn | `RunAsync` before each model call | read history while it grows; look for what earlier turns left open | a tool runs once for each approval and no call is forgotten; requests hold the agent's own history |
| `PluginManager` | registered plugins | a callback for each stage | order relative to the agent's callbacks | the first answer wins |
| `EfCoreSessionService` | tables for sessions, events, state | as in memory | rows read one by one, saved together; read-modify-write of JSON state without a concurrency token | a session store; values lost to overlapping writers only; a copy's state comes from its events |
| artifact services (memory, file, GCS, EF) | versions of a file | save, load, list, delete | version numbers computed before the write; content after the directory | a returned version loads what was saved; what lists as a version is complete |
| live sessions (`LiveRequestQueue`, `LlmAgent.RunLiveAsync`) | a queue, a connection and a sending task per nested run | enqueue, close, connect, send, receive, reconnect | a drop between taking a request and sending it; several sending tasks on one queue | what the user says is sent once, in order, by someone; a session ends |
| A2A (`A2aAgentExecutor`, aggregator, remote agent) | partial artifact ids, aggregated task state | execute | one executor, concurrent tasks | artifact ids stay with their task; terminal state right |
| compaction, context cache | compacted events; cache metadata | should compact, compact; validate, create, apply | never split call and response; stale caches | nothing lost between summaries |
| `AgentTool` | a child session of the same id | run | parallel calls of one tool | runs do not share a session |
| API server, memory, auth, evaluation, models, MCP/OpenAPI tools, generators, console, telemetry, skills | caches, I/O | | mostly I/O and conversion | |

How they interact. A caller (console, API server, A2A executor) calls `Runner.RunAsync`. The runner takes a
copy of the session from the session service, appends the user's event, chooses the agent and runs
its async iterator. Agents nest by iterating the iterators of their sub-agents; an event therefore
travels down the stack of iterators to the runner, which lets the plugins replace it, appends it to its
copy and to the store, and yields it. Only `ParallelAgent` and `FunctionCallHandler` start tasks. All
agents of a run share the runner's copy of the session, and concurrent runs share the service.

## 2. Plan

In order of importance; 1 to 8 are built, each with the proofs of its safety properties.

1. `SessionService` (detailed) and `SessionStore` (abstract), with proofs.
2. `Invocation`: runner, agent tree and LLM agent as one stack machine, over several turns, with proofs.
3. `ParallelAgent` and `OrderedMerge`, with proofs.
4. `FunctionCalls`: the handler's tasks and its semaphore, with proofs.
5. `HumanInTheLoop`: confirmation and authentication over several turns, with proofs. The tasks of
   `FunctionCalls` are one step there.
6. `DatabaseSession`: the same abstract `SessionStore` implemented with rows, contexts and saves, with proofs.
7. `ArtifactVersions`: one artifact in three services, with proofs.
8. `LiveSession`: queue, connections, nested runs, reconnects, with proofs.
9. Still to do: `A2aExecutor`, `Compaction` (a pure algorithm against a reference definition), `ContextCache`,
    and `AgentTool` as a composition of `FunctionCalls` with the create-over-an-existing-key of `SessionService`.

Runs that show a single finding gave their place to the passing runs of later modules once the finding was
recorded; their instances are kept (section 4).

## 3. Modules

**SessionStore** is what any session service promises: keys name conversations, logs grow by one event at
a time, an event is committed once.

**SessionService** is `InMemorySessionService` at the grain at which concurrent callers interleave:
one action for the clone's read of the state, one for its read of the events, one for the overlay of shared state;
for an append the caller's copy, the lookup, `GetOrAdd` of the semaphore, the wait, the scoped
state, the stored state with `List.Add`'s read of the size, `List.Add`'s write, and the release. Entries
and semaphores are objects (`heap`, `locks`), because a caller may hold one that the dictionary no longer
has. `copy[t].json` is the set of scopes whose value went through the JSON round trip. A `StateDelta` has at
most one key; filters and time stamps are left out.

**Invocation** is one session driven turn after turn. C# async iterators run one at a time, so the
state is a stack of frames, one for each running agent with its own context (`end` is its
`EndInvocation`, `calls` its count of model calls). `out` is the event on its way to the runner;
`todo` of a frame is what `PostprocessAsync` still has to do for a response. `history` is the session, `streamed` what
the caller got. Tools are outcomes: a plain response, none (a long-running tool that threw and was not recovered), escalation, exit, a structured response,
authentication, confirmation, transfer, and the combinations the code treats differently. Two fields of a frame are history:
`from`, where in the session the run began, and `own`, the calls the model made in this run of the agent.
`AnsweredBeforeNextCall` is about `own`: a transfer can lead to a second run of the same agent inside the
first, and a call the inner run leaves open (paused, or interrupted for a credential) is none of the outer run's.

**OrderedMerge** is what running agents side by side promises. **ParallelAgent** has the sub-agents' tasks
(ask, read the history, call the model, call a tool), the channel, the continuation that completes it, the runner that
takes events out and appends them, cancellation and a caller that leaves.

**FunctionCalls** is `HandleFunctionCallsAsync`: a task per call, the semaphore with its queue, each callback as a
step that answers, passes or throws, and the join.

**HumanInTheLoop** is one agent over the turns of one session. `kind` says what the tool of each call wants:
nothing, `RequireConfirmation`, a confirmation of the `SecurityPlugin`, a denial, a credential. Before each model call `pc`
goes through the auth processor and the confirmation processor, which look for answers in `history` as the code
does (the last event with a user's parts; the latest answers, and the requests before them); `RunTools` executes the calls of a
response and puts out the auth event, the confirmation event or the merged response. `out` holds what the
agent has yet to yield, so that the caller can leave after every event (`Abandon`). The user may answer any request,
with yes or no, several at once, or again. `cred` is the `temp:` key of the turn.

**DatabaseSession** is `EfCoreSessionService`: every call reads its rows one action after the other (`AppendEvent`,
`ReadApp`, `ReadUser`, `GetSession`, `ReadEvents`, ...) and saves its context in one (`SaveDicts` with `SaveCreate`,
`SaveAppend`, `SaveDelete`), so other calls commit in between. A save writes a JSON column whole, where its text changed, and
fails where a key already exists or a row is gone (`Conflicts`). The events of a copy come in any order (`Reordered`): the code
sorts them by the times their callers gave them, which is not the order of the commits. `due`, `clobbered` and `mixed` are history
variables for the properties. It implements the `SessionStore` that `SessionService` implements.

**ArtifactVersions** has `InMemoryArtifactService` (the count, then `List.Add` in two steps), `EfCoreArtifactService`
(the query for the maximum, then the insert under a unique key) and `FileArtifactService` (the directory, the content, the metadata,
each file opened and written apart) side by side; `service` is fixed in `Init`. A save and a delete may fail or end half-way.
`List.Add` writes the size it read plus one, so a stale size shortens the list. Opening a file empties it (`Torn` until it is
written) and need not be refused because another caller has it open: the locks of .NET are advisory on Unix. What is written into a
file that somebody else wrote since the open may be a mixture (`Mixed`); metadata that is torn or mixed does not parse. Content and
metadata are two files in the model: an artifact named `metadata.json`, whose content the metadata overwrites
(`FileArtifactService.cs:48` and `:65`), is left out.

**LiveSession** is a stack of live runs over one `LiveRequestQueue`: `frame[f]` holds a run's connection, its
sending task and the request that task has taken. `Take`, `Hand`, `FailToSend` and `EndSending` are the sending task; `Connect`,
`Receive`, `EnqueueResponse`, `LeaveLoop`, `Stopped`, `Reconnect`, `EndRun` and `Throw` the loop of `RunLiveAsyncImpl`; `Server` the model's
side. A transfer starts a run inside the one that called the tool, which goes on with its own task
sending from the same queue. A send may throw on a connection that is up (the request is serialized first), which nobody notices:
the receive loop goes on and the queue has lost its reader (`Unheard`) until the connection ends. A run fails when a tool or a callback
throws, when a transfer names an agent that is missing or not allowed, or when the caller leaves the iterator at an event; `Receive`
and `GoOn` have these ends.

**SessionServiceProofs**, **InvocationProofs**, **ParallelAgentProofs**, **FunctionCallsProofs**, **HumanInTheLoopProofs**,
**DatabaseSessionProofs**, **ArtifactVersionsProofs** and **LiveSessionProofs** hold the theorems; the `MC...` modules hold the instances.
Operators whose comment begins with "A mutant" are not part of any specification: each is a definition changed as a
plausible bug would change it, and `PROJECT.json` says which property notices.

## 4. Runs

| Run | Instance | Shows |
|---|---|---|
| `session_service` | 2 callers, 1 user, 1 id, 2 sessions, 3 events of which one is partial, 1 delete | the invariants of the service, `StoreSpec` (refinement of SessionStore) and `AppendReturns` |
| `invocation` | root, helper with callbacks, loop around a critic; 2 calls, 2 iterations, `MaxLlmCalls` 2, one turn | pairing of calls and responses, `EndedFrameAsksNothing`, `AnsweredBeforeNextCall`, `EscalateEndsLoops`, `TurnEnds` |
| `resumption` | root, a sequence of two LlmAgents; two turns, long-running calls, chunks, plugin edits | `HistoryMatchesStream`, `AnswerReachesCaller` |
| `parallel_agent` | 2 branches, 1 tool call each | `BranchIsolated`, `MergeSpec` (refinement of OrderedMerge), `TurnEnds` |
| `function_calls` | 3 calls, 2 workers | `PermitsConserved`, `EveryCallAnswered`, `NothingRunsOn`, `HandlerEnds` |
| `human_in_the_loop` | 2 calls of any kinds, 3 messages | `RunsAreApproved`, `SiblingsRunOnce`, `NothingForgotten`, `CredentialOfTheTurn`, `AnswerResumes` |
| `policy_confirmation` | 1 call, 2 messages | `PolicyAnswerResumes` fails |
| `database_session` | 2 callers, 1 user with 2 sessions, 2 events with a `user:` key each, 1 delete | `LostOnlyByOverlap`, `CopyStateExplained`, `StoreSpec` (refinement of SessionStore) |
| `database_lost_update` | the same, sessions that begin empty | `KeysPersist` fails |
| `artifact_versions` | each service; 2 callers, 3 saves, 1 delete | `VersionKeepsSave`, `MetadataMeansComplete` |
| `live_session` | 2 nested runs, 1 reconnect each, 2 requests, 1 tool call | `SaidOnceInOrder`, `AcceptedIsTaken` |
| `live_close` | the smallest session | `CloseEnds` fails |

Seven further instances are beside the runs, each the counterexample to one property:

| Instance | Property | What fails |
|---|---|---|
| `MCSessionDelete` | `OneWriterPerSession` | a delete takes the semaphore of the id away while appends use it (`DeletesOverlap`) |
| `MCSessionReadBack` | `StateReadsBack` | session values come back from the JSON round trip under another type |
| `MCLlmLimit` | `LlmCallLimit` | the count of model calls is private to each agent's context |
| `MCAuthInterrupt` | `AuthInterrupts` | so is `EndInvocation`, which an auth request sets |
| `MCParallelHistory` | `RequestHasOwnHistory` | a branch asks its model before its own last event is in the history |
| `MCPluginRecovery` | `PluginRecovers` | the agent's error callback overwrites a plugin's recovery |
| `MCArtifactFreshVersion` | `FreshVersion` | two saves in memory get one version number |

Bounds. Two callers are what it takes for every pair of steps of the service to interleave; two sessions let
one be detached by a delete or a create while the other is current; three events give two stored ones with one between them.
Two calls in `Invocation` are one call under another (a transfer, a loop, or an answered call and a later one),
two turns one resumption. Two branches with a tool call each give a branch two requests, the second of which depends on what
the runner has appended. Three calls and two workers make a call wait while two work. Two calls with three messages let
a call and its sibling be asked about in one response or in two, and be answered together, one after the other, twice, or after
a turn that was cut off. Two sessions of one user are what it takes for two appends to share a dictionary and nothing else; one
delete with two conversations lets a session be created anew under a key somebody is using. Three saves are two that compete and one
that finds what they left. Two nested runs have two sending tasks on the one queue; a reconnect adds a third over time. The one tool
call of that run is answered in the outer run or spent on the transfer: a response of the nested run, enqueued by both loops, takes a second
call, with which the run does not end in minutes; the theorem `SaidOnce` covers it. `AcceptedIsTaken` excuses, by name, the sending task
that faulted on a connection that stays up.

`MaxEntries`, `MaxDeletes`, `MaxConvs`, `MaxTurns`, `MaxCalls`, `MaxResponses`, `MaxMessages`, `MaxDepth`, `MaxRequests` and `N` are
bounds of the models only; `MaxIterations`, `MaxLlmCalls`, `MaxWorkers` and `MaxReconnects` are settings of the code.

Every specification but that of `LiveSession` has a step `AtRest` that changes nothing where the system may really stop, so TLC's deadlock
check stays on and finds every other stop. Two instances switch it off: a live session that is over has no step left.

Fairness. A caller of the session service that is inside a call gets on (weak fairness of `Progress(t)`): nothing
in the service waits but for the semaphore, and a thread pool runs what is ready. Nobody is
obliged to call. An invocation gets on or is left by its caller: models and tools answer or fail. In
`ParallelAgent` every task, the continuation and the consumer get on; in `FunctionCalls` every
task and the join. Weak fairness is enough for the semaphore because it serves waiting tasks in order (`queue`); in
`SessionService` a semaphore has a bounded number of appends to serve. In `HumanInTheLoop` the agent gets on with a turn; the
user need never answer. In `LiveSession` the receive loop and each sending task get on when they can; neither the
client nor the model is obliged to do anything, so a session may stay open for ever.

## 5. What the violations show

Three runs end in a counterexample, each against a page of the documentation, quoted in `PROJECT.json`.

- `PolicyAnswerResumes`: a call that the `SecurityPlugin` wants confirmed is not run when the user accepts. The plugin
  (`SecurityPlugin.cs:109`) reads its own verdict from the session state, which does not survive to the answering turn; it evaluates the policy
  anew and asks again, over the answer (`docs/human-in-the-loop.md:94`).
- `KeysPersist`: of two overlapping appends that set different keys of one user, the second save writes the whole dictionary it
  read before the first (`EfCoreSessionService.cs:182`; `docs/state.md:11`, `docs/running-agents.md:48`). `LostOnlyByOverlap`
  and its theorem say how far this goes: nothing is lost in any other way.
- `CloseEnds`: closing the queue ends the sending tasks, not the receive loop (`LlmAgent.cs:506`; `docs/streaming.md:102`).

The instances listed after the runs show seven more.

`SessionService` has the constant `DeletesOverlap` for the first of those: with FALSE no delete overlaps
an append to a session of the same id, which the service itself does nothing to ensure. The passing run is under that
assumption. The theorems of `SessionServiceProofs` are about every behaviour, whatever the constant, in which no delete does
(`[]DeletesApart`).

## 6. Proofs

The constants' assumptions are the `ASSUME`s of the modules: sets and naturals of any size, model values
distinct.

*SessionService.* The six theorems have the form `Spec /\ []DeletesApart => ...`: they hold in a behaviour in
which nobody is between the two steps of a delete while somebody appends to a session of that id. The service
does not ensure that; `DeletesStayApart` shows that callers do who never overlap the two (`~DeletesOverlap`,
as in the run), and `MCSessionDelete` what happens otherwise: two writers, a lost event, no refinement.
With overlapping deletes even `TypeCorrect` is not inductive: a writer with a stale size truncates the list, and a third one then writes beyond its end,
which is why types, locks and sizes are one invariant. `Inv` has four parts. `TypeInv`: types, and the entry,
semaphore and event of a caller are there where the code dereferences them. `Locked`: a caller past `GetOrAdd`
has the semaphore the dictionary names for its id and, inside the critical section, holds it; an entry is
found under its own key only. By `DeletesApart` a semaphore is dropped only while no append of that id is under way. `Sized`: the
size that `List.Add` has read is still the length when it writes, which mutual exclusion gives. `Accounted`:
what is stored is in one list, once, and an event on its way is in none yet. From them follow
`WriterExclusion`, `NothingLost` and the step simulation `ServiceImplementsStore`, in which `AddEvent` is the
commit. Two more invariants rest on it. `Replayed`: outside a writer's two steps the state of each scope is
what the last event of the history that set it says, and a writer between them has set its own scope only;
appending one event moves the last setter of one scope (`LastSetByAppend`), whence `StateFollowsHistory`.
`Copied`: a pending event is in no copy but its caller's, and last there, so when it is stored, behind
everything, it is behind whatever precedes it in the copy too; whence `CopyKeepsOrder`.

*Invocation.* For any tree of agents, any models, tools, callbacks and plugins' edits, any number of calls,
iterations and turns. An event leaves its frame before the runner persists it, so `Inv` speaks of `Ahead`, the
history with the event that is on its way. `StepInv` is what each step in a frame's `todo` relies on: a
response is about to follow a call that is open, with only authentication requests after it, and the tools run
last. Without it pairing is not inductive, because the order of the events is fixed when the model answers and
used several events later. `OwnInv` says where each call of a run is: still to be yielded, answered, promised
an answer by a step, or the run is over. `ExitInv`: a loop knows of every escalation since it was pushed.
`StackInv`: only the top of the stack has steps to take, and an interruption reaches every frame above.
`HistoryInv`: each event follows what it answers. From `Inv` follow `ResponsesPaired`, `AnswersReachCallers`
and the three action properties; `HistoryIsStream` is inductive beside it.

*ParallelAgent.* The inductive invariant is `Inv`: types with prefix-closed requests, the control states of
runner and channel, ascending order of each branch in history, `out` and channel together (`Ascending`),
nothing beyond `written` (`Bounded`), everything written somewhere (`Complete`), and `BranchIsolated`.
`Complete` is what makes closing the channel a `Close` of `OrderedMerge`.

*FunctionCalls.* All five hold for any number of calls and workers. A release gives the permit to the head of
the queue, so the invariant adds that the queue is the waiting tasks, each once (`Queued`), and that a call
`Select` has not come to is new (`NotBegun`). `TaskShape` reduces the eight steps of a task to two, going on
with the permit (`Pass`) and giving it up (`Leave`); the cardinality of the set of working tasks changes by
one with each permit, whatever throws. For `CallsAnswered`, `Settled` says which tasks have a response, and
`Lists` that the recursive function `Answered` lists the answered calls in ascending order, each once.

*HumanInTheLoop.* For any number of calls and messages. `Types` says, besides types, that an event is about
calls made so far and that a run has calls to execute where it is about to. `HasLatest` and `HasUser` give the
`CHOOSE` of the latest event something to choose. `ApprovedInv` counts, for each gated call, the answers a run
has used (`Used`): an acceptance is used once a response to its call comes after it, and a run whose response
was lost is counted apart; a subset of the acceptances has at most as many members. `SiblingsInv`: a call
beside the one that waits is run only by `RunTools`, in the turn that made it. `CredInv`: the turn's
credential is in its own message. `ForgottenInv`, with `OutInv`, follows the events from `RunTools` until they
are yielded: the calls of a response that has been worked on are settled in history and `out` together.

*DatabaseSession.* Assumed: keys of the tables are disjoint, and events are no placeholders. `Types` includes
where each context stands; `LostInv` says that what a context has read of a row is what is `due` there, except
under names it has noted as `stale` or that are `clobbered` already; `CommitInv` that an event on its way is
in no log and has one sender; `ExplainInv` that session state is explained by its log in every row and at
every stage of a read. `ImplementsStore` is the step simulation: `SaveCreate`, `SaveAppend` and `SaveDelete`
are the commits, and reads and failing saves stutter.

*ArtifactVersions.* For any number of callers, saves and deletes. That version numbers stay in range is not
inductive by itself: two callers may take one number, and deletes lower the maximum. `CountInv` counts saves
instead: versions, and numbers found by callers that have none yet, are at most the number of saves that may
have made one (`Done`), and the caller's own is not among them. A quiet save, one that overlapped nothing, is
alone while it runs and finds what it left, a file it has opened still empty included (`QuietInv`); once it has returned nobody is about to write to its
version (`SlotInv`), since whoever looks for a number finds a later one, nor to delete it without its having
been taken from `saved` (`DeleteInv`). `LoadInv` carries this through a load's two reads.

*LiveSession.* For any number of requests, nested runs, tool calls and reconnects. `Inv`: types, where the
innermost run is (`ControlInv`), and that a sending task has a connection of its own (`LinkInv`). Over it
`QueueInv` (the client's requests ascend in the queue), `GoneInv` (what was taken came before all that is
queued), `FoundInv` and `OnceInv` (a request said is found, and in one place) and `OrderInv` (a connection's
record ascends, and the request its task holds or has lost comes after it) give `SaidOnce`.

Induction over data. The library's induction theorems take an operator as a parameter, which the provers
cannot instantiate. Where a recursive function has to be proved about (`Kept`, `Answered`, the maximum over a
directory), the proof goes by sets: the numbers have no descending chain (`NatLessThanWellFounded`, `WFMin`),
so a set of them has a least member (`LeastElement`), and a property that fails has a first place where it
fails (`UpTo`).

Model-checked only: liveness (`AppendReturns`, `TurnEnds` twice, `HandlerEnds`, `AnswerResumes`,
`AcceptedIsTaken`), which the provers do not reach. Every safety property of a passing run has a theorem.

## 7. Not modelled

See `PROJECT.json`: components with status `not_modelled` and the hazards with a note. In short:

- A2A, context compaction, the context cache and the agent tool have state worth a model and are on the plan above.
- Of the modelled components: filters and listings of the session services, which only read; the Google Cloud artifact service, whose
  atomicity is the storage's; toolset authentication and the exchange of credentials in the auth processor; state deltas of parallel tools; the
  conversion of live messages and the setup handshake.
- Code execution, memory search, models, MCP and OpenAPI tools, HTTP, evaluation, optimisation, telemetry, rendering and source generators are
  I/O, conversion or numeric scoring.
- `GoogleAdk.ApiServer/wwwroot` is the prebuilt, minified web interface of another project, served as static files.
