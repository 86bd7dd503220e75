---------------------------- MODULE LiveSession ----------------------------
(***************************************************************************)
(* One live session: LlmAgent.RunLiveAsync with the LiveRequestQueue the   *)
(* client fills.  A run connects to the model, starts a task that sends    *)
(* the queue's requests to that connection, and receives until the model   *)
(* ends it; a dropped connection is replaced.  A tool's response goes back *)
(* to the model through the same queue.  An agent the model transfers to   *)
(* runs live inside the run that called the tool: runs are nested frames,  *)
(* and every one keeps its connection and its sending task.                *)
(*                                                                         *)
(* Abstractions: of what the model says only tool calls count; callbacks   *)
(* and the session's history are left out; the history sent after a        *)
(* connect is part of it.  The connection is the native one; the streaming *)
(* one is a connection that neither ends nor drops.                        *)
(***************************************************************************)
EXTENDS Integers, Sequences, FiniteSets

CONSTANTS MaxReconnects, \* maxReconnectAttempts
          MaxDepth,      \* bound: runs inside one another
          MaxRequests,   \* bound: requests of the client
          MaxCalls,      \* bound: tool calls of the models
          None

ASSUME LiveSessionAssumption ==
    /\ MaxReconnects \in Nat /\ MaxDepth \in Nat \ {0}
    /\ MaxRequests \in Nat /\ MaxCalls \in Nat

VARIABLES
    queue,     \* the LiveRequestQueue's channel
    closed,    \* the channel is completed
    cancelled, \* the run's CancellationToken
    said,      \* what the client has enqueued
    calls,     \* tool calls the models have made
    pc,        \* where the innermost run is
    depth,     \* the number of runs, the innermost is the last
    ending,    \* why the innermost run's receive loop has stopped
    respond,   \* the response on its way out, and the run that sends it next
    frame,     \* the connection and sending task of each run
    conns,     \* connections made so far
    handed,    \* the requests each connection was given
    lost       \* the requests each connection failed to send

vars == <<queue, closed, cancelled, said, calls, pc, depth, ending, respond,
          frame, conns, handed, lost>>

Frames == 1..MaxDepth
Requests == [from : {"client", "close"}, n : 1..MaxRequests]
               \cup [from : {"tool"}, n : Nat]
ASSUME NoneAssumption == None \notin Requests
Over == pc \in {"over", "failed"}

\* A run that has no connection; inbox counts the tool calls not yet received.
Idle == [conn |-> 0, link |-> "none", inbox |-> 0, sender |-> "ended",
         held |-> None, attempt |-> 0]

Init ==
    /\ queue = << >> /\ closed = FALSE /\ cancelled = FALSE
    /\ said = << >> /\ calls = 0
    /\ pc = "connect" /\ depth = 1 /\ ending = "none"
    /\ respond = [call |-> 0, at |-> 0]
    /\ frame = [f \in Frames |-> Idle]
    /\ conns = 0 /\ handed = << >> /\ lost = << >>

-----------------------------------------------------------------------------
(* The client: requests, the queue's Close, and the token.                 *)

\* WriteAsync on a completed channel throws and the client knows.
Enqueue(from) ==
    /\ Len(said) < MaxRequests /\ ~closed
    /\ queue' = Append(queue, [from |-> from, n |-> Len(said) + 1])
    /\ said' = Append(said, from)
    /\ UNCHANGED <<closed, cancelled, calls, pc, depth, ending, respond, frame,
                   conns, handed, lost>>

Close ==
    /\ ~closed
    /\ closed' = TRUE
    /\ UNCHANGED <<queue, cancelled, said, calls, pc, depth, ending, respond, frame,
                   conns, handed, lost>>

Cancel ==
    /\ ~cancelled /\ ~Over
    /\ cancelled' = TRUE
    /\ UNCHANGED <<queue, closed, said, calls, pc, depth, ending, respond, frame,
                   conns, handed, lost>>

-----------------------------------------------------------------------------
(* The model's side of a connection: calls a tool, ends, or drops.         *)

SetFrame(f, g) == frame' = [frame EXCEPT ![f] = g]

Server(f) ==
    /\ frame[f].link = "up"
    /\ \/ /\ calls < MaxCalls
          /\ calls' = calls + 1
          /\ SetFrame(f, [frame[f] EXCEPT !.inbox = @ + 1])
       \/ /\ \E link \in {"ended", "dropped"} :
                SetFrame(f, [frame[f] EXCEPT !.link = link])
          /\ UNCHANGED calls
    /\ UNCHANGED <<queue, closed, cancelled, said, pc, depth, ending, respond,
                   conns, handed, lost>>

-----------------------------------------------------------------------------
(* A run's sending task.                                                   *)

\* sendCts of run f.
SendCancelled(f) == cancelled \/ (f = depth /\ pc = "stop")

\* ReadAllAsync.  The inner loop, which runs on after a request was sent,
\* does not look at the token; a Close request ends the task.
Take(f) ==
    /\ frame[f].held = None /\ queue # << >>
    /\ \/ frame[f].sender = "waiting" /\ ~SendCancelled(f)
       \/ frame[f].sender = "reading"
    /\ queue' = Tail(queue)
    /\ SetFrame(f, IF Head(queue).from = "close"
                   THEN [frame[f] EXCEPT !.sender = "ended"]
                   ELSE [frame[f] EXCEPT !.held = Head(queue)])
    /\ UNCHANGED <<closed, cancelled, said, calls, pc, depth, ending, respond, conns,
                   handed, lost>>

\* The connection takes the request; one whose drop nobody has noticed may.
Hand(f) ==
    /\ frame[f].held # None
    /\ frame[f].link \in {"up", "dropped"} /\ ~SendCancelled(f)
    /\ handed' = [handed EXCEPT ![frame[f].conn] = Append(@, frame[f].held)]
    /\ SetFrame(f, [frame[f] EXCEPT !.held = None, !.sender = "reading"])
    /\ UNCHANGED <<queue, closed, cancelled, said, calls, pc, depth, ending, respond,
                   conns, lost>>

\* A mutant: the request goes back to the queue.
FailAndRequeue(f) ==
    /\ frame[f].held # None
    /\ queue' = Append(queue, frame[f].held)
    /\ SetFrame(f, [frame[f] EXCEPT !.held = None, !.sender = "ended"])
    /\ UNCHANGED <<closed, cancelled, said, calls, pc, depth, ending, respond,
                   conns, handed, lost>>

\* Sending throws: the task faults and the request is gone.  It may throw on a
\* healthy connection too: the request is serialized first, and a tool's
\* response may be anything.
FailToSend(f) ==
    /\ frame[f].held # None
    /\ lost' = [lost EXCEPT ![frame[f].conn] = @ \cup {frame[f].held}]
    /\ SetFrame(f, [frame[f] EXCEPT !.held = None, !.sender = "ended"])
    /\ UNCHANGED <<queue, closed, cancelled, said, calls, pc, depth, ending, respond,
                   conns, handed>>

\* TryRead finds nothing: WaitToReadAsync again.
ReadNothing(f) ==
    /\ frame[f].sender = "reading" /\ frame[f].held = None /\ queue = << >>
    /\ SetFrame(f, [frame[f] EXCEPT !.sender = "waiting"])
    /\ UNCHANGED <<queue, closed, cancelled, said, calls, pc, depth, ending, respond,
                   conns, handed, lost>>

EndSending(f) ==
    /\ frame[f].sender = "waiting" /\ frame[f].held = None
    /\ SendCancelled(f) \/ (closed /\ queue = << >>)
    /\ SetFrame(f, [frame[f] EXCEPT !.sender = "ended"])
    /\ UNCHANGED <<queue, closed, cancelled, said, calls, pc, depth, ending, respond,
                   conns, handed, lost>>

Sender(f) == Take(f) \/ Hand(f) \/ FailToSend(f) \/ ReadNothing(f) \/ EndSending(f)

-----------------------------------------------------------------------------
(* RunLiveAsyncImpl of the innermost run.                                  *)

\* A mutant: the exception leaves every run and no finally block runs.
EscapeAll == pc' = "failed" /\ ending' = "none" /\ UNCHANGED depth

\* An exception leaves the innermost run.  In the run around it, which is in
\* the body of its receive loop, only the finally block sees it.
Escape ==
    IF depth = 1 THEN pc' = "failed" /\ ending' = "none" /\ UNCHANGED depth
                 ELSE pc' = "stop" /\ ending' = "fail" /\ depth' = depth - 1

\* A mutant: the sending task is started for the first connection only.
ConnectAgain ==
    /\ pc = "connect"
    /\ conns' = conns + 1
    /\ SetFrame(depth, [frame[depth] EXCEPT !.conn = conns + 1, !.link = "up",
                           !.sender = IF @ = "ended" /\ frame[depth].attempt > 0
                                      THEN "ended" ELSE "waiting"])
    /\ handed' = Append(handed, << >>) /\ lost' = Append(lost, {})
    /\ pc' = "receive"
    /\ UNCHANGED <<queue, closed, cancelled, said, calls, depth, ending, respond>>

Connect ==
    /\ pc = "connect"
    /\ conns' = conns + 1
    /\ SetFrame(depth, [frame[depth] EXCEPT !.conn = conns + 1, !.link = "up",
                                            !.sender = "waiting"])
    /\ handed' = Append(handed, << >>) /\ lost' = Append(lost, {})
    /\ pc' = "receive"
    /\ UNCHANGED <<queue, closed, cancelled, said, calls, depth, ending, respond>>

\* The call limit, ConnectAsync or SendHistoryAsync throws, outside the try.
FailToConnect ==
    /\ pc = "connect"
    /\ Escape
    /\ SetFrame(depth, Idle)
    /\ UNCHANGED <<queue, closed, cancelled, said, calls, respond, conns, handed, lost>>

\* A tool call arrives: the tool runs and its response goes out; the run
\* pauses on the call or asks for a confirmation first, and the loop goes on,
\* it does not look at EndInvocation; or a tool or its callback throws.  A
\* caller that, given this event, leaves the iterator ends the run the same
\* way: of it and the runs around it only the finally blocks go on.
Receive ==
    /\ pc = "receive" /\ frame[depth].inbox > 0
    /\ SetFrame(depth, [frame[depth] EXCEPT !.inbox = @ - 1])
    /\ \/ /\ pc' = "respond" /\ respond' = [call |-> respond.call + 1, at |-> depth]
          /\ UNCHANGED ending
       \/ UNCHANGED <<pc, ending, respond>>
       \/ pc' = "stop" /\ ending' = "fail" /\ UNCHANGED respond
    /\ UNCHANGED <<queue, closed, cancelled, said, calls, depth, conns, handed, lost>>

\* Every run the response's event passes enqueues its content, from the
\* innermost out.
EnqueueResponse ==
    /\ pc = "respond" /\ respond.at > 0 /\ ~closed /\ ~cancelled
    /\ queue' = Append(queue, [from |-> "tool", n |-> respond.call])
    /\ respond' = [respond EXCEPT !.at = @ - 1]
    /\ UNCHANGED <<closed, cancelled, said, calls, pc, depth, ending, frame, conns,
                   handed, lost>>

\* The queue is completed or the token cancelled: WriteAsync throws.
FailToRespond ==
    /\ pc = "respond" /\ respond.at > 0
    /\ closed \/ cancelled
    /\ pc' = "stop" /\ ending' = "fail"
    /\ respond' = [respond EXCEPT !.at = 0]
    /\ UNCHANGED <<queue, closed, cancelled, said, calls, depth, frame, conns, handed,
                   lost>>

\* After the response: back to receiving, or a transfer and its run; or the
\* transfer is to an agent that is not there or not allowed, which throws, or
\* the caller leaves the iterator at the response.
GoOn ==
    /\ pc = "respond" /\ respond.at = 0
    /\ \/ pc' = "receive" /\ UNCHANGED <<depth, ending>>
       \/ depth < MaxDepth /\ pc' = "connect" /\ depth' = depth + 1 /\ UNCHANGED ending
       \/ pc' = "stop" /\ ending' = "fail" /\ UNCHANGED depth
    /\ UNCHANGED <<queue, closed, cancelled, said, calls, respond, frame, conns, handed,
                   lost>>

\* The receive loop ends; what the connection has received is read first.
LeaveLoop(why) ==
    /\ pc = "receive"
    /\ pc' = "stop" /\ ending' = why
    /\ UNCHANGED <<queue, closed, cancelled, said, calls, depth, respond, frame, conns,
                   handed, lost>>

Drained(link) == frame[depth].link = link /\ frame[depth].inbox = 0

ServerEnded == Drained("ended") /\ LeaveLoop("end")

Dropped == /\ Drained("dropped")
           /\ LeaveLoop(IF ~cancelled /\ frame[depth].attempt < MaxReconnects
                        THEN "reconnect" ELSE "fail")

ReceiveCancelled == cancelled /\ LeaveLoop("fail")

\* The finally block cancels the sending task and waits for it; the
\* connection is disposed.
Stopped(next) ==
    /\ pc = "stop" /\ frame[depth].sender = "ended" /\ frame[depth].held = None
    /\ SetFrame(depth, next)
    /\ UNCHANGED <<queue, cancelled, said, calls, respond, conns, handed, lost>>

Reconnect ==
    /\ ending = "reconnect"
    /\ Stopped([Idle EXCEPT !.attempt = frame[depth].attempt + 1])
    /\ pc' = "connect" /\ ending' = "none"
    /\ UNCHANGED <<closed, depth>>

\* The run ends and closes the queue; the run around it receives again.
EndRun ==
    /\ ending = "end"
    /\ Stopped(Idle)
    /\ closed' = TRUE /\ ending' = "none"
    /\ IF depth = 1 THEN pc' = "over" /\ UNCHANGED depth
                    ELSE pc' = "receive" /\ depth' = depth - 1

Throw ==
    /\ ending = "fail"
    /\ Stopped(Idle)
    /\ Escape
    /\ UNCHANGED closed

Loop == \/ Connect \/ FailToConnect \/ Receive \/ EnqueueResponse \/ FailToRespond
        \/ GoOn \/ ServerEnded \/ Dropped \/ ReceiveCancelled
        \/ Reconnect \/ EndRun \/ Throw

Next == \/ \E from \in {"client", "close"} : Enqueue(from)
        \/ Close \/ Cancel \/ Loop
        \/ \E f \in Frames : Server(f) \/ Sender(f)

\* The run and the sending tasks go on; neither the client nor the model has to.
Spec == /\ Init /\ [][Next]_vars
        /\ WF_vars(Loop) /\ \A f \in Frames : WF_vars(Sender(f))

-----------------------------------------------------------------------------
TypeOK ==
    /\ queue \in Seq(Requests) /\ closed \in BOOLEAN /\ cancelled \in BOOLEAN
    /\ said \in Seq({"client", "close"}) /\ Len(said) <= MaxRequests
    /\ calls \in 0..MaxCalls
    /\ pc \in {"connect", "receive", "respond", "stop", "over", "failed"}
    /\ ending \in {"none", "reconnect", "end", "fail"}
    /\ (pc = "stop") <=> (ending # "none")
    /\ depth \in Frames
    /\ respond \in [call : Nat, at : 0..MaxDepth] /\ respond.at <= depth
    /\ conns \in Nat
    /\ frame \in [Frames -> [conn : 0..conns, link : {"none", "up", "ended", "dropped"},
                             inbox : Nat, sender : {"waiting", "reading", "ended"},
                             held : Requests \cup {None}, attempt : 0..MaxReconnects]]
    /\ handed \in Seq(Seq(Requests)) /\ Len(handed) = conns
    /\ lost \in Seq(SUBSET Requests) /\ Len(lost) = conns
    \* Nothing sends for a run that has no connection.
    /\ \A f \in Frames : frame[f].link = "none" =>
           frame[f].sender = "ended" /\ frame[f].held = None
    /\ \A f \in Frames : f > depth \/ Over => frame[f] = Idle

\* A request the client made is in one place: in the queue, with one sending
\* task, with one connection, or lost.  A connection gets its requests in the
\* client's order, and loses one at most, the last it was to send: stopping a
\* run, reconnecting and running several sending tasks on the one queue
\* neither repeat nor overtake what the user said (RunLiveAsyncImpl's finally
\* block and LiveRequestQueue.ReadAllAsync).
Places(q) ==
    ({"queue"} \X {0} \X {i \in DOMAIN queue : queue[i] = q})
        \cup ({"sending"} \X {f \in Frames : frame[f].held = q} \X {0})
        \cup ({"lost"} \X {c \in 1..conns : q \in lost[c]} \X {0})
        \cup UNION {{"handed"} \X {c} \X {i \in DOMAIN handed[c] : handed[c][i] = q} :
                        c \in 1..conns}

\* Of the client's requests, q came before r.
Before(q, r) == q.from = "client" /\ r.from = "client" => q.n < r.n

SaidOnceInOrder ==
    /\ \A n \in DOMAIN said :
           said[n] = "client" => Cardinality(Places([from |-> "client", n |-> n])) = 1
    /\ \A c \in 1..conns :
           /\ \A i, j \in DOMAIN handed[c] : i < j => Before(handed[c][i], handed[c][j])
           /\ \A q \in lost[c] : /\ \A i \in DOMAIN handed[c] : Before(handed[c][i], q)
                                 /\ \A r \in lost[c] : r = q

\* The innermost run's sending task has faulted on a connection that is still
\* up: nobody looks at the task, and the receive loop goes on without it.
Unheard == frame[depth].link = "up" /\ lost[frame[depth].conn] # {}

\* What the client has enqueued is taken from the queue or the session is
\* over, unless the client ended a sending task with a Close request or one
\* faulted on a connection that is up: neither a dropped connection, nor a
\* reconnect after a fault, nor a nested run leaves the queue without a reader
\* (every connection starts a sending task).
AcceptedIsTaken ==
    \A n \in 1..MaxRequests :
        n \in DOMAIN said ~> \/ \A i \in DOMAIN queue : queue[i] # [from |-> "client", n |-> n]
                             \/ \E m \in DOMAIN said : said[m] = "close"
                             \/ Unheard \/ Over

\* docs/streaming.md: closing the queue "signals the live loop to exit
\* cleanly".  Closing only ends the sending tasks.
CloseEnds == closed ~> Over
=============================================================================
