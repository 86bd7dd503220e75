-------------------------- MODULE LiveSessionProofs --------------------------
(***************************************************************************)
(* The live session's variables keep their types, and what the client says *)
(* is sent once and in order, for any numbers of reconnects, nested runs,  *)
(* requests and tool calls.                                                *)
(***************************************************************************)
EXTENDS LiveSession, FiniteSetTheorems, TLAPS

FrameType(n) ==
    [conn : 0..n, link : {"none", "up", "ended", "dropped"}, inbox : Nat,
     sender : {"waiting", "reading", "ended"}, held : Requests \cup {None},
     attempt : 0..MaxReconnects]

\* The parts of TypeOK, and what makes them inductive.
TypeInv ==
    /\ queue \in Seq(Requests) /\ closed \in BOOLEAN /\ cancelled \in BOOLEAN
    /\ said \in Seq({"client", "close"}) /\ Len(said) <= MaxRequests
    /\ calls \in 0..MaxCalls
    /\ pc \in {"connect", "receive", "respond", "stop", "over", "failed"}
    /\ ending \in {"none", "reconnect", "end", "fail"}
    /\ depth \in Frames
    /\ respond \in [call : Nat, at : 0..MaxDepth]
    /\ conns \in Nat
    /\ frame \in [Frames -> FrameType(conns)]
    /\ handed \in Seq(Seq(Requests)) /\ Len(handed) = conns
    /\ lost \in Seq(SUBSET Requests) /\ Len(lost) = conns

\* Where the run is, and what the frames are then: runs that have ended or not
\* begun have no connection, and a run connects only when it has none.
ControlInv ==
    /\ (pc = "stop") <=> (ending # "none")
    /\ respond.at <= depth
    /\ pc # "respond" => respond.at = 0
    /\ pc = "connect" => frame[depth].link = "none"
    /\ ending = "reconnect" => frame[depth].attempt < MaxReconnects
    /\ \A f \in Frames : f > depth \/ Over => frame[f] = Idle

\* A sending task has a connection of its own.
LinkInv ==
    /\ \A f \in Frames :
           /\ (frame[f].link = "none") <=> (frame[f].conn = 0)
           /\ frame[f].sender # "ended" => frame[f].link # "none"
           /\ frame[f].held # None => frame[f].sender # "ended"
    /\ \A f, g \in Frames :
           frame[f].conn = frame[g].conn /\ frame[f].conn # 0 => f = g

Inv == TypeInv /\ ControlInv /\ LinkInv

-----------------------------------------------------------------------------
LEMMA IdleType == ASSUME NEW n \in Nat PROVE Idle \in FrameType(n)
BY LiveSessionAssumption DEF Idle, FrameType

\* One frame is set: the others stay.
LEMMA OneFrame ==
    ASSUME TypeInv, NEW f \in Frames, NEW n \in Nat, conns <= n,
           NEW g \in FrameType(n), SetFrame(f, g)
    PROVE  /\ frame' \in [Frames -> FrameType(n)]
           /\ frame'[f] = g
           /\ \A h \in Frames : h # f => frame'[h] = frame[h]
<1>1. \A h \in Frames : frame[h] \in FrameType(n)
  BY SMTT(30) DEF TypeInv, FrameType
<1>2. QED BY <1>1 DEF TypeInv, SetFrame

\* The fields of a frame, and of a frame that is changed.
LEMMA Fields ==
    ASSUME NEW n \in Nat, NEW g \in FrameType(n)
    PROVE  /\ g.conn \in 0..n /\ g.link \in {"none", "up", "ended", "dropped"}
           /\ g.inbox \in Nat /\ g.sender \in {"waiting", "reading", "ended"}
           /\ g.held \in Requests \cup {None} /\ g.attempt \in 0..MaxReconnects
           /\ g = [conn |-> g.conn, link |-> g.link, inbox |-> g.inbox,
                   sender |-> g.sender, held |-> g.held, attempt |-> g.attempt]
BY DEF FrameType

Sets(g, r, c, l, i, s, q) ==
    /\ r.conn = c /\ r.link = l /\ r.inbox = i /\ r.sender = s /\ r.held = q
    /\ r.attempt = g.attempt

LEMMA SetInbox == ASSUME NEW n \in Nat, NEW g \in FrameType(n), NEW i \in Nat
                  PROVE  LET r == [g EXCEPT !.inbox = i]
                         IN  r \in FrameType(n) /\ Sets(g, r, g.conn, g.link, i, g.sender, g.held)
BY DEF FrameType, Sets

LEMMA SetLink ==
    ASSUME NEW n \in Nat, NEW g \in FrameType(n),
           NEW l \in {"none", "up", "ended", "dropped"}
    PROVE  LET r == [g EXCEPT !.link = l]
           IN  r \in FrameType(n) /\ Sets(g, r, g.conn, l, g.inbox, g.sender, g.held)
BY DEF FrameType, Sets

LEMMA SetSender ==
    ASSUME NEW n \in Nat, NEW g \in FrameType(n),
           NEW s \in {"waiting", "reading", "ended"}
    PROVE  LET r == [g EXCEPT !.sender = s]
           IN  r \in FrameType(n) /\ Sets(g, r, g.conn, g.link, g.inbox, s, g.held)
BY DEF FrameType, Sets

LEMMA SetHeld ==
    ASSUME NEW n \in Nat, NEW g \in FrameType(n), NEW q \in Requests
    PROVE  LET r == [g EXCEPT !.held = q]
           IN  r \in FrameType(n) /\ Sets(g, r, g.conn, g.link, g.inbox, g.sender, q)
BY DEF FrameType, Sets

LEMMA SetSent ==
    ASSUME NEW n \in Nat, NEW g \in FrameType(n),
           NEW s \in {"waiting", "reading", "ended"}
    PROVE  LET r == [g EXCEPT !.held = None, !.sender = s]
           IN  r \in FrameType(n) /\ Sets(g, r, g.conn, g.link, g.inbox, s, None)
BY DEF FrameType, Sets

LEMMA SetConnected ==
    ASSUME NEW n \in Nat, NEW m \in Nat, n <= m, NEW g \in FrameType(n), NEW c \in 0..m
    PROVE  LET r == [g EXCEPT !.conn = c, !.link = "up", !.sender = "waiting"]
           IN  r \in FrameType(m) /\ Sets(g, r, c, "up", g.inbox, "waiting", g.held)
BY DEF FrameType, Sets

LEMMA SetAttempt ==
    ASSUME NEW n \in Nat, NEW a \in 0..MaxReconnects
    PROVE  LET r == [Idle EXCEPT !.attempt = a]
           IN  r \in FrameType(n) /\ r.conn = 0 /\ r.link = "none" /\ r.inbox = 0
               /\ r.sender = "ended" /\ r.held = None /\ r.attempt = a
BY DEF FrameType, Idle

LEMMA InitInv == Init => Inv
<1> SUFFICES ASSUME Init PROVE Inv
  OBVIOUS
<1>1. TypeInv
  <2>1. frame \in [Frames -> FrameType(0)]
    BY IdleType DEF Init
  <2>2. [call |-> 0, at |-> 0] \in [call : Nat, at : 0..MaxDepth]
    BY LiveSessionAssumption
  <2>3. \A S : << >> \in Seq(S) /\ Len(<< >>) = 0
    OBVIOUS
  <2>4. 1 \in Frames /\ 0 \in 0..MaxCalls /\ 0 <= MaxRequests
    BY LiveSessionAssumption DEF Frames
  <2>5. QED BY <2>1, <2>2, <2>3, <2>4 DEF Init, TypeInv
<1>2. ControlInv
  BY LiveSessionAssumption DEF Init, ControlInv, Frames, Idle, Over
<1>3. LinkInv
  BY LiveSessionAssumption DEF Init, LinkInv, Frames, Idle
<1>4. QED BY <1>1, <1>2, <1>3 DEF Inv

LEMMA ResponseFields ==
    ASSUME NEW r \in [call : Nat, at : 0..MaxDepth], NEW a \in 0..MaxDepth
    PROVE  [r EXCEPT !.at = a] \in [call : Nat, at : 0..MaxDepth]
           /\ [r EXCEPT !.at = a].at = a /\ r.at \in 0..MaxDepth
OBVIOUS

\* The client, and the run's steps that leave the frames alone.
LEMMA EnqueueInv == ASSUME Inv, NEW from \in {"client", "close"}, Enqueue(from) PROVE Inv'
<1>1. [from |-> from, n |-> Len(said) + 1] \in Requests
  <2>1. Len(said) + 1 \in 1..MaxRequests
    BY LiveSessionAssumption DEF Inv, TypeInv, Enqueue
  <2>2. QED BY <2>1 DEF Requests
<1>2. TypeInv'
  <2>1. queue' \in Seq(Requests)
    BY <1>1 DEF Inv, TypeInv, Enqueue
  <2>2. said' \in Seq({"client", "close"}) /\ Len(said') <= MaxRequests
    BY LiveSessionAssumption DEF Inv, TypeInv, Enqueue
  <2>3. QED BY <2>1, <2>2 DEF Inv, TypeInv, Enqueue
<1>3. ControlInv'
  BY DEF Inv, ControlInv, Enqueue, Over, Idle
<1>4. LinkInv'
  BY DEF Inv, LinkInv, Enqueue
<1>5. QED BY <1>2, <1>3, <1>4 DEF Inv

\* Nothing changes but where the innermost run is.
Moves ==
    \/ Close \/ Cancel \/ GoOn \/ FailToRespond \/ EnqueueResponse
    \/ ServerEnded \/ Dropped \/ ReceiveCancelled

LEMMA MovesInv == ASSUME Inv, Moves PROVE Inv'
<1>1. UNCHANGED <<said, calls, frame, conns, handed, lost>>
  BY DEF Moves, Close, Cancel, GoOn, FailToRespond, EnqueueResponse,
         ServerEnded, Dropped, ReceiveCancelled, LeaveLoop
<1>2. LinkInv'
  BY <1>1 DEF Inv, LinkInv
<1>3. CASE Close \/ Cancel
  BY <1>1, <1>2, <1>3 DEF Inv, TypeInv, ControlInv, Close, Cancel, Over, Idle
<1>4. CASE GoOn
  <2>1. TypeInv'
    BY <1>1, <1>4, LiveSessionAssumption DEF Inv, TypeInv, GoOn, Frames
  <2>2. ControlInv'
    BY <1>1, <1>4, LiveSessionAssumption
       DEF Inv, TypeInv, ControlInv, GoOn, Frames, Over, Idle
  <2>3. QED BY <1>2, <2>1, <2>2 DEF Inv
<1>5. CASE FailToRespond
  <2>1. respond' \in [call : Nat, at : 0..MaxDepth] /\ respond'.at = 0
    BY <1>5, ResponseFields, LiveSessionAssumption DEF Inv, TypeInv, FailToRespond
  <2>2. QED
    BY <1>1, <1>2, <1>5, <2>1
       DEF Inv, TypeInv, ControlInv, FailToRespond, Over, Idle, Frames
<1>6. CASE EnqueueResponse
  <2>1. respond' \in [call : Nat, at : 0..MaxDepth] /\ respond'.at <= depth
    BY <1>6, ResponseFields, LiveSessionAssumption
       DEF Inv, TypeInv, ControlInv, EnqueueResponse, Frames
  <2>2. [from |-> "tool", n |-> respond.call] \in Requests
    BY DEF Inv, TypeInv, Requests
  <2>3. queue' \in Seq(Requests)
    BY <1>6, <2>2 DEF Inv, TypeInv, EnqueueResponse
  <2>4. QED
    BY <1>1, <1>2, <1>6, <2>1, <2>3
       DEF Inv, TypeInv, ControlInv, EnqueueResponse, Over, Idle
<1>7. CASE ServerEnded \/ Dropped \/ ReceiveCancelled
  <2>1. PICK why \in {"end", "reconnect", "fail"} :
            LeaveLoop(why) /\ (why = "reconnect" => frame[depth].attempt < MaxReconnects)
    BY <1>7 DEF ServerEnded, Dropped, ReceiveCancelled
  <2>2. QED
    BY <1>1, <1>2, <2>1 DEF Inv, TypeInv, ControlInv, LeaveLoop, Over, Idle
<1>8. QED BY <1>3, <1>4, <1>5, <1>6, <1>7 DEF Moves

\* A step of a connection or a sending task that keeps the frame's connection.
LEMMA SameConn ==
    ASSUME Inv, NEW f \in Frames, NEW g \in FrameType(conns), SetFrame(f, g),
           UNCHANGED <<pc, depth, ending, respond, conns>>,
           frame[f].link # "none" /\ g.link # "none", g.conn = frame[f].conn,
           g.attempt = frame[f].attempt, g.held # None => g.sender # "ended"
    PROVE  frame' \in [Frames -> FrameType(conns)] /\ ControlInv' /\ LinkInv'
<1>1. /\ frame' \in [Frames -> FrameType(conns)]
      /\ frame'[f] = g
      /\ \A h \in Frames : h # f => frame'[h] = frame[h]
  BY OneFrame DEF Inv, TypeInv
<1>2. ~(f > depth \/ Over)
  BY DEF Inv, ControlInv, Idle
<1>3. ControlInv'
  <2>1. \A h \in Frames : h > depth \/ Over => frame'[h] = Idle
    BY <1>1, <1>2 DEF Inv, ControlInv
  <2>2. pc' # "connect" \/ f # depth
    BY DEF Inv, ControlInv
  <2>3. depth \in Frames
    BY DEF Inv, TypeInv
  <2>4. frame'[depth].attempt = frame[depth].attempt
    BY <1>1, <2>3
  <2>5. pc = "connect" => frame'[depth].link = "none"
    BY <1>1, <2>2, <2>3 DEF Inv, ControlInv
  <2>6. QED BY <2>1, <2>4, <2>5 DEF Inv, ControlInv, Over, Idle
<1>4. LinkInv'
  <2>1. \A h \in Frames : frame'[h].conn = frame[h].conn
    BY <1>1
  <2>2. QED BY <1>1, <2>1 DEF Inv, LinkInv
<1>5. QED BY <1>1, <1>3, <1>4

\* What the model's side of a connection, or a receipt, does to a frame.
LEMMA ServerFrame ==
    ASSUME Inv, NEW f \in Frames, Server(f)
    PROVE  /\ frame[f].link # "none" /\ (frame[f].held # None => frame[f].sender # "ended")
           /\ \E g \in FrameType(conns) :
                 /\ SetFrame(f, g) /\ g.link # "none"
                 /\ g.conn = frame[f].conn /\ g.attempt = frame[f].attempt
                 /\ g.held = frame[f].held /\ g.sender = frame[f].sender
<1>1. frame[f] \in FrameType(conns) /\ conns \in Nat
  BY DEF Inv, TypeInv
<1>2. frame[f].link # "none" /\ (frame[f].held # None => frame[f].sender # "ended")
  BY DEF Server, Inv, LinkInv
<1>3. \E g \in FrameType(conns) :
          /\ SetFrame(f, g) /\ g.link # "none"
          /\ g.conn = frame[f].conn /\ g.attempt = frame[f].attempt
          /\ g.held = frame[f].held /\ g.sender = frame[f].sender
  <2>1. CASE SetFrame(f, [frame[f] EXCEPT !.inbox = @ + 1])
    <3>1. frame[f].inbox + 1 \in Nat
      BY <1>1, Fields
    <3> DEFINE g == [frame[f] EXCEPT !.inbox = frame[f].inbox + 1]
    <3>2. /\ g \in FrameType(conns)
          /\ Sets(frame[f], g, frame[f].conn, frame[f].link, frame[f].inbox + 1,
                  frame[f].sender, frame[f].held)
      BY <1>1, <3>1, SetInbox
    <3>3. SetFrame(f, g)
      BY <2>1
    <3> HIDE DEF g
    <3>4. QED BY <1>2, <3>2, <3>3 DEF Sets
  <2>2. CASE \E link \in {"ended", "dropped"} : SetFrame(f, [frame[f] EXCEPT !.link = link])
    <3>1. PICK link \in {"ended", "dropped"} : SetFrame(f, [frame[f] EXCEPT !.link = link])
      BY <2>2
    <3> DEFINE g == [frame[f] EXCEPT !.link = link]
    <3>2. /\ g \in FrameType(conns)
          /\ Sets(frame[f], g, frame[f].conn, link, frame[f].inbox, frame[f].sender,
                  frame[f].held)
      BY <1>1, SetLink
    <3>3. SetFrame(f, g)
      BY <3>1
    <3> HIDE DEF g
    <3>4. QED BY <1>2, <3>2, <3>3 DEF Sets
  <2>3. QED BY <2>1, <2>2 DEF Server
<1>4. QED BY <1>2, <1>3

LEMMA ServerInv == ASSUME Inv, NEW f \in Frames, Server(f) PROVE Inv'
<1>1. conns \in Nat
  BY DEF Inv, TypeInv
<1>2. frame' \in [Frames -> FrameType(conns)] /\ ControlInv' /\ LinkInv'
  BY <1>1, ServerFrame, SameConn DEF Server
<1>3. calls' \in 0..MaxCalls
  BY LiveSessionAssumption DEF Server, Inv, TypeInv
<1>4. QED BY <1>2, <1>3 DEF Inv, TypeInv, Server

\* What a sending task does to its frame.
LEMMA SenderFrame ==
    ASSUME Inv, NEW f \in Frames, Sender(f)
    PROVE  /\ frame[f].link # "none"
           /\ \E g \in FrameType(conns) :
                 /\ SetFrame(f, g) /\ g.link = frame[f].link /\ g.inbox = frame[f].inbox
                 /\ g.conn = frame[f].conn /\ g.attempt = frame[f].attempt
                 /\ g.held # None => g.sender # "ended"
                 /\ frame[f].sender # "ended"
                 /\ \/ Take(f) /\ g.held = IF Head(queue).from = "close" THEN None ELSE Head(queue)
                    \/ Hand(f) /\ g.held = None
                    \/ FailToSend(f) /\ g.held = None /\ g.sender = "ended"
                    \/ (ReadNothing(f) \/ EndSending(f)) /\ g.held = None /\ frame[f].held = None
<1>1. frame[f] \in FrameType(conns) /\ conns \in Nat
  BY DEF Inv, TypeInv
<1>2. frame[f].sender # "ended" /\ frame[f].link # "none"
  BY DEF Sender, Take, Hand, FailToSend, ReadNothing, EndSending, Inv, LinkInv
<1>3. CASE Take(f)
  <2>1. Head(queue) \in Requests
    BY <1>3 DEF Take, Inv, TypeInv
  <2>2. CASE Head(queue).from = "close"
    <3> DEFINE g == [frame[f] EXCEPT !.sender = "ended"]
    <3>1. /\ g \in FrameType(conns)
          /\ Sets(frame[f], g, frame[f].conn, frame[f].link, frame[f].inbox,
                  "ended", frame[f].held)
      BY <1>1, SetSender
    <3>2. SetFrame(f, g)
      BY <1>3, <2>2 DEF Take
    <3> HIDE DEF g
    <3>3. QED BY <1>2, <1>3, <2>2, <3>1, <3>2 DEF Sets, Take
  <2>3. CASE Head(queue).from # "close"
    <3> DEFINE g == [frame[f] EXCEPT !.held = Head(queue)]
    <3>1. /\ g \in FrameType(conns)
          /\ Sets(frame[f], g, frame[f].conn, frame[f].link, frame[f].inbox,
                  frame[f].sender, Head(queue))
      BY <1>1, <2>1, SetHeld
    <3>2. SetFrame(f, g)
      BY <1>3, <2>3 DEF Take
    <3> HIDE DEF g
    <3>3. QED BY <1>2, <1>3, <2>3, <3>1, <3>2 DEF Sets, Take
  <2>4. QED BY <2>2, <2>3
<1>4. CASE Hand(f)
  <2> DEFINE g == [frame[f] EXCEPT !.held = None, !.sender = "reading"]
  <2>1. /\ g \in FrameType(conns)
        /\ Sets(frame[f], g, frame[f].conn, frame[f].link, frame[f].inbox,
                "reading", None)
    BY <1>1, SetSent
  <2>2. SetFrame(f, g)
    BY <1>4 DEF Hand
  <2> HIDE DEF g
  <2>3. QED BY <1>2, <1>4, <2>1, <2>2 DEF Sets, Hand
<1>5. CASE FailToSend(f)
  <2> DEFINE g == [frame[f] EXCEPT !.held = None, !.sender = "ended"]
  <2>1. /\ g \in FrameType(conns)
        /\ Sets(frame[f], g, frame[f].conn, frame[f].link, frame[f].inbox,
                "ended", None)
    BY <1>1, SetSent
  <2>2. SetFrame(f, g)
    BY <1>5 DEF FailToSend
  <2> HIDE DEF g
  <2>3. QED BY <1>2, <1>5, <2>1, <2>2 DEF Sets, FailToSend
<1>6. CASE ReadNothing(f) \/ EndSending(f)
  <2>1. PICK s \in {"waiting", "ended"} :
            SetFrame(f, [frame[f] EXCEPT !.sender = s]) /\ frame[f].held = None
    BY <1>6 DEF ReadNothing, EndSending
  <2> DEFINE g == [frame[f] EXCEPT !.sender = s]
  <2>2. /\ g \in FrameType(conns)
        /\ Sets(frame[f], g, frame[f].conn, frame[f].link, frame[f].inbox, s, frame[f].held)
    BY <1>1, SetSender
  <2>3. SetFrame(f, g)
    BY <2>1
  <2> HIDE DEF g
  <2>4. QED BY <1>2, <1>6, <2>1, <2>2, <2>3 DEF Sets
<1>7. QED BY <1>2, <1>3, <1>4, <1>5, <1>6 DEF Sender

LEMMA SenderInv == ASSUME Inv, NEW f \in Frames, Sender(f) PROVE Inv'
<1>1. UNCHANGED <<closed, cancelled, said, calls, pc, depth, ending, respond, conns>>
  BY DEF Sender, Take, Hand, FailToSend, ReadNothing, EndSending
<1>2. frame' \in [Frames -> FrameType(conns)] /\ ControlInv' /\ LinkInv'
  BY <1>1, SenderFrame, SameConn
<1>3. frame[f].held \in Requests \cup {None} /\ frame[f].conn \in 0..conns
  BY Fields DEF Inv, TypeInv
<1>4. queue' \in Seq(Requests)
  <2>1. queue \in Seq(Requests)
    BY DEF Inv, TypeInv
  <2>2. queue # << >> => Tail(queue) \in Seq(Requests)
    BY <2>1
  <2>3. queue' = queue \/ (queue # << >> /\ queue' = Tail(queue))
    BY DEF Sender, Take, Hand, FailToSend, ReadNothing, EndSending
  <2>4. QED BY <2>1, <2>2, <2>3
<1>5. handed' \in Seq(Seq(Requests)) /\ Len(handed') = conns
  <2>1. CASE UNCHANGED handed
    BY <2>1 DEF Inv, TypeInv
  <2>2. CASE Hand(f)
    <3>1. frame[f].conn \in DOMAIN handed /\ frame[f].held \in Requests
      BY <1>3, <2>2 DEF Hand, Inv, TypeInv, LinkInv
    <3>2. handed[frame[f].conn] \in Seq(Requests)
      BY <3>1 DEF Inv, TypeInv
    <3>3. Append(handed[frame[f].conn], frame[f].held) \in Seq(Requests)
      BY <3>1, <3>2
    <3>4. QED BY <2>2, <3>1, <3>3 DEF Hand, Inv, TypeInv
  <2>3. QED BY <2>1, <2>2 DEF Sender, Take, FailToSend, ReadNothing, EndSending
<1>6. lost' \in Seq(SUBSET Requests) /\ Len(lost') = conns
  <2>1. CASE UNCHANGED lost
    BY <2>1 DEF Inv, TypeInv
  <2>2. CASE FailToSend(f)
    <3>1. frame[f].conn \in DOMAIN lost /\ frame[f].held \in Requests
      <4>1. DOMAIN lost = 1..conns /\ conns \in Nat
        BY DEF Inv, TypeInv
      <4>2. frame[f].held # None
        BY <2>2 DEF FailToSend
      <4>3. frame[f].conn # 0
        BY <4>2 DEF Inv, LinkInv
      <4>4. QED BY <1>3, <4>1, <4>2, <4>3
    <3>2. lost[frame[f].conn] \in SUBSET Requests
      <4>1. lost \in Seq(SUBSET Requests)
        BY DEF Inv, TypeInv
      <4>2. \A c \in DOMAIN lost : lost[c] \in SUBSET Requests
        BY <4>1
      <4>3. QED BY <3>1, <4>2
    <3>3. lost[frame[f].conn] \cup {frame[f].held} \in SUBSET Requests
      BY <3>1, <3>2
    <3>4. QED BY <2>2, <3>1, <3>3 DEF FailToSend, Inv, TypeInv
  <2>3. QED BY <2>1, <2>2 DEF Sender, Take, Hand, ReadNothing, EndSending
<1>7. QED BY <1>1, <1>2, <1>4, <1>5, <1>6 DEF Inv, TypeInv

LEMMA ReceiveFrame ==
    ASSUME Inv, Receive
    PROVE  /\ depth \in Frames
           /\ \E g \in FrameType(conns) :
                 /\ SetFrame(depth, g) /\ g.link = frame[depth].link
                 /\ g.conn = frame[depth].conn /\ g.attempt = frame[depth].attempt
                 /\ g.held = frame[depth].held /\ g.sender = frame[depth].sender
<1>1. frame[depth] \in FrameType(conns) /\ conns \in Nat /\ depth \in Frames
  BY DEF Inv, TypeInv
<1> DEFINE g == [frame[depth] EXCEPT !.inbox = frame[depth].inbox - 1]
<1>2. frame[depth].inbox - 1 \in Nat
  BY <1>1, Fields DEF Receive
<1>3. /\ g \in FrameType(conns)
      /\ Sets(frame[depth], g, frame[depth].conn, frame[depth].link, frame[depth].inbox - 1,
              frame[depth].sender, frame[depth].held)
  BY <1>1, <1>2, SetInbox
<1>4. SetFrame(depth, g)
  BY DEF Receive
<1> HIDE DEF g
<1>5. QED BY <1>1, <1>3, <1>4 DEF Sets

LEMMA ReceiveInv == ASSUME Inv, Receive PROVE Inv'
<1>1. conns \in Nat /\ depth \in Frames
  BY DEF Inv, TypeInv
<1>2. PICK g \in FrameType(conns) :
          /\ SetFrame(depth, g) /\ g.link = frame[depth].link
          /\ g.conn = frame[depth].conn /\ g.attempt = frame[depth].attempt
          /\ g.held = frame[depth].held /\ g.sender = frame[depth].sender
  BY ReceiveFrame
<1>3. /\ frame' \in [Frames -> FrameType(conns)]
      /\ frame'[depth] = g
      /\ \A h \in Frames : h # depth => frame'[h] = frame[h]
  BY <1>1, <1>2, OneFrame DEF Inv, TypeInv
<1>4. respond' \in [call : Nat, at : 0..MaxDepth] /\ respond'.at <= depth
      /\ (pc' # "respond" => respond'.at = 0) /\ pc' \in {"receive", "respond", "stop"}
      /\ ending' \in {"none", "fail"} /\ (ending' = "fail" <=> pc' = "stop")
  <2>1. ending = "none" /\ pc = "receive" /\ respond.at = 0 /\ depth \in Nat
    BY <1>1 DEF Receive, Inv, ControlInv, Frames
  <2>2. CASE pc' = "stop" /\ ending' = "fail" /\ UNCHANGED respond
    BY <1>1, <2>1, <2>2 DEF Inv, TypeInv, Frames
  <2>3. CASE UNCHANGED <<pc, ending, respond>>
    BY <1>1, <2>1, <2>3 DEF Inv, TypeInv, Frames
  <2>4. CASE pc' = "respond" /\ respond' = [call |-> respond.call + 1, at |-> depth]
             /\ UNCHANGED ending
    BY <1>1, <2>1, <2>4 DEF Inv, TypeInv, Frames
  <2>5. QED BY <2>2, <2>3, <2>4 DEF Receive
<1>5. TypeInv'
  BY <1>3, <1>4 DEF Receive, Inv, TypeInv
<1>6. ControlInv'
  <2>1. depth' = depth
    BY DEF Receive
  <2>2. \A f \in Frames : f > depth => frame'[f] = Idle
    BY <1>1, <1>3 DEF Receive, Inv, ControlInv, Frames, Over
  <2>3. QED BY <1>4, <2>1, <2>2 DEF ControlInv, Over, Idle
<1>7. LinkInv'
  <2>1. \A h \in Frames : frame'[h].conn = frame[h].conn
    BY <1>2, <1>3
  <2>2. QED BY <1>2, <1>3, <2>1 DEF Inv, LinkInv
<1>8. QED BY <1>5, <1>6, <1>7 DEF Inv

LEMMA ConnectInv == ASSUME Inv, Connect PROVE Inv'
<1>1. frame[depth] \in FrameType(conns) /\ conns \in Nat /\ depth \in Frames
  BY DEF Inv, TypeInv
<1> DEFINE g == [frame[depth] EXCEPT !.conn = conns + 1, !.link = "up", !.sender = "waiting"]
<1>2. conns + 1 \in 0..(conns + 1) /\ conns <= conns + 1 /\ conns + 1 \in Nat
  BY <1>1
<1>3. /\ g \in FrameType(conns + 1)
      /\ Sets(frame[depth], g, conns + 1, "up", frame[depth].inbox, "waiting",
              frame[depth].held)
  BY <1>1, <1>2, SetConnected
<1>4. SetFrame(depth, g)
  BY DEF Connect
<1> HIDE DEF g
<1>5. /\ frame' \in [Frames -> FrameType(conns + 1)]
      /\ frame'[depth] = g
      /\ \A h \in Frames : h # depth => frame'[h] = frame[h]
  BY <1>1, <1>2, <1>3, <1>4, OneFrame DEF Inv, TypeInv
<1>6. TypeInv'
  <2>1. handed' \in Seq(Seq(Requests)) /\ Len(handed') = conns + 1
    <3>1. << >> \in Seq(Requests)
      OBVIOUS
    <3>2. QED BY <3>1 DEF Connect, Inv, TypeInv
  <2>2. lost' \in Seq(SUBSET Requests) /\ Len(lost') = conns + 1
    <3>1. {} \in SUBSET Requests
      OBVIOUS
    <3>2. QED BY <3>1 DEF Connect, Inv, TypeInv
  <2>3. QED BY <1>2, <1>5, <2>1, <2>2 DEF Connect, Inv, TypeInv
<1>7. ControlInv'
  <2>1. depth' = depth /\ ending' = ending /\ pc = "connect" /\ pc' = "receive"
        /\ respond' = respond
    BY DEF Connect
  <2>2. \A f \in Frames : f > depth => frame'[f] = Idle
    BY <1>1, <1>5 DEF Inv, ControlInv, Frames
  <2>3. QED BY <2>1, <2>2 DEF Inv, ControlInv, Over, Idle
<1>8. LinkInv'
  <2>1. \A h \in Frames : frame[h].conn \in 0..conns
    BY <1>1, Fields DEF Inv, TypeInv
  <2>2. \A h \in Frames : frame'[h].conn = IF h = depth THEN conns + 1 ELSE frame[h].conn
    BY <1>3, <1>5 DEF Sets
  <2>3. \A f, h \in Frames : frame'[f].conn = frame'[h].conn /\ frame'[f].conn # 0 => f = h
    BY <1>1, <2>1, <2>2 DEF Inv, LinkInv
  <2>4. \A f \in Frames :
           /\ (frame'[f].link = "none") <=> (frame'[f].conn = 0)
           /\ frame'[f].sender # "ended" => frame'[f].link # "none"
           /\ frame'[f].held # None => frame'[f].sender # "ended"
    BY <1>1, <1>3, <1>5, <2>2 DEF Inv, LinkInv, Sets
  <2>5. QED BY <2>3, <2>4 DEF LinkInv
<1>9. QED BY <1>6, <1>7, <1>8 DEF Inv

\* A run lets its connection go.
LEMMA Released ==
    ASSUME Inv, NEW g \in FrameType(conns), SetFrame(depth, g),
           g.conn = 0, g.link = "none", g.sender = "ended", g.held = None,
           conns' = conns
    PROVE  /\ frame' \in [Frames -> FrameType(conns)]
           /\ frame'[depth] = g
           /\ \A h \in Frames : h # depth => frame'[h] = frame[h]
           /\ LinkInv'
<1>1. frame[depth] \in FrameType(conns) /\ conns \in Nat /\ depth \in Frames
  BY DEF Inv, TypeInv
<1>2. /\ frame' \in [Frames -> FrameType(conns)]
      /\ frame'[depth] = g
      /\ \A h \in Frames : h # depth => frame'[h] = frame[h]
  BY <1>1, OneFrame DEF Inv, TypeInv
<1>3. LinkInv'
  BY <1>1, <1>2 DEF Inv, LinkInv
<1>4. QED BY <1>2, <1>3

\* An innermost run that is gone is idle, and so is every other when it was the only one.
LEMMA EscapeInv ==
    ASSUME Inv, pc \in {"connect", "stop"}, SetFrame(depth, Idle), Escape,
           UNCHANGED <<queue, closed, cancelled, said, calls, respond, conns, handed, lost>>
    PROVE  Inv'
<1>1. Idle \in FrameType(conns) /\ depth \in Frames /\ conns \in Nat
  BY IdleType DEF Inv, TypeInv
<1>2. /\ frame' \in [Frames -> FrameType(conns)]
      /\ frame'[depth] = Idle
      /\ \A h \in Frames : h # depth => frame'[h] = frame[h]
      /\ LinkInv'
  BY <1>1, Released DEF Idle
<1>3. respond.at = 0
  BY DEF Inv, ControlInv
<1>4. \A f \in Frames : f >= depth => frame'[f] = Idle
  BY <1>1, <1>2 DEF Inv, ControlInv, Frames
<1>5. CASE depth = 1
  BY <1>1, <1>2, <1>3, <1>4, <1>5 DEF Escape, Inv, TypeInv, ControlInv, Over, Idle, Frames
<1>6. CASE depth # 1
  <2>1. /\ pc' = "stop" /\ ending' = "fail" /\ depth' = depth - 1 /\ depth' \in Frames
        /\ 0 <= depth' /\ \A f \in Frames : f > depth' => f >= depth
    BY <1>1, <1>6, LiveSessionAssumption DEF Escape, Frames
  <2>2. TypeInv'
    BY <1>2, <2>1 DEF Inv, TypeInv
  <2>3. ControlInv'
    BY <1>3, <1>4, <2>1 DEF ControlInv, Over, Idle
  <2>4. QED BY <1>2, <2>2, <2>3 DEF Inv
<1>7. QED BY <1>5, <1>6

LEMMA ReconnectInv == ASSUME Inv, Reconnect PROVE Inv'
<1>1. conns \in Nat /\ depth \in Frames /\ frame[depth].attempt + 1 \in 0..MaxReconnects
      /\ frame[depth] \in FrameType(conns)
  <2>1. frame[depth].attempt \in 0..MaxReconnects /\ depth \in Frames /\ conns \in Nat
        /\ frame[depth] \in FrameType(conns)
    BY Fields DEF Inv, TypeInv
  <2>2. frame[depth].attempt < MaxReconnects
    BY DEF Reconnect, Inv, ControlInv
  <2>3. QED BY <2>1, <2>2, LiveSessionAssumption
<1> DEFINE g == [Idle EXCEPT !.attempt = frame[depth].attempt + 1]
<1>2. /\ g \in FrameType(conns) /\ g.conn = 0 /\ g.link = "none" /\ g.sender = "ended"
      /\ g.held = None
  BY <1>1, SetAttempt
<1>3. SetFrame(depth, g) /\ UNCHANGED <<queue, closed, cancelled, said, calls, depth,
                                        respond, conns, handed, lost>>
      /\ pc = "stop" /\ pc' = "connect" /\ ending' = "none"
  BY DEF Reconnect, Stopped, Inv, ControlInv
<1> HIDE DEF g
<1>4. /\ frame' \in [Frames -> FrameType(conns)]
      /\ frame'[depth] = g
      /\ \A h \in Frames : h # depth => frame'[h] = frame[h]
      /\ LinkInv'
  BY <1>2, <1>3, Released
<1>5. TypeInv'
  BY <1>3, <1>4 DEF Inv, TypeInv
<1>6. ControlInv'
  <2>1. \A f \in Frames : f > depth => frame'[f] = Idle
    BY <1>1, <1>4 DEF Inv, ControlInv, Frames
  <2>2. QED BY <1>2, <1>3, <1>4, <2>1 DEF Inv, ControlInv, Over, Idle
<1>7. QED BY <1>4, <1>5, <1>6 DEF Inv

LEMMA EndRunInv == ASSUME Inv, EndRun PROVE Inv'
<1>1. Idle \in FrameType(conns) /\ depth \in Frames /\ conns \in Nat
  BY IdleType DEF Inv, TypeInv
<1>2. /\ SetFrame(depth, Idle) /\ pc = "stop" /\ ending' = "none" /\ closed' = TRUE
      /\ UNCHANGED <<queue, cancelled, said, calls, respond, conns, handed, lost>>
  BY DEF EndRun, Stopped
<1>3. /\ frame' \in [Frames -> FrameType(conns)]
      /\ frame'[depth] = Idle
      /\ \A h \in Frames : h # depth => frame'[h] = frame[h]
      /\ LinkInv'
  BY <1>1, <1>2, Released DEF Idle
<1>4. respond.at = 0
  BY <1>2 DEF Inv, ControlInv
<1>5. \A f \in Frames : f >= depth => frame'[f] = Idle
  BY <1>1, <1>3 DEF Inv, ControlInv, Frames
<1>6. CASE depth = 1
  BY <1>1, <1>2, <1>3, <1>4, <1>5, <1>6
     DEF EndRun, Inv, TypeInv, ControlInv, Over, Idle, Frames
<1>7. CASE depth # 1
  <2>1. /\ pc' = "receive" /\ depth' = depth - 1 /\ depth' \in Frames
        /\ 0 <= depth' /\ \A f \in Frames : f > depth' => f >= depth
    BY <1>1, <1>7, LiveSessionAssumption DEF EndRun, Frames
  <2>2. TypeInv'
    BY <1>2, <1>3, <2>1 DEF Inv, TypeInv
  <2>3. ControlInv'
    BY <1>2, <1>4, <1>5, <2>1 DEF ControlInv, Over, Idle
  <2>4. QED BY <1>3, <2>2, <2>3 DEF Inv
<1>8. QED BY <1>6, <1>7

LEMMA InvNext == ASSUME Inv, [Next]_vars PROVE Inv'
<1>1. CASE UNCHANGED vars
  BY <1>1 DEF vars, Inv, TypeInv, ControlInv, LinkInv, Over, Idle
<1>2. CASE \E from \in {"client", "close"} : Enqueue(from)
  BY <1>2, EnqueueInv
<1>3. CASE Moves
  BY <1>3, MovesInv
<1>4. CASE Connect
  BY <1>4, ConnectInv
<1>5. CASE FailToConnect
  BY <1>5, EscapeInv DEF FailToConnect
<1>6. CASE Receive
  BY <1>6, ReceiveInv
<1>7. CASE Reconnect
  BY <1>7, ReconnectInv
<1>8. CASE EndRun
  BY <1>8, EndRunInv
<1>9. CASE Throw
  BY <1>9, EscapeInv DEF Throw, Stopped
<1>10. CASE \E f \in Frames : Server(f) \/ Sender(f)
  BY <1>10, ServerInv, SenderInv
<1>11. QED
  BY <1>1, <1>2, <1>3, <1>4, <1>5, <1>6, <1>7, <1>8, <1>9, <1>10 DEF Next, Loop, Moves

LEMMA AlwaysInv == Spec => []Inv
<1>1. Inv /\ [Next]_vars => Inv'
  BY InvNext
<1>2. QED BY InitInv, <1>1, PTL DEF Spec
\* The live session's variables keep their types, for any reconnects, nested
\* runs, requests and tool calls: a run that is over or has not begun has no
\* connection and no sending task (RunLiveAsyncImpl's finally block).
THEOREM TypeCorrect == Spec => []TypeOK
<1>1. Inv => TypeOK
  <2> SUFFICES ASSUME Inv PROVE TypeOK
    OBVIOUS
  <2>1. frame \in [Frames -> FrameType(conns)]
    BY DEF Inv, TypeInv
  <2>2. \A f \in Frames : frame[f].link = "none" =>
            frame[f].sender = "ended" /\ frame[f].held = None
    BY DEF Inv, LinkInv
  <2>3. QED BY <2>1, <2>2 DEF Inv, TypeInv, ControlInv, FrameType, TypeOK
<1>2. QED BY <1>1, AlwaysInv, PTL

-----------------------------------------------------------------------------
(* What the client says: where it is, and in which order.                  *)

Said(q) == q.from = "client" => q.n <= Len(said)

\* The queue holds the client's requests in order.
QueueInv ==
    \A i \in DOMAIN queue :
        Said(queue[i]) /\ \A j \in DOMAIN queue : i < j => Before(queue[i], queue[j])

\* A request that has been taken from the queue.
Gone(q) == \/ \E f \in Frames : frame[f].held = q
           \/ \E c \in DOMAIN lost : q \in lost[c]
           \/ \E c \in DOMAIN handed : \E i \in DOMAIN handed[c] : handed[c][i] = q

\* It came before everything that is in the queue.
GoneInv ==
    \A q \in Requests : Gone(q) =>
        Said(q) /\ \A i \in DOMAIN queue : Before(q, queue[i])

\* No request of the client has been taken twice.
Once(q) ==
    /\ \A f, g \in Frames : frame[f].held = q /\ frame[g].held = q => f = g
    /\ \A c, d \in DOMAIN lost : q \in lost[c] /\ q \in lost[d] => c = d
    /\ \A c, d \in DOMAIN handed : \A i \in DOMAIN handed[c], j \in DOMAIN handed[d] :
           handed[c][i] = q /\ handed[d][j] = q => c = d /\ i = j
    /\ \A f \in Frames : frame[f].held = q =>
           /\ \A c \in DOMAIN lost : q \notin lost[c]
           /\ \A c \in DOMAIN handed : \A i \in DOMAIN handed[c] : handed[c][i] # q
    /\ \A d \in DOMAIN lost : q \in lost[d] =>
           \A c \in DOMAIN handed : \A i \in DOMAIN handed[c] : handed[c][i] # q

OnceInv == \A q \in Requests : q.from = "client" => Once(q)

\* None has vanished.
FoundInv ==
    \A n \in DOMAIN said : said[n] = "client" =>
        LET q == [from |-> "client", n |-> n]
        IN  (\E i \in DOMAIN queue : queue[i] = q) \/ Gone(q)

\* A connection was handed requests in the client's order, and nothing after
\* the one it lost.
OrderInv ==
    /\ \A c \in DOMAIN handed :
           /\ \A i, j \in DOMAIN handed[c] : i < j => Before(handed[c][i], handed[c][j])
           /\ \A q \in lost[c] : /\ \A i \in DOMAIN handed[c] : Before(handed[c][i], q)
                                 /\ \A r \in lost[c] : r = q
    /\ \A f \in Frames : frame[f].conn # 0 =>
           /\ frame[f].held # None =>
                  \A i \in DOMAIN handed[frame[f].conn] :
                      Before(handed[frame[f].conn][i], frame[f].held)
           /\ frame[f].sender # "ended" => lost[frame[f].conn] = {}

SaidInv == Inv /\ QueueInv /\ GoneInv /\ OnceInv /\ FoundInv /\ OrderInv

LEMMA InitSaid == Init => SaidInv
BY InitInv, LiveSessionAssumption, NoneAssumption
   DEF Init, SaidInv, QueueInv, GoneInv, Gone, OnceInv, Once, FoundInv, OrderInv, Idle, Frames

\* Requests stay where they are.
LEMMA QuietSaid ==
    ASSUME SaidInv, Inv', UNCHANGED <<queue, said, handed, lost>>,
           \A f \in Frames :
               /\ frame'[f].held = frame[f].held
               /\ frame'[f].conn # 0 => frame'[f].conn = frame[f].conn
               /\ frame'[f].sender # "ended" => frame[f].sender # "ended"
    PROVE  SaidInv'
<1>1. QueueInv'
  BY DEF SaidInv, QueueInv, Said
<1>2. \A q : Gone(q)' <=> Gone(q)
  BY DEF Gone
<1>3. GoneInv' /\ FoundInv'
  BY <1>2 DEF SaidInv, GoneInv, FoundInv, Said
<1>4. OnceInv'
  BY DEF SaidInv, OnceInv, Once
<1>5. OrderInv'
  BY DEF SaidInv, OrderInv
<1>6. QED BY <1>1, <1>3, <1>4, <1>5 DEF SaidInv

\* A request goes to the end of the queue: a tool's, or the next of the client.
LEMMA AppendSaid ==
    ASSUME SaidInv, Inv', NEW r \in Requests, queue' = Append(queue, r),
           UNCHANGED <<frame, handed, lost>>,
           \/ r.from = "tool" /\ said' = said
           \/ said' = Append(said, r.from) /\ r.n = Len(said) + 1
    PROVE  SaidInv'
<1>1. queue \in Seq(Requests) /\ said \in Seq({"client", "close"})
  BY DEF SaidInv, Inv, TypeInv
<1>2. /\ Len(said) <= Len(said') /\ Len(said) \in Nat /\ Len(said') \in Nat
      /\ \A n \in DOMAIN said : n \in DOMAIN said' /\ said'[n] = said[n]
      /\ \A n \in DOMAIN said' \ DOMAIN said : n = Len(said) + 1 /\ said'[n] = r.from
  <2> DEFINE Kinds == {"client", "close", "tool"}
  <2>1. r.from \in Kinds /\ said \in Seq(Kinds)
    BY <1>1 DEF Requests
  <2>2. CASE said' = said
    BY <2>1, <2>2
  <2>3. CASE said' = Append(said, r.from)
    BY <2>1, <2>3
  <2>4. QED BY <2>2, <2>3
<1>3. /\ Len(queue) \in Nat /\ DOMAIN queue = 1..Len(queue)
      /\ DOMAIN queue' = 1..(Len(queue) + 1)
      /\ \A i \in DOMAIN queue : queue'[i] = queue[i] /\ queue[i] \in Requests
      /\ queue'[Len(queue) + 1] = r
  BY <1>1
<1>4. \A q \in Requests : q.from = "client" => q.n \in Nat
  BY DEF Requests
<1>5. \A q \in Requests : Said(q) => Said(q)' /\ Before(q, r)
  BY <1>2, <1>4 DEF Said, Before
<1>6. Said(r)'
  BY <1>1 DEF Said
<1>7. QueueInv'
  BY <1>3, <1>5, <1>6 DEF SaidInv, QueueInv
<1>8. \A q : Gone(q)' <=> Gone(q)
  BY DEF Gone
<1>9. GoneInv'
  BY <1>3, <1>5, <1>8 DEF SaidInv, GoneInv
<1>10. OnceInv' /\ OrderInv'
  BY DEF SaidInv, OnceInv, Once, OrderInv
<1>11. FoundInv'
  <2> SUFFICES ASSUME NEW n \in DOMAIN said', said'[n] = "client"
               PROVE  LET q == [from |-> "client", n |-> n]
                      IN  (\E i \in DOMAIN queue' : queue'[i] = q) \/ Gone(q)
    BY <1>8 DEF FoundInv
  <2>1. CASE n \in DOMAIN said
    BY <1>2, <1>3, <2>1 DEF SaidInv, FoundInv
  <2>2. CASE n \notin DOMAIN said
    <3>1. r.from = "client" /\ r.n = n
      BY <1>2, <2>2
    <3>2. r = [from |-> "client", n |-> n]
      BY <3>1 DEF Requests
    <3>3. QED BY <1>3, <3>2
  <2>3. QED BY <2>1, <2>2
<1>12. QED BY <1>7, <1>9, <1>10, <1>11 DEF SaidInv

\* A new connection has been given nothing.
LEMMA ConnectSaid == ASSUME SaidInv, Inv', Connect PROVE SaidInv'
<1>1. conns \in Nat /\ depth \in Frames /\ frame[depth] \in FrameType(conns)
  BY DEF SaidInv, Inv, TypeInv
<1>2. frame[depth].held = None /\ frame[depth].link = "none"
  <2>1. frame[depth].link = "none"
    BY DEF SaidInv, Inv, ControlInv, Connect
  <2>2. QED BY <1>1, <2>1 DEF SaidInv, Inv, LinkInv
<1>3. \A f \in Frames :
          /\ frame'[f].held = frame[f].held
          /\ IF f = depth THEN frame'[f].conn = conns + 1
                          ELSE frame'[f] = frame[f] /\ frame[f].conn \in 0..conns
  <2> DEFINE g == [frame[depth] EXCEPT !.conn = conns + 1, !.link = "up", !.sender = "waiting"]
  <2>1. g.held = frame[depth].held /\ g.conn = conns + 1 /\ g \in FrameType(conns + 1)
    <3>1. conns + 1 \in 0..(conns + 1) /\ conns <= conns + 1 /\ conns + 1 \in Nat
      BY <1>1
    <3>2. /\ g \in FrameType(conns + 1)
          /\ Sets(frame[depth], g, conns + 1, "up", frame[depth].inbox, "waiting",
                  frame[depth].held)
      BY <1>1, <3>1, SetConnected
    <3> HIDE DEF g
    <3>3. QED BY <3>2 DEF Sets
  <2>2. SetFrame(depth, g)
    BY DEF Connect
  <2> HIDE DEF g
  <2>3. conns <= conns + 1 /\ conns + 1 \in Nat
    BY <1>1
  <2>4. frame'[depth] = g /\ \A h \in Frames : h # depth => frame'[h] = frame[h]
    BY <1>1, <2>1, <2>2, <2>3, OneFrame DEF SaidInv, Inv
  <2>5. QED BY <2>1, <2>4, Fields DEF SaidInv, Inv, TypeInv
<1>4. /\ DOMAIN handed = 1..conns /\ DOMAIN lost = 1..conns
      /\ DOMAIN handed' = 1..(conns + 1) /\ DOMAIN lost' = 1..(conns + 1)
      /\ \A c \in 1..conns : handed'[c] = handed[c] /\ lost'[c] = lost[c]
      /\ handed'[conns + 1] = << >> /\ lost'[conns + 1] = {}
  BY DEF Connect, SaidInv, Inv, TypeInv
<1>5. UNCHANGED <<queue, said>>
  BY DEF Connect
<1>6. \A q : Gone(q)' <=> Gone(q)
  BY <1>3, <1>4, <1>1 DEF Gone
<1>7. QueueInv' /\ GoneInv' /\ FoundInv'
  BY <1>5, <1>6 DEF SaidInv, QueueInv, GoneInv, FoundInv, Said
<1>8. OnceInv'
  BY <1>1, <1>3, <1>4 DEF SaidInv, OnceInv, Once
<1>9. OrderInv'
  BY <1>1, <1>2, <1>3, <1>4 DEF SaidInv, OrderInv
<1>10. QED BY <1>7, <1>8, <1>9 DEF SaidInv

\* What a step of a sending task leaves of the frames.
LEMMA SenderEffect ==
    ASSUME Inv, NEW f \in Frames, Sender(f)
    PROVE  /\ frame[f].conn \in 1..conns /\ frame[f].held \in Requests \cup {None}
           /\ frame'[f].conn = frame[f].conn /\ frame[f].sender # "ended"
           /\ \A h \in Frames : h # f => frame'[h] = frame[h]
           /\ \/ Take(f)
                 /\ frame'[f].held = IF Head(queue).from = "close" THEN None ELSE Head(queue)
              \/ Hand(f) /\ frame'[f].held = None
              \/ FailToSend(f) /\ frame'[f].held = None /\ frame'[f].sender = "ended"
              \/ (ReadNothing(f) \/ EndSending(f))
                 /\ frame'[f].held = None /\ frame[f].held = None
<1>1. frame[f] \in FrameType(conns) /\ conns \in Nat
  BY DEF Inv, TypeInv
<1>2. PICK g \in FrameType(conns) :
          /\ SetFrame(f, g) /\ g.conn = frame[f].conn
          /\ frame[f].sender # "ended"
          /\ \/ Take(f) /\ g.held = IF Head(queue).from = "close" THEN None ELSE Head(queue)
             \/ Hand(f) /\ g.held = None
             \/ FailToSend(f) /\ g.held = None /\ g.sender = "ended"
             \/ (ReadNothing(f) \/ EndSending(f)) /\ g.held = None /\ frame[f].held = None
  BY SenderFrame
<1>3. frame'[f] = g /\ \A h \in Frames : h # f => frame'[h] = frame[h]
  BY <1>1, <1>2, OneFrame DEF Inv
<1>4. frame[f].conn \in 1..conns /\ frame[f].held \in Requests \cup {None}
  BY <1>1, SenderFrame, Fields DEF Inv, LinkInv
<1>5. QED BY <1>2, <1>3, <1>4

LEMMA HandedType ==
    ASSUME TypeInv
    PROVE  \A c \in DOMAIN handed : \A i \in DOMAIN handed[c] : handed[c][i] \in Requests
<1> SUFFICES ASSUME NEW c \in DOMAIN handed, NEW i \in DOMAIN handed[c]
             PROVE  handed[c][i] \in Requests
  OBVIOUS
<1>1. handed[c] \in Seq(Requests)
  BY DEF TypeInv
<1>2. QED BY <1>1

LEMMA ClientRequest ==
    ASSUME TypeInv, NEW n \in DOMAIN said
    PROVE  /\ [from |-> "client", n |-> n] \in Requests
           /\ [from |-> "client", n |-> n].from = "client"
<1>1. n \in 1..MaxRequests
  BY LiveSessionAssumption DEF TypeInv
<1>2. QED BY <1>1 DEF Requests

LEMMA TakeSaid ==
    ASSUME SaidInv, Inv', NEW f \in Frames, Take(f),
           frame'[f].held = IF Head(queue).from = "close" THEN None ELSE Head(queue)
    PROVE  SaidInv'
<1> DEFINE q == Head(queue)
<1>1. /\ frame[f].conn \in 1..conns /\ frame[f].held = None
      /\ frame'[f].conn = frame[f].conn /\ frame[f].sender # "ended"
      /\ \A h \in Frames : h # f => frame'[h] = frame[h]
  BY SenderEffect DEF SaidInv, Sender, Take
<1>2. UNCHANGED <<said, conns, handed, lost>> /\ queue' = Tail(queue) /\ queue # << >>
  BY DEF Take
<1>3. /\ queue \in Seq(Requests)
      /\ DOMAIN handed = 1..conns /\ DOMAIN lost = 1..conns /\ conns \in Nat
      /\ \A c \in DOMAIN handed : \A i \in DOMAIN handed[c] : handed[c][i] \in Requests
  BY HandedType DEF SaidInv, Inv, TypeInv
<1>4. /\ 1 \in DOMAIN queue /\ queue[1] = q /\ q \in Requests
      /\ \A i \in DOMAIN queue' : i + 1 \in DOMAIN queue /\ queue'[i] = queue[i + 1] /\ 1 < i + 1
      /\ \A i \in DOMAIN queue : i = 1 \/ (i - 1 \in DOMAIN queue' /\ queue'[i - 1] = queue[i])
      /\ \A i, j \in DOMAIN queue' : i < j => i + 1 < j + 1
  BY <1>2, <1>3
<1> HIDE DEF q
<1>5. \A r \in Requests : r.from = "client" => r.n \in Nat
  BY DEF Requests
<1>6. q.from = "client" => ~Gone(q)
  BY <1>4, <1>5 DEF SaidInv, GoneInv, Before
<1>7. \A r \in Requests : Gone(r)' => Gone(r) \/ (r = q /\ frame'[f].held = q)
  <2>1. frame'[f].held = None \/ frame'[f].held = q
    BY DEF q
  <2>2. QED BY <1>1, <1>2, <2>1, NoneAssumption DEF Gone
<1>8. \A r \in Requests : Gone(r) => Gone(r)'
  BY <1>1, <1>2, NoneAssumption DEF Gone
<1>9. QueueInv'
  <2>1. \A i \in DOMAIN queue' : queue'[i].from = "client" => queue'[i].n <= Len(said')
    BY <1>2, <1>4 DEF SaidInv, QueueInv, Said
  <2>2. \A i, j \in DOMAIN queue' : i < j => Before(queue'[i], queue'[j])
    BY <1>4 DEF SaidInv, QueueInv
  <2>3. QED BY <2>1, <2>2 DEF QueueInv, Said
<1>10. GoneInv'
  <2> SUFFICES ASSUME NEW r \in Requests, Gone(r)'
               PROVE  Said(r)' /\ \A i \in DOMAIN queue' : Before(r, queue'[i])
    BY DEF GoneInv
  <2>1. CASE Gone(r)
    BY <1>2, <1>4, <2>1 DEF SaidInv, GoneInv, Said
  <2>2. CASE r = q
    BY <1>2, <1>4, <2>2 DEF SaidInv, QueueInv, Said
  <2>3. QED BY <1>7, <2>1, <2>2
<1>11. FoundInv'
  <2> SUFFICES ASSUME NEW n \in DOMAIN said, said[n] = "client"
               PROVE  LET r == [from |-> "client", n |-> n]
                      IN  (\E i \in DOMAIN queue' : queue'[i] = r) \/ Gone(r)'
    BY <1>2 DEF FoundInv
  <2>1. PICK r \in Requests : r = [from |-> "client", n |-> n] /\ r.from = "client"
    BY ClientRequest DEF SaidInv, Inv
  <2>2. (\E i \in DOMAIN queue : queue[i] = r) \/ Gone(r)
    BY <2>1 DEF SaidInv, FoundInv
  <2>3. CASE Gone(r)
    BY <1>8, <2>1, <2>3
  <2>4. CASE \E i \in DOMAIN queue : queue[i] = r /\ i # 1
    BY <1>4, <2>1, <2>4
  <2>5. CASE queue[1] = r
    <3>1. frame'[f].held = r
      BY <1>4, <2>1, <2>5 DEF q
    <3>2. QED BY <2>1, <3>1 DEF Gone
  <2>6. QED BY <2>1, <2>2, <2>3, <2>4, <2>5
<1>12. OnceInv'
  <2> SUFFICES ASSUME NEW r \in Requests, r.from = "client"
               PROVE  Once(r)'
    BY DEF OnceInv
  <2>1. CASE r = q
    <3>1. ~Gone(r) /\ frame'[f].held = q
      BY <1>6, <2>1 DEF q
    <3>2. QED BY <1>1, <1>2, <2>1, <3>1 DEF Gone, Once
  <2>2. CASE r # q
    <3>1. frame'[f].held # r /\ frame[f].held # r
      BY <1>1, <2>2, NoneAssumption DEF q
    <3>2. QED BY <1>1, <1>2, <3>1 DEF SaidInv, OnceInv, Once
  <2>3. QED BY <2>1, <2>2
<1>13. OrderInv'
  <2>1. frame'[f].held # None => frame'[f].held = q
    BY DEF q
  <2>2. \A c \in DOMAIN handed : \A i \in DOMAIN handed[c] : Before(handed[c][i], q)
    BY <1>3, <1>4 DEF SaidInv, GoneInv, Gone
  <2>3. \A h \in Frames : frame'[h].conn # 0 =>
           /\ frame'[h].held # None =>
                  \A i \in DOMAIN handed[frame'[h].conn] :
                      Before(handed[frame'[h].conn][i], frame'[h].held)
           /\ frame'[h].sender # "ended" => lost[frame'[h].conn] = {}
    <3>1. OrderInv /\ frame[f].conn \in DOMAIN handed /\ frame[f].conn # 0
      BY <1>1, <1>3 DEF SaidInv
    <3>2. QED BY <1>1, <2>1, <2>2, <3>1 DEF OrderInv
  <2>4. QED BY <1>2, <2>3 DEF SaidInv, OrderInv
<1>14. QED BY <1>9, <1>10, <1>11, <1>12, <1>13 DEF SaidInv

\* Sending a request and losing it: it leaves its sending task.
LEMMA HandSaid ==
    ASSUME SaidInv, Inv', NEW f \in Frames, Hand(f), frame'[f].held = None
    PROVE  SaidInv'
<1> DEFINE q == frame[f].held
           c == frame[f].conn
<1>1. /\ c \in 1..conns /\ q \in Requests
      /\ frame'[f].conn = c /\ frame[f].sender # "ended"
      /\ \A h \in Frames : h # f => frame'[h] = frame[h]
  BY SenderEffect DEF SaidInv, Sender, Hand
<1>2. /\ UNCHANGED <<queue, said, conns, lost>>
      /\ handed' = [handed EXCEPT ![c] = Append(@, q)]
  BY DEF Hand
<1>3. DOMAIN handed = 1..conns /\ DOMAIN lost = 1..conns /\ conns \in Nat
      /\ handed \in Seq(Seq(Requests))
  BY DEF SaidInv, Inv, TypeInv
<1>4. /\ DOMAIN handed' = 1..conns
      /\ \A d \in 1..conns : d # c => handed'[d] = handed[d]
      /\ handed[c] \in Seq(Requests) /\ handed'[c] = Append(handed[c], q)
  BY <1>1, <1>2, <1>3
<1> DEFINE l == Len(handed[c]) + 1
<1>5. /\ l \in DOMAIN handed'[c] /\ handed'[c][l] = q /\ l \notin DOMAIN handed[c]
      /\ \A i \in DOMAIN handed[c] :
             i \in DOMAIN handed'[c] /\ handed'[c][i] = handed[c][i] /\ i < l /\ ~(l < i)
      /\ \A i \in DOMAIN handed'[c] : i = l \/ i \in DOMAIN handed[c]
      /\ ~(l < l)
  BY SMTT(60), <1>1, <1>4
<1> HIDE DEF q, c, l
<1>6. ASSUME NEW d \in DOMAIN handed', NEW i \in DOMAIN handed'[d],
              ~(d = c /\ i = l)
       PROVE  d \in DOMAIN handed /\ i \in DOMAIN handed[d] /\ handed'[d][i] = handed[d][i]
  <2>1. CASE d = c
    BY <1>1, <1>3, <1>5, <1>6, <2>1
  <2>2. CASE d # c
    BY <1>3, <1>4, <2>2
  <2>3. QED BY <2>1, <2>2
<1>7. \A r \in Requests : Gone(r) <=> Gone(r)'
  <2> SUFFICES ASSUME NEW r \in Requests PROVE Gone(r) <=> Gone(r)'
    OBVIOUS
  <2>1. (\E h \in Frames : frame[h].held = r)
            <=> (\E h \in Frames : frame'[h].held = r) \/ r = q
    BY <1>1, NoneAssumption DEF q
  <2>2. (\E d \in DOMAIN handed' : \E i \in DOMAIN handed'[d] : handed'[d][i] = r)
            <=> (\E d \in DOMAIN handed : \E i \in DOMAIN handed[d] : handed[d][i] = r) \/ r = q
    <3>1. ASSUME NEW d \in DOMAIN handed', NEW i \in DOMAIN handed'[d], handed'[d][i] = r,
                 r # q
          PROVE  d \in DOMAIN handed /\ i \in DOMAIN handed[d] /\ handed[d][i] = r
      BY <3>1, <1>5, <1>6
    <3>2. ASSUME NEW d \in DOMAIN handed, NEW i \in DOMAIN handed[d], handed[d][i] = r
          PROVE  d \in DOMAIN handed' /\ i \in DOMAIN handed'[d] /\ handed'[d][i] = r
      BY <3>2, <1>1, <1>3, <1>4, <1>5
    <3>3. c \in DOMAIN handed' /\ l \in DOMAIN handed'[c] /\ handed'[c][l] = q
      BY <1>1, <1>4, <1>5
    <3>4. QED BY <3>1, <3>2, <3>3
  <2>3. QED BY <1>2, <2>1, <2>2 DEF Gone
<1>8. QueueInv' /\ GoneInv'
  BY <1>2, <1>7 DEF SaidInv, QueueInv, GoneInv, Said
<1>9. FoundInv'
  <2> SUFFICES ASSUME NEW n \in DOMAIN said, said[n] = "client"
               PROVE  LET r == [from |-> "client", n |-> n]
                      IN  (\E i \in DOMAIN queue : queue[i] = r) \/ Gone(r)'
    BY <1>2 DEF FoundInv
  <2>1. PICK r \in Requests : r = [from |-> "client", n |-> n]
    BY ClientRequest DEF SaidInv, Inv
  <2>2. QED BY <1>7, <2>1 DEF SaidInv, FoundInv
<1>10. OnceInv'
  <2> SUFFICES ASSUME NEW r \in Requests, r.from = "client"
               PROVE  Once(r)'
    BY DEF OnceInv
  <2>1. Once(r)
    BY DEF SaidInv, OnceInv
  <2>2. CASE r = q
    <3>1. /\ \A h \in Frames : frame[h].held = r => h = f
          /\ \A d \in DOMAIN lost : r \notin lost[d]
          /\ \A d \in DOMAIN handed : \A i \in DOMAIN handed[d] : handed[d][i] # r
      BY <2>1, <2>2 DEF Once, q
    <3>2. \A h \in Frames : frame'[h].held # r
      BY <1>1, <3>1, NoneAssumption
    <3>3. \A d \in DOMAIN handed' : \A i \in DOMAIN handed'[d] :
              handed'[d][i] = r => d = c /\ i = l
      BY <1>6, <3>1
    <3>4. QED BY <1>2, <3>1, <3>2, <3>3 DEF Once
  <2>3. CASE r # q
    <3>1. \A h \in Frames : frame'[h].held = r => frame[h].held = r
      BY <1>1, NoneAssumption
    <3>2. \A d \in DOMAIN handed' : \A i \in DOMAIN handed'[d] :
              handed'[d][i] = r => d \in DOMAIN handed /\ i \in DOMAIN handed[d]
                                   /\ handed[d][i] = r
      BY <1>5, <1>6, <2>3
    <3>3. QED BY <1>2, <2>1, <3>1, <3>2 DEF Once
  <2>4. QED BY <2>2, <2>3
<1>11. OrderInv'
  <2>1. OrderInv /\ c \in DOMAIN handed /\ c # 0
    BY <1>1, <1>3 DEF SaidInv
  <2>2. lost[c] = {} /\ \A i \in DOMAIN handed[c] : Before(handed[c][i], q)
    BY <1>1, <2>1, NoneAssumption DEF OrderInv, c, q
  <2>3. \A h \in Frames : h # f => frame[h].conn # c
    BY <1>1, <2>1 DEF SaidInv, Inv, LinkInv, c
  <2>4. \A d \in DOMAIN handed' :
            /\ \A i, j \in DOMAIN handed'[d] : i < j => Before(handed'[d][i], handed'[d][j])
            /\ \A r \in lost[d] : /\ \A i \in DOMAIN handed'[d] : Before(handed'[d][i], r)
                                  /\ \A s \in lost[d] : s = r
    <3> SUFFICES ASSUME NEW d \in DOMAIN handed'
                 PROVE  /\ \A i, j \in DOMAIN handed'[d] :
                               i < j => Before(handed'[d][i], handed'[d][j])
                        /\ \A r \in lost[d] :
                               /\ \A i \in DOMAIN handed'[d] : Before(handed'[d][i], r)
                               /\ \A s \in lost[d] : s = r
      OBVIOUS
    <3>1. QED BY <1>3, <1>4, <1>5, <2>1, <2>2 DEF OrderInv
  <2>5. \A h \in Frames : frame'[h].conn # 0 =>
           /\ frame'[h].held # None =>
                  \A i \in DOMAIN handed'[frame'[h].conn] :
                      Before(handed'[frame'[h].conn][i], frame'[h].held)
           /\ frame'[h].sender # "ended" => lost[frame'[h].conn] = {}
    <3> SUFFICES ASSUME NEW h \in Frames, frame'[h].conn # 0
                 PROVE  /\ frame'[h].held # None =>
                               \A i \in DOMAIN handed'[frame'[h].conn] :
                                   Before(handed'[frame'[h].conn][i], frame'[h].held)
                        /\ frame'[h].sender # "ended" => lost[frame'[h].conn] = {}
      OBVIOUS
    <3>1. CASE h = f
      BY <1>1, <2>2, <3>1
    <3>2. CASE h # f
      <4>1. frame'[h] = frame[h] /\ frame[h].conn # c /\ frame[h].conn \in 1..conns
        <5>1. frame[h] \in FrameType(conns)
          BY DEF SaidInv, Inv, TypeInv
        <5>2. frame[h].conn \in 0..conns
          BY <1>3, <5>1, Fields
        <5>3. QED BY <1>1, <1>3, <2>3, <3>2, <5>2
      <4>2. handed'[frame[h].conn] = handed[frame[h].conn]
        BY <1>4, <4>1
      <4>3. QED BY <2>1, <4>1, <4>2 DEF OrderInv
    <3>3. QED BY <3>1, <3>2
  <2>6. QED BY <1>2, <2>4, <2>5 DEF OrderInv
<1>12. QED BY <1>8, <1>9, <1>10, <1>11 DEF SaidInv

LEMMA FailSaid ==
    ASSUME SaidInv, Inv', NEW f \in Frames, FailToSend(f), frame'[f].held = None,
           frame'[f].sender = "ended"
    PROVE  SaidInv'
<1> DEFINE q == frame[f].held
           c == frame[f].conn
<1>1. /\ c \in 1..conns /\ q \in Requests
      /\ frame'[f].conn = c /\ frame[f].sender # "ended"
      /\ \A h \in Frames : h # f => frame'[h] = frame[h]
  BY SenderEffect DEF SaidInv, Sender, FailToSend
<1>2. /\ UNCHANGED <<queue, said, conns, handed>>
      /\ lost' = [lost EXCEPT ![c] = @ \cup {q}]
  BY DEF FailToSend
<1>3. DOMAIN handed = 1..conns /\ DOMAIN lost = 1..conns /\ conns \in Nat
  BY DEF SaidInv, Inv, TypeInv
<1>4. OrderInv /\ c \in DOMAIN handed /\ c # 0
  BY <1>1, <1>3 DEF SaidInv
<1>5. lost[c] = {} /\ \A i \in DOMAIN handed[c] : Before(handed[c][i], q)
  BY <1>1, <1>4, NoneAssumption DEF OrderInv
<1>6. /\ DOMAIN lost' = 1..conns /\ lost'[c] = {q}
      /\ \A d \in 1..conns : d # c => lost'[d] = lost[d]
  BY <1>1, <1>2, <1>3, <1>5 DEF SaidInv, Inv, TypeInv
<1> HIDE DEF q, c
<1>7. \A r \in Requests : Gone(r) <=> Gone(r)'
  <2> SUFFICES ASSUME NEW r \in Requests PROVE Gone(r) <=> Gone(r)'
    OBVIOUS
  <2>1. (\E h \in Frames : frame[h].held = r)
            <=> (\E h \in Frames : frame'[h].held = r) \/ r = q
    BY <1>1, NoneAssumption DEF q
  <2>2. (\E d \in DOMAIN lost' : r \in lost'[d]) <=> (\E d \in DOMAIN lost : r \in lost[d]) \/ r = q
    BY <1>1, <1>3, <1>5, <1>6
  <2>3. QED BY <1>2, <2>1, <2>2 DEF Gone
<1>8. QueueInv' /\ GoneInv'
  BY <1>2, <1>7 DEF SaidInv, QueueInv, GoneInv, Said
<1>9. FoundInv'
  <2> SUFFICES ASSUME NEW n \in DOMAIN said, said[n] = "client"
               PROVE  LET r == [from |-> "client", n |-> n]
                      IN  (\E i \in DOMAIN queue : queue[i] = r) \/ Gone(r)'
    BY <1>2 DEF FoundInv
  <2>1. PICK r \in Requests : r = [from |-> "client", n |-> n]
    BY ClientRequest DEF SaidInv, Inv
  <2>2. QED BY <1>7, <2>1 DEF SaidInv, FoundInv
<1>10. OnceInv'
  <2> SUFFICES ASSUME NEW r \in Requests, r.from = "client"
               PROVE  Once(r)'
    BY DEF OnceInv
  <2>1. Once(r)
    BY DEF SaidInv, OnceInv
  <2>2. CASE r = q
    <3>1. /\ \A h \in Frames : frame[h].held = r => h = f
          /\ \A d \in DOMAIN lost : r \notin lost[d]
          /\ \A d \in DOMAIN handed : \A i \in DOMAIN handed[d] : handed[d][i] # r
      BY <2>1, <2>2 DEF Once, q
    <3>2. \A h \in Frames : frame'[h].held # r
      BY <1>1, <3>1, NoneAssumption
    <3>3. \A d \in DOMAIN lost' : r \in lost'[d] => d = c
      BY <1>3, <1>6, <3>1
    <3>4. QED BY <1>2, <3>1, <3>2, <3>3 DEF Once
  <2>3. CASE r # q
    <3>1. \A h \in Frames : frame'[h].held = r => frame[h].held = r
      BY <1>1, NoneAssumption
    <3>2. \A d \in DOMAIN lost' : r \in lost'[d] => d \in DOMAIN lost /\ r \in lost[d]
      BY <1>3, <1>6, <2>3
    <3>3. QED BY <1>2, <2>1, <3>1, <3>2 DEF Once
  <2>4. QED BY <2>2, <2>3
<1>11. OrderInv'
  <2>1. \A h \in Frames : h # f => frame[h].conn # c
    BY <1>1, <1>4 DEF SaidInv, Inv, LinkInv, c
  <2>2. \A d \in DOMAIN handed :
            /\ \A i, j \in DOMAIN handed[d] : i < j => Before(handed[d][i], handed[d][j])
            /\ \A r \in lost'[d] : /\ \A i \in DOMAIN handed[d] : Before(handed[d][i], r)
                                   /\ \A s \in lost'[d] : s = r
    BY <1>3, <1>4, <1>5, <1>6 DEF OrderInv
  <2>3. \A h \in Frames : frame'[h].conn # 0 =>
           /\ frame'[h].held # None =>
                  \A i \in DOMAIN handed[frame'[h].conn] :
                      Before(handed[frame'[h].conn][i], frame'[h].held)
           /\ frame'[h].sender # "ended" => lost'[frame'[h].conn] = {}
    <3> SUFFICES ASSUME NEW h \in Frames, h # f, frame'[h].conn # 0
                 PROVE  /\ frame'[h].held # None =>
                               \A i \in DOMAIN handed[frame'[h].conn] :
                                   Before(handed[frame'[h].conn][i], frame'[h].held)
                        /\ frame'[h].sender # "ended" => lost'[frame'[h].conn] = {}
      OBVIOUS
    <3>1. frame[h] \in FrameType(conns)
      BY DEF SaidInv, Inv, TypeInv
    <3>2. frame[h].conn \in 0..conns
      BY <1>3, <3>1, Fields
    <3>3. frame'[h] = frame[h] /\ frame[h].conn # c /\ frame[h].conn \in 1..conns
      BY <1>1, <1>3, <2>1, <3>2
    <3>4. QED BY <1>4, <1>6, <3>3 DEF OrderInv
  <2>4. QED BY <1>2, <2>2, <2>3 DEF OrderInv
<1>12. QED BY <1>8, <1>9, <1>10, <1>11 DEF SaidInv

LEMMA SaidNext == ASSUME SaidInv, [Next]_vars PROVE SaidInv'
<1>1. Inv /\ Inv'
  BY InvNext DEF SaidInv
<1>2. CASE UNCHANGED vars
  BY <1>1, <1>2, QuietSaid DEF vars
<1>3. CASE \E from \in {"client", "close"} : Enqueue(from)
  <2>1. PICK from \in {"client", "close"} : Enqueue(from)
    BY <1>3
  <2>2. PICK r \in Requests : r = [from |-> from, n |-> Len(said) + 1]
                              /\ r.from = from /\ r.n = Len(said) + 1
    <3>1. Len(said) + 1 \in 1..MaxRequests
      BY <1>1, <2>1, LiveSessionAssumption DEF Inv, TypeInv, Enqueue
    <3>2. /\ [from |-> from, n |-> Len(said) + 1] \in Requests
          /\ [from |-> from, n |-> Len(said) + 1].from = from
          /\ [from |-> from, n |-> Len(said) + 1].n = Len(said) + 1
      BY <3>1 DEF Requests
    <3>3. QED BY <3>2
  <2>3. QED BY <1>1, <2>1, <2>2, AppendSaid DEF Enqueue
<1>4. CASE EnqueueResponse
  <2>1. PICK r \in Requests : r = [from |-> "tool", n |-> respond.call] /\ r.from = "tool"
    <3>1. respond.call \in Nat
      BY <1>1 DEF Inv, TypeInv
    <3>2. /\ [from |-> "tool", n |-> respond.call] \in Requests
          /\ [from |-> "tool", n |-> respond.call].from = "tool"
      BY <3>1 DEF Requests
    <3>3. QED BY <3>2
  <2>2. QED BY <1>1, <1>4, <2>1, AppendSaid DEF EnqueueResponse
<1>5. CASE Moves /\ ~EnqueueResponse
  <2>1. UNCHANGED <<queue, said, frame, handed, lost>>
    BY <1>5 DEF Moves, Close, Cancel, GoOn, FailToRespond, ServerEnded,
                Dropped, ReceiveCancelled, LeaveLoop
  <2>2. QED BY <1>1, <2>1, QuietSaid
<1>6. CASE Connect
  BY <1>1, <1>6, ConnectSaid
<1>7. CASE FailToConnect \/ Reconnect \/ EndRun \/ Throw
  <2>1. \E g \in FrameType(conns) :
            /\ SetFrame(depth, g) /\ g.conn = 0 /\ g.held = None /\ g.sender = "ended"
    <3>1. CASE FailToConnect \/ EndRun \/ Throw
      <4>1. Idle \in FrameType(conns)
        BY <1>1, IdleType DEF Inv, TypeInv
      <4>2. Idle.conn = 0 /\ Idle.held = None /\ Idle.sender = "ended"
        BY DEF Idle
      <4>3. SetFrame(depth, Idle)
        BY <3>1 DEF FailToConnect, EndRun, Throw, Stopped
      <4>4. QED BY <4>1, <4>2, <4>3
    <3>2. CASE Reconnect
      <4> DEFINE g == [Idle EXCEPT !.attempt = frame[depth].attempt + 1]
      <4>1. frame[depth].attempt + 1 \in 0..MaxReconnects
        <5>1. frame[depth].attempt \in 0..MaxReconnects
          BY <1>1, Fields DEF Inv, TypeInv
        <5>2. frame[depth].attempt < MaxReconnects
          BY <1>1, <3>2 DEF Reconnect, Inv, ControlInv
        <5>3. QED BY <5>1, <5>2, LiveSessionAssumption
      <4>2. g \in FrameType(conns) /\ g.conn = 0 /\ g.held = None /\ g.sender = "ended"
        BY <1>1, <4>1, SetAttempt DEF Inv, TypeInv
      <4>3. SetFrame(depth, g)
        BY <3>2 DEF Reconnect, Stopped
      <4> HIDE DEF g
      <4>4. QED BY <4>2, <4>3
    <3>3. QED BY <1>7, <3>1, <3>2
  <2>2. UNCHANGED <<queue, said, conns, handed, lost>>
    BY <1>7 DEF FailToConnect, Reconnect, EndRun, Throw, Stopped
  <2>3. depth \in Frames /\ conns \in Nat
    BY <1>1 DEF Inv, TypeInv
  <2>4. frame[depth].held = None
    <3>1. CASE FailToConnect
      <4>1. frame[depth].link = "none"
        BY <1>1, <3>1 DEF Inv, ControlInv, FailToConnect
      <4>2. QED BY <1>1, <2>3, <4>1 DEF Inv, LinkInv
    <3>2. QED BY <1>7, <3>1 DEF Reconnect, EndRun, Throw, Stopped
  <2>5. /\ frame'[depth].conn = 0 /\ frame'[depth].held = None
        /\ frame'[depth].sender = "ended"
        /\ \A h \in Frames : h # depth => frame'[h] = frame[h]
    BY <1>1, <2>1, <2>3, OneFrame DEF Inv
  <2>6. QED BY <1>1, <2>2, <2>3, <2>4, <2>5, QuietSaid
<1>8. CASE Receive \/ \E f \in Frames : Server(f)
  <2>1. \E f \in Frames, g \in FrameType(conns) :
            /\ SetFrame(f, g) /\ g.conn = frame[f].conn /\ g.held = frame[f].held
            /\ g.sender = frame[f].sender
    <3>1. CASE Receive
      BY <1>1, <3>1, ReceiveFrame
    <3>2. CASE \E f \in Frames : Server(f)
      BY <1>1, <3>2, ServerFrame
    <3>3. QED BY <1>8, <3>1, <3>2
  <2>2. UNCHANGED <<queue, said, conns, handed, lost>>
    BY <1>8 DEF Receive, Server
  <2>3. \A h \in Frames :
            /\ frame'[h].conn = frame[h].conn /\ frame'[h].held = frame[h].held
            /\ frame'[h].sender = frame[h].sender
    <3>1. conns \in Nat
      BY <1>1 DEF Inv, TypeInv
    <3>2. QED BY <1>1, <2>1, <3>1, OneFrame DEF Inv
  <2>4. QED BY <1>1, <2>2, <2>3, QuietSaid
<1>9. CASE \E f \in Frames : Sender(f)
  <2>1. PICK f \in Frames : Sender(f)
    BY <1>9
  <2>2. CASE (ReadNothing(f) \/ EndSending(f)) /\ frame'[f].held = None /\ frame[f].held = None
    <3>1. UNCHANGED <<queue, said, handed, lost>>
      BY <2>2 DEF ReadNothing, EndSending
    <3>2. QED BY <1>1, <2>1, <2>2, <3>1, SenderEffect, QuietSaid
  <2>3. QED BY <1>1, <2>1, <2>2, SenderEffect, TakeSaid, HandSaid, FailSaid
<1>10. QED
  BY <1>2, <1>3, <1>4, <1>5, <1>6, <1>7, <1>8, <1>9 DEF Next, Loop, Moves

\* The four kinds of places.
LEMMA PlacesAre ==
    ASSUME NEW q, TypeInv
    PROVE  Places(q) =
               {<<"queue", 0, i>> : i \in {i \in DOMAIN queue : queue[i] = q}}
                   \cup {<<"sending", f, 0>> : f \in {f \in Frames : frame[f].held = q}}
                   \cup {<<"lost", c, 0>> : c \in {c \in 1..conns : q \in lost[c]}}
                   \cup UNION {{<<"handed", c, i>> :
                                   i \in {i \in DOMAIN handed[c] : handed[c][i] = q}} :
                               c \in 1..conns}
BY DEF Places

\* A request of the client that is somewhere is nowhere else.
LEMMA OnePlace ==
    ASSUME SaidInv, NEW q \in Requests, q.from = "client",
           (\E i \in DOMAIN queue : queue[i] = q) \/ Gone(q)
    PROVE  Cardinality(Places(q)) = 1
<1>1. DOMAIN handed = 1..conns /\ DOMAIN lost = 1..conns /\ TypeInv
  BY DEF SaidInv, Inv, TypeInv
<1>2. /\ Once(q) /\ q.n \in Nat /\ DOMAIN queue = 1..Len(queue) /\ Len(queue) \in Nat
  BY DEF SaidInv, OnceInv, Inv, TypeInv, Requests
<1>3. \A i, j \in DOMAIN queue : queue[i] = q /\ queue[j] = q => i = j
  <2> SUFFICES ASSUME NEW i \in DOMAIN queue, NEW j \in DOMAIN queue, i < j,
                      queue[i] = q, queue[j] = q
               PROVE  FALSE
    BY <1>2
  <2>1. Before(q, q)
    BY DEF SaidInv, QueueInv
  <2>2. QED BY <1>2, <2>1 DEF Before
<1>4. Gone(q) => \A i \in DOMAIN queue : queue[i] # q
  BY <1>2 DEF SaidInv, GoneInv, Before
<1>5. \E p : Places(q) = {p}
  <2>1. CASE \E i \in DOMAIN queue : queue[i] = q
    <3>1. PICK i \in DOMAIN queue : queue[i] = q
      BY <2>1
    <3>2. Places(q) = {<<"queue", 0, i>>}
      BY <1>1, <1>3, <1>4, <3>1, PlacesAre DEF Gone
    <3>3. QED BY <3>2
  <2>2. CASE \E f \in Frames : frame[f].held = q
    <3>1. PICK f \in Frames : frame[f].held = q
      BY <2>2
    <3>2. Places(q) = {<<"sending", f, 0>>}
      BY <1>1, <1>2, <1>4, <3>1, PlacesAre DEF Gone, Once
    <3>3. QED BY <3>2
  <2>3. CASE \E c \in DOMAIN lost : q \in lost[c]
    <3>1. PICK c \in DOMAIN lost : q \in lost[c]
      BY <2>3
    <3>2. Places(q) = {<<"lost", c, 0>>}
      BY <1>1, <1>2, <1>4, <3>1, PlacesAre DEF Gone, Once
    <3>3. QED BY <3>2
  <2>4. CASE \E c \in DOMAIN handed : \E i \in DOMAIN handed[c] : handed[c][i] = q
    <3>1. PICK c \in DOMAIN handed : \E i \in DOMAIN handed[c] : handed[c][i] = q
      BY <2>4
    <3>2. PICK i \in DOMAIN handed[c] : handed[c][i] = q
      BY <3>1
    <3>3. Places(q) = {<<"handed", c, i>>}
      BY <1>1, <1>2, <1>4, <3>2, PlacesAre DEF Gone, Once
    <3>4. QED BY <3>3
  <2>5. QED BY <2>1, <2>2, <2>3, <2>4 DEF Gone
<1>6. QED BY <1>5, FS_Singleton

\* What the user says is neither repeated nor overtaken, and lost only with
\* the connection it was being sent to, for any number of dropped connections
\* and of nested runs with a sending task each (RunLiveAsyncImpl's finally
\* block, LiveRequestQueue.ReadAllAsync).
THEOREM SaidOnce == Spec => []SaidOnceInOrder
<1>1. SaidInv => SaidOnceInOrder
  <2> SUFFICES ASSUME SaidInv PROVE SaidOnceInOrder
    OBVIOUS
  <2>1. DOMAIN handed = 1..conns
    BY DEF SaidInv, Inv, TypeInv
  <2>2. ASSUME NEW n \in DOMAIN said, said[n] = "client"
        PROVE  Cardinality(Places([from |-> "client", n |-> n])) = 1
    <3>1. PICK q \in Requests : q = [from |-> "client", n |-> n] /\ q.from = "client"
      BY ClientRequest DEF SaidInv, Inv
    <3>2. (\E i \in DOMAIN queue : queue[i] = q) \/ Gone(q)
      BY <2>2, <3>1 DEF SaidInv, FoundInv
    <3>3. QED BY <3>1, <3>2, OnePlace
  <2>3. QED BY <2>1, <2>2 DEF SaidInv, OrderInv, SaidOnceInOrder
<1>2. SaidInv /\ [Next]_vars => SaidInv'
  BY SaidNext
<1>3. QED BY InitSaid, <1>1, <1>2, PTL DEF Spec

=============================================================================
