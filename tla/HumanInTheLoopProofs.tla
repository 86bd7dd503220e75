------------------------ MODULE HumanInTheLoopProofs ------------------------
(***************************************************************************)
(* What the user is asked and what is run upon the answer, for any number  *)
(* of calls and of messages.                                               *)
(***************************************************************************)
EXTENDS HumanInTheLoop, TLAPS, FiniteSetTheorems, SequenceTheorems

\* What an event may say: of calls that exist, each asked about what its tool
\* asks; only the user answers.
Sound(e) ==
    /\ e \in Events
    /\ e.calls \subseteq 1..made
    /\ DOMAIN e.confirm \subseteq 1..made /\ DOMAIN e.auth \subseteq 1..made
    /\ e.kind = "confirm" => \A c \in e.calls : kind[c] \in {"gated", "policy"}
    /\ e.kind = "auth" => \A c \in e.calls : kind[c] = "auth"
    /\ \A c \in DOMAIN e.confirm : kind[c] \in {"gated", "policy"}
    /\ \A c \in DOMAIN e.auth : kind[c] = "auth"
    /\ e.kind # "user" => e.confirm = NoAnswers /\ e.auth = NoAnswers

EventsSound ==
    /\ history \in Seq(Events) /\ out \in Seq(Events)
    /\ \A i \in DOMAIN history : Sound(history[i])
    /\ \A i \in DOMAIN out : Sound(out[i])

Scalars ==
    /\ kind \in [Calls -> Kinds]
    /\ pc \in {"idle", "auth", "confirm", "model", "tools"}
    /\ cred \in BOOLEAN
    /\ made \in 0..N
    /\ runs \in [Calls -> Nat] /\ lost \in [Calls -> Nat]
    /\ fault \in BOOLEAN

\* The turn has begun with a message; only the agent's last step before the
\* model's yields anything.
Turn ==
    /\ pc # "idle" => history # << >>
    /\ pc = "tools" /\ out = << >> => history # << >> /\ LastEvent.kind = "call"
    /\ pc = "tools" /\ out # << >> => Len(out) = 1 /\ out[1].kind = "call"

Types == Scalars /\ EventsSound /\ Turn

-----------------------------------------------------------------------------
LEMMA NoAnswersIsAnswers == NoAnswers \in Answers /\ DOMAIN NoAnswers = {}
<1>1. NoAnswers \in [{} -> BOOLEAN]
  BY DEF NoAnswers
<1>2. [{} -> BOOLEAN] \in {[S -> BOOLEAN] : S \in SUBSET Calls}
  OBVIOUS
<1> QED
  BY <1>1, <1>2 DEF Answers, NoAnswers

LEMMA AnswersDomain ==
    ASSUME NEW a \in Answers
    PROVE  DOMAIN a \in SUBSET Calls /\ a \in [DOMAIN a -> BOOLEAN]
BY DEF Answers

LEMMA AnswersIn ==
    ASSUME NEW S \in SUBSET Calls, NEW a \in [S -> BOOLEAN]
    PROVE  a \in Answers
<1>1. [S -> BOOLEAN] \in {[T -> BOOLEAN] : T \in SUBSET Calls}
  OBVIOUS
<1> QED
  BY <1>1 DEF Answers

\* An event of the agent is sound if what it says of its calls is.
LEMMA EventIsSound ==
    ASSUME Scalars,
           NEW k \in {"text", "call", "auth", "confirm", "response"},
           NEW S \in SUBSET Calls, S \subseteq 1..made,
           k = "confirm" => \A c \in S : kind[c] \in {"gated", "policy"},
           k = "auth" => \A c \in S : kind[c] = "auth"
    PROVE  Sound(Event(k, S))
<1>1. Event(k, S) \in Events
  BY NoAnswersIsAnswers DEF Event, Events
<1> QED
  BY <1>1, NoAnswersIsAnswers DEF Event, Sound, Scalars

\* So is a message that answers what has been asked.
LEMMA MessageIsSound ==
    ASSUME Types, NEW m \in Messages
    PROVE  Sound(m)
<1>1. PICK confirm \in UNION {[S -> BOOLEAN] : S \in SUBSET Of("confirm")},
           auth \in UNION {[S -> BOOLEAN] : S \in SUBSET Of("auth")} :
             m = Message(confirm, auth)
  BY DEF Messages
<1>2. PICK C \in SUBSET Of("confirm") : confirm \in [C -> BOOLEAN]
  OBVIOUS
<1>3. PICK A \in SUBSET Of("auth") : auth \in [A -> BOOLEAN]
  OBVIOUS
<1>4. \A c \in C : c \in 1..made /\ kind[c] \in {"gated", "policy"}
  BY DEF Of, Positions, Types, EventsSound, Sound
<1>5. \A c \in A : c \in 1..made /\ kind[c] = "auth"
  BY DEF Of, Positions, Types, EventsSound, Sound
<1>6. 1..made \subseteq Calls
  BY HumanAssumption DEF Types, Scalars, Calls
<1>7. confirm \in Answers /\ auth \in Answers
  BY <1>2, <1>3, <1>4, <1>5, <1>6, AnswersIn
<1>8. m \in Events
  BY <1>1, <1>7 DEF Message, Events
<1> QED
  BY <1>1, <1>2, <1>3, <1>4, <1>5, <1>8 DEF Message, Sound

-----------------------------------------------------------------------------
(* The steps of the events                                                 *)

LEMMA SoundStays ==
    ASSUME kind' = kind, made \in Nat, made' \in Nat, made <= made', NEW e, Sound(e)
    PROVE  Sound(e)'
BY DEF Sound

\* An event goes from the agent to the session.
Push ==
    /\ out # << >>
    /\ history' = Append(history, Head(out))
    /\ out' \in {Tail(out), << >>}
    /\ UNCHANGED <<kind, made, cred, runs>>

LEMMA PushedSound ==
    ASSUME Types, Push
    PROVE  EventsSound'
<1>1. Head(out) = out[1] /\ 1 \in DOMAIN out /\ Sound(Head(out)) /\ Head(out) \in Events
  BY DEF Types, EventsSound, Push
<1>2. \A i \in DOMAIN Tail(out) : i + 1 \in DOMAIN out /\ Tail(out)[i] = out[i + 1]
  BY DEF Types, EventsSound, Push
<1>3. Tail(out) \in Seq(Events)
  BY DEF Types, EventsSound, Push
<1>4. history' \in Seq(Events) /\ out' \in Seq(Events)
  <2>1. history' \in Seq(Events)
    BY <1>1, AppendProperties DEF Types, EventsSound, Push
  <2>2. << >> \in Seq(Events)
    OBVIOUS
  <2> QED
    BY <2>1, <2>2, <1>3 DEF Push
<1>5. \A i \in DOMAIN history' : Sound(history'[i])
  <2> TAKE i \in DOMAIN history'
  <2>1. CASE i = Len(history) + 1
    BY <2>1, <1>1 DEF Types, EventsSound, Push
  <2>2. CASE i # Len(history) + 1
    <3>1. i \in DOMAIN history /\ history'[i] = history[i]
      BY <2>2, <1>1 DEF Types, EventsSound, Push
    <3> QED
      BY <3>1 DEF Types, EventsSound
  <2> QED
    BY <2>1, <2>2
<1>6. \A i \in DOMAIN out' : Sound(out'[i])
  <2>1. CASE out' = << >>
    BY <2>1
  <2>2. CASE out' = Tail(out)
    BY <2>2, <1>2 DEF Types, EventsSound
  <2> QED
    BY <2>1, <2>2 DEF Push
<1> QED
  BY <1>4, <1>5, <1>6 DEF EventsSound, Sound, Push

\* The agent has yielded nothing yet; e and f are what it yields now.
LEMMA EmittedSound ==
    ASSUME Types, UNCHANGED <<kind, history>>, made' \in 0..N, made <= made',
           NEW e, NEW f,
           out' \in {out, << >>, <<e>>, <<e, f>>},
           Sound(e)', Sound(f)'
    PROVE  EventsSound'
<1>1. made \in Nat /\ made' \in Nat
  BY HumanAssumption DEF Types, Scalars
<1>2. \A x : Sound(x) => Sound(x)'
  BY <1>1, SoundStays
<1>3. e \in Events /\ f \in Events
  BY DEF Sound
<1>4. out' \in Seq(Events)
  <2>1. << >> \in Seq(Events) /\ <<e>> \in Seq(Events) /\ <<e, f>> \in Seq(Events)
    BY <1>3
  <2> QED
    BY <2>1 DEF Types, EventsSound
<1>5. (\A i \in DOMAIN history : Sound(history[i]))'
  BY <1>2 DEF Types, EventsSound, Sound
<1>6. (\A i \in DOMAIN out : Sound(out[i]))'
  <2>1. CASE out' = out
    BY <2>1, <1>2 DEF Types, EventsSound, Sound
  <2>2. CASE out' \in {<< >>, <<e>>, <<e, f>>}
    BY <2>2, <1>3 DEF Sound
  <2> QED
    BY <2>1, <2>2
<1> QED
  BY <1>4, <1>5, <1>6 DEF EventsSound, Types

-----------------------------------------------------------------------------
(* What the tools do to the counts                                         *)

LEMMA Executed ==
    ASSUME Types, NEW S, NEW a, NEW cr, Execute(S, a, cr)
    PROVE  /\ runs' \in [Calls -> Nat]
           /\ \A c \in Calls :
                 runs'[c] = IF c \in S /\ Runs(c, a, cr) THEN runs[c] + 1 ELSE runs[c]
BY DEF Execute, Types, Scalars

LEMMA Failed ==
    ASSUME Types, NEW S, NEW a, NEW cr, Fail(S, a, cr)
    PROVE  /\ runs' \in [Calls -> Nat] /\ lost' \in [Calls -> Nat]
           /\ pc' = "idle" /\ fault' = TRUE
           /\ UNCHANGED <<kind, history, out, made>>
           /\ \A c \in Calls :
                 \/ runs'[c] = runs[c] /\ lost'[c] = lost[c]
                 \/ /\ c \in S /\ Runs(c, a, cr)
                    /\ runs'[c] = runs[c] + 1 /\ lost'[c] = lost[c] + 1
<1>1. PICK R \in SUBSET {c \in S : Runs(c, a, cr)} :
          /\ runs' = [c \in Calls |-> IF c \in R THEN runs[c] + 1 ELSE runs[c]]
          /\ lost' = [c \in Calls |-> IF c \in R THEN lost[c] + 1 ELSE lost[c]]
  BY DEF Fail
<1>2. runs' \in [Calls -> Nat] /\ lost' \in [Calls -> Nat]
  BY <1>1 DEF Types, Scalars
<1>3. \A c \in Calls :
          \/ runs'[c] = runs[c] /\ lost'[c] = lost[c]
          \/ /\ c \in S /\ Runs(c, a, cr)
             /\ runs'[c] = runs[c] + 1 /\ lost'[c] = lost[c] + 1
  BY <1>1
<1> QED
  BY <1>2, <1>3 DEF Fail

\* The last event, where the agent looks at it.
LEMMA LastIsSound ==
    ASSUME Types, pc # "idle"
    PROVE  /\ Len(history) \in DOMAIN history
           /\ LastEvent \in Events /\ Sound(LastEvent)
BY DEF Types, Turn, EventsSound, LastEvent

LEMMA ResumedSound ==
    ASSUME Types, NEW a \in Answers
    PROVE  Resumed(a) \subseteq DOMAIN a
BY DEF Resumed

\* The latest answers are in the history; how the maximum is known to be
\* there is a matter of the invariants.
HasLatest == Answering # {} => \E i \in Answering : \A j \in Answering : j <= i

LEMMA LatestAnswers ==
    ASSUME Types, HasLatest, Answering # {}
    PROVE  /\ Latest(Answering) \in Answering
           /\ \A j \in Answering : j <= Latest(Answering)
BY DEF HasLatest, Latest

LEMMA PendingSound ==
    ASSUME Types, HasLatest
    PROVE  \A c \in Pending : /\ c \in 1..made /\ c \in Calls
                              /\ kind[c] \in {"gated", "policy"}
<1>1. CASE Answering = {}
  BY <1>1 DEF Pending
<1>2. CASE Answering # {}
  <2>1. Latest(Answering) \in DOMAIN history
    BY <1>2, LatestAnswers DEF Answering, Positions
  <2>2. Sound(history[Latest(Answering)])
    BY <2>1 DEF Types, EventsSound
  <2> QED
    BY <1>2, <2>2, HumanAssumption DEF Pending, Sound, Calls, Types, Scalars
<1> QED
  BY <1>1, <1>2

-----------------------------------------------------------------------------
(* Types                                                                   *)

\* The agent goes on from At(...), yields at most e and f, and does not make
\* calls.
LEMMA StepTypes ==
    ASSUME Types, UNCHANGED <<kind, history, made>>, NEW e, NEW f,
           out' \in {out, << >>, <<e>>, <<e, f>>}, Sound(e), Sound(f),
           pc' \in {"idle", "auth", "confirm", "model"},
           history # << >> \/ pc' = "idle",
           cred' \in BOOLEAN, fault' \in BOOLEAN,
           runs' \in [Calls -> Nat], lost' \in [Calls -> Nat]
    PROVE  Types'
<1>1. made \in Nat /\ made' \in Nat /\ made' \in 0..N /\ made <= made'
  BY HumanAssumption DEF Types, Scalars
<1>2. Sound(e)' /\ Sound(f)'
  BY <1>1, SoundStays
<1>3. EventsSound'
  BY <1>1, <1>2, EmittedSound
<1>4. Scalars'
  BY DEF Types, Scalars
<1>5. Turn'
  BY DEF Turn
<1> QED
  BY <1>3, <1>4, <1>5 DEF Types

\* The same of a step that yields nothing.
LEMMA QuietTypes ==
    ASSUME Types, UNCHANGED <<kind, history, made, out>>,
           pc' \in {"idle", "auth", "confirm", "model"},
           history # << >> \/ pc' = "idle",
           cred' \in BOOLEAN, fault' \in BOOLEAN,
           runs' \in [Calls -> Nat], lost' \in [Calls -> Nat]
    PROVE  Types'
<1>1. PICK e : e = Event("text", {})
  OBVIOUS
<1>2. Sound(e)
  BY <1>1, EventIsSound DEF Types
<1> QED
  BY <1>2, StepTypes

LEMMA PushTypes ==
    ASSUME Types, Push, fault' \in BOOLEAN, UNCHANGED lost,
           \/ pc' = "idle"
           \/ pc' = pc /\ (pc = "tools" => out' = Tail(out))
    PROVE  Types'
<1>1. EventsSound'
  BY PushedSound
<1>2. Scalars'
  BY DEF Types, Scalars, Push
<1>3. history' # << >> /\ Len(history') = Len(history) + 1
      /\ history'[Len(history) + 1] = Head(out)
  BY DEF Types, EventsSound, Push
<1>4. Turn'
  <2>1. CASE pc' = "idle"
    BY <2>1 DEF Turn
  <2>2. CASE pc' = pc /\ pc = "tools"
    <3>1. out' = Tail(out) /\ Len(out) = 1 /\ out[1].kind = "call"
      BY <2>2 DEF Types, Turn, Push
    <3>2. out' = << >> /\ Head(out).kind = "call"
      BY <3>1 DEF Types, EventsSound
    <3> QED
      BY <1>3, <3>2 DEF Turn, LastEvent, Types, EventsSound
  <2>3. CASE pc' = pc /\ pc # "tools"
    BY <1>3, <2>3 DEF Turn
  <2> QED
    BY <2>1, <2>2, <2>3
<1> QED
  BY <1>1, <1>2, <1>4 DEF Types

LEMMA SayTypes ==
    ASSUME Types, NEW m \in Messages, Say(m)
    PROVE  Types'
<1>1. Sound(m) /\ m \in Events
  BY MessageIsSound DEF Sound
<1>2. history' \in Seq(Events) /\ history' # << >>
      /\ \A i \in DOMAIN history' : \/ i \in DOMAIN history /\ history'[i] = history[i]
                                   \/ history'[i] = m
  BY <1>1 DEF Types, EventsSound, Say
<1>3. EventsSound'
  BY <1>1, <1>2 DEF Types, EventsSound, Say, Sound
<1>4. Scalars' /\ Turn'
  BY <1>2 DEF Types, Scalars, Say, Turn
<1> QED
  BY <1>3, <1>4 DEF Types

LEMMA ResumeAuthorizedTypes ==
    ASSUME Types, NEW d \in Calls, ResumeAuthorized(d)
    PROVE  Types'
<1>1. At("auth") /\ d \in DOMAIN LastEvent.auth /\ cred' = LastEvent.auth[d]
      /\ out = << >> /\ pc = "auth"
  BY DEF ResumeAuthorized, At
<1>2. Sound(LastEvent) /\ LastEvent \in Events /\ history # << >>
  BY <1>1, LastIsSound DEF Types, Turn
<1>3. LastEvent.auth \in Answers
  BY <1>2 DEF Events
<1>4. PICK S : S = Resumed(LastEvent.auth)
  OBVIOUS
<1>5. S \subseteq DOMAIN LastEvent.auth
  BY <1>3, <1>4, ResumedSound
<1>6. S \in SUBSET Calls /\ S \subseteq 1..made
  BY <1>2, <1>3, <1>5, AnswersDomain DEF Sound
<1>7. cred' \in BOOLEAN
  BY <1>1, <1>3, AnswersDomain
<1>8. PICK e : e = Event("response", S)
  OBVIOUS
<1>9. Sound(e)
  BY <1>6, <1>8, EventIsSound DEF Types
<1>10. CASE /\ Execute(S, NoAnswers, cred')
            /\ out' = <<e>>
            /\ pc' = "confirm"
            /\ UNCHANGED <<kind, history, made, lost, fault>>
  <2>1. runs' \in [Calls -> Nat]
    BY <1>10, Executed
  <2>2. lost' \in [Calls -> Nat] /\ fault' \in BOOLEAN
    BY <1>10 DEF Types, Scalars
  <2> QED
    BY <1>2, <1>7, <1>9, <1>10, <2>1, <2>2, StepTypes
<1>11. CASE Fail(S, NoAnswers, cred') /\ UNCHANGED kind
  <2>1. /\ runs' \in [Calls -> Nat] /\ lost' \in [Calls -> Nat]
        /\ pc' = "idle" /\ fault' = TRUE
        /\ UNCHANGED <<kind, history, out, made>>
    BY <1>11, Failed
  <2> QED
    BY <1>7, <2>1, QuietTypes
<1> QED
  BY <1>4, <1>8, <1>10, <1>11 DEF ResumeAuthorized, Fail

LEMMA ResumeConfirmedTypes ==
    ASSUME Types, HasLatest, ResumeConfirmed
    PROVE  Types'
<1>1. At("confirm") /\ out = << >> /\ pc = "confirm" /\ cred' = cred
  BY DEF ResumeConfirmed, At
<1>2. history # << >> /\ cred' \in BOOLEAN
  BY <1>1 DEF Types, Turn, Scalars
<1>3. PICK S : S = Pending
  OBVIOUS
<1>4. PICK a : a = history[Latest(Answering)].confirm
  OBVIOUS
<1>5. PICK e : e = Event("response", S)
  OBVIOUS
<1>6. S \in SUBSET Calls /\ S \subseteq 1..made
  BY <1>3, PendingSound
<1>7. Sound(e)
  BY <1>5, <1>6, EventIsSound DEF Types
<1>8. CASE /\ Execute(S, a, cred)
           /\ out' = <<e>>
           /\ pc' = "model"
           /\ UNCHANGED <<kind, history, made, lost, fault>>
  <2>1. runs' \in [Calls -> Nat]
    BY <1>8, Executed
  <2>2. lost' \in [Calls -> Nat] /\ fault' \in BOOLEAN
    BY <1>8 DEF Types, Scalars
  <2> QED
    BY <1>2, <1>7, <1>8, <2>1, <2>2, StepTypes
<1>9. CASE Fail(S, a, cred)
  <2>1. /\ runs' \in [Calls -> Nat] /\ lost' \in [Calls -> Nat]
        /\ pc' = "idle" /\ fault' = TRUE
        /\ UNCHANGED <<kind, history, out, made>>
    BY <1>9, Failed
  <2> QED
    BY <1>2, <2>1, QuietTypes
<1> QED
  BY <1>3, <1>4, <1>5, <1>8, <1>9 DEF ResumeConfirmed

LEMMA RespondCallsTypes ==
    ASSUME Types, NEW n \in Calls, RespondCalls(n)
    PROVE  Types'
<1>1. made \in Nat /\ n \in Nat /\ made' = made + n /\ made' \in Nat /\ made' \in 0..N
      /\ made <= made' /\ UNCHANGED <<kind, history, cred, runs, lost, fault>>
      /\ out = << >> /\ pc = "model" /\ pc' = "tools"
  BY HumanAssumption DEF Types, Scalars, RespondCalls, Calls, At
<1>2. PICK S : S = made + 1..made + n
  OBVIOUS
<1>3. S \in SUBSET Calls /\ S \subseteq 1..made'
  BY <1>1, <1>2, HumanAssumption DEF Calls
<1>4. PICK e : e = Event("call", S)
  OBVIOUS
<1>5. out' = <<e>>
  BY <1>2, <1>4 DEF RespondCalls
<1>6. e \in Events /\ e.kind = "call" /\ e.calls = S
      /\ e.confirm = NoAnswers /\ e.auth = NoAnswers
  BY <1>3, <1>4, NoAnswersIsAnswers DEF Event, Events
<1>7. Sound(e)'
  BY <1>3, <1>6, NoAnswersIsAnswers DEF Sound
<1>8. EventsSound'
  BY <1>1, <1>5, <1>7, EmittedSound
<1>9. Scalars'
  BY <1>1 DEF Types, Scalars
<1>10. Turn'
  BY <1>1, <1>5, <1>6 DEF Types, Turn
<1> QED
  BY <1>8, <1>9, <1>10 DEF Types

LEMMA Concatenations ==
    ASSUME NEW a, NEW b
    PROVE  <<a>> \o <<b>> = <<a, b>> /\ << >> \o <<b>> = <<b>>
<1>1. << >> \in Seq({a, b}) /\ <<a>> \in Seq({a, b}) /\ <<b>> \in Seq({a, b})
      /\ <<a, b>> \in Seq({a, b})
  OBVIOUS
<1>2. << >> \o <<b>> = <<b>>
  BY <1>1, ConcatEmptySeq, Zenon
<1>3. /\ <<a>> \o <<b>> \in Seq({a, b})
      /\ Len(<<a>> \o <<b>>) = Len(<<a>>) + Len(<<b>>)
      /\ \A i \in 1..Len(<<a>>) + Len(<<b>>) :
             (<<a>> \o <<b>>)[i] = IF i <= Len(<<a>>) THEN <<a>>[i]
                                   ELSE <<b>>[i - Len(<<a>>)]
  BY <1>1, ConcatProperties
<1>4. PICK s : s = <<a>> \o <<b>>
  OBVIOUS
<1>5. s \in Seq({a, b}) /\ Len(s) = 2 /\ s[1] = a /\ s[2] = b
  BY <1>3, <1>4
<1>6. s = <<a, b>>
  BY <1>5
<1> QED
  BY <1>2, <1>4, <1>6

LEMMA RequestsAre ==
    ASSUME NEW S, NEW A, A = Event("auth", Unauthorized(S)),
           NEW C, C = Event("confirm", Asking(S)), NEW R, R = Event("response", S)
    PROVE  /\ Unauthorized(S) # {} /\ Asking(S) # {} => Requests(S) = <<A, C>>
           /\ Unauthorized(S) # {} /\ Asking(S) = {} => Requests(S) = <<A, R>>
           /\ Unauthorized(S) = {} /\ Asking(S) # {} => Requests(S) = <<C>>
           /\ Unauthorized(S) = {} /\ Asking(S) = {} => Requests(S) = <<R>>
<1>1. Requests(S) = (IF Unauthorized(S) # {} THEN <<A>> ELSE << >>)
                    \o (IF Asking(S) # {} THEN <<C>> ELSE <<R>>)
  BY DEF Requests
<1>2. /\ <<A>> \o <<C>> = <<A, C>> /\ <<A>> \o <<R>> = <<A, R>>
      /\ << >> \o <<C>> = <<C>> /\ << >> \o <<R>> = <<R>>
  BY Concatenations
<1>3. CASE Unauthorized(S) # {}
  BY <1>1, <1>2, <1>3, Zenon
<1>4. CASE Unauthorized(S) = {}
  BY <1>1, <1>2, <1>4, Zenon
<1> QED
  BY <1>3, <1>4

LEMMA RunToolsTypes ==
    ASSUME Types, RunTools
    PROVE  Types'
<1>1. out = << >> /\ pc = "tools" /\ cred' = cred /\ history # << >>
  BY DEF RunTools, At, Types, Turn
<1>2. PICK S : S = LastEvent.calls
  OBVIOUS
<1>3. S \in SUBSET Calls /\ S \subseteq 1..made
  BY <1>1, <1>2, LastIsSound DEF Sound, Events
<1>4. cred' \in BOOLEAN
  BY <1>1 DEF Types, Scalars
<1>5. CASE /\ Execute(S, NoAnswers, cred)
           /\ out' = Requests(S)
           /\ pc' = IF Asking(S) \cup Unauthorized(S) = {} THEN "auth" ELSE "idle"
           /\ UNCHANGED <<kind, history, made, lost, fault>>
  <2>1. PICK A : A = Event("auth", Unauthorized(S))
    OBVIOUS
  <2>2. PICK C : C = Event("confirm", Asking(S))
    OBVIOUS
  <2>3. PICK R : R = Event("response", S)
    OBVIOUS
  <2>4. Unauthorized(S) \in SUBSET Calls /\ Unauthorized(S) \subseteq 1..made
        /\ \A c \in Unauthorized(S) : kind[c] = "auth"
    BY <1>3 DEF Unauthorized
  <2>5. Asking(S) \in SUBSET Calls /\ Asking(S) \subseteq 1..made
        /\ \A c \in Asking(S) : kind[c] \in {"gated", "policy"}
    BY <1>3 DEF Asking
  <2>6. Sound(A)
    BY <2>1, <2>4, EventIsSound DEF Types
  <2>7. Sound(C)
    BY <2>2, <2>5, EventIsSound DEF Types
  <2>8. Sound(R)
    BY <2>3, <1>3, EventIsSound DEF Types
  <2>9. out' \in {<<A, C>>, <<C>>, <<A, R>>, <<R>>}
    BY <1>5, <2>1, <2>2, <2>3, RequestsAre
  <2>10. runs' \in [Calls -> Nat]
    BY <1>5, Executed
  <2>11. lost' \in [Calls -> Nat] /\ fault' \in BOOLEAN /\ pc' \in {"auth", "idle"}
    BY <1>5 DEF Types, Scalars
  <2>12. CASE out' \in {<<A, C>>, <<A>>}
    BY <1>1, <1>4, <1>5, <2>6, <2>7, <2>10, <2>11, <2>12, StepTypes
  <2>13. CASE out' \in {<<A, R>>, <<A>>}
    BY <1>1, <1>4, <1>5, <2>6, <2>8, <2>10, <2>11, <2>13, StepTypes
  <2>14. CASE out' \in {<<C>>, <<R>>}
    <3>1. CASE out' = <<C>>
      BY <1>1, <1>4, <1>5, <2>7, <2>10, <2>11, <3>1, StepTypes
    <3>2. CASE out' = <<R>>
      BY <1>1, <1>4, <1>5, <2>8, <2>10, <2>11, <3>2, StepTypes
    <3> QED
      BY <2>14, <3>1, <3>2
  <2> QED
    BY <2>9, <2>12, <2>13, <2>14
<1>6. CASE Fail(S, NoAnswers, cred)
  <2>1. /\ runs' \in [Calls -> Nat] /\ lost' \in [Calls -> Nat]
        /\ pc' = "idle" /\ fault' = TRUE
        /\ UNCHANGED <<kind, history, out, made>>
    BY <1>6, Failed
  <2> QED
    BY <1>1, <1>4, <2>1, QuietTypes
<1> QED
  BY <1>2, <1>5, <1>6 DEF RunTools

LEMMA TypesStep ==
    ASSUME Types, HasLatest, [Next]_vars
    PROVE  Types'
<1> USE DEF Types, Scalars
<1>1. CASE Yield
  BY <1>1, PushTypes DEF Yield, Push
<1>2. CASE Abandon
  BY <1>2, PushTypes DEF Abandon, Push
<1>3. CASE SkipAuth \/ SkipConfirmation \/ FailModel
  BY <1>3, QuietTypes DEF SkipAuth, SkipConfirmation, FailModel, At, Turn
<1>4. CASE RespondText
  <2>1. PICK e : e = Event("text", {})
    OBVIOUS
  <2>2. Sound(e)
    BY <2>1, EventIsSound
  <2> QED
    BY <1>4, <2>1, <2>2, StepTypes DEF RespondText, At
<1>5. CASE ResumeConfirmed
  BY <1>5, ResumeConfirmedTypes
<1>6. CASE RunTools
  BY <1>6, RunToolsTypes
<1>7. CASE \E n \in Calls : RespondCalls(n)
  BY <1>7, RespondCallsTypes
<1>8. CASE \E c \in Calls : ResumeAuthorized(c)
  BY <1>8, ResumeAuthorizedTypes
<1>9. CASE \E m \in Messages : Say(m)
  BY <1>9, SayTypes
<1>10. CASE UNCHANGED vars
  BY <1>10 DEF vars, Turn, EventsSound, Sound, LastEvent
<1> QED
  BY <1>1, <1>2, <1>3, <1>4, <1>5, <1>6, <1>7, <1>8, <1>9, <1>10
     DEF Next, Agent, AtRest

-----------------------------------------------------------------------------
(* The latest message, the latest answers                                  *)

HasUser == Positions("user") # {} =>
               \E i \in Positions("user") : \A j \in Positions("user") : j <= i

LEMMA LatestUser ==
    ASSUME Types, HasUser, Positions("user") # {}
    PROVE  /\ Latest(Positions("user")) \in Positions("user")
           /\ \A j \in Positions("user") : j <= Latest(Positions("user"))
BY DEF HasUser, Latest

LEMMA Appended ==
    ASSUME Types, NEW e \in Events, history' = Append(history, e)
    PROVE  /\ Len(history) \in Nat /\ DOMAIN history = 1..Len(history)
           /\ DOMAIN history' = 1..Len(history) + 1
           /\ Len(history') = Len(history) + 1
           /\ history'[Len(history) + 1] = e
           /\ \A i \in DOMAIN history : history'[i] = history[i]
BY DEF Types, EventsSound

LEMMA AppendedPositions ==
    ASSUME Types, NEW e \in Events, history' = Append(history, e), NEW k
    PROVE  Positions(k)' = Positions(k) \cup (IF e.kind = k THEN {Len(history) + 1} ELSE {})
<1>1. /\ Len(history) \in Nat /\ DOMAIN history = 1..Len(history)
      /\ DOMAIN history' = 1..Len(history) + 1
      /\ history'[Len(history) + 1] = e
      /\ \A i \in DOMAIN history : history'[i] = history[i]
  BY Appended
<1> QED
  BY <1>1 DEF Positions

LEMMA AppendedAnswering ==
    ASSUME Types, NEW e \in Events, history' = Append(history, e)
    PROVE  Answering' = Answering \cup (IF e.kind = "user" /\ e.confirm # NoAnswers
                                       THEN {Len(history) + 1} ELSE {})
<1>1. /\ Len(history) \in Nat /\ DOMAIN history = 1..Len(history)
      /\ DOMAIN history' = 1..Len(history) + 1
      /\ history'[Len(history) + 1] = e
      /\ \A i \in DOMAIN history : history'[i] = history[i]
  BY Appended
<1> QED
  BY <1>1 DEF Positions, Answering

LEMMA AppendedLatest ==
    ASSUME Types, HasLatest, HasUser, NEW e \in Events, history' = Append(history, e)
    PROVE  HasLatest' /\ HasUser'
<1>1. Len(history) \in Nat
      /\ \A i \in DOMAIN history : i \in Nat /\ i <= Len(history)
  BY Appended
<1>2. \A i \in Answering \cup Positions("user") : i \in Nat /\ i <= Len(history)
  BY <1>1 DEF Answering, Positions
<1>3. HasLatest'
  <2>1. CASE Answering' = Answering
    BY <2>1 DEF HasLatest
  <2>2. CASE Answering' = Answering \cup {Len(history) + 1}
    BY <1>1, <1>2, <2>2 DEF HasLatest
  <2> QED
    BY <2>1, <2>2, AppendedAnswering
<1>4. HasUser'
  <2>1. CASE Positions("user")' = Positions("user")
    BY <2>1 DEF HasUser
  <2>2. CASE Positions("user")' = Positions("user") \cup {Len(history) + 1}
    BY <1>1, <1>2, <2>2 DEF HasUser
  <2> QED
    BY <2>1, <2>2, AppendedPositions
<1> QED
  BY <1>3, <1>4

LEMMA LatestStep ==
    ASSUME Types, HasLatest, HasUser, [Next]_vars
    PROVE  HasLatest' /\ HasUser'
<1>1. CASE Yield \/ Abandon
  <2>1. history' = Append(history, Head(out)) /\ Head(out) \in Events
    BY <1>1 DEF Yield, Abandon, Types, EventsSound
  <2> QED
    BY <2>1, AppendedLatest
<1>2. CASE \E m \in Messages : Say(m)
  <2>1. PICK m \in Messages : Say(m)
    BY <1>2
  <2>2. m \in Events
    BY MessageIsSound DEF Sound
  <2> QED
    BY <2>1, <2>2, AppendedLatest DEF Say
<1>3. CASE history' = history
  BY <1>3 DEF HasLatest, HasUser, Answering, Positions
<1> QED
  BY <1>1, <1>2, <1>3 DEF Next, Agent, AtRest, vars, SkipAuth, SkipConfirmation,
     ResumeConfirmed, ResumeAuthorized, RunTools, RespondText, RespondCalls, FailModel, Fail

-----------------------------------------------------------------------------
(* What the tools that run have in common                                  *)

\* A step in which tools run: of the calls in S, the ones Runs lets.
Ran(S, a, cr) ==
    /\ \/ Execute(S, a, cr) /\ UNCHANGED lost
       \/ Fail(S, a, cr)
    /\ pc' # "tools"
    /\ UNCHANGED <<kind, history, made>>

LEMMA RanCounts ==
    ASSUME Types, NEW S, NEW a, NEW cr, Ran(S, a, cr)
    PROVE  \A c \in Calls :
              \/ runs'[c] = runs[c] /\ lost'[c] = lost[c]
              \/ /\ c \in S /\ Runs(c, a, cr)
                 /\ runs'[c] = runs[c] + 1
                 /\ lost'[c] \in {lost[c], lost[c] + 1}
<1>1. CASE Execute(S, a, cr) /\ UNCHANGED lost
  BY <1>1, Executed
<1>2. CASE Fail(S, a, cr)
  BY <1>2, Failed
<1> QED
  BY <1>1, <1>2 DEF Ran

\* The steps that run no tool: those that persist an event, the message, the
\* new calls, and the rest, which leave history alone.
Idles ==
    /\ UNCHANGED <<kind, history, made, runs, lost>>
    /\ pc' # "tools" \/ UNCHANGED vars
    /\ \/ UNCHANGED <<out, cred, fault>> /\ (pc' = "idle" => pc = "idle")
       \/ FailModel
       \/ RespondText

LEMMA StepsAre ==
    ASSUME Types, HasLatest, [Next]_vars
    PROVE  \/ Yield \/ Abandon
           \/ \E m \in Messages : Say(m)
           \/ \E n \in Calls : RespondCalls(n)
           \/ \E c \in Calls :
                 ResumeAuthorized(c) /\ Ran(Resumed(LastEvent.auth), NoAnswers, cred')
           \/ ResumeConfirmed /\ Ran(Pending, history[Latest(Answering)].confirm, cred)
           \/ RunTools /\ Ran(LastEvent.calls, NoAnswers, cred)
           \/ Idles
<1>1. CASE \E c \in Calls : ResumeAuthorized(c)
  BY <1>1, Failed DEF ResumeAuthorized, Ran, Fail
<1>2. CASE ResumeConfirmed
  BY <1>2, Failed DEF ResumeConfirmed, Ran, Fail
<1>3. CASE RunTools
  BY <1>3, Failed DEF RunTools, Ran, Fail
<1>4. CASE SkipAuth \/ SkipConfirmation \/ FailModel \/ RespondText \/ UNCHANGED vars
  BY <1>4 DEF SkipAuth, SkipConfirmation, FailModel, RespondText, vars, Idles
<1> QED
  BY <1>1, <1>2, <1>3, <1>4 DEF Next, Agent, AtRest

-----------------------------------------------------------------------------
(* Calls beside one that waits                                             *)

SiblingsInv ==
    /\ SiblingsRunOnce
    /\ \A c \in Calls : c > made => runs[c] = 0
    /\ pc = "tools" =>
           \A c \in (IF out = << >> THEN LastEvent ELSE out[1]).calls :
               kind[c] = "plain" => runs[c] = 0

LEMMA SiblingsStep ==
    ASSUME Types, HasLatest, SiblingsInv, [Next]_vars
    PROVE  SiblingsInv'
<1>1. CASE Yield
  <2>1. CASE pc # "tools"
    BY <1>1, <2>1 DEF SiblingsInv, SiblingsRunOnce, Yield
  <2>2. CASE pc = "tools"
    <3>1. Len(out) = 1 /\ out # << >> /\ history' = Append(history, Head(out)) /\ out' = Tail(out)
      BY <1>1, <2>2 DEF Types, Turn, Yield
    <3>2. out' = << >> /\ Head(out) = out[1] /\ Head(out) \in Events
      BY <3>1 DEF Types, EventsSound
    <3>3. LastEvent' = out[1]
      BY <3>1, <3>2, Appended DEF LastEvent
    <3> QED
      BY <1>1, <3>1, <3>2, <3>3 DEF SiblingsInv, SiblingsRunOnce, Yield
  <2> QED
    BY <2>1, <2>2
<1>2. CASE Abandon \/ \E m \in Messages : Say(m)
  BY <1>2 DEF SiblingsInv, SiblingsRunOnce, Abandon, Say
<1>3. CASE \E n \in Calls : RespondCalls(n)
  <2>1. PICK n \in Calls : RespondCalls(n)
    BY <1>3
  <2>2. made \in Nat /\ n \in Nat /\ made' = made + n /\ made' <= N
        /\ UNCHANGED <<kind, runs>> /\ out' = <<Event("call", made + 1..made + n)>>
    BY <2>1, HumanAssumption DEF RespondCalls, Calls, Types, Scalars
  <2>3. out' # << >> /\ out'[1].calls = made + 1..made + n
    BY <2>2 DEF Event
  <2>4. \A c \in made + 1..made + n : c \in Calls /\ runs[c] = 0
    BY <2>2, HumanAssumption DEF SiblingsInv, Calls
  <2>5. \A c \in Calls : c > made' => runs'[c] = 0
    BY <2>2 DEF SiblingsInv, Calls
  <2> QED
    BY <2>2, <2>3, <2>4, <2>5 DEF SiblingsInv, SiblingsRunOnce
<1>4. CASE \E c \in Calls :
              ResumeAuthorized(c) /\ Ran(Resumed(LastEvent.auth), NoAnswers, cred')
  <2>1. pc = "auth" /\ Sound(LastEvent) /\ LastEvent.auth \in Answers
    BY <1>4, LastIsSound DEF ResumeAuthorized, At, Events
  <2>2. \A c \in Resumed(LastEvent.auth) : kind[c] = "auth" /\ c \in 1..made
    BY <2>1, ResumedSound DEF Sound
  <2>3. PICK cr : cr = cred'
    OBVIOUS
  <2>4. Ran(Resumed(LastEvent.auth), NoAnswers, cr)
    BY <1>4, <2>3
  <2>5. \A c \in Calls : kind[c] = "plain" \/ c > made => runs'[c] = runs[c]
    BY <2>2, <2>4, RanCounts DEF Calls, Types, Scalars
  <2> QED
    BY <2>4, <2>5 DEF SiblingsInv, SiblingsRunOnce, Ran
<1>5. CASE ResumeConfirmed /\ Ran(Pending, history[Latest(Answering)].confirm, cred)
  <2>1. \A c \in Calls : kind[c] = "plain" \/ c > made => runs'[c] = runs[c]
    BY <1>5, PendingSound, RanCounts DEF Calls, Types, Scalars
  <2> QED
    BY <1>5, <2>1 DEF SiblingsInv, SiblingsRunOnce, Ran
<1>6. CASE RunTools /\ Ran(LastEvent.calls, NoAnswers, cred)
  <2>1. pc = "tools" /\ out = << >> /\ Sound(LastEvent)
    BY <1>6, LastIsSound DEF RunTools, At
  <2>2. \A c \in LastEvent.calls : c \in 1..made /\ (kind[c] = "plain" => runs[c] = 0)
    BY <2>1 DEF Sound, SiblingsInv
  <2>3. \A c \in Calls :
            \/ runs'[c] = runs[c]
            \/ c \in LastEvent.calls /\ runs'[c] = runs[c] + 1
    BY <1>6, RanCounts
  <2>4. \A c \in Calls : c > made => runs'[c] = runs[c]
    BY <2>2, <2>3 DEF Calls, Types, Scalars
  <2>5. \A c \in Calls : kind[c] = "plain" => runs'[c] <= 1
    BY <2>2, <2>3 DEF SiblingsInv, SiblingsRunOnce
  <2> QED
    BY <1>6, <2>4, <2>5 DEF SiblingsInv, SiblingsRunOnce, Ran
<1>7. CASE Idles
  <2>1. CASE UNCHANGED vars
    BY <2>1 DEF vars, SiblingsInv, SiblingsRunOnce, LastEvent
  <2>2. CASE pc' # "tools"
    BY <1>7, <2>2 DEF Idles, SiblingsInv, SiblingsRunOnce
  <2> QED
    BY <1>7, <2>1, <2>2 DEF Idles
<1> QED
  BY <1>1, <1>2, <1>3, <1>4, <1>5, <1>6, <1>7, StepsAre

-----------------------------------------------------------------------------
(* What is on its way to the session                                       *)

OutInv ==
    \A i \in DOMAIN out :
        /\ out[i].kind # "user"
        /\ out[i].kind = "call" => pc = "tools"
        /\ i > 1 /\ out[i].kind = "response" =>
               \A c \in out[i].calls : kind[c] \notin {"gated", "policy"}

LEMMA OutStep ==
    ASSUME Types, HasLatest, OutInv, [Next]_vars
    PROVE  OutInv'
<1>1. CASE Yield
  <2>1. \A i \in DOMAIN Tail(out) : /\ i + 1 \in DOMAIN out /\ i + 1 > i
                                  /\ Tail(out)[i] = out[i + 1]
    BY <1>1 DEF Types, EventsSound, Yield
  <2>2. \A i \in DOMAIN Tail(out) : i \in Nat /\ i >= 1
    BY <1>1 DEF Types, EventsSound, Yield
  <2> QED
    BY <1>1, <2>1, <2>2 DEF OutInv, Yield
<1>2. CASE out' = << >>
  BY <1>2 DEF OutInv
<1>3. CASE UNCHANGED <<out, kind>> /\ out = << >>
  BY <1>3 DEF OutInv
<1>4. CASE UNCHANGED vars
  BY <1>4 DEF OutInv, vars
<1>5. CASE RespondText
  BY <1>5 DEF OutInv, RespondText, Event
<1>6. CASE \E n \in Calls : RespondCalls(n)
  BY <1>6 DEF OutInv, RespondCalls, Event
<1>8. CASE RunTools /\ out' # out
  <2>1. PICK S : S = LastEvent.calls
    OBVIOUS
  <2>2. out' = Requests(S) /\ UNCHANGED kind
    BY <1>8, <2>1 DEF RunTools, Fail
  <2>3. PICK A : A = Event("auth", Unauthorized(S))
    OBVIOUS
  <2>4. PICK C : C = Event("confirm", Asking(S))
    OBVIOUS
  <2>5. PICK R : R = Event("response", S)
    OBVIOUS
  <2>6. A.kind = "auth" /\ C.kind = "confirm" /\ R.kind = "response" /\ R.calls = S
    BY <2>3, <2>4, <2>5 DEF Event
  <2>7. CASE out' \in {<<A, C>>, <<C>>, <<R>>}
    BY <2>6, <2>7 DEF OutInv
  <2>8. CASE out' = <<A, R>> /\ Asking(S) = {}
    BY <2>2, <2>6, <2>8 DEF OutInv, Asking
  <2> QED
    BY <2>2, <2>3, <2>4, <2>5, <2>7, <2>8, RequestsAre
<1>9. CASE ResumeConfirmed \/ \E c \in Calls : ResumeAuthorized(c)
  <2>1. out = << >> /\ UNCHANGED kind
    BY <1>9 DEF ResumeConfirmed, ResumeAuthorized, At, Fail
  <2>2. \/ out' = out
        \/ \E S : out' = <<Event("response", S)>>
    BY <1>9 DEF ResumeConfirmed, ResumeAuthorized, Fail
  <2>3. CASE \E S : out' = <<Event("response", S)>>
    BY <2>3 DEF OutInv, Event
  <2> QED
    BY <1>2, <2>1, <2>2, <2>3
<1> QED
  BY <1>1, <1>2, <1>3, <1>4, <1>5, <1>6, <1>8, <1>9
     DEF Next, Agent, AtRest, SkipAuth, SkipConfirmation, FailModel, Abandon, Say, RunTools,
         Fail, At

-----------------------------------------------------------------------------
(* Credentials                                                             *)

\* A credential is there since a message of this turn.
CredInv == cred => /\ Positions("user") # {}
                   /\ \E d \in DOMAIN history[Latest(Positions("user"))].auth :
                          history[Latest(Positions("user"))].auth[d]

\* The credential the auth processor finds is of the latest message.
LEMMA AuthOfLatest ==
    ASSUME Types, NEW d \in Calls, ResumeAuthorized(d)
    PROVE  /\ Positions("user") # {} /\ LastEvent = history[Latest(Positions("user"))]
           /\ d \in DOMAIN LastEvent.auth /\ cred' = LastEvent.auth[d]
<1>1. At("auth") /\ d \in DOMAIN LastEvent.auth /\ cred' = LastEvent.auth[d] /\ pc = "auth"
  BY DEF ResumeAuthorized, At
<1>2. Len(history) \in DOMAIN history /\ Sound(LastEvent)
  BY <1>1, LastIsSound
<1>3. LastEvent.kind = "user"
  BY <1>1, <1>2, NoAnswersIsAnswers DEF Sound
<1>4. Len(history) \in Positions("user")
  BY <1>2, <1>3 DEF Positions, LastEvent
<1>5. \A j \in Positions("user") : j \in Nat /\ j <= Len(history)
  BY DEF Positions, Types, EventsSound
<1>6. Latest(Positions("user")) = Len(history)
  BY <1>4, <1>5 DEF Latest
<1> QED
  BY <1>1, <1>4, <1>6 DEF LastEvent

LEMMA CredStep ==
    ASSUME Types, HasLatest, HasUser, OutInv, CredInv, [Next]_vars
    PROVE  CredInv'
<1>1. CASE Yield \/ Abandon
  <2>1. /\ history' = Append(history, Head(out)) /\ Head(out) \in Events
        /\ Head(out).kind # "user" /\ cred' = cred
    BY <1>1 DEF Yield, Abandon, Types, EventsSound, OutInv
  <2>2. Positions("user")' = Positions("user")
    BY <2>1, AppendedPositions
  <2>3. CASE cred
    <3>1. Latest(Positions("user")) \in DOMAIN history
      BY <2>3, LatestUser DEF CredInv, Positions
    <3>2. history'[Latest(Positions("user"))] = history[Latest(Positions("user"))]
      BY <2>1, <3>1, Appended
    <3>3. Latest(Positions("user"))' = Latest(Positions("user"))
      BY <2>2 DEF Latest
    <3> QED
      BY <2>2, <2>3, <3>2, <3>3 DEF CredInv
  <2> QED
    BY <2>1, <2>3 DEF CredInv
<1>2. CASE \E m \in Messages : Say(m)
  BY <1>2 DEF Say, CredInv
<1>3. CASE UNCHANGED <<history, cred>>
  BY <1>3 DEF CredInv, Positions, Latest
<1>4. CASE \E c \in Calls : ResumeAuthorized(c)
  <2>1. PICK d \in Calls : ResumeAuthorized(d)
    BY <1>4
  <2>2. history' = history
    BY <2>1 DEF ResumeAuthorized, Fail
  <2>3. /\ Positions("user") # {} /\ LastEvent = history[Latest(Positions("user"))]
        /\ d \in DOMAIN LastEvent.auth /\ cred' = LastEvent.auth[d]
    BY <2>1, AuthOfLatest
  <2>4. Positions("user")' = Positions("user")
        /\ Latest(Positions("user"))' = Latest(Positions("user"))
    BY <2>2 DEF Positions, Latest
  <2> QED
    BY <2>2, <2>3, <2>4 DEF CredInv
<1> QED
  BY <1>1, <1>2, <1>3, <1>4 DEF Next, Agent, AtRest, vars, SkipAuth, SkipConfirmation,
     ResumeConfirmed, RunTools, RespondText, RespondCalls, FailModel, Fail

CredentialStep ==
    \A c \in Calls :
        kind[c] = "auth" /\ runs'[c] # runs[c] =>
            LET m == history[Latest(Positions("user"))]
            IN  \E d \in DOMAIN m.auth : m.auth[d]

LEMMA CredentialNeeded ==
    ASSUME Types, HasLatest, HasUser, OutInv, CredInv, [Next]_vars
    PROVE  CredentialStep
<1>1. CASE \E c \in Calls :
              ResumeAuthorized(c) /\ Ran(Resumed(LastEvent.auth), NoAnswers, cred')
  <2>1. PICK d \in Calls :
             ResumeAuthorized(d) /\ Ran(Resumed(LastEvent.auth), NoAnswers, cred')
    BY <1>1
  <2>2. /\ LastEvent = history[Latest(Positions("user"))]
        /\ d \in DOMAIN LastEvent.auth /\ cred' = LastEvent.auth[d]
    BY <2>1, AuthOfLatest
  <2>3. PICK cr : cr = cred'
    OBVIOUS
  <2>4. PICK S : S = Resumed(LastEvent.auth)
    OBVIOUS
  <2>5. Ran(S, NoAnswers, cr)
    BY <2>1, <2>3, <2>4
  <2>6. \A c \in Calls : kind[c] = "auth" /\ runs'[c] # runs[c] => cr
    BY <2>5, RanCounts DEF Runs
  <2> QED
    BY <2>2, <2>3, <2>6 DEF CredentialStep
<1>2. CASE ResumeConfirmed /\ Ran(Pending, history[Latest(Answering)].confirm, cred)
  <2>1. \A c \in Calls : kind[c] = "auth" => runs'[c] = runs[c]
    BY <1>2, PendingSound, RanCounts
  <2> QED
    BY <2>1 DEF CredentialStep
<1>3. CASE RunTools /\ Ran(LastEvent.calls, NoAnswers, cred)
  <2>1. PICK S : S = LastEvent.calls
    OBVIOUS
  <2>2. Ran(S, NoAnswers, cred)
    BY <1>3, <2>1
  <2>3. \A c \in Calls : kind[c] = "auth" /\ runs'[c] # runs[c] => cred
    BY <2>2, RanCounts DEF Runs
  <2> QED
    BY <2>3 DEF CredInv, CredentialStep
<1>4. CASE UNCHANGED runs
  BY <1>4 DEF CredentialStep
<1> QED
  BY <1>1, <1>2, <1>3, <1>4, StepsAre
     DEF Yield, Abandon, Say, RespondCalls, Idles

-----------------------------------------------------------------------------
(* Approval                                                                *)

\* The messages that accept call c and have been acted upon: a response to c
\* comes after them.  Each accounts for one run.
Used(c) ==
    {i \in Positions("user") :
        /\ c \in DOMAIN history[i].confirm /\ history[i].confirm[c]
        /\ \/ \E j \in Positions("response") : j > i /\ c \in history[j].calls
           \/ \E j \in DOMAIN out : out[j].kind = "response" /\ c \in out[j].calls}

ApprovedInv ==
    \A c \in Calls :
        /\ kind[c] \in {"policy", "denied"} => runs[c] = 0
        /\ kind[c] = "gated" => runs[c] <= Cardinality(Used(c)) + lost[c]

LEMMA UsedFinite ==
    ASSUME Types, NEW S \in SUBSET Positions("user")
    PROVE  IsFiniteSet(S) /\ Cardinality(S) \in Nat
<1>1. IsFiniteSet(1..Len(history))
  BY FS_Interval DEF Types, EventsSound
<1>2. S \subseteq 1..Len(history)
  BY DEF Positions, Types, EventsSound
<1> QED
  BY <1>1, <1>2, FS_Subset, FS_CardinalityType

\* Once acted upon, a message stays so, whatever is appended or dropped.
LEMMA UsedStays ==
    ASSUME Types, OutInv, NEW c \in Calls, kind[c] = "gated",
           \/ history' = history /\ out = << >>
           \/ history' = history /\ out' = out
           \/ Push
           \/ \E m \in Events : history' = Append(history, m) /\ out = << >>
    PROVE  Used(c) \subseteq Used(c)'
<1>1. CASE history' = history /\ out' = out
  BY <1>1 DEF Used, Positions
<1>2. CASE history' = history /\ out = << >>
  <2>1. Positions("user")' = Positions("user") /\ Positions("response")' = Positions("response")
    BY <1>2 DEF Positions
  <2>2. \A i \in Used(c) : \E j \in Positions("response") : j > i /\ c \in history[j].calls
    BY <1>2 DEF Used
  <2> QED
    BY <1>2, <2>1, <2>2 DEF Used
<1>3. CASE \E m \in Events : history' = Append(history, m) /\ out = << >>
  <2>1. PICK m \in Events : history' = Append(history, m)
    BY <1>3
  <2>2. \A i \in DOMAIN history : i \in DOMAIN history' /\ history'[i] = history[i]
    BY <2>1, Appended
  <2>3. \A i \in Positions("user") : i \in Positions("user")' /\ history'[i] = history[i]
    BY <2>2 DEF Positions
  <2>4. \A i \in Positions("response") :
            i \in Positions("response")' /\ history'[i] = history[i]
    BY <2>2 DEF Positions
  <2>5. \A i \in Used(c) : \E j \in Positions("response") : j > i /\ c \in history[j].calls
    BY <1>3 DEF Used
  <2> QED
    BY <2>3, <2>4, <2>5 DEF Used
<1>4. CASE Push
  <2>1. Head(out) = out[1] /\ 1 \in DOMAIN out /\ Head(out) \in Events
        /\ \A j \in DOMAIN out : j \in Nat /\ j >= 1
    BY <1>4 DEF Push, Types, EventsSound
  <2>2. /\ Len(history) \in Nat /\ DOMAIN history = 1..Len(history)
        /\ DOMAIN history' = 1..Len(history) + 1
        /\ history'[Len(history) + 1] = Head(out)
        /\ \A i \in DOMAIN history : history'[i] = history[i]
    BY <1>4, <2>1, Appended DEF Push
  <2>3. \A i \in Positions("user") :
            i \in Positions("user")' /\ history'[i] = history[i] /\ Len(history) + 1 > i
    BY <2>2 DEF Positions
  <2>4. \A i \in Positions("response") :
            i \in Positions("response")' /\ history'[i] = history[i]
    BY <2>2 DEF Positions
  <2>5. ASSUME NEW i \in Used(c)
        PROVE  \E j \in Positions("response")' : j > i /\ c \in history'[j].calls
    <3>1. CASE \E j \in Positions("response") : j > i /\ c \in history[j].calls
      BY <2>4, <3>1
    <3>2. CASE \E j \in DOMAIN out : out[j].kind = "response" /\ c \in out[j].calls
      <4>1. PICK j \in DOMAIN out : out[j].kind = "response" /\ c \in out[j].calls
        BY <3>2
      <4>2. j = 1
        BY <2>1, <4>1 DEF OutInv
      <4>3. Len(history) + 1 \in Positions("response")'
        BY <2>1, <2>2, <4>1, <4>2 DEF Positions
      <4> QED
        BY <2>1, <2>2, <2>3, <4>1, <4>2, <4>3 DEF Used
    <3> QED
      BY <3>1, <3>2 DEF Used
  <2> QED
    BY <2>3, <2>5 DEF Used
<1> QED
  BY <1>1, <1>2, <1>3, <1>4

\* So a step that does not run a tool keeps the account, and one whose
\* response is lost.
LEMMA AccountStays ==
    ASSUME Types, Types', OutInv, NEW c \in Calls, kind[c] = "gated",
           Used(c) \subseteq Used(c)', runs[c] <= Cardinality(Used(c)) + lost[c],
           \/ runs'[c] = runs[c] /\ lost'[c] = lost[c]
           \/ runs'[c] = runs[c] + 1 /\ lost'[c] = lost[c] + 1
    PROVE  runs'[c] <= Cardinality(Used(c))' + lost'[c]
<1>1. IsFiniteSet(Used(c)) /\ Cardinality(Used(c)) \in Nat
  BY UsedFinite DEF Used
<1>2. IsFiniteSet(Used(c))' /\ Cardinality(Used(c))' \in Nat
  <2>1. IsFiniteSet(1..Len(history'))
    BY FS_Interval DEF Types, EventsSound
  <2>2. Used(c)' \subseteq 1..Len(history')
    BY DEF Used, Positions, Types, EventsSound
  <2> QED
    BY <2>1, <2>2, FS_Subset, FS_CardinalityType
<1>3. Cardinality(Used(c)) <= Cardinality(Used(c))'
  BY <1>1, <1>2, FS_Subset
<1>4. runs[c] \in Nat /\ lost[c] \in Nat
  BY DEF Types, Scalars
<1> QED
  BY <1>1, <1>2, <1>3, <1>4

\* The answer that is acted upon has not been, and its response follows it.
LEMMA AnswerIsUsed ==
    ASSUME Types, Types', HasLatest, OutInv, NEW c \in Calls, kind[c] = "gated",
           ResumeConfirmed, NEW S, S = Pending, out' = <<Event("response", S)>>,
           history' = history, c \in S,
           c \in DOMAIN history[Latest(Answering)].confirm,
           history[Latest(Answering)].confirm[c]
    PROVE  Cardinality(Used(c))' >= Cardinality(Used(c)) + 1
<1>1. PICK l : l = Latest(Answering)
  OBVIOUS
<1>2. Answering # {} /\ out = << >>
  BY DEF ResumeConfirmed, Pending, At
<1>3. l \in Positions("user")
  BY <1>1, <1>2, LatestAnswers DEF Answering
<1>4. l \notin Used(c)
  BY <1>1, <1>2, LatestAnswers DEF Used, Pending, Positions
<1>5. Used(c) \subseteq Used(c)'
  BY <1>2, UsedStays
<1>6. l \in Used(c)'
  <2>1. 1 \in DOMAIN out' /\ out'[1].kind = "response" /\ out'[1].calls = S
    BY DEF Event
  <2>2. Positions("user")' = Positions("user")
    BY DEF Positions
  <2> QED
    BY <1>1, <1>3, <2>1, <2>2 DEF Used
<1>7. IsFiniteSet(Used(c)) /\ Cardinality(Used(c)) \in Nat
  BY UsedFinite DEF Used
<1>8. IsFiniteSet(Used(c)')
  <2>1. IsFiniteSet(1..Len(history'))
    BY FS_Interval DEF Types, EventsSound
  <2>2. Used(c)' \subseteq 1..Len(history')
    BY DEF Used, Positions, Types, EventsSound
  <2> QED
    BY <2>1, <2>2, FS_Subset
<1>9. Cardinality(Used(c) \cup {l}) = Cardinality(Used(c)) + 1
  BY <1>4, <1>7, FS_AddElement
<1>10. Used(c) \cup {l} \subseteq Used(c)'
  BY <1>5, <1>6
<1>11. Cardinality(Used(c)') \in Nat
       /\ Cardinality(Used(c) \cup {l}) <= Cardinality(Used(c)')
  BY <1>8, <1>10, FS_Subset, FS_CardinalityType
<1> QED
  BY <1>7, <1>9, <1>11

LEMMA ApprovedStep ==
    ASSUME Types, Types', HasLatest, OutInv, ApprovedInv, [Next]_vars
    PROVE  ApprovedInv'
<1> SUFFICES ASSUME NEW c \in Calls
             PROVE  /\ kind'[c] \in {"policy", "denied"} => runs'[c] = 0
                    /\ kind'[c] = "gated" =>
                           runs'[c] <= Cardinality(Used(c))' + lost'[c]
  BY DEF ApprovedInv
<1>a. /\ kind[c] \in {"policy", "denied"} => runs[c] = 0
      /\ kind[c] = "gated" => runs[c] <= Cardinality(Used(c)) + lost[c]
  BY DEF ApprovedInv
<1>1. CASE Yield \/ Abandon
  <2>1. Push /\ UNCHANGED <<kind, runs, lost>>
    BY <1>1 DEF Yield, Abandon, Push
  <2> QED
    BY <1>a, <2>1, UsedStays, AccountStays
<1>2. CASE \E m \in Messages : Say(m)
  <2>1. PICK m \in Messages : Say(m)
    BY <1>2
  <2>2. m \in Events
    BY MessageIsSound DEF Sound
  <2>3. /\ history' = Append(history, m) /\ out = << >>
        /\ UNCHANGED <<kind, runs, lost>>
    BY <2>1 DEF Say, At
  <2> QED
    BY <1>a, <2>2, <2>3, UsedStays, AccountStays
<1>3. CASE (\E n \in Calls : RespondCalls(n)) \/ Idles
  <2>1. /\ history' = history /\ (out = << >> \/ out' = out)
        /\ UNCHANGED <<kind, runs, lost>>
    BY <1>3 DEF RespondCalls, Idles, FailModel, RespondText, At
  <2> QED
    BY <1>a, <2>1, UsedStays, AccountStays
<1>4. CASE \E S, cr : /\ Ran(S, NoAnswers, cr) /\ out = << >>
  <2>1. PICK S, cr : Ran(S, NoAnswers, cr) /\ out = << >>
    BY <1>4
  <2>2. history' = history /\ kind' = kind
    BY <2>1 DEF Ran
  <2>3. kind[c] \in {"gated", "policy", "denied"} => runs'[c] = runs[c] /\ lost'[c] = lost[c]
    BY <2>1, RanCounts, NoAnswersIsAnswers DEF Runs
  <2> QED
    BY <1>a, <2>1, <2>2, <2>3, UsedStays, AccountStays
<1>5. CASE ResumeConfirmed
  <2>1. PICK a : a = history[Latest(Answering)].confirm
    OBVIOUS
  <2>2. PICK S : S = Pending
    OBVIOUS
  <2>3. out = << >> /\ history' = history /\ kind' = kind
    BY <1>5 DEF ResumeConfirmed, At, Fail
  <2>4. Used(c) \subseteq Used(c)' \/ kind[c] # "gated"
    BY <2>3, UsedStays
  <2>5. CASE Fail(S, a, cred)
    <3>1. \/ runs'[c] = runs[c] /\ lost'[c] = lost[c]
          \/ /\ c \in S /\ Runs(c, a, cred)
             /\ runs'[c] = runs[c] + 1 /\ lost'[c] = lost[c] + 1
      BY <2>5, Failed
    <3> QED
      BY <1>a, <2>3, <2>4, <3>1, AccountStays DEF Runs
  <2>6. CASE /\ Execute(S, a, cred) /\ UNCHANGED lost
             /\ out' = <<Event("response", S)>>
    <3>1. runs'[c] = IF c \in S /\ Runs(c, a, cred) THEN runs[c] + 1 ELSE runs[c]
      BY <2>6, Executed
    <3>2. CASE kind[c] = "gated" /\ c \in S /\ Runs(c, a, cred)
      <4>1. c \in DOMAIN a /\ a[c]
        BY <3>2 DEF Runs
      <4>2. Cardinality(Used(c))' >= Cardinality(Used(c)) + 1
        BY <1>5, <2>1, <2>2, <2>3, <2>6, <3>2, <4>1, AnswerIsUsed
      <4>3. IsFiniteSet(Used(c)) /\ Cardinality(Used(c)) \in Nat
        BY UsedFinite DEF Used
      <4>4. IsFiniteSet(1..Len(history')) /\ Used(c)' \subseteq 1..Len(history')
        BY FS_Interval DEF Used, Positions, Types, EventsSound
      <4>5. Cardinality(Used(c)') \in Nat
        BY <4>4, FS_Subset, FS_CardinalityType
      <4> QED
        BY <1>a, <2>3, <2>6, <3>1, <3>2, <4>2, <4>3, <4>5 DEF Types, Scalars
    <3>3. CASE ~(c \in S /\ Runs(c, a, cred))
      BY <1>a, <2>3, <2>4, <2>6, <3>1, <3>3, AccountStays
    <3>4. kind[c] \in {"policy", "denied"} => ~Runs(c, a, cred)
      BY DEF Runs
    <3> QED
      BY <2>3, <3>2, <3>3, <3>4
  <2> QED
    BY <1>5, <2>1, <2>2, <2>5, <2>6 DEF ResumeConfirmed
<1>6. CASE RunTools /\ Ran(LastEvent.calls, NoAnswers, cred)
  BY <1>4, <1>6 DEF RunTools, At
<1>7. CASE \E d \in Calls :
              ResumeAuthorized(d) /\ Ran(Resumed(LastEvent.auth), NoAnswers, cred')
  BY <1>4, <1>7 DEF ResumeAuthorized, At
<1> QED
  BY <1>1, <1>2, <1>3, <1>5, <1>6, <1>7, StepsAre
-----------------------------------------------------------------------------
(* No call is forgotten                                                    *)

\* What the events so far are about, with those on their way.
Told(k) == Of(k) \cup UNION {out[i].calls : i \in {j \in DOMAIN out : out[j].kind = k}}

\* The calls S of one event have each their request, response or run.
Settled(S) ==
    \A c \in S :
        /\ kind[c] \in {"gated", "policy"} => c \in Told("confirm")
        /\ kind[c] = "auth" => c \in Told("auth") \/ runs[c] > 0
        /\ c \in Told("response") \/ Asking(S) # {}

\* All calls are settled, those of the event the agent is to run excepted.
ForgottenInv ==
    ~fault => \A i \in Positions("call") :
                  \/ pc = "tools" /\ out = << >> /\ i = Len(history)
                  \/ Settled(history[i].calls)

LEMMA ToldStays ==
    ASSUME Types, NEW k,
           \/ history' = history /\ (out = << >> \/ out' = out)
           \/ Yield
           \/ \E m \in Events : history' = Append(history, m) /\ out = << >>
    PROVE  Told(k) \subseteq Told(k)'
<1>1. CASE history' = history /\ (out = << >> \/ out' = out)
  BY <1>1 DEF Told, Of, Positions
<1>2. CASE \E m \in Events : history' = Append(history, m) /\ out = << >>
  <2>1. PICK m \in Events : history' = Append(history, m) /\ out = << >>
    BY <1>2
  <2>2. \A i \in DOMAIN history : i \in DOMAIN history' /\ history'[i] = history[i]
    BY <2>1, Appended
  <2>3. Of(k) \subseteq Of(k)'
    BY <2>2 DEF Of, Positions
  <2> QED
    BY <2>1, <2>3 DEF Told
<1>3. CASE Yield
  <2>1. Head(out) = out[1] /\ 1 \in DOMAIN out /\ Head(out) \in Events
    BY <1>3 DEF Yield, Types, EventsSound
  <2>2. /\ Len(history) \in Nat /\ DOMAIN history' = 1..Len(history) + 1
        /\ history'[Len(history) + 1] = Head(out)
        /\ \A i \in DOMAIN history : i \in DOMAIN history' /\ history'[i] = history[i]
    BY <1>3, <2>1, Appended DEF Yield
  <2>3. Of(k) \subseteq Of(k)'
    BY <2>2 DEF Of, Positions
  <2>4. \A j \in DOMAIN out : j # 1 => j - 1 \in DOMAIN out' /\ out'[j - 1] = out[j]
    BY <1>3 DEF Yield, Types, EventsSound
  <2>5. ASSUME NEW j \in DOMAIN out, out[j].kind = k
        PROVE  out[j].calls \subseteq Told(k)'
    <3>1. CASE j = 1
      BY <2>1, <2>2, <2>5, <3>1 DEF Told, Of, Positions
    <3>2. CASE j # 1
      BY <2>4, <2>5, <3>2 DEF Told
    <3> QED
      BY <3>1, <3>2
  <2> QED
    BY <2>3, <2>5 DEF Told
<1> QED
  BY <1>1, <1>2, <1>3

LEMMA SettledStays ==
    ASSUME Types, Types', UNCHANGED kind, NEW S \in SUBSET Calls, Settled(S),
           \A k \in {"confirm", "auth", "response"} : Told(k) \subseteq Told(k)',
           \A c \in Calls : runs'[c] = runs[c] \/ runs'[c] = runs[c] + 1
    PROVE  Settled(S)'
<1>1. \A c \in Calls : runs[c] > 0 => runs'[c] > 0
  BY DEF Types, Scalars
<1> QED
  BY <1>1 DEF Settled, Asking

\* What PostprocessAsync yields settles the calls.
LEMMA RequestsSettle ==
    ASSUME Types, RunTools, ~fault'
    PROVE  Settled(LastEvent.calls)'
<1>1. PICK S : S = LastEvent.calls
  OBVIOUS
<1>2. S \in SUBSET Calls
  BY <1>1, LastIsSound DEF RunTools, At, Events
<1>3. /\ Execute(S, NoAnswers, cred) /\ out' = Requests(S) /\ cred' = cred
      /\ UNCHANGED <<kind, history>>
  BY <1>1 DEF RunTools, Fail
<1>4. PICK A : A = Event("auth", Unauthorized(S))
  OBVIOUS
<1>5. PICK C : C = Event("confirm", Asking(S))
  OBVIOUS
<1>6. PICK R : R = Event("response", S)
  OBVIOUS
<1>7. /\ A.kind = "auth" /\ A.calls = Unauthorized(S)
      /\ C.kind = "confirm" /\ C.calls = Asking(S)
      /\ R.kind = "response" /\ R.calls = S
  BY <1>4, <1>5, <1>6 DEF Event
<1>8. /\ Unauthorized(S) # {} /\ Asking(S) # {} => out' = <<A, C>>
      /\ Unauthorized(S) # {} /\ Asking(S) = {} => out' = <<A, R>>
      /\ Unauthorized(S) = {} /\ Asking(S) # {} => out' = <<C>>
      /\ Unauthorized(S) = {} /\ Asking(S) = {} => out' = <<R>>
  BY <1>3, <1>4, <1>5, <1>6, RequestsAre
<1>9. Unauthorized(S) \subseteq Told("auth")'
  <2>1. CASE Unauthorized(S) = {}
    BY <2>1
  <2>2. CASE Unauthorized(S) # {}
    <3>1. 1 \in DOMAIN out' /\ out'[1] = A
      BY <1>8, <2>2
    <3> QED
      BY <1>7, <3>1 DEF Told
  <2> QED
    BY <2>1, <2>2
<1>10. Asking(S) \subseteq Told("confirm")'
  <2>1. CASE Asking(S) = {}
    BY <2>1
  <2>2. CASE Asking(S) # {}
    <3>1. CASE out' = <<A, C>>
      <4>1. 2 \in DOMAIN out' /\ out'[2] = C
        BY <3>1
      <4> QED
        BY <1>7, <4>1 DEF Told
    <3>2. CASE out' = <<C>>
      <4>1. 1 \in DOMAIN out' /\ out'[1] = C
        BY <3>2
      <4> QED
        BY <1>7, <4>1 DEF Told
    <3> QED
      BY <1>8, <2>2, <3>1, <3>2
  <2> QED
    BY <2>1, <2>2
<1>11. Asking(S) = {} => S \subseteq Told("response")'
  <2>1. SUFFICES ASSUME Asking(S) = {}
                 PROVE  S \subseteq Told("response")'
    OBVIOUS
  <2>2. Len(out') \in DOMAIN out' /\ out'[Len(out')] = R
    BY <1>8, <2>1
  <2> QED
    BY <1>7, <2>2 DEF Told
<1>12. \A c \in S : kind[c] = "auth" => c \in Unauthorized(S) \/ runs'[c] > 0
  <2> TAKE c \in S
  <2>1. c \in Calls /\ runs[c] \in Nat
    BY <1>2 DEF Types, Scalars
  <2>2. runs'[c] = IF c \in S /\ Runs(c, NoAnswers, cred) THEN runs[c] + 1 ELSE runs[c]
    BY <1>3, <2>1, Executed
  <2> QED
    BY <2>1, <2>2 DEF Unauthorized, Runs
<1>13. Asking(S)' = Asking(S)
  BY <1>3 DEF Asking
<1>14. Settled(S)'
  BY <1>3, <1>9, <1>10, <1>11, <1>12, <1>13 DEF Settled, Asking
<1>15. LastEvent' = LastEvent
  BY <1>3 DEF LastEvent
<1> QED
  BY <1>1, <1>14, <1>15 DEF Settled, Asking

LEMMA ForgottenStep ==
    ASSUME Types, Types', HasLatest, OutInv, ForgottenInv, [Next]_vars
    PROVE  ForgottenInv'
<1> SUFFICES ASSUME ~fault', NEW i \in Positions("call")'
             PROVE  \/ pc' = "tools" /\ out' = << >> /\ i = Len(history')
                    \/ Settled(history[i].calls)'
  BY DEF ForgottenInv
<1>1. ~fault /\ kind' = kind
  BY DEF Next, Agent, AtRest, vars, Yield, Abandon, Say, SkipAuth, SkipConfirmation, Fail,
         ResumeConfirmed, ResumeAuthorized, RunTools, RespondText, RespondCalls, FailModel
<1>2. ASSUME i \in Positions("call"), history'[i] = history[i],
             pc # "tools" \/ out # << >> \/ i # Len(history),
             \A k \in {"confirm", "auth", "response"} : Told(k) \subseteq Told(k)',
             \A c \in Calls : runs'[c] = runs[c] \/ runs'[c] = runs[c] + 1
      PROVE  Settled(history[i].calls)'
  <2>1. PICK S : S = history[i].calls
    OBVIOUS
  <2>2. Settled(S)
    BY <1>1, <1>2, <2>1 DEF ForgottenInv
  <2>3. history[i] \in Events
    BY <1>2 DEF Positions, Types, EventsSound
  <2>4. S \in SUBSET Calls
    BY <2>1, <2>3 DEF Events
  <2>5. Settled(S)'
    BY <1>1, <1>2, <2>2, <2>4, SettledStays
  <2> QED
    BY <1>2, <2>1, <2>5 DEF Settled, Asking
<1>3. CASE Yield
  <2>1. \A k : Told(k) \subseteq Told(k)'
    BY <1>3, ToldStays
  <2>2. /\ history' = Append(history, Head(out)) /\ Head(out) \in Events
        /\ Head(out) = out[1] /\ 1 \in DOMAIN out /\ out # << >> /\ out' = Tail(out)
        /\ pc' = pc /\ runs' = runs
    BY <1>3 DEF Yield, Types, EventsSound
  <2>3. CASE i = Len(history) + 1
    <3>1. Head(out).kind = "call" /\ Len(history') = Len(history) + 1
      BY <2>2, <2>3, Appended DEF Positions
    <3>2. pc = "tools"
      BY <2>2, <3>1 DEF OutInv
    <3>3. Len(out) = 1
      BY <2>2, <3>2 DEF Types, Turn
    <3>4. out' = << >>
      BY <2>2, <3>3 DEF Types, EventsSound
    <3> QED
      BY <2>2, <2>3, <3>1, <3>2, <3>4
  <2>4. CASE i # Len(history) + 1
    <3>1. i \in DOMAIN history /\ history'[i] = history[i]
      BY <2>2, <2>4, Appended DEF Positions
    <3>2. i \in Positions("call")
      BY <3>1 DEF Positions
    <3> QED
      BY <1>2, <2>1, <2>2, <3>1, <3>2
  <2> QED
    BY <2>3, <2>4
<1>4. CASE \E m \in Messages : Say(m)
  <2>1. PICK m \in Messages : Say(m)
    BY <1>4
  <2>2. m \in Events /\ m.kind = "user"
    BY MessageIsSound DEF Sound, Messages, Message
  <2>3. history' = Append(history, m) /\ out = << >> /\ pc = "idle" /\ runs' = runs
    BY <2>1 DEF Say, At
  <2>4. \A k : Told(k) \subseteq Told(k)'
    BY <2>2, <2>3, ToldStays
  <2>5. i \in DOMAIN history /\ history'[i] = history[i]
    BY <2>2, <2>3, Appended DEF Positions
  <2>6. i \in Positions("call")
    BY <2>5 DEF Positions
  <2> QED
    BY <1>2, <2>3, <2>4, <2>5, <2>6
<1>5. CASE SkipAuth \/ SkipConfirmation \/ RespondText \/ \E n \in Calls : RespondCalls(n)
  <2>1. history' = history /\ runs' = runs /\ pc # "tools" /\ out = << >>
    BY <1>5 DEF SkipAuth, SkipConfirmation, RespondText, RespondCalls, At
  <2>2. \A k : Told(k) \subseteq Told(k)'
    BY <2>1, ToldStays
  <2>3. i \in Positions("call")
    BY <2>1 DEF Positions
  <2> QED
    BY <1>2, <2>1, <2>2, <2>3
<1>6. CASE ResumeConfirmed \/ \E c \in Calls : ResumeAuthorized(c)
  <2>1. history' = history /\ pc # "tools" /\ out = << >>
    BY <1>6 DEF ResumeConfirmed, ResumeAuthorized, Fail, At
  <2>2. PICK S, a, cr : Ran(S, a, cr)
    <3>1. CASE ResumeConfirmed
      BY <1>1, <3>1 DEF ResumeConfirmed, Ran, Fail
    <3>2. CASE \E c \in Calls : ResumeAuthorized(c)
      BY <1>1, <3>2 DEF ResumeAuthorized, Ran, Fail
    <3> QED
      BY <1>6, <3>1, <3>2
  <2>3. \A c \in Calls : runs'[c] = runs[c] \/ runs'[c] = runs[c] + 1
    BY <2>2, RanCounts
  <2>4. \A k : Told(k) \subseteq Told(k)'
    BY <2>1, ToldStays
  <2>5. i \in Positions("call")
    BY <2>1 DEF Positions
  <2> QED
    BY <1>2, <2>1, <2>3, <2>4, <2>5
<1>7. CASE RunTools
  <2>1. history' = history /\ out = << >>
    BY <1>7 DEF RunTools, Fail, At
  <2>2. CASE i = Len(history)
    BY <1>7, <2>1, <2>2, RequestsSettle DEF LastEvent, Settled
  <2>3. CASE i # Len(history)
    <3>1. Execute(LastEvent.calls, NoAnswers, cred)
      BY <1>7 DEF RunTools, Fail
    <3>2. \A c \in Calls : runs'[c] = runs[c] \/ runs'[c] = runs[c] + 1
      BY <3>1, Executed
    <3>3. \A k : Told(k) \subseteq Told(k)'
      BY <2>1, ToldStays
    <3>4. i \in Positions("call")
      BY <2>1 DEF Positions
    <3> QED
      BY <1>2, <2>1, <2>3, <3>2, <3>3, <3>4
  <2> QED
    BY <2>2, <2>3
<1>8. CASE UNCHANGED vars
  BY <1>8 DEF vars, ForgottenInv, Settled, Told, Of, Positions, Asking
<1> QED
  BY <1>3, <1>4, <1>5, <1>6, <1>7, <1>8
     DEF Next, Agent, AtRest, Abandon, FailModel

-----------------------------------------------------------------------------
(* The invariant                                                           *)

Inv == /\ Types /\ HasLatest /\ HasUser /\ OutInv
       /\ SiblingsInv /\ CredInv /\ ApprovedInv /\ ForgottenInv

LEMMA InitInv ==
    ASSUME Init
    PROVE  Inv
<1>1. Scalars
  <2>1. runs \in [Calls -> Nat] /\ lost \in [Calls -> Nat]
    BY DEF Init
  <2>2. made \in 0..N
    BY HumanAssumption DEF Init
  <2> QED
    BY <2>1, <2>2 DEF Init, Scalars
<1>2. Types
  <2>1. history = << >> /\ out = << >> /\ << >> \in Seq(Events)
    BY DEF Init
  <2>2. EventsSound
    BY <2>1 DEF EventsSound
  <2> QED
    BY <1>1, <2>1, <2>2 DEF Init, Types, Turn
<1>3. \A k : Positions(k) = {}
  BY DEF Init, Positions
<1>4. HasLatest /\ HasUser /\ OutInv /\ CredInv /\ ForgottenInv
  BY <1>3 DEF Init, HasLatest, HasUser, OutInv, CredInv, ForgottenInv, Answering
<1>5. SiblingsInv
  BY DEF Init, SiblingsInv, SiblingsRunOnce
<1>6. ApprovedInv
  <2> SUFFICES ASSUME NEW c \in Calls
               PROVE  runs[c] = 0 /\ runs[c] <= Cardinality(Used(c)) + lost[c]
    BY DEF ApprovedInv
  <2>1. Used(c) = {}
    BY <1>3 DEF Used
  <2>2. runs[c] = 0 /\ lost[c] = 0
    BY DEF Init
  <2> QED
    BY <2>1, <2>2, FS_EmptySet
<1> QED
  BY <1>2, <1>4, <1>5, <1>6 DEF Inv

LEMMA InvStep ==
    ASSUME Inv, [Next]_vars
    PROVE  Inv'
<1>1. Types'
  BY TypesStep DEF Inv
<1>2. HasLatest' /\ HasUser'
  BY LatestStep DEF Inv
<1>3. OutInv' /\ SiblingsInv' /\ CredInv'
  BY OutStep, SiblingsStep, CredStep DEF Inv
<1>4. ApprovedInv' /\ ForgottenInv'
  BY <1>1, ApprovedStep, ForgottenStep DEF Inv
<1> QED
  BY <1>1, <1>2, <1>3, <1>4 DEF Inv

LEMMA InvAlways == Spec => []Inv
<1>1. Init => Inv
  BY InitInv
<1>2. Inv /\ [Next]_vars => Inv'
  BY InvStep
<1> QED
  BY <1>1, <1>2, PTL DEF Spec

-----------------------------------------------------------------------------
(* The theorems                                                            *)

\* The state stays of its type; in particular every call an event is about is
\* one a model has made.
THEOREM TypeCorrect == Spec => []TypeOK
<1>1. Inv => TypeOK
  BY DEF Inv, Types, Scalars, EventsSound, Sound, TypeOK
<1> QED
  BY <1>1, InvAlways, PTL

\* A tool that needs confirmation (AgentToolConfirmation, SecurityPlugin) runs
\* at most once for each acceptance of its call, lost runs apart, however many
\* calls and messages there are.
THEOREM ApprovedRuns == Spec => []RunsAreApproved
<1>1. ASSUME Inv
      PROVE  RunsAreApproved
  <2> SUFFICES ASSUME NEW c \in Calls, kind[c] \in {"gated", "policy", "denied"}
               PROVE  runs[c] <= Accepted(c) + lost[c]
    BY DEF RunsAreApproved
  <2> DEFINE A == {i \in Positions("user") :
                      c \in DOMAIN history[i].confirm /\ history[i].confirm[c]}
  <2>1. IsFiniteSet(A) /\ Cardinality(A) \in Nat
    BY <1>1, UsedFinite DEF Inv
  <2>2. Used(c) \subseteq A
    BY DEF Used
  <2>3. Cardinality(Used(c)) <= Cardinality(A) /\ Cardinality(Used(c)) \in Nat
    BY <1>1, <2>1, <2>2, FS_Subset, UsedFinite DEF Inv
  <2>4. runs[c] \in Nat /\ lost[c] \in Nat
    BY <1>1 DEF Inv, Types, Scalars
  <2>5. runs[c] = 0 \/ runs[c] <= Cardinality(Used(c)) + lost[c]
    BY <1>1 DEF Inv, ApprovedInv
  <2> QED
    BY <2>1, <2>3, <2>4, <2>5 DEF Accepted
<1> QED
  BY <1>1, InvAlways, PTL

\* A tool that needs no answer runs once, also when it stands beside calls
\* that wait and are resumed, in this turn or a later one.
THEOREM SiblingsRunAtMostOnce == Spec => []SiblingsRunOnce
<1>1. Inv => SiblingsRunOnce
  BY DEF Inv, SiblingsInv
<1> QED
  BY <1>1, InvAlways, PTL

\* A tool that needs a credential runs only in a turn whose message brought one.
THEOREM CredentialsOfTheTurn == Spec => CredentialOfTheTurn
<1>1. Inv /\ [Next]_vars => [CredentialStep]_vars
  BY CredentialNeeded DEF Inv
<1>2. Spec => [][CredentialStep]_vars
  BY <1>1, InvAlways, PTL DEF Spec
<1> QED
  BY <1>2 DEF CredentialOfTheTurn, CredentialStep

\* When a turn that was not cut off is over, every call has a request that
\* waits for the user, a response, or a run; none is forgotten.
THEOREM NoneForgotten == Spec => []NothingForgotten
<1>1. ASSUME Inv
      PROVE  NothingForgotten
  <2> SUFFICES ASSUME pc = "idle", out = << >>, ~fault
               PROVE  \A i \in Positions("call") : Settled(history[i].calls)
    <3>1. out = << >> => \A k : Told(k) = Of(k)
      BY DEF Told
    <3> QED
      BY <3>1 DEF NothingForgotten, At, Settled
  <2> QED
    BY <1>1 DEF Inv, ForgottenInv
<1> QED
  BY <1>1, InvAlways, PTL
=============================================================================
