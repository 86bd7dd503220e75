---------------------------- MODULE HumanInTheLoop ----------------------------
(***************************************************************************)
(* Tool calls that wait for the user: one LlmAgent, the turns of one       *)
(* session, and what becomes of a call whose tool wants a confirmation or  *)
(* a credential.  The turn that made the call ends with a request, a later *)
(* message answers it, and two request processors look for such answers in *)
(* the history before every model call and run the tools then.             *)
(*                                                                         *)
(* Abstractions: a call is a number and its tool a kind; a request is      *)
(* known by the call it is about, for which there is one at most; the      *)
(* tools of one response run in one step (FunctionCalls has their tasks);  *)
(* the tools that want a credential share one credential key.              *)
(***************************************************************************)
EXTENDS Naturals, Sequences, FiniteSets

CONSTANTS N,          \* bound: function calls of the models
          MaxMessages \* bound: messages of the user

ASSUME HumanAssumption == N \in Nat /\ MaxMessages \in Nat

Calls == 1..N

\* A tool that just runs, one with RequireConfirmation, one the SecurityPlugin
\* wants confirmed, one it denies, a BaseAuthenticatedTool.
Kinds == {"plain", "gated", "policy", "denied", "auth"}

VARIABLES
    kind,     \* the tool of each call
    history,  \* the session's events
    out,      \* the events the agent has yet to yield
    pc,       \* what the agent does once they are yielded
    cred,     \* the session copy of this turn holds the credential
    made,     \* calls the models made so far
    runs,     \* how often the tool of a call ran
    lost,     \* runs of it no response tells of
    fault     \* a turn was cut off, by an exception or a caller that left

vars == <<kind, history, out, pc, cred, made, runs, lost, fault>>

NoAnswers == [c \in {} |-> TRUE]

\* The answers of a message: for each call whose request it answers, whether
\* the user accepts, or whether there is a credential.
Message(confirm, auth) ==
    [kind |-> "user", calls |-> {}, confirm |-> confirm, auth |-> auth]
Event(k, S) == [kind |-> k, calls |-> S, confirm |-> NoAnswers, auth |-> NoAnswers]

Init ==
    /\ kind \in [Calls -> Kinds]
    /\ history = << >>
    /\ out = << >>
    /\ pc = "idle"
    /\ cred = FALSE
    /\ made = 0
    /\ runs = [c \in Calls |-> 0]
    /\ lost = [c \in Calls |-> 0]
    /\ fault = FALSE

Positions(k) == {i \in DOMAIN history : history[i].kind = k}
Latest(S) == CHOOSE i \in S : \A j \in S : j <= i
\* The calls of all the events of a kind; for requests, those asked about.
Of(k) == UNION {history[i].calls : i \in Positions(k)}
At(place) == pc = place /\ out = << >>

-----------------------------------------------------------------------------
(* The user and the runner                                                 *)

\* A mutant: what the turn before left in the state is there.
SayOn(m) ==
    /\ At("idle") /\ Cardinality(Positions("user")) < MaxMessages
    /\ history' = Append(history, m)
    /\ pc' = "auth"
    /\ UNCHANGED <<kind, out, cred, made, runs, lost, fault>>

\* A turn begins with a new copy of the session, without the temp: keys of
\* the turn before.
Say(m) ==
    /\ At("idle") /\ Cardinality(Positions("user")) < MaxMessages
    /\ history' = Append(history, m)
    /\ cred' = FALSE
    /\ pc' = "auth"
    /\ UNCHANGED <<kind, out, made, runs, lost, fault>>

\* A text, or answers to any of the requests so far, also to those that have
\* been answered before.
Messages ==
    {Message(confirm, auth) :
        confirm \in UNION {[S -> BOOLEAN] : S \in SUBSET Of("confirm")},
        auth \in UNION {[S -> BOOLEAN] : S \in SUBSET Of("auth")}}

\* The runner persists what the agent yields, and then the agent goes on.
Yield ==
    /\ out # << >>
    /\ history' = Append(history, Head(out))
    /\ out' = Tail(out)
    /\ UNCHANGED <<kind, pc, cred, made, runs, lost, fault>>

\* The caller leaves after an event; the rest of the turn never happens.
Abandon ==
    /\ out # << >>
    /\ history' = Append(history, Head(out))
    /\ out' = << >>
    /\ pc' = "idle"
    /\ fault' = TRUE
    /\ UNCHANGED <<kind, cred, made, runs, lost>>

-----------------------------------------------------------------------------
(* What a tool does with a call                                            *)

\* A mutant: any answer is taken for a yes.
RunsAnswered(c, answers, credential) ==
    \/ kind[c] = "plain"
    \/ kind[c] = "gated" /\ c \in DOMAIN answers
    \/ kind[c] = "auth" /\ credential

\* Whether the tool itself runs.  The SecurityPlugin keeps what it decided
\* for a call in the session state, as a dictionary that a later turn gets
\* back as a JsonElement and cannot read: it decides anew, and its request
\* takes the place of the answer the processor put there.
Runs(c, answers, credential) ==
    \/ kind[c] = "plain"
    \/ kind[c] = "gated" /\ c \in DOMAIN answers /\ answers[c]
    \/ kind[c] = "auth" /\ credential

\* The calls whose tool asks for a confirmation, for a credential.
Asking(S) == {c \in S : kind[c] \in {"gated", "policy"}}
Unauthorized(S) == {c \in S : kind[c] = "auth" /\ ~cred}

\* The tools of S run, and one response event tells of all of them.
Execute(S, answers, credential) ==
    runs' = [c \in Calls |-> IF c \in S /\ Runs(c, answers, credential)
                               THEN runs[c] + 1 ELSE runs[c]]

\* A callback throws: some of the tools have run, none has a response.
Fail(S, answers, credential) ==
    /\ \E R \in SUBSET {c \in S : Runs(c, answers, credential)} :
          /\ runs' = [c \in Calls |-> IF c \in R THEN runs[c] + 1 ELSE runs[c]]
          /\ lost' = [c \in Calls |-> IF c \in R THEN lost[c] + 1 ELSE lost[c]]
    /\ pc' = "idle"
    /\ fault' = TRUE
    /\ UNCHANGED <<kind, history, out, made>>

-----------------------------------------------------------------------------
(* AuthLlmRequestProcessor                                                 *)

LastEvent == history[Len(history)]

\* A mutant: all the calls of the event run again.
ResumedAll(auth) ==
    LET from == {i \in Positions("call") : history[i].calls \cap DOMAIN auth # {}}
    IN  IF from = {} THEN {} ELSE history[Latest(from)].calls

\* Only the newest event with one of the answered calls is looked at.
Resumed(auth) ==
    LET from == {i \in Positions("call") : history[i].calls \cap DOMAIN auth # {}}
    IN  IF from = {} THEN {} ELSE history[Latest(from)].calls \cap DOMAIN auth

SkipAuth ==
    /\ At("auth") /\ LastEvent.auth = NoAnswers
    /\ pc' = "confirm"
    /\ UNCHANGED <<kind, history, out, cred, made, runs, lost, fault>>

\* The credentials go to one key in the order of the message's parts, which
\* is the client's: any of them may be the last.
ResumeAuthorized(c) ==
    LET S == Resumed(LastEvent.auth) IN
    /\ At("auth") /\ c \in DOMAIN LastEvent.auth
    /\ cred' = LastEvent.auth[c]
    /\ \/ /\ Execute(S, NoAnswers, cred')
          /\ out' = <<Event("response", S)>>
          /\ pc' = "confirm"
          /\ UNCHANGED <<kind, history, made, lost, fault>>
       \/ Fail(S, NoAnswers, cred')

-----------------------------------------------------------------------------
(* RequestConfirmationLlmRequestProcessor                                  *)

\* The answers of the latest message that has any.
Answering == {i \in Positions("user") : history[i].confirm # NoAnswers}

\* A mutant: without RemoveAlreadyRespondedCalls.
PendingAnswered ==
    IF Answering = {} THEN {} ELSE DOMAIN history[Latest(Answering)].confirm

\* A mutant: only the last event is looked at, as for credentials.
PendingLast ==
    IF Len(history) \notin Answering THEN {} ELSE DOMAIN LastEvent.confirm

\* Those of the calls it answers that have no response after it.
Pending ==
    IF Answering = {} THEN {}
    ELSE {c \in DOMAIN history[Latest(Answering)].confirm :
             \A i \in Positions("response") :
                 i > Latest(Answering) => c \notin history[i].calls}

SkipConfirmation ==
    /\ At("confirm") /\ Pending = {}
    /\ pc' = "model"
    /\ UNCHANGED <<kind, history, out, cred, made, runs, lost, fault>>

ResumeConfirmed ==
    LET answers == history[Latest(Answering)].confirm IN
    /\ At("confirm") /\ Pending # {}
    /\ \/ /\ Execute(Pending, answers, cred)
          /\ out' = <<Event("response", Pending)>>
          /\ pc' = "model"
          /\ UNCHANGED <<kind, history, made, lost, fault>>
       \/ Fail(Pending, answers, cred)
    /\ UNCHANGED cred

-----------------------------------------------------------------------------
(* The model and the calls of its response                                 *)

RespondText ==
    /\ At("model")
    /\ out' = <<Event("text", {})>>
    /\ pc' = "idle"
    /\ UNCHANGED <<kind, history, cred, made, runs, lost, fault>>

\* A mutant: ids that are new in the response only.
RespondAnew(n) ==
    /\ At("model") /\ made + n <= N
    /\ out' = <<Event("call", 1..n)>>
    /\ pc' = "tools"
    /\ UNCHANGED <<kind, history, cred, made, runs, lost, fault>>

RespondCalls(n) ==
    /\ At("model") /\ made + n <= N
    /\ made' = made + n
    /\ out' = <<Event("call", made + 1..made + n)>>
    /\ pc' = "tools"
    /\ UNCHANGED <<kind, history, cred, runs, lost, fault>>

FailModel ==
    /\ At("model")
    /\ pc' = "idle"
    /\ fault' = TRUE
    /\ UNCHANGED <<kind, history, out, cred, made, runs, lost>>

\* A mutant: the confirmation is asked for only when no credential is.
RequestsOneKind(S) ==
    (IF Unauthorized(S) # {} THEN <<Event("auth", Unauthorized(S))>> ELSE << >>)
    \o (IF Asking(S) # {} /\ Unauthorized(S) = {} THEN <<Event("confirm", Asking(S))>>
        ELSE <<Event("response", S)>>)

\* What PostprocessAsync yields for the calls: a request for confirmation
\* takes the place of the response event.
Requests(S) ==
    (IF Unauthorized(S) # {} THEN <<Event("auth", Unauthorized(S))>> ELSE << >>)
    \o (IF Asking(S) # {} THEN <<Event("confirm", Asking(S))>>
        ELSE <<Event("response", S)>>)

\* A request ends the invocation; otherwise the agent takes another step.
RunTools ==
    LET S == LastEvent.calls IN
    /\ At("tools")
    /\ \/ /\ Execute(S, NoAnswers, cred)
          /\ out' = Requests(S)
          /\ pc' = IF Asking(S) \cup Unauthorized(S) = {} THEN "auth" ELSE "idle"
          /\ UNCHANGED <<kind, history, made, lost, fault>>
       \/ Fail(S, NoAnswers, cred)
    /\ UNCHANGED cred

Agent ==
    \/ Yield \/ SkipAuth \/ SkipConfirmation \/ ResumeConfirmed \/ RunTools
    \/ RespondText \/ FailModel \/ \E n \in Calls : RespondCalls(n)
    \/ \E c \in Calls : ResumeAuthorized(c)

AtRest == At("idle") /\ UNCHANGED vars

Next == Agent \/ Abandon \/ AtRest \/ \E m \in Messages : Say(m)

\* A turn that is not cut off goes on to its end.
Spec == Init /\ [][Next]_vars /\ WF_vars(Agent)

-----------------------------------------------------------------------------
Answers == UNION {[S -> BOOLEAN] : S \in SUBSET Calls}
Events == [kind : {"user", "text", "call", "auth", "confirm", "response"},
           calls : SUBSET Calls, confirm : Answers, auth : Answers]

TypeOK ==
    /\ kind \in [Calls -> Kinds]
    /\ history \in Seq(Events) /\ out \in Seq(Events)
    /\ \A i \in DOMAIN history : history[i].calls \subseteq 1..made
    /\ pc \in {"idle", "auth", "confirm", "model", "tools"}
    /\ cred \in BOOLEAN
    /\ made \in 0..N
    /\ runs \in [Calls -> Nat] /\ lost \in [Calls -> Nat]
    /\ fault \in BOOLEAN

\* How often the user accepted the request about a call.
Accepted(c) ==
    Cardinality({i \in Positions("user") :
                    c \in DOMAIN history[i].confirm /\ history[i].confirm[c]})

\* A tool that needs confirmation runs once for each time the user accepted
\* the call, and again only for a run whose response was lost: not on a
\* rejection, not for a sibling's answer, and not again in the steps and
\* turns that find the same answer in the history.
RunsAreApproved ==
    \A c \in Calls :
        kind[c] \in {"gated", "policy", "denied"} => runs[c] <= Accepted(c) + lost[c]

\* The calls beside one that waits are not run again when it is resumed.
SiblingsRunOnce == \A c \in Calls : kind[c] = "plain" => runs[c] <= 1

\* A tool that needs a credential runs only in a turn whose own message
\* brought one: no credential outlives its turn.
CredentialOfTheTurn ==
    [][\A c \in Calls :
          kind[c] = "auth" /\ runs'[c] # runs[c] =>
              LET m == history[Latest(Positions("user"))]
              IN  \E d \in DOMAIN m.auth : m.auth[d]]_vars

\* No call is forgotten when its turn ends: the user has a request for each
\* that waits, and every other one has its response, or lost it to the
\* request for a sibling.
NothingForgotten ==
    At("idle") /\ ~fault =>
        \A i \in Positions("call") : \A c \in history[i].calls :
            /\ kind[c] \in {"gated", "policy"} => c \in Of("confirm")
            /\ kind[c] = "auth" => c \in Of("auth") \/ runs[c] > 0
            /\ c \in Of("response") \/ Asking(history[i].calls) # {}

\* The answer the agent is about to look for is a yes to call c.
Says(c, k) ==
    /\ At("auth") /\ LastEvent.kind = "user"
    /\ \/ /\ k = "auth" /\ c \in Resumed(LastEvent.auth)
          /\ \A d \in DOMAIN LastEvent.auth : LastEvent.auth[d]
       \/ k # "auth" /\ c \in DOMAIN LastEvent.confirm /\ LastEvent.confirm[c]

ResumesTool(k) ==
    \A c \in Calls : kind[c] = k /\ Says(c, k) ~> runs[c] > 0 \/ fault

\* docs/human-in-the-loop.md: an accepted call is run, unless the turn is cut
\* off; likewise a call of the newest response a credential was given for.
AnswerResumes == ResumesTool("gated") /\ ResumesTool("auth")

\* The same of a call the SecurityPlugin wants confirmed.
PolicyAnswerResumes == ResumesTool("policy")
=============================================================================
