---------------------------- MODULE SessionStore ----------------------------
(***************************************************************************)
(* What a session service promises its callers, whatever stores the data:  *)
(* a key names at most one conversation, the log of a conversation only    *)
(* grows, one event at a time, and an event is committed at most once.     *)
(* A conversation that a delete or an overwriting create has detached      *)
(* keeps its log: callers that found it before still commit to it.         *)
(***************************************************************************)
EXTENDS Integers, Sequences

CONSTANTS Keys,      \* what a caller names a session by
          Convs,     \* the conversations that can ever exist
          NoConv,    \* the key names nothing
          Events     \* the events that can ever be committed

VARIABLES current,   \* the conversation a key names
          opened,    \* the conversations created so far
          log        \* the committed events of each conversation

storeVars == <<current, opened, log>>

Committed(e) == \E c \in Convs : \E i \in 1..Len(log[c]) : log[c][i] = e

Init ==
    /\ current = [k \in Keys |-> NoConv]
    /\ opened = {}
    /\ log = [c \in Convs |-> << >>]

Open(k, c) ==
    /\ c \notin opened
    /\ opened' = opened \cup {c}
    /\ current' = [current EXCEPT ![k] = c]
    /\ UNCHANGED log

Commit(e, c) ==
    /\ c \in opened
    /\ ~Committed(e)
    /\ log' = [log EXCEPT ![c] = Append(@, e)]
    /\ UNCHANGED <<current, opened>>

Remove(k) ==
    /\ current' = [current EXCEPT ![k] = NoConv]
    /\ UNCHANGED <<opened, log>>

Next ==
    \/ \E k \in Keys, c \in Convs : Open(k, c)
    \/ \E e \in Events, c \in Convs : Commit(e, c)
    \/ \E k \in Keys : Remove(k)

Spec == Init /\ [][Next]_storeVars
=============================================================================
