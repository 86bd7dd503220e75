---------------------------- MODULE OrderedMerge ----------------------------
(***************************************************************************)
(* What running agents side by side promises: the events of several        *)
(* branches are merged into one history that keeps each branch's order,    *)
(* and the turn is over when every branch is and everything it emitted has *)
(* been merged, or when the caller goes away.                              *)
(***************************************************************************)
EXTENDS Naturals, Sequences

CONSTANT Branches

VARIABLES emitted,  \* how many events each branch has emitted
          merged,   \* the history they go to
          status    \* "open", "closed" or "abandoned"

Merged == {merged[i] : i \in 1..Len(merged)}

Init ==
    /\ emitted = [b \in Branches |-> 0]
    /\ merged = << >>
    /\ status = "open"

Emit(b) ==
    /\ status # "closed"
    /\ emitted' = [emitted EXCEPT ![b] = @ + 1]
    /\ UNCHANGED <<merged, status>>

\* The n-th event of a branch, after the ones before it and only once.
Deliver(b, n) ==
    /\ status = "open"
    /\ n <= emitted[b]
    /\ [by |-> b, n |-> n] \notin Merged
    /\ \A m \in 1..n - 1 : [by |-> b, n |-> m] \in Merged
    /\ merged' = Append(merged, [by |-> b, n |-> n])
    /\ UNCHANGED <<emitted, status>>

Close ==
    /\ status = "open"
    /\ \A b \in Branches : \A n \in 1..emitted[b] : [by |-> b, n |-> n] \in Merged
    /\ status' = "closed"
    /\ UNCHANGED <<emitted, merged>>

Abandon ==
    /\ status = "open"
    /\ status' = "abandoned"
    /\ UNCHANGED <<emitted, merged>>

Next == \/ Close \/ Abandon
        \/ \E b \in Branches : \/ Emit(b)
                               \/ \E n \in 1..emitted[b] : Deliver(b, n)

Spec == Init /\ [][Next]_<<emitted, merged, status>>
=============================================================================
