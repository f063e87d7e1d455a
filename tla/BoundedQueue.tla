---------------------------- MODULE BoundedQueue ----------------------------
(***************************************************************************)
(* What the user of the FIFO is promised: a queue of at most Depth items.  *)
(* In one cycle it may push, pop, both or neither; whether a push or a pop *)
(* takes effect is decided by the queue as it was before the cycle.        *)
(***************************************************************************)
EXTENDS Integers, Sequences

CONSTANTS Depth, Items

VARIABLES queue, out, reset

Init == queue = <<>> /\ out \in Items /\ reset = TRUE

Cycle(push, pop, item) ==
    LET pops == pop /\ queue # <<>>
        rest == IF pops THEN Tail(queue) ELSE queue
    IN  /\ queue' = IF push /\ Len(queue) < Depth THEN Append(rest, item) ELSE rest
        /\ out' = IF pops THEN Head(queue) ELSE out
        /\ reset' = FALSE

\* A reset empties the queue; the output is not a promise then.
Reset == queue' = <<>> /\ out' \in Items /\ reset' = TRUE

Next == Reset \/ \E push, pop \in BOOLEAN, item \in Items : Cycle(push, pop, item)

Spec == Init /\ [][Next]_<<queue, out, reset>>

=============================================================================
