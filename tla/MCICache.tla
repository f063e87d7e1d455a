------------------------------ MODULE MCICache ------------------------------
(***************************************************************************)
(* An instance of the instruction cache small enough for TLC: one set of   *)
(* two ways, three lines of code with different words.                     *)
(***************************************************************************)
EXTENDS ICacheSystem

ThreeTags == {"a", "b", "c", "io"}
OneSet    == {0}
OneLane   == {0}
Bits      == {0, 1}
IoLines   == {"io"} \X Sets

Word(v) == [b \in Bytes |-> v]
Code(t) == [o \in Offsets |-> Word(CASE t = "a" -> 0 [] t = "b" -> o [] OTHER -> 1 - o)]

\* The registers without a reset power up with one tag, word and way each.
MCInit ==
    /\ mem = [l \in Lines |-> Code(l[1])]
    /\ req = [tag |-> "a", idx |-> 0, woff |-> 0]
    /\ txn = [line |-> <<"a", 0>>, word |-> 0, len |-> 0]
    /\ inst = Word(0)
    /\ \E t \in Tags, w \in Ways :
          /\ tags = [s \in Sets |-> [u \in Ways |-> t]]
          /\ data = [s \in Sets |-> [u \in Ways |-> [o \in Offsets |-> Word(1)]]]
          /\ victim = w /\ resp_way = w
    /\ refill_buf = [o \in Offsets |-> Word(1)]
    /\ resp_from_buf = FALSE
    /\ Init

MCFairSpec == MCInit /\ [][Next]_vars /\ Fairness

=============================================================================
