--------------------------- MODULE MCMemIfWrapper ---------------------------
(***************************************************************************)
(* The data port without a cache, small enough for TLC: a line of memory   *)
(* and a line of a device, of one word of two bytes each.                 *)
(***************************************************************************)
EXTENDS MemIfWrapper

TwoTags  == {"a", "io"}
OneSet   == {0}
TwoLanes == {0, 1}
Bits     == {0, 1}
IoLines  == {"io"} \X Sets

MCInit ==
    /\ mem = [l \in Lines |-> [o \in Offsets |-> ZeroWord]]
    /\ req = CHOOSE r \in Requests : ~r.wr
    /\ txn = [line |-> LineOf(req), word |-> 0, len |-> 0]
    /\ Init

MCFairSpec == MCInit /\ [][Next]_vars /\ Fairness

=============================================================================
