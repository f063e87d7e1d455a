------------------------------ MODULE MCDCache ------------------------------
(***************************************************************************)
(* Instances of the data cache small enough for TLC.                       *)
(***************************************************************************)
EXTENDS DCacheInvariant

\* Tags "a", "b" and "c" are cacheable, "io" is the tag of the bypass lines.
TwoTags   == {"a", "b", "io"}
ThreeTags == {"a", "b", "c", "io"}
IoLines   == {"io"} \X Sets

OneSet   == {0}
OneLane  == {0}
Bits     == {0, 1}
Zero     == {0}

\* The registers without a reset power up with one arbitrary tag, word and
\* way each; memory starts as zeroes, and the stores reach every content.
MCInit ==
    /\ mem = [l \in Lines |-> [o \in Offsets |-> ZeroWord]]
    /\ req = CHOOSE r \in Requests : ~r.wr
    /\ txn = [line |-> LineOf(req), word |-> 0, len |-> 0]
    /\ \E t \in Tags, d \in Words, w \in Ways :
          LET block == [o \in Offsets |-> d]
          IN  /\ tags = [s \in Sets |-> [u \in Ways |-> t]]
              /\ data = [s \in Sets |-> [u \in Ways |-> block]]
              /\ acc_way = w /\ victim = w
              /\ acc_block = block /\ refill_buf = block
              /\ wb_tag = t
    /\ resp_from_buf = FALSE
    /\ Init

MCSpec     == MCInit /\ [][Next]_vars

\* TLC tells two states apart by the registers that a later step can still
\* read; the others keep what an earlier request left in them.
Dead == "dead"
Live(isLive, register) == IF isLive THEN register ELSE Dead

MCView ==
    << state, valid, dirty, tags, data, rr_ptr, mem, phase, beats,
       resp_is_bypass /\ state \in {"D_TAG", "D_RESP"},
       Live(state # "D_WAIT", req),
       Live(state = "D_WHIT", acc_way),
       Live(state \in {"D_WHIT", "D_WB", "D_WBD"}
              \/ (state = "D_RESP" /\ ~resp_from_buf /\ ~resp_is_bypass), acc_block),
       Live(state = "D_WB", wb_tag),
       Live(state \in {"D_WB", "D_WBD", "D_MREQ", "D_RECV", "D_REFILL"}, victim),
       Live(state \in {"D_RECV", "D_REFILL"}
              \/ (state = "D_RESP" /\ (resp_from_buf \/ resp_is_bypass)), refill_buf),
       Live(state = "D_RECV", recv_cnt),
       Live(state = "D_WBD", wb_cnt),
       Live(state = "D_RESP", resp_from_buf),
       Live(phase # "IDLE", <<txn, moved>>) >>

=============================================================================
