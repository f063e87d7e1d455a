------------------------------- MODULE DCache -------------------------------
(***************************************************************************)
(* The registers of the data cache (dcache_top.v): a blocking,             *)
(* write-back, write-allocate, set-associative cache with round-robin      *)
(* replacement and uncached ("bypass") accesses.  There is one action per  *)
(* arm of the state machine (per outcome, for D_TAG); what the arm reads   *)
(* from a port of the module is a parameter of the action.                 *)
(***************************************************************************)
EXTENDS MemoryTypes

CONSTANT WayCount                       \* ways of a set: 4 in the code
ASSUME WayCountAssumption == WayCount \in Nat \ {0}

Ways   == 0 .. WayCount - 1
States == {"D_WAIT", "D_TAG", "D_RESP", "D_WHIT", "D_WB", "D_WBD", "D_MREQ",
           "D_RECV", "D_REFILL", "D_BPR", "D_BPRD", "D_BPW", "D_BPWD"}

VARIABLES
    state,
    req,                                \* req_addr, req_wr, req_wdata, req_wstrb
    valid, dirty, tags, data, rr_ptr,   \* the arrays, by set and way
    acc_way, acc_block, wb_tag, victim, \* latched in D_TAG
    refill_buf, recv_cnt, wb_cnt,
    resp_from_buf, resp_is_bypass

arrays    == <<valid, dirty, tags, data, rr_ptr>>
latches   == <<acc_way, acc_block, wb_tag, victim>>
counters  == <<refill_buf, recv_cnt, wb_cnt>>
respFlags == <<resp_from_buf, resp_is_bypass>>
cacheVars == <<state, req, arrays, latches, counters, respFlags>>

CacheTypeOK ==
    /\ state \in States
    /\ req \in Requests
    /\ valid \in [Sets -> [Ways -> BOOLEAN]]
    /\ dirty \in [Sets -> [Ways -> BOOLEAN]]
    /\ tags \in [Sets -> [Ways -> Tags]]
    /\ data \in [Sets -> [Ways -> Blocks]]
    /\ rr_ptr \in [Sets -> Ways]
    /\ acc_way \in Ways /\ acc_block \in Blocks
    /\ wb_tag \in Tags /\ victim \in Ways
    /\ refill_buf \in Blocks
    /\ recv_cnt \in Offsets /\ wb_cnt \in Offsets
    /\ resp_from_buf \in BOOLEAN /\ resp_is_bypass \in BOOLEAN

\* The registers that the reset clears; the others power up with any value.
CacheInit ==
    /\ state = "D_WAIT"
    /\ valid = [s \in Sets |-> [w \in Ways |-> FALSE]]
    /\ dirty = [s \in Sets |-> [w \in Ways |-> FALSE]]
    /\ rr_ptr = [s \in Sets |-> 0]
    /\ recv_cnt = 0
    /\ wb_cnt = 0
    /\ resp_is_bypass = FALSE
    /\ req \in Requests
    /\ tags \in [Sets -> [Ways -> Tags]]
    /\ data \in [Sets -> [Ways -> Blocks]]
    /\ acc_way \in Ways
    /\ acc_block \in Blocks
    /\ wb_tag \in Tags
    /\ victim \in Ways
    /\ refill_buf \in Blocks
    /\ resp_from_buf \in BOOLEAN

-----------------------------------------------------------------------------
\* Combinational signals.  A definition that is followed by the one it
\* resembles is a slip of the code that a run must notice; the model itself
\* does not use it.

idx    == req.idx
bypassStores == LineOf(req) \in BypassLines /\ req.wr
bypass == LineOf(req) \in BypassLines

HitWayStale(w) == tags[idx][w] = req.tag
HitWay(w) == valid[idx][w] /\ tags[idx][w] = req.tag
HitFirst  == HitWay(0)
Hit       == \E w \in Ways : HitWay(w)
HitSel(w) == HitWay(w) /\ \A u \in Ways : u < w => ~HitWay(u)

AllValid(s) == \A w \in Ways : valid[s][w]

\* The first invalid way, else the way under the round-robin pointer.
VictimSel(v) ==
    IF AllValid(idx)
    THEN v = rr_ptr[idx]
    ELSE ~valid[idx][v] /\ \A u \in Ways : u < v => valid[idx][u]

\* The counters and the pointer are as wide as their range: they wrap.
NextOffset(n) == IF n = BlockWords - 1 THEN 0 ELSE n + 1
NextWayNarrow(w) == IF w >= WayCount - 2 THEN 0 ELSE w + 1
NextWay(w)    == IF w = WayCount - 1 THEN 0 ELSE w + 1

\* A miss must first write the victim back.
NeedsWriteBack(v) == valid[idx][v] /\ dirty[idx][v]

\* A stored word makes the refilled line dirty at once (write-allocate).
FillClean == FALSE
FillDirty == req.wr

\* The pointer moves only when the line replaced another one.
NextPointer(p) == IF AllValid(idx) THEN NextWay(p) ELSE p

Merged(block) == MergeBlock(block, req.woff, req.wdata, req.wstrb)

RespBlock  == IF resp_from_buf THEN refill_buf ELSE acc_block
CpuRspData == IF resp_is_bypass THEN refill_buf[0] ELSE RespBlock[req.woff]

WbWordFirst == acc_block[0]
WbWord == acc_block[wb_cnt]
WbLastEarly == wb_cnt = BlockWords - 2
WbLast == wb_cnt = BlockWords - 1

-----------------------------------------------------------------------------
\* D_WAIT: latch the request of the CPU.
Wait(r) ==
    /\ state = "D_WAIT"
    /\ req' = r
    /\ state' = "D_TAG"
    /\ UNCHANGED <<arrays, latches, counters, respFlags>>

\* D_TAG.  resp_is_bypass is cleared here, whatever the outcome.
TagBypass ==
    /\ state = "D_TAG"
    /\ bypass
    /\ state' = IF req.wr THEN "D_BPW" ELSE "D_BPR"
    /\ resp_is_bypass' = FALSE
    /\ UNCHANGED <<req, arrays, latches, counters, resp_from_buf>>

TagHit(w) ==
    /\ state = "D_TAG"
    /\ ~bypass
    /\ HitSel(w)
    /\ acc_way' = w
    /\ acc_block' = data[idx][w]
    /\ state' = IF req.wr THEN "D_WHIT" ELSE "D_RESP"
    /\ resp_from_buf' = IF req.wr THEN resp_from_buf ELSE FALSE
    /\ resp_is_bypass' = FALSE
    /\ UNCHANGED <<req, arrays, wb_tag, victim, counters>>

TagMiss(v) ==
    /\ state = "D_TAG"
    /\ ~bypass
    /\ ~Hit
    /\ VictimSel(v)
    /\ victim' = v
    /\ acc_block' = data[idx][v]
    /\ wb_tag' = tags[idx][v]
    /\ recv_cnt' = 0
    /\ state' = IF NeedsWriteBack(v) THEN "D_WB" ELSE "D_MREQ"
    /\ resp_is_bypass' = FALSE
    /\ UNCHANGED <<req, arrays, acc_way, refill_buf, wb_cnt, resp_from_buf>>

\* D_WHIT: the merged block goes back to the way that was hit.
WriteHit ==
    /\ state = "D_WHIT"
    /\ data' = [data EXCEPT ![idx][acc_way] = Merged(acc_block)]
    /\ dirty' = [dirty EXCEPT ![idx][acc_way] = TRUE]
    /\ state' = "D_WAIT"
    /\ UNCHANGED <<req, valid, tags, rr_ptr, latches, counters, respFlags>>

\* D_WB, when the write request is taken.
WbReq ==
    /\ state = "D_WB"
    /\ wb_cnt' = 0
    /\ state' = "D_WBD"
    /\ UNCHANGED <<req, arrays, latches, refill_buf, recv_cnt, respFlags>>

\* D_WBD, when a beat of the victim is taken.
WbBeat ==
    /\ state = "D_WBD"
    /\ wb_cnt' = NextOffset(wb_cnt)
    /\ state' = IF WbLast THEN "D_MREQ" ELSE "D_WBD"
    /\ UNCHANGED <<req, arrays, latches, refill_buf, recv_cnt, respFlags>>

\* D_MREQ, when the read request is taken.
MemReq ==
    /\ state = "D_MREQ"
    /\ state' = "D_RECV"
    /\ UNCHANGED <<req, arrays, latches, counters, respFlags>>

\* D_RECV, for a beat: the arm counts the beats but leaves on RLAST.
Recv(word, last) ==
    /\ state = "D_RECV"
    /\ refill_buf' = [refill_buf EXCEPT ![recv_cnt] = word]
    /\ recv_cnt' = NextOffset(recv_cnt)
    /\ state' = IF last THEN "D_REFILL" ELSE "D_RECV"
    /\ UNCHANGED <<req, arrays, latches, wb_cnt, respFlags>>

\* D_REFILL: the block, merged for a store, and its tag replace the victim.
Refill ==
    /\ state = "D_REFILL"
    /\ valid' = [valid EXCEPT ![idx][victim] = TRUE]
    /\ dirty' = [dirty EXCEPT ![idx][victim] = FillDirty]
    /\ tags' = [tags EXCEPT ![idx][victim] = req.tag]
    /\ data' = [data EXCEPT ![idx][victim] =
                    IF req.wr THEN Merged(refill_buf) ELSE refill_buf]
    /\ rr_ptr' = [rr_ptr EXCEPT ![idx] = NextPointer(@)]
    /\ state' = IF req.wr THEN "D_WAIT" ELSE "D_RESP"
    /\ resp_from_buf' = IF req.wr THEN resp_from_buf ELSE TRUE
    /\ UNCHANGED <<req, latches, counters, resp_is_bypass>>

\* D_RESP, when the CPU takes CpuRspData.
Resp ==
    /\ state = "D_RESP"
    /\ state' = "D_WAIT"
    /\ UNCHANGED <<req, arrays, latches, counters, respFlags>>

\* D_BPR and D_BPRD: an uncached load of one word.
BypassReadReq ==
    /\ state = "D_BPR"
    /\ state' = "D_BPRD"
    /\ UNCHANGED <<req, arrays, latches, counters, respFlags>>

BypassRead(word) ==
    /\ state = "D_BPRD"
    /\ refill_buf' = [refill_buf EXCEPT ![0] = word]
    /\ resp_from_buf' = TRUE
    /\ resp_is_bypass' = TRUE
    /\ state' = "D_RESP"
    /\ UNCHANGED <<req, arrays, latches, recv_cnt, wb_cnt>>

\* D_BPW and D_BPWD: an uncached store of one word.
BypassWriteReq ==
    /\ state = "D_BPW"
    /\ state' = "D_BPWD"
    /\ UNCHANGED <<req, arrays, latches, counters, respFlags>>

BypassWrite ==
    /\ state = "D_BPWD"
    /\ state' = "D_WAIT"
    /\ UNCHANGED <<req, arrays, latches, counters, respFlags>>

=============================================================================
