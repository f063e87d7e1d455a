------------------------------- MODULE ICache -------------------------------
(***************************************************************************)
(* The registers of the instruction cache (icache_top.v): read-only,       *)
(* blocking, set-associative, with the replacement of the data cache.      *)
(* There is one action per arm of the state machine; what an arm reads     *)
(* from a port of the module is a parameter of the action.                 *)
(***************************************************************************)
EXTENDS MemoryTypes

CONSTANT WayCount                       \* ways of a set: 4 in the code
ASSUME WayCountAssumption == WayCount \in Nat \ {0}

Ways   == 0 .. WayCount - 1
States == {"I_WAIT", "I_TAG_RD", "I_CACHE_RD", "I_RESP", "I_EVICT", "I_MEM_RD",
           "I_RECV", "I_REFILL"}
Fetches == [tag : Tags, idx : Sets, woff : Offsets]

VARIABLES
    state,
    req,                                \* req_addr
    valid, tags, data, rr_ptr,          \* the arrays, by set and way
    victim, refill_buf, recv_cnt, resp_way, resp_from_buf

arrays    == <<valid, tags, data, rr_ptr>>
fill      == <<victim, refill_buf, recv_cnt>>
resp      == <<resp_way, resp_from_buf>>
cacheVars == <<state, req, arrays, fill, resp>>

CacheTypeOK ==
    /\ state \in States
    /\ req \in Fetches
    /\ valid \in [Sets -> [Ways -> BOOLEAN]]
    /\ tags \in [Sets -> [Ways -> Tags]]
    /\ data \in [Sets -> [Ways -> Blocks]]
    /\ rr_ptr \in [Sets -> Ways]
    /\ victim \in Ways /\ refill_buf \in Blocks /\ recv_cnt \in Offsets
    /\ resp_way \in Ways /\ resp_from_buf \in BOOLEAN

\* The registers that the reset clears; the others power up with any value.
CacheInit ==
    /\ state = "I_WAIT"
    /\ recv_cnt = 0
    /\ rr_ptr = [s \in Sets |-> 0]
    /\ valid = [s \in Sets |-> [w \in Ways |-> FALSE]]
    /\ req \in Fetches
    /\ tags \in [Sets -> [Ways -> Tags]]
    /\ data \in [Sets -> [Ways -> Blocks]]
    /\ victim \in Ways /\ refill_buf \in Blocks
    /\ resp_way \in Ways /\ resp_from_buf \in BOOLEAN

-----------------------------------------------------------------------------
idx == req.idx

HitWayStale(w) == tags[idx][w] = req.tag
HitWay(w) == valid[idx][w] /\ tags[idx][w] = req.tag
HitFirst  == HitWay(0)
Hit       == \E w \in Ways : HitWay(w)
HitSel(w) == HitWay(w) /\ \A u \in Ways : u < w => ~HitWay(u)

AllValid(s) == \A w \in Ways : valid[s][w]

\* The first invalid way, else the way under the round-robin pointer.
VictimSel(v) ==
    IF AllValid(idx)
    THEN v = rr_ptr[idx]
    ELSE ~valid[idx][v] /\ \A u \in Ways : u < v => valid[idx][u]

NextWay(w) == IF w = WayCount - 1 THEN 0 ELSE w + 1

\* The counter of beats is as wide as its range: it wraps.
NextOffsetNarrow(n) == IF n = BlockWords \div 2 - 1 THEN 0 ELSE n + 1
NextOffset(n) == IF n = BlockWords - 1 THEN 0 ELSE n + 1

\* Instruction, in I_RESP.
RespWord == (IF resp_from_buf THEN refill_buf ELSE data[idx][resp_way])[req.woff]

-----------------------------------------------------------------------------
\* I_WAIT: latch the address of the fetch.
Wait(f) ==
    /\ state = "I_WAIT"
    /\ req' = f
    /\ state' = "I_TAG_RD"
    /\ UNCHANGED <<arrays, fill, resp>>

\* I_TAG_RD
TagHit(w) ==
    /\ state = "I_TAG_RD"
    /\ HitSel(w)
    /\ resp_way' = w
    /\ resp_from_buf' = FALSE
    /\ state' = "I_CACHE_RD"
    /\ UNCHANGED <<req, arrays, fill>>

TagMiss(v) ==
    /\ state = "I_TAG_RD"
    /\ ~Hit
    /\ VictimSel(v)
    /\ victim' = v
    /\ recv_cnt' = 0
    /\ state' = "I_EVICT"
    /\ UNCHANGED <<req, arrays, refill_buf, resp>>

CacheRead ==
    /\ state = "I_CACHE_RD"
    /\ state' = "I_RESP"
    /\ UNCHANGED <<req, arrays, fill, resp>>

\* I_RESP: the arm also leaves when the CPU raises a new request, and the
\* answer is then lost.
RespEndsOnRequest(ready, asking) == asking
RespEnds(ready, asking) == ready \/ asking

Resp(ready, asking) ==
    /\ state = "I_RESP"
    /\ RespEnds(ready, asking)
    /\ state' = "I_WAIT"
    /\ UNCHANGED <<req, arrays, fill, resp>>

Evict ==
    /\ state = "I_EVICT"
    /\ state' = "I_MEM_RD"
    /\ UNCHANGED <<req, arrays, fill, resp>>

\* I_MEM_RD, when the read request is taken.
MemRead ==
    /\ state = "I_MEM_RD"
    /\ state' = "I_RECV"
    /\ UNCHANGED <<req, arrays, fill, resp>>

\* I_RECV, for a beat.
Recv(word, last) ==
    /\ state = "I_RECV"
    /\ refill_buf' = [refill_buf EXCEPT ![recv_cnt] = word]
    /\ recv_cnt' = NextOffset(recv_cnt)
    /\ state' = IF last THEN "I_REFILL" ELSE "I_RECV"
    /\ UNCHANGED <<req, arrays, victim, resp>>

\* I_REFILL: the block replaces the victim and answers from the buffer.
Refill ==
    /\ state = "I_REFILL"
    /\ valid' = [valid EXCEPT ![idx][victim] = TRUE]
    /\ tags' = [tags EXCEPT ![idx][victim] = req.tag]
    /\ data' = [data EXCEPT ![idx][victim] = refill_buf]
    /\ rr_ptr' = [rr_ptr EXCEPT ![idx] = IF AllValid(idx) THEN NextWay(@) ELSE @]
    /\ resp_way' = victim
    /\ resp_from_buf' = TRUE
    /\ state' = "I_RESP"
    /\ UNCHANGED <<req, fill>>

=============================================================================
