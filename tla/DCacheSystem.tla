---------------------------- MODULE DCacheSystem ----------------------------
(***************************************************************************)
(* The data cache between the CPU and the AXI memory (dcache_wrapper.v):   *)
(* every handshake is a joint step of the cache and of the memory.         *)
(*                                                                         *)
(* The CPU issues any request while the cache is in D_WAIT, the only state *)
(* in which Mem_Req_Ready is high; a store is complete for it at that      *)
(* moment, a load when it takes the answer.                                *)
(***************************************************************************)
EXTENDS DCache, AxiMemory

vars == <<cacheVars, axiVars>>

TypeOK == CacheTypeOK /\ AxiTypeOK

Init == CacheInit /\ AxiInit

-----------------------------------------------------------------------------
\* Steps of the cache with the memory ports idle.
CpuRequest   == \E r \in Requests : Wait(r) /\ UNCHANGED axiVars
LookupBypass == TagBypass /\ UNCHANGED axiVars
LookupHit    == \E w \in Ways : TagHit(w) /\ UNCHANGED axiVars
LookupMiss   == \E v \in Ways : TagMiss(v) /\ UNCHANGED axiVars
StoreHit     == WriteHit /\ UNCHANGED axiVars
FillLine     == Refill /\ UNCHANGED axiVars
CpuResponse  == Resp /\ UNCHANGED axiVars

\* Steps of the cache and the memory together, with the addresses and
\* lengths the cache drives (dcache_top.v:357-374).
WriteBackReq   == WbReq /\ AxiWriteReq(<<wb_tag, idx>>, 0, BlockWords - 1)
WriteBackBeat  == WbBeat /\ AxiWriteBeat(WbWord, Bytes, WbLast)
LineReadReq    == MemReq /\ AxiReadReq(LineOf(req), 0, BlockWords - 1)
LineReadBeat   == /\ beats # <<>>
                  /\ Recv(Head(beats).data, Head(beats).last)
                  /\ AxiReadBeat
UncachedReadReq   == BypassReadReq /\ AxiReadReq(LineOf(req), req.woff, 0)
UncachedReadBeat  == /\ beats # <<>>
                     /\ BypassRead(Head(beats).data)
                     /\ AxiReadBeat
UncachedWriteBurst == BypassWriteReq /\ AxiWriteReq(LineOf(req), 0, BlockWords - 1)
UncachedWriteReq  == BypassWriteReq /\ AxiWriteReq(LineOf(req), req.woff, 0)
UncachedWriteBeat == BypassWrite /\ AxiWriteBeat(req.wdata, req.wstrb, TRUE)

\* Steps of the memory alone.
MemoryStep == AxiInternal /\ UNCHANGED cacheVars
DeviceStep == DeviceWrite /\ UNCHANGED cacheVars

CacheStep ==
    \/ LookupBypass \/ LookupHit \/ LookupMiss \/ StoreHit \/ FillLine
    \/ WriteBackReq \/ WriteBackBeat \/ LineReadReq \/ LineReadBeat
    \/ UncachedReadReq \/ UncachedReadBeat
    \/ UncachedWriteReq \/ UncachedWriteBeat

Next == CpuRequest \/ CpuResponse \/ CacheStep \/ MemoryStep \/ DeviceStep

Spec == Init /\ [][Next]_vars

\* The clock never stops, the arbiter is round-robin and the RAM always
\* answers, so a step of the cache or of the memory that stays possible is
\* taken; and the CPU holds Read_data_Ready until its load is answered
\* (custom_cpu_prj4.v:584,633).  The CPU need not issue requests.
Fairness == WF_vars(CacheStep \/ CpuResponse) /\ WF_vars(MemoryStep)

FairSpec == Spec /\ Fairness

-----------------------------------------------------------------------------
(***************************************************************************)
(* What the cache holds                                                    *)
(***************************************************************************)

\* Way w of set s holds the line of tag t.
Holds(s, w, t) == valid[s][w] /\ tags[s][w] = t

\* No line is in two ways of its set: hit_sel takes the first way that hits,
\* so a second copy would be read again, stale, once the first is evicted.
OneCopy ==
    \A s \in Sets : \A u, w \in Ways :
        valid[s][u] /\ valid[s][w] /\ tags[s][u] = tags[s][w] => u = w

\* A line of the bypass regions is never in the cache: the CPU would not see
\* what the accelerator or a peripheral writes to it (dcache_top.v:86-89).
BypassNotCached ==
    \A s \in Sets : \A w \in Ways : valid[s][w] => <<tags[s][w], s>> \notin BypassLines

\* A clean line is equal to memory: dropping it at an eviction loses nothing.
CleanIsMemory ==
    \A s \in Sets : \A w \in Ways :
        valid[s][w] /\ ~dirty[s][w] => data[s][w] = mem[<<tags[s][w], s>>]

\* Only the line of a dirty victim, and then whole words of what the cache
\* holds, or a bypass line, is ever written by the cache to memory.
WritesAreOwed ==
    phase \in {"WRITE", "WRITE_RESP"} /\ txn.line \notin BypassLines =>
        \E w \in Ways : LET s == txn.line[2] IN
            /\ Holds(s, w, txn.line[1]) /\ dirty[s][w]
            /\ \A i \in 1 .. Len(beats) :
                  /\ beats[i].data = data[s][w][moved + i - 1]
                  /\ beats[i].strb = Bytes

\* When a dirty victim is about to be overwritten, memory already has it.
VictimIsSaved ==
    state \in {"D_RECV", "D_REFILL"} /\ valid[idx][victim] =>
        data[idx][victim] = mem[<<tags[idx][victim], idx>>]

\* The block that is about to enter the cache is the one memory holds.
FillIsMemory ==
    state = "D_REFILL" => refill_buf = mem[LineOf(req)]

\* WLAST is on the last beat of AWLEN and on no other, for both bursts and
\* single words: the interconnect ends the data phase on WLAST, the RAM
\* counts AWLEN, and one waits for ever for the other if they disagree.
LastMatchesLen ==
    \A i \in 1 .. Len(beats) : phase # "IDLE" /\ phase # "READ" =>
        (beats[i].last <=> moved + i - 1 = txn.len)

\* Every request is eventually complete, and every write of the cache
\* eventually reaches memory.
RequestCompletes == state # "D_WAIT" ~> state = "D_WAIT"
WriteArrives     == phase = "WRITE" ~> phase = "IDLE"

=============================================================================
