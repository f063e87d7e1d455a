---------------------------- MODULE ICacheSystem ----------------------------
(***************************************************************************)
(* The instruction cache between the fetch stage of a core and the AXI     *)
(* memory (icache_wrapper.v).  The other masters and the devices write     *)
(* only lines that hold no code (BypassLines here): the cache does not     *)
(* watch the bus, and nothing in the core invalidates it.                  *)
(***************************************************************************)
EXTENDS ICache, AxiMemory

VARIABLES
    if_state,     \* of the core: "IF_REQ" or "IF_WAIT"
    inst          \* the instruction the core took last

vars == <<cacheVars, axiVars, if_state, inst>>

CodeLines == Lines \ BypassLines

TypeOK == CacheTypeOK /\ AxiTypeOK /\ if_state \in {"IF_REQ", "IF_WAIT"} /\ inst \in Words

Init == CacheInit /\ AxiInit /\ if_state = "IF_REQ" /\ inst \in Words

-----------------------------------------------------------------------------
\* The core asks in IF_REQ, whenever the cache is in I_WAIT, and asks for
\* nothing more until it has the answer (custom_cpu_prj4.v:117-121,178-184).
CpuFetchForgets ==
    /\ if_state = "IF_REQ"
    /\ \E f \in Fetches : LineOf(f) \in CodeLines /\ Wait(f)
    /\ UNCHANGED <<axiVars, if_state, inst>>
CpuFetch ==
    /\ if_state = "IF_REQ"
    /\ \E f \in Fetches : LineOf(f) \in CodeLines /\ Wait(f)
    /\ if_state' = "IF_WAIT"
    /\ UNCHANGED <<axiVars, inst>>

CpuResponse ==
    /\ Resp(if_state = "IF_WAIT", if_state = "IF_REQ")
    /\ if_state' = "IF_REQ"
    /\ inst' = IF if_state = "IF_WAIT" THEN RespWord ELSE inst
    /\ UNCHANGED axiVars

CpuWaits  == UNCHANGED <<if_state, inst>>
MemWaits  == UNCHANGED <<axiVars, if_state, inst>>

LookupHit  == \E w \in Ways : TagHit(w) /\ MemWaits
LookupMiss == \E v \in Ways : TagMiss(v) /\ MemWaits
ReadLine   == CacheRead /\ MemWaits
EvictLine  == Evict /\ MemWaits
FillLine   == Refill /\ MemWaits

LineReadReq  == MemRead /\ AxiReadReq(LineOf(req), 0, BlockWords - 1) /\ CpuWaits
LineReadBeat ==
    /\ beats # <<>>
    /\ Recv(Head(beats).data, Head(beats).last)
    /\ AxiReadBeat
    /\ CpuWaits

MemoryStep == RamRead /\ UNCHANGED cacheVars /\ CpuWaits
OtherStep  == DeviceWrite /\ UNCHANGED cacheVars /\ CpuWaits

CacheStep ==
    \/ LookupHit \/ LookupMiss \/ ReadLine \/ EvictLine \/ FillLine
    \/ LineReadReq \/ LineReadBeat

Next == CpuFetch \/ CpuResponse \/ CacheStep \/ MemoryStep \/ OtherStep

Spec == Init /\ [][Next]_vars

\* The clock never stops, the memory answers, and a core that waits for an
\* instruction becomes ready for it.
Fairness == WF_vars(CacheStep) /\ WF_vars(MemoryStep) /\ WF_vars(CpuResponse)

FairSpec == Spec /\ Fairness

-----------------------------------------------------------------------------
\* No line is in two ways of its set.
OneCopy ==
    \A s \in Sets : \A u, w \in Ways :
        valid[s][u] /\ valid[s][w] /\ tags[s][u] = tags[s][w] => u = w

\* The cache holds code as memory has it: a refill that takes its words in
\* the wrong place, or answers for another line, would stay unnoticed until
\* that word is executed.
CachedIsCode ==
    \A s \in Sets : \A w \in Ways :
        valid[s][w] => <<tags[s][w], s>> \in CodeLines /\ data[s][w] = mem[<<tags[s][w], s>>]

\* Whenever the cache answers, the core is waiting for that answer: the
\* early exit of I_RESP on a new request (icache_top.v:168) loses nothing.
AnswerIsAwaited == state = "I_WAIT" <=> if_state = "IF_REQ"

\* The core gets the word at the address of its request, for each request
\* once: what the pipeline assumes of its instruction port.
Port == INSTANCE InstructionPort WITH
    code  <- [l \in CodeLines |-> mem[l]],
    asked <- IF state = "I_WAIT" THEN <<>> ELSE <<req>>,
    word  <- inst

ImplementsInstructionPort == Port!Spec

\* Every fetch is answered.
FetchCompletes == if_state = "IF_WAIT" ~> if_state = "IF_REQ"

=============================================================================
