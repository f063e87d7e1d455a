---------------------------- MODULE MemIfWrapper ----------------------------
(***************************************************************************)
(* The data port of a core without the D-cache (mem_if_wrapper.v) between  *)
(* the CPU and the AXI memory.  A store is latched into the write address  *)
(* and write data channels, each keeps an acknowledge tag, and the CPU is  *)
(* released when both tags are up; the answer on B is not waited for.      *)
(* A load is wired through.                                                *)
(*                                                                         *)
(* A valid bit is low when its channel is <<>>.                            *)
(***************************************************************************)
EXTENDS AxiMemory

VARIABLES
    req,                      \* the request the CPU drives
    cpu,                      \* "none", "write" (MemWrite), "read" (MemRead), "wait"
    aw, w,                    \* cpu_mem_awaddr; cpu_mem_wdata, cpu_mem_wstrb
    aw_req_ack_tag, w_req_ack_tag

wrapperVars == <<req, cpu, aw, w, aw_req_ack_tag, w_req_ack_tag>>
vars        == <<wrapperVars, axiVars>>

WriteAddresses == [line : Lines, word : Offsets]
WriteData      == [data : Words, strb : SUBSET Bytes]

TypeOK ==
    /\ AxiTypeOK
    /\ req \in Requests
    /\ cpu \in {"none", "write", "read", "wait"}
    /\ aw \in {<<>>} \cup {<<a>> : a \in WriteAddresses}
    /\ w \in {<<>>} \cup {<<d>> : d \in WriteData}
    /\ aw_req_ack_tag \in BOOLEAN /\ w_req_ack_tag \in BOOLEAN

Init ==
    /\ AxiInit
    /\ req \in Requests /\ cpu = "none"
    /\ aw = <<>> /\ w = <<>>
    /\ aw_req_ack_tag = FALSE /\ w_req_ack_tag = FALSE

-----------------------------------------------------------------------------
\* The CPU holds a request until Mem_Req_Ready.
CpuRequest ==
    /\ cpu = "none"
    /\ req' \in Requests
    /\ cpu' = IF req'.wr THEN "write" ELSE "read"
    /\ UNCHANGED <<aw, w, aw_req_ack_tag, w_req_ack_tag, axiVars>>

WriteReadyEither == cpu = "write" /\ (aw_req_ack_tag \/ w_req_ack_tag)
WriteReady       == cpu = "write" /\ aw_req_ack_tag /\ w_req_ack_tag

MayLatchAgain == cpu = "write" /\ aw = <<>> /\ w = <<>>
MayLatch      == cpu = "write" /\ aw = <<>> /\ w = <<>> /\ ~WriteReady

\* Both channels latch the store in the same cycle.
Latch ==
    /\ MayLatch
    /\ aw' = <<[line |-> LineOf(req), word |-> req.woff]>>
    /\ w' = <<[data |-> req.wdata, strb |-> req.wstrb]>>
    /\ aw_req_ack_tag' = FALSE /\ w_req_ack_tag' = FALSE
    /\ UNCHANGED <<req, cpu, axiVars>>

\* Neither channel waits for the other.
AddressAfterWord == aw # <<>> /\ w_req_ack_tag
AddressIsUp      == aw # <<>>

WriteAddress ==
    /\ AddressIsUp
    /\ AxiWriteReq(Head(aw).line, Head(aw).word, 0)
    /\ aw' = <<>>
    /\ aw_req_ack_tag' = TRUE
    /\ UNCHANGED <<req, cpu, w, w_req_ack_tag>>

WriteWord ==
    /\ w # <<>>
    /\ AxiWriteBeat(Head(w).data, Head(w).strb, TRUE)
    /\ w' = <<>>
    /\ w_req_ack_tag' = TRUE
    /\ UNCHANGED <<req, cpu, aw, aw_req_ack_tag>>

\* In the cycle of Mem_Req_Ready the tags are cleared.
StoreDone ==
    /\ WriteReady
    /\ cpu' = "none"
    /\ aw_req_ack_tag' = FALSE /\ w_req_ack_tag' = FALSE
    /\ UNCHANGED <<req, aw, w, axiVars>>

ReadAddress ==
    /\ cpu = "read"
    /\ AxiReadReq(LineOf(req), req.woff, 0)
    /\ cpu' = "wait"
    /\ UNCHANGED <<req, aw, w, aw_req_ack_tag, w_req_ack_tag>>

ReadWord ==
    /\ cpu = "wait"
    /\ AxiReadBeat
    /\ cpu' = "none"
    /\ UNCHANGED <<req, aw, w, aw_req_ack_tag, w_req_ack_tag>>

MemoryStep == AxiInternal /\ UNCHANGED wrapperVars
DeviceStep == DeviceWrite /\ UNCHANGED wrapperVars

PortStep == Latch \/ WriteAddress \/ WriteWord \/ StoreDone \/ ReadAddress \/ ReadWord

Next == CpuRequest \/ PortStep \/ MemoryStep \/ DeviceStep

Spec == Init /\ [][Next]_vars

\* The clock runs, the interconnect serves the port and the RAM answers.
Fairness == WF_vars(PortStep) /\ WF_vars(MemoryStep)

-----------------------------------------------------------------------------
\* A store that the CPU was released from is with the memory: a channel
\* never holds a request that the CPU no longer makes.
ChannelsBelongToStore ==
    aw # <<>> \/ w # <<>> \/ aw_req_ack_tag \/ w_req_ack_tag => cpu = "write"

WordIsRead == cpu = "wait" /\ beats # <<>>

SeenStage ==
    CASE cpu = "none"                                   -> "free"
      [] WordIsRead \/ (cpu = "write" /\ w_req_ack_tag) -> "answered"
      [] OTHER                                          -> "asked"

SeenPosted ==
    IF phase \in {"WRITE", "WRITE_RESP"} /\ beats # <<>>
    THEN <<[line |-> txn.line, woff |-> txn.word,
            data |-> Head(beats).data, strb |-> Head(beats).strb]>>
    ELSE <<>>

\* Without the D-cache the CPU is promised the memory it is promised with
\* it, where now every line behaves as a bypass line: each store is written
\* once, and a load that follows it sees it, although the CPU goes on
\* before the store is acknowledged.
Promise == INSTANCE CoherentMemory WITH
    BypassLines <- Lines,
    amem <- mem, areq <- req, stage <- SeenStage, posted <- SeenPosted,
    answer <- IF WordIsRead THEN Head(beats).data ELSE ZeroWord

ImplementsCoherentMemory == Promise!Spec

\* Every request of the CPU is completed.
RequestCompletes == cpu # "none" ~> cpu = "none"

=============================================================================
