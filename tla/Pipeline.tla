------------------------------ MODULE Pipeline ------------------------------
(***************************************************************************)
(* The five-stage pipeline (custom_cpu_prj4.v, forward_unit.v,             *)
(* pipeline_reg.v, reg_file.v) with its instruction and data ports.        *)
(*                                                                         *)
(* A step is a clock edge: each always block of the source is a conjunct   *)
(* of Clock.  The argument "in" holds the input wires of the cycle, which  *)
(* the memory side drives as it likes within the protocol of the ports:    *)
(* a request may wait for any time, and so may its answer.  A stage        *)
(* register whose valid bit is low is Bubble.                              *)
(***************************************************************************)
EXTENDS Predictor

VARIABLES
    prog,                                  \* the instruction memory
    rf, dmem,                              \* registers and data memory
    if_state, pc_reg, if_req, if_discard, if_redirect_pc,
    if_id, id_ex, ex_mem, mem_wb,          \* the pipeline registers
    operand_hold, mem_req_done,
    fetching, loading                      \* requests the memory side has taken

fetchVars == <<if_state, pc_reg, if_req, if_discard, if_redirect_pc, fetching>>
stageVars == <<if_id, id_ex, ex_mem, mem_wb, operand_hold, mem_req_done, loading>>
pipeVars  == <<prog, rf, dmem, fetchVars, stageVars, predictorVars>>

Bubble == [pc |-> -1]
None   == -1

Holds(stage) == stage # Bubble
Fetches == [pc : Words, pred : Words, ghr : Indices]
Ports   == Words \cup {None}

TypeOK ==
    /\ PredictorTypeOK
    /\ prog \in [Words -> Instrs]
    /\ rf \in [Regs -> Words] /\ dmem \in [Words -> Words]
    /\ if_state \in {"IF_REQ", "IF_WAIT"}
    /\ pc_reg \in Words /\ if_req \in Fetches
    /\ if_discard \in BOOLEAN /\ if_redirect_pc \in Words
    /\ if_id \in {Bubble} \cup
         [pc : Words, pred : Words, ghr : Indices, ins : Instrs]
    /\ id_ex \in {Bubble} \cup
         [pc : Words, pred : Words, ghr : Indices, ins : Instrs, a : Words, b : Words]
    /\ ex_mem \in {Bubble} \cup
         [pc : Words, ins : Instrs, value : Words, addr : Words, sdata : Words]
    /\ mem_wb \in {Bubble} \cup [pc : Words, ins : Instrs, wdata : Words]
    /\ operand_hold \in {Bubble} \cup [a : Words, b : Words]
    /\ mem_req_done \in BOOLEAN
    /\ fetching \in Ports /\ loading \in Ports

Init ==
    /\ PredictorInit
    /\ prog \in [Words -> Instrs]
    /\ rf \in [Regs -> Words] /\ dmem \in [Words -> Words]
    /\ if_state = "IF_REQ" /\ pc_reg = 0
    /\ if_req = [pc |-> 0, pred |-> 0, ghr |-> 0]
    /\ if_discard = FALSE /\ if_redirect_pc = 0
    /\ if_id = Bubble /\ id_ex = Bubble /\ ex_mem = Bubble /\ mem_wb = Bubble
    /\ operand_hold = Bubble /\ mem_req_done = FALSE
    /\ fetching = None /\ loading = None

\* The wires the memory side may drive in this cycle: it is ready when it
\* serves no request, and has an answer only for a request it has taken.
Inputs ==
    {in \in [inst_ready : BOOLEAN, inst_valid : BOOLEAN,
             mem_ready : BOOLEAN, data_valid : BOOLEAN] :
        /\ in.inst_ready => fetching = None
        /\ in.inst_valid => fetching # None
        /\ in.mem_ready  => loading = None
        /\ in.data_valid => loading # None}

-----------------------------------------------------------------------------
\* MEM: the handshakes with the data port.  A load or store leaves in the
\* cycle of its last handshake, so mem_load_done never outlives a cycle.
RequestsAlways == Holds(ex_mem) /\ Accesses(ex_mem.ins)
Requests    == Holds(ex_mem) /\ Accesses(ex_mem.ins) /\ ~mem_req_done
ReqFires(in) == Requests /\ in.mem_ready
ReqDoneAtOnce(in) == ReqFires(in)
ReqDone(in)  == mem_req_done \/ ReqFires(in)
WaitsForData(in) == Holds(ex_mem) /\ ex_mem.ins.op = "load" /\ ReqDone(in)
DataFires(in)    == WaitsForData(in) /\ in.data_valid

MemAllows(in) ==
    Holds(ex_mem) => CASE ex_mem.ins.op = "store" -> ReqDone(in)
                       [] ex_mem.ins.op = "load"  -> DataFires(in)
                       [] OTHER                   -> TRUE
MemFires(in) == Holds(ex_mem) /\ MemAllows(in)

MemResult == IF ex_mem.ins.op = "load" THEN dmem[loading] ELSE ex_mem.value

-----------------------------------------------------------------------------
\* forward_unit: the value for a register that an instruction in EX uses.
FromMem(r) == Holds(ex_mem) /\ WritesReg(ex_mem.ins) /\ ex_mem.ins.op # "load"
                /\ ex_mem.ins.rd = r /\ r # 0
FromWb(r)  == Holds(mem_wb) /\ WritesReg(mem_wb.ins) /\ mem_wb.ins.rd = r /\ r # 0

Forwarded(uses, r, read) ==
    CASE uses /\ FromMem(r)               -> ex_mem.value
      [] uses /\ FromWb(r) /\ ~FromMem(r) -> mem_wb.wdata
      [] OTHER                            -> read

ForwardedA == Forwarded(UsesRs1(id_ex.ins), id_ex.ins.rs1, id_ex.a)
ForwardedB == Forwarded(UsesRs2(id_ex.ins), id_ex.ins.rs2, id_ex.b)

\* EX: operands, result, and the address of the next instruction.
ExA == IF Holds(operand_hold) THEN operand_hold.a ELSE ForwardedA
ExB == IF Holds(operand_hold) THEN operand_hold.b ELSE ForwardedB

ExTaken ==
    \/ id_ex.ins.op \in {"jal", "jalr"}
    \/ id_ex.ins.op = "branch" /\ ExA = ExB
ExTarget == Wrap((IF id_ex.ins.op = "jalr" THEN ExA ELSE id_ex.pc) + id_ex.ins.imm)
ExNextPc == IF ExTaken THEN ExTarget ELSE After(id_ex.pc)

ExAddr  == Wrap(ExA + id_ex.ins.imm)
ExValue ==
    CASE id_ex.ins.op \in {"jal", "jalr"} -> After(id_ex.pc)
      [] id_ex.ins.op = "lui"             -> id_ex.ins.imm
      [] id_ex.ins.op = "auipc"           -> Wrap(id_ex.pc + id_ex.ins.imm)
      [] id_ex.ins.op = "reg"             -> Wrap(ExA + ExB)
      [] OTHER                            -> ExAddr

ExFires(in)     == Holds(id_ex) /\ MemAllows(in)
ExRedirects(in) == ExFires(in) /\ ExNextPc # id_ex.pred

-----------------------------------------------------------------------------
\* ID: register read past the write of WB, and the load-use stall.
ReadReg(r) == IF r = 0 THEN 0 ELSE IF FromWb(r) THEN mem_wb.wdata ELSE rf[r]

LoadUse(stage) ==
    /\ Holds(stage) /\ stage.ins.op = "load" /\ stage.ins.rd # 0
    /\ \/ UsesRs1(if_id.ins) /\ if_id.ins.rs1 = stage.ins.rd
       \/ UsesRs2(if_id.ins) /\ if_id.ins.rs2 = stage.ins.rd

IdFires(in) ==
    /\ Holds(if_id) /\ ~LoadUse(id_ex) /\ ~LoadUse(ex_mem)
    /\ Holds(id_ex) => MemAllows(in)
    /\ ~ExRedirects(in)

IfIdAllows(in) == Holds(if_id) => IdFires(in) \/ ExRedirects(in)

\* IF: the handshakes with the instruction port.
FetchFires(in) == if_state = "IF_REQ" /\ in.inst_ready
InstFires(in)  == /\ if_state = "IF_WAIT" /\ in.inst_valid
                  /\ if_discard \/ ExRedirects(in) \/ IfIdAllows(in)
InstEnters(in) == InstFires(in) /\ ~if_discard /\ ~ExRedirects(in)

-----------------------------------------------------------------------------
\* The registers of IF.  A redirection wins over what the port does: the
\* answer of a request already taken is discarded when it comes.
Requested == if_req' = [pc |-> pc_reg, pred |-> PredictedPc(pc_reg), ghr |-> ghr]

RedirectAnswered(in) ==
    /\ ExRedirects(in) /\ if_state = "IF_WAIT" /\ in.inst_valid
    /\ if_state' = "IF_REQ"
    /\ pc_reg' = ExNextPc
    /\ if_discard' = FALSE
    /\ if_redirect_pc' = 0
    /\ UNCHANGED if_req

RedirectWaiting(in) ==
    /\ ExRedirects(in) /\ if_state = "IF_WAIT" /\ ~in.inst_valid
    /\ if_discard' = TRUE
    /\ if_redirect_pc' = ExNextPc
    /\ UNCHANGED <<if_state, pc_reg, if_req>>

RedirectRequested(in) ==
    /\ ExRedirects(in) /\ FetchFires(in)
    /\ if_state' = "IF_WAIT"
    /\ Requested
    /\ if_discard' = TRUE
    /\ if_redirect_pc' = ExNextPc
    /\ UNCHANGED pc_reg

RedirectIdle(in) ==
    /\ ExRedirects(in) /\ if_state = "IF_REQ" /\ ~in.inst_ready
    /\ pc_reg' = ExNextPc
    /\ if_discard' = FALSE
    /\ if_redirect_pc' = 0
    /\ UNCHANGED <<if_state, if_req>>

FetchRequested(in) ==
    /\ ~ExRedirects(in) /\ FetchFires(in)
    /\ if_state' = "IF_WAIT"
    /\ Requested
    /\ UNCHANGED <<pc_reg, if_discard, if_redirect_pc>>

FetchAnswered(in) ==
    /\ ~ExRedirects(in) /\ InstFires(in)
    /\ if_state' = "IF_REQ"
    /\ pc_reg' = IF if_discard THEN if_redirect_pc ELSE if_req.pred
    /\ if_discard' = FALSE
    /\ if_redirect_pc' = 0
    /\ UNCHANGED if_req

FetchWaits(in) ==
    /\ ~ExRedirects(in) /\ ~FetchFires(in) /\ ~InstFires(in)
    /\ UNCHANGED <<if_state, pc_reg, if_req, if_discard, if_redirect_pc>>

Fetch(in) ==
    \/ RedirectAnswered(in) \/ RedirectWaiting(in) \/ RedirectRequested(in)
    \/ RedirectIdle(in) \/ FetchRequested(in) \/ FetchAnswered(in) \/ FetchWaits(in)

\* The pipeline registers.  Only IF/ID is flushed: a redirection leaves EX
\* when the one younger instruction is still in ID.
IfIdNext(in) ==
    if_id' = CASE ExRedirects(in)  -> Bubble
               [] InstEnters(in)   -> [pc |-> if_req.pc, pred |-> if_req.pred,
                                       ghr |-> if_req.ghr, ins |-> prog[fetching]]
               [] ~InstEnters(in) /\ ~ExRedirects(in) /\ IfIdAllows(in) -> Bubble
               [] OTHER            -> if_id

IdExNext(in) ==
    id_ex' = CASE IdFires(in) -> [pc |-> if_id.pc, pred |-> if_id.pred,
                                  ghr |-> if_id.ghr, ins |-> if_id.ins,
                                  a |-> ReadReg(if_id.ins.rs1),
                                  b |-> ReadReg(if_id.ins.rs2)]
               [] ~IdFires(in) /\ MemAllows(in)  -> Bubble
               [] ~IdFires(in) /\ ~MemAllows(in) -> id_ex

ExMemNext(in) ==
    ex_mem' = CASE ExFires(in)     -> [pc |-> id_ex.pc, ins |-> id_ex.ins,
                                       value |-> ExValue, addr |-> ExAddr, sdata |-> ExB]
                [] MemAllows(in) /\ ~Holds(id_ex) -> Bubble
                [] ~MemAllows(in) -> ex_mem

MemWbNext(in) ==
    mem_wb' = IF MemFires(in)
              THEN [pc |-> ex_mem.pc, ins |-> ex_mem.ins, wdata |-> MemResult]
              ELSE Bubble

\* Operands that come from a forwarding path are kept while EX waits: the
\* instruction they come from moves on.
HoldNever(in) == operand_hold' = Bubble
HoldNext(in) ==
    operand_hold' =
        CASE MemAllows(in) -> Bubble
          [] ~MemAllows(in) /\ Holds(id_ex) /\ ~Holds(operand_hold)
                           -> [a |-> ForwardedA, b |-> ForwardedB]
          [] OTHER         -> operand_hold

MemHandshakeNext(in) ==
    mem_req_done' = (~MemAllows(in) /\ ReqDone(in))

RegFileNext ==
    rf' = IF Holds(mem_wb) /\ WritesReg(mem_wb.ins) /\ mem_wb.ins.rd # 0
          THEN [rf EXCEPT ![mem_wb.ins.rd] = mem_wb.wdata] ELSE rf

PredictorNext(in) ==
    IF ExFires(in) /\ IsControl(id_ex.ins)
    THEN Train(id_ex.pc, id_ex.ghr, ExTaken, ExNextPc)
    ELSE UNCHANGED predictorVars

\* The memory side: the instruction port answers for the address it took,
\* the data port does a store when it takes it.
InstPortNext(in, address) ==
    /\ fetching' = CASE FetchFires(in) -> address
                     [] InstFires(in)  -> None
                     [] OTHER          -> fetching
    /\ UNCHANGED prog

DataPortNext(in) ==
    /\ loading' = CASE ReqFires(in) /\ ex_mem.ins.op = "load" -> ex_mem.addr
                    [] DataFires(in) -> None
                    [] OTHER         -> loading
    /\ dmem' = IF ReqFires(in) /\ ex_mem.ins.op = "store"
               THEN [dmem EXCEPT ![ex_mem.addr] = ex_mem.sdata] ELSE dmem

Core(in) ==
    /\ Fetch(in) /\ IfIdNext(in) /\ IdExNext(in) /\ ExMemNext(in) /\ MemWbNext(in)
    /\ HoldNext(in) /\ MemHandshakeNext(in) /\ RegFileNext /\ PredictorNext(in)

\* The instruction port is the I-cache: it takes the address that PC shows
\* in the cycle of the handshake (icache_top.v:145-150).
Clock(in) == Core(in) /\ InstPortNext(in, pc_reg) /\ DataPortNext(in)

Next == \E in \in Inputs : Clock(in)

Spec == Init /\ [][Next]_pipeVars

\* Each port of the memory side keeps taking requests and answering them.
Fairness ==
    /\ WF_pipeVars(\E in \in Inputs : in.inst_ready /\ Clock(in))
    /\ WF_pipeVars(\E in \in Inputs : in.inst_valid /\ Clock(in))
    /\ WF_pipeVars(\E in \in Inputs : in.mem_ready  /\ Clock(in))
    /\ WF_pipeVars(\E in \in Inputs : in.data_valid /\ Clock(in))

FairSpec == Spec /\ Fairness

-----------------------------------------------------------------------------
\* The address of the oldest instruction that is not committed.
OldestPc ==
    CASE Holds(ex_mem) -> ex_mem.pc
      [] ~Holds(ex_mem) /\ Holds(id_ex) -> id_ex.pc
      [] ~Holds(ex_mem) /\ ~Holds(id_ex) /\ Holds(if_id) -> if_id.pc
      [] OTHER -> IF if_discard THEN if_redirect_pc
                  ELSE IF if_state = "IF_WAIT" THEN if_req.pc ELSE pc_reg

\* An instruction commits when it leaves MEM: its result is then in WB.
Architecture == INSTANCE Isa WITH
    pc <- OldestPc, regs <- [r \in Regs |-> ReadReg(r)]

\* Whatever is predicted, fetched in vain, forwarded, held or stalled, the
\* instructions that commit are those of the sequential architecture, each
\* once, in order, with the same results and the same stores: what the
\* simulation compares with its reference trace (custom_cpu_test.v:65-97).
ImplementsIsa == Architecture!Spec

\* A load that has been accepted and waits for its answer asks the data port no
\* second time: a device, such as the UART or the accelerator, would act twice.
AsksOnce == loading # None => Holds(ex_mem) /\ ex_mem.addr = loading /\ ~Requests

\* The predictor redirects the fetch only at a jump or a branch, and to the
\* target of that very instruction: entries of other addresses that share
\* its index never hit (custom_cpu_prj4.v:112-114).
PredictsOwnTarget ==
    \A a \in Words : PredictsTaken(a) =>
        /\ IsControl(prog[a])
        /\ prog[a].op # "jalr" => PredictedPc(a) = Wrap(a + prog[a].imm)

\* Instructions keep committing.
Commits == \E in \in Inputs : MemFires(in) /\ Clock(in)
KeepsCommitting == []<><<Commits>>_pipeVars

=============================================================================
