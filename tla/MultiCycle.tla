----------------------------- MODULE MultiCycle -----------------------------
(***************************************************************************)
(* The multi-cycle core (custom_cpu_prj3.v): one instruction at a time,    *)
(* over the states of a one-hot state machine, on the same ports as the    *)
(* pipeline.  A step is a clock edge; "in" holds the input wires of the    *)
(* cycle, as in Pipeline.                                                  *)
(***************************************************************************)
EXTENDS Instructions

VARIABLES
    prog, rf, dmem,
    current_state, pc_reg, pc_old, pc_plus4,
    inst_reg, a_reg, b_reg, aluout, Mdr,
    fetching, loading             \* requests the memory side has taken

memVars  == <<prog, dmem, fetching, loading>>
coreVars == <<rf, current_state, pc_reg, pc_old, pc_plus4, inst_reg, a_reg, b_reg,
              aluout, Mdr>>
vars     == <<memVars, coreVars>>

None   == -1
States == {"INIT", "IF", "IW", "ID", "EX", "ST", "LD", "RDW", "WB"}

TypeOK ==
    /\ prog \in [Words -> Instrs]
    /\ rf \in [Regs -> Words] /\ dmem \in [Words -> Words]
    /\ current_state \in States
    /\ pc_reg \in Words /\ pc_old \in Words /\ pc_plus4 \in Words
    /\ inst_reg \in Instrs
    /\ a_reg \in Words /\ b_reg \in Words /\ aluout \in Words /\ Mdr \in Words
    /\ fetching \in Words \cup {None} /\ loading \in Words \cup {None}

\* An instruction register of zeroes has no known opcode.
NoInst == [op |-> "unknown", rd |-> 0, rs1 |-> 0, rs2 |-> 0, imm |-> 0]

Init ==
    /\ prog \in [Words -> Instrs] /\ dmem \in [Words -> Words]
    /\ rf \in [Regs -> Words]
    /\ current_state = "INIT"
    /\ pc_reg = 0 /\ pc_old = 0 /\ pc_plus4 = 0
    /\ inst_reg = NoInst
    /\ a_reg = 0 /\ b_reg = 0 /\ aluout = 0 /\ Mdr = 0
    /\ fetching = None /\ loading = None

Inputs ==
    {in \in [inst_ready : BOOLEAN, inst_valid : BOOLEAN, mem_ready : BOOLEAN,
             data_valid : BOOLEAN, read_data : Words] :
        /\ in.inst_ready => fetching = None
        /\ in.inst_valid => fetching # None
        /\ in.mem_ready  => loading = None
        /\ in.data_valid => loading # None /\ in.read_data = dmem[loading]}

-----------------------------------------------------------------------------
\* x0 reads as zero, whatever its register powers up with.
ReadReg(r) == IF r = 0 THEN 0 ELSE rf[r]

op == inst_reg.op
In(s) == current_state = s

AfterExNoStore ==
    CASE op \in {"branch", "store", "unknown"} -> "IF"
      [] op = "load"                           -> "LD"
      [] OTHER                                 -> "WB"
AfterEx ==
    CASE op \in {"branch", "unknown"} -> "IF"
      [] op = "store"                 -> "ST"
      [] op = "load"                  -> "LD"
      [] OTHER                        -> "WB"

NextState(in) ==
    CASE In("INIT") -> "IF"
      [] In("IF")   -> IF in.inst_ready THEN "IW" ELSE "IF"
      [] In("IW")   -> IF in.inst_valid THEN "ID" ELSE "IW"
      [] In("ID")   -> "EX"
      [] In("EX")   -> AfterEx
      [] In("ST")   -> IF in.mem_ready THEN "IF" ELSE "ST"
      [] In("LD")   -> IF in.mem_ready THEN "RDW" ELSE "LD"
      [] In("RDW")  -> IF in.data_valid THEN "WB" ELSE "RDW"
      [] In("WB")   -> "IF"

\* The ALU serves PC + 4 in IF, a branch target in ID, the instruction in EX.
AluA == CASE In("IF") \/ (In("EX") /\ op \in {"auipc", "jal"}) -> pc_reg
          [] In("ID") /\ op = "branch"                         -> pc_old
          [] In("EX") /\ op \notin {"auipc", "jal", "lui", "unknown"} -> a_reg
          [] OTHER -> 0
AluB == CASE In("IF") -> 1
          [] In("EX") /\ op \in {"reg", "branch"} -> b_reg
          [] \/ In("ID") /\ op = "branch"
             \/ In("EX") /\ op \notin {"reg", "branch", "lui", "unknown"} -> inst_reg.imm
          [] OTHER -> 0
AluRes == Wrap(AluA + AluB)

BranchTaken == op = "branch" /\ a_reg = b_reg

\* PCwrite and pc_next.
PCwriteAlways ==
    \/ In("EX") /\ op \in {"jal", "jalr", "branch"}
    \/ In("WB")
    \/ In("ST")
PCwrite ==
    \/ In("EX") /\ op \in {"jal", "jalr", "branch"}
    \/ In("WB") /\ op \notin {"jal", "jalr"}
    \/ In("ST")

PcNext == CASE In("EX") /\ BranchTaken          -> aluout
            [] In("EX") /\ op \in {"jal", "jalr"} -> AluRes
            [] OTHER                            -> pc_plus4

DataWb == CASE op \in {"jal", "jalr"} -> pc_plus4
            [] op = "lui"             -> inst_reg.imm
            [] op = "load"            -> Mdr
            [] OTHER                  -> aluout

-----------------------------------------------------------------------------
PcNextRegs ==
    /\ pc_reg' = IF PCwrite THEN PcNext ELSE pc_reg
    /\ pc_old' = IF In("IF") THEN pc_reg ELSE pc_old
    /\ pc_plus4' = IF In("IF") THEN AluRes ELSE pc_plus4

\* Read_data is kept in every cycle of RDW; only the last of them counts.
DataRegs(in) ==
    /\ inst_reg' = IF In("IW") /\ in.inst_valid THEN prog[fetching] ELSE inst_reg
    /\ a_reg' = IF In("ID") THEN ReadReg(inst_reg.rs1) ELSE a_reg
    /\ b_reg' = IF In("ID") THEN ReadReg(inst_reg.rs2) ELSE b_reg
    /\ aluout' = IF In("EX") \/ (In("ID") /\ op = "branch") THEN AluRes ELSE aluout
    /\ Mdr' = IF In("RDW") THEN in.read_data ELSE Mdr

RegFileNext ==
    rf' = IF In("WB") /\ inst_reg.rd # 0
          THEN [rf EXCEPT ![inst_reg.rd] = DataWb] ELSE rf

\* The ports: a store is done when it is taken.
PortsNext(in) ==
    /\ fetching' = CASE In("IF") /\ in.inst_ready -> pc_reg
                     [] In("IW") /\ in.inst_valid -> None
                     [] OTHER                     -> fetching
    /\ loading' = CASE In("LD") /\ in.mem_ready   -> aluout
                    [] In("RDW") /\ in.data_valid -> None
                    [] OTHER                      -> loading
    /\ dmem' = IF In("ST") /\ in.mem_ready
               THEN [dmem EXCEPT ![aluout] = b_reg] ELSE dmem
    /\ UNCHANGED prog

Clock(in) ==
    /\ current_state' = NextState(in)
    /\ PcNextRegs
    /\ DataRegs(in)
    /\ RegFileNext
    /\ PortsNext(in)

Next == \E in \in Inputs : Clock(in)

Spec == Init /\ [][Next]_vars

\* The clock runs, and the memory side takes and answers every request.
Fairness ==
    /\ WF_vars(Next)
    /\ WF_vars(\E in \in Inputs : in.inst_ready /\ Clock(in))
    /\ WF_vars(\E in \in Inputs : in.inst_valid /\ Clock(in))
    /\ WF_vars(\E in \in Inputs : in.mem_ready  /\ Clock(in))
    /\ WF_vars(\E in \in Inputs : in.data_valid /\ Clock(in))

-----------------------------------------------------------------------------
\* The address of the instruction that is not complete: pc_reg may already
\* show the next one, and in IF pc_old still shows the last.
OldestPc == IF current_state \in {"INIT", "IF"} THEN pc_reg ELSE pc_old

Architecture == INSTANCE Isa WITH
    pc <- OldestPc, regs <- [r \in Regs |-> ReadReg(r)]

\* Every pass through the states executes the one instruction it fetched,
\* for any timing of the memory: PC, which a jump changes in EX, a store in
\* ST and the others in WB, changes once, and the shared ALU output is not
\* overwritten before its last use.
ImplementsIsa == Architecture!Spec

\* Instructions keep completing, until one of an unknown opcode is reached:
\* that one is fetched again for ever (custom_cpu_prj3.v:280,314).
Completes == (In("WB") \/ In("ST") \/ (In("EX") /\ op = "branch")) /\ current_state' = "IF"
KeepsCompleting == []<>(op = "unknown") \/ []<><<Completes>>_vars

=============================================================================
