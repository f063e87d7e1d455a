-------------------------- MODULE MultiCycleProofs --------------------------
(***************************************************************************)
(* The multi-cycle core implements the instruction set architecture, for   *)
(* every program, number of registers and number of words.                 *)
(***************************************************************************)
EXTENDS MultiCycle, TLAPS

USE WordCountAssumption, RegsAssumption

\* The states in which the instruction register holds the instruction.
Decoded == {"ID", "EX", "ST", "LD", "RDW", "WB"}

A == ReadReg(inst_reg.rs1)
B == ReadReg(inst_reg.rs2)

\* A port is busy in one state only, and with the address of this instruction.
PortInv ==
    /\ fetching = (IF In("IW") THEN pc_old ELSE None)
    /\ loading  = (IF In("RDW") THEN aluout ELSE None)

\* pc_old is the address of the instruction; pc_reg leaves it in ST, and
\* in EX at a jump.
PcInv ==
    /\ current_state \in {"IW"} \cup Decoded => pc_plus4 = After(pc_old)
    /\ current_state \in {"IW", "ID", "EX", "LD", "RDW"} => pc_reg = pc_old
    /\ current_state \in Decoded => inst_reg = prog[pc_old]

\* What the shared registers hold in the states that use them.
DataInv ==
    /\ In("EX") => a_reg = A /\ b_reg = B
    /\ In("EX") /\ op = "branch" => aluout = Wrap(pc_old + inst_reg.imm)
    /\ In("ST") => op = "store" /\ aluout = Wrap(A + inst_reg.imm) /\ b_reg = B
    /\ In("LD") \/ In("RDW") => op = "load" /\ aluout = Wrap(A + inst_reg.imm)

\* In WB the result of the instruction is there, and a jump is done.
ResultInv ==
    In("WB") =>
        /\ op \notin {"branch", "store", "unknown"}
        /\ DataWb = Architecture!Result(inst_reg, A, B)
        /\ (IF op \in {"jal", "jalr"} THEN pc_reg ELSE pc_plus4)
             = Architecture!Successor(inst_reg, A, B)

IInv == TypeOK /\ PortInv /\ PcInv /\ DataInv /\ ResultInv

-----------------------------------------------------------------------------
LEMMA Wraps == \A n \in Int : Wrap(n) \in Words
BY DEF Wrap, Words

LEMMA NoneIsNoWord == None \notin Words
BY DEF None, Words

LEMMA ZeroIsWord == 0 \in Words
BY DEF Words

LEMMA InstFields ==
    ASSUME NEW i \in Instrs
    PROVE  /\ i.op \in Ops /\ i.rd \in Regs /\ i.rs1 \in Regs /\ i.rs2 \in Regs
           /\ i.imm \in Words
BY DEF Instrs

LEMMA ReadIsWord ==
    ASSUME TypeOK, NEW r \in Regs
    PROVE  ReadReg(r) \in Words
BY ZeroIsWord DEF ReadReg, TypeOK

LEMMA AluIsWord == ASSUME TypeOK PROVE AluRes \in Words
<1>1. AluA \in Words
  BY ZeroIsWord DEF AluA, TypeOK
<1>2. AluB \in Int
  BY InstFields DEF AluB, TypeOK, Words
<1> QED
  BY <1>1, <1>2, Wraps DEF AluRes, Words

LEMMA TypeInit == Init => TypeOK
BY ZeroIsWord DEF Init, TypeOK, States, NoInst, Instrs, Ops

LEMMA TypeNext ==
    ASSUME TypeOK, PortInv, NEW in \in Inputs, Clock(in)
    PROVE  TypeOK'
<1>1. /\ inst_reg \in Instrs /\ op \in Ops /\ inst_reg.imm \in Words
      /\ ReadReg(inst_reg.rs1) \in Words /\ ReadReg(inst_reg.rs2) \in Words
  BY InstFields, ReadIsWord DEF TypeOK, op
<1>2. /\ in.read_data \in Words
      /\ in.inst_valid => fetching \in Words
  BY DEF Inputs, TypeOK
<1>3. PcNext \in Words /\ DataWb \in Words
  BY <1>1, AluIsWord DEF PcNext, DataWb, TypeOK
<1>4. current_state' \in States
  BY <1>1 DEF Clock, NextState, AfterEx, States, TypeOK, In, Ops
<1>5. pc_reg' \in Words /\ pc_old' \in Words /\ pc_plus4' \in Words
  BY <1>3, AluIsWord DEF Clock, PcNextRegs, TypeOK
<1>6. inst_reg' \in Instrs
  BY <1>2 DEF Clock, DataRegs, TypeOK
<1>7. a_reg' \in Words /\ b_reg' \in Words /\ aluout' \in Words /\ Mdr' \in Words
  BY <1>1, <1>2, AluIsWord DEF Clock, DataRegs, TypeOK
<1>8. rf' \in [Regs -> Words]
  BY <1>3 DEF Clock, RegFileNext, TypeOK
<1>9. dmem' \in [Words -> Words]
  BY DEF Clock, PortsNext, TypeOK
<1>10. fetching' \in Words \cup {None} /\ loading' \in Words \cup {None}
  BY DEF Clock, PortsNext, TypeOK
<1>11. prog' \in [Words -> Instrs]
  BY DEF Clock, PortsNext, TypeOK
<1> QED
  BY <1>4, <1>5, <1>6, <1>7, <1>8, <1>9, <1>10, <1>11 DEF TypeOK

-----------------------------------------------------------------------------
(***************************************************************************)
(* What a clock edge does in each state                                    *)
(***************************************************************************)

\* What every state but a few leaves alone.
Keeps == UNCHANGED <<prog, rf, dmem>>
Same  == OldestPc' = OldestPc

LEMMA SameRegisters ==
    ASSUME UNCHANGED rf
    PROVE  \A r : ReadReg(r)' = ReadReg(r)
BY DEF ReadReg

LEMMA InitEdge ==
    ASSUME IInv, NEW in \in Inputs, Clock(in), In("INIT")
    PROVE  /\ Keeps /\ current_state' = "IF"
           /\ UNCHANGED <<pc_reg, fetching, loading>>
BY DEF IInv, PortInv, Keeps, Clock, In, NextState, PcNextRegs, PCwrite, RegFileNext, PortsNext,
       TypeOK

LEMMA FetchEdge ==
    ASSUME IInv, NEW in \in Inputs, Clock(in), In("IF")
    PROVE  /\ Keeps
           /\ current_state' = IF in.inst_ready THEN "IW" ELSE "IF"
           /\ fetching' = IF in.inst_ready THEN pc_reg ELSE None
           /\ loading' = None
           /\ pc_reg' = pc_reg /\ pc_old' = pc_reg /\ pc_plus4' = After(pc_reg)
<1>1. AluRes = After(pc_reg)
  BY DEF AluRes, AluA, AluB, After, In
<1> QED
  BY <1>1 DEF IInv, PortInv, Keeps, Clock, In, NextState, PcNextRegs, PCwrite, RegFileNext,
              PortsNext

LEMMA AnswerEdge ==
    ASSUME IInv, NEW in \in Inputs, Clock(in), In("IW")
    PROVE  /\ Keeps
           /\ current_state' = IF in.inst_valid THEN "ID" ELSE "IW"
           /\ fetching' = IF in.inst_valid THEN None ELSE fetching
           /\ inst_reg' = IF in.inst_valid THEN prog[pc_old] ELSE inst_reg
           /\ UNCHANGED <<pc_reg, pc_old, pc_plus4, loading>>
BY DEF IInv, PortInv, Keeps, Clock, In, NextState, PcNextRegs, PCwrite, RegFileNext,
       PortsNext, DataRegs

LEMMA DecodeEdge ==
    ASSUME IInv, NEW in \in Inputs, Clock(in), In("ID")
    PROVE  /\ Keeps /\ current_state' = "EX"
           /\ a_reg' = A /\ b_reg' = B
           /\ op = "branch" => aluout' = Wrap(pc_old + inst_reg.imm)
           /\ UNCHANGED <<inst_reg, pc_reg, pc_old, pc_plus4, fetching, loading>>
<1>1. op = "branch" => AluRes = Wrap(pc_old + inst_reg.imm)
  BY DEF AluRes, AluA, AluB, In
<1> QED
  BY <1>1 DEF IInv, PortInv, Keeps, Clock, In, NextState, PcNextRegs, PCwrite, RegFileNext,
              PortsNext, DataRegs, A, B

LEMMA ExecuteEdge ==
    ASSUME IInv, NEW in \in Inputs, Clock(in), In("EX")
    PROVE  /\ Keeps /\ current_state' = AfterEx
           /\ aluout' = AluRes /\ b_reg' = b_reg
           /\ pc_reg' = IF op \in {"jal", "jalr", "branch"} THEN PcNext ELSE pc_reg
           /\ UNCHANGED <<inst_reg, pc_old, pc_plus4, fetching, loading>>
BY DEF IInv, PortInv, Keeps, Clock, In, NextState, PcNextRegs, PCwrite, RegFileNext,
       PortsNext, DataRegs

LEMMA StoreEdge ==
    ASSUME IInv, NEW in \in Inputs, Clock(in), In("ST")
    PROVE  /\ UNCHANGED <<prog, rf>>
           /\ current_state' = IF in.mem_ready THEN "IF" ELSE "ST"
           /\ dmem' = IF in.mem_ready THEN [dmem EXCEPT ![aluout] = b_reg] ELSE dmem
           /\ pc_reg' = pc_plus4
           /\ UNCHANGED <<inst_reg, pc_old, pc_plus4, aluout, b_reg, fetching, loading>>
BY DEF IInv, PortInv, Clock, In, NextState, PcNextRegs, PCwrite, PcNext, RegFileNext,
       PortsNext, DataRegs

LEMMA LoadEdge ==
    ASSUME IInv, NEW in \in Inputs, Clock(in), In("LD")
    PROVE  /\ Keeps
           /\ current_state' = IF in.mem_ready THEN "RDW" ELSE "LD"
           /\ loading' = IF in.mem_ready THEN aluout ELSE None
           /\ UNCHANGED <<inst_reg, pc_reg, pc_old, pc_plus4, aluout, fetching>>
BY DEF IInv, PortInv, Keeps, Clock, In, NextState, PcNextRegs, PCwrite, RegFileNext,
       PortsNext, DataRegs

LEMMA DataEdge ==
    ASSUME IInv, NEW in \in Inputs, Clock(in), In("RDW")
    PROVE  /\ Keeps
           /\ current_state' = IF in.data_valid THEN "WB" ELSE "RDW"
           /\ loading' = IF in.data_valid THEN None ELSE loading
           /\ in.data_valid => Mdr' = dmem[aluout]
           /\ UNCHANGED <<inst_reg, pc_reg, pc_old, pc_plus4, aluout, fetching>>
BY DEF IInv, PortInv, Keeps, Clock, In, NextState, PcNextRegs, PCwrite, RegFileNext,
       PortsNext, DataRegs, Inputs

LEMMA WriteBackEdge ==
    ASSUME IInv, NEW in \in Inputs, Clock(in), In("WB")
    PROVE  /\ UNCHANGED <<prog, dmem>>
           /\ current_state' = "IF"
           /\ rf' = IF inst_reg.rd # 0 THEN [rf EXCEPT ![inst_reg.rd] = DataWb] ELSE rf
           /\ pc_reg' = IF op \in {"jal", "jalr"} THEN pc_reg ELSE pc_plus4
           /\ UNCHANGED <<fetching, loading>>
BY DEF IInv, PortInv, Clock, In, NextState, PcNextRegs, PCwrite, PcNext, RegFileNext,
       PortsNext, DataRegs

-----------------------------------------------------------------------------
(***************************************************************************)
(* Each edge keeps the invariant, and is a step of the architecture or a   *)
(* stutter                                                                 *)
(***************************************************************************)

Good ==
    /\ PortInv' /\ PcInv' /\ DataInv' /\ ResultInv'
    /\ Architecture!Execute \/ UNCHANGED Architecture!isaVars

LEMMA Stutters ==
    ASSUME Keeps, Same
    PROVE  UNCHANGED Architecture!isaVars
<1>1. [r \in Regs |-> ReadReg(r)]' = [r \in Regs |-> ReadReg(r)]
  BY DEF Keeps, ReadReg
<1> QED
  BY <1>1 DEF Keeps, Same, Architecture!isaVars

LEMMA InitGood ==
    ASSUME IInv, NEW in \in Inputs, Clock(in), In("INIT")
    PROVE  Good
<1>1. Keeps /\ current_state' = "IF" /\ UNCHANGED <<pc_reg, fetching, loading>>
  BY InitEdge
<1>2. Same
  BY <1>1 DEF Same, OldestPc, In
<1>3. PortInv' /\ PcInv' /\ DataInv' /\ ResultInv'
  BY <1>1 DEF IInv, PortInv, PcInv, DataInv, ResultInv, In, Decoded
<1> QED
  BY <1>1, <1>2, <1>3, Stutters DEF Good

LEMMA FetchGood ==
    ASSUME IInv, NEW in \in Inputs, Clock(in), In("IF")
    PROVE  Good
<1>1. /\ Keeps
      /\ current_state' = IF in.inst_ready THEN "IW" ELSE "IF"
      /\ fetching' = IF in.inst_ready THEN pc_reg ELSE None
      /\ loading' = None
      /\ pc_reg' = pc_reg /\ pc_old' = pc_reg /\ pc_plus4' = After(pc_reg)
  BY FetchEdge
<1>2. Same
  BY <1>1 DEF Same, OldestPc, In
<1>3. PortInv' /\ PcInv' /\ DataInv' /\ ResultInv'
  BY <1>1 DEF PortInv, PcInv, DataInv, ResultInv, In, Decoded, After, Wrap
<1> QED
  BY <1>1, <1>2, <1>3, Stutters DEF Good

LEMMA AnswerGood ==
    ASSUME IInv, NEW in \in Inputs, Clock(in), In("IW")
    PROVE  Good
<1>1. /\ Keeps
      /\ current_state' = IF in.inst_valid THEN "ID" ELSE "IW"
      /\ fetching' = IF in.inst_valid THEN None ELSE fetching
      /\ inst_reg' = IF in.inst_valid THEN prog[pc_old] ELSE inst_reg
      /\ UNCHANGED <<pc_reg, pc_old, pc_plus4, loading>>
  BY AnswerEdge
<1>2. Same
  BY <1>1 DEF Same, OldestPc, In
<1>3. PortInv'
  BY <1>1 DEF IInv, PortInv, In
<1>4. PcInv'
  BY <1>1 DEF IInv, PcInv, In, Decoded, Keeps, After, Wrap
<1>5. DataInv' /\ ResultInv'
  BY <1>1 DEF DataInv, ResultInv, In
<1> QED
  BY <1>1, <1>2, <1>3, <1>4, <1>5, Stutters DEF Good

LEMMA DecodeGood ==
    ASSUME IInv, NEW in \in Inputs, Clock(in), In("ID")
    PROVE  Good
<1>1. /\ Keeps /\ current_state' = "EX"
      /\ a_reg' = A /\ b_reg' = B
      /\ op = "branch" => aluout' = Wrap(pc_old + inst_reg.imm)
      /\ UNCHANGED <<inst_reg, pc_reg, pc_old, pc_plus4, fetching, loading>>
  BY DecodeEdge
<1>2. Same
  BY <1>1 DEF Same, OldestPc, In
<1>3. PortInv'
  BY <1>1 DEF IInv, PortInv, In
<1>4. PcInv'
  BY <1>1 DEF IInv, PcInv, In, Decoded, Keeps, After, Wrap
<1>5. A' = A /\ B' = B /\ op' = op
  BY <1>1 DEF A, B, op, ReadReg, Keeps
<1>6. DataInv' /\ ResultInv'
  BY <1>1, <1>5 DEF DataInv, ResultInv, In, Wrap
<1> QED
  BY <1>1, <1>2, <1>3, <1>4, <1>6, Stutters DEF Good

LEMMA LoadGood ==
    ASSUME IInv, NEW in \in Inputs, Clock(in), In("LD")
    PROVE  Good
<1>1. /\ Keeps
      /\ current_state' = IF in.mem_ready THEN "RDW" ELSE "LD"
      /\ loading' = IF in.mem_ready THEN aluout ELSE None
      /\ UNCHANGED <<inst_reg, pc_reg, pc_old, pc_plus4, aluout, fetching>>
  BY LoadEdge
<1>2. Same
  BY <1>1 DEF Same, OldestPc, In
<1>3. PortInv'
  BY <1>1 DEF IInv, PortInv, In
<1>4. PcInv'
  BY <1>1 DEF IInv, PcInv, In, Decoded, Keeps, After, Wrap
<1>5. A' = A /\ B' = B /\ op' = op
  BY <1>1 DEF A, B, op, ReadReg, Keeps
<1>6. DataInv' /\ ResultInv'
  BY <1>1, <1>5 DEF IInv, DataInv, ResultInv, In, Wrap
<1> QED
  BY <1>1, <1>2, <1>3, <1>4, <1>6, Stutters DEF Good

LEMMA DataGood ==
    ASSUME IInv, NEW in \in Inputs, Clock(in), In("RDW")
    PROVE  Good
<1>1. /\ Keeps
      /\ current_state' = IF in.data_valid THEN "WB" ELSE "RDW"
      /\ loading' = IF in.data_valid THEN None ELSE loading
      /\ in.data_valid => Mdr' = dmem[aluout]
      /\ UNCHANGED <<inst_reg, pc_reg, pc_old, pc_plus4, aluout, fetching>>
  BY DataEdge
<1>2. Same
  BY <1>1 DEF Same, OldestPc, In
<1>3. PortInv'
  BY <1>1 DEF IInv, PortInv, In
<1>4. PcInv'
  BY <1>1 DEF IInv, PcInv, In, Decoded, Keeps, After, Wrap
<1>5. A' = A /\ B' = B /\ op' = op
  BY <1>1 DEF A, B, op, ReadReg, Keeps
<1>6. DataInv'
  BY <1>1, <1>5 DEF IInv, DataInv, In, Wrap
<1>7. op = "load" /\ aluout = Wrap(A + inst_reg.imm) /\ pc_plus4 = After(pc_old)
  BY DEF IInv, DataInv, PcInv, In, Decoded
<1>8. ASSUME in.data_valid PROVE ResultInv'
  <2>1. DataWb' = dmem[Wrap(A + inst_reg.imm)]
    BY <1>1, <1>5, <1>7, <1>8 DEF DataWb
  <2>2. Architecture!Result(inst_reg, A, B)' = dmem[Wrap(A + inst_reg.imm)]
    BY <1>1, <1>5, <1>7 DEF Architecture!Result, Architecture!Wrap, Wrap, Keeps, op
  <2>3. Architecture!Successor(inst_reg, A, B)' = pc_plus4
    BY <1>1, <1>2, <1>5, <1>7
       DEF Architecture!Successor, Architecture!Wrap, Architecture!After, Wrap, After, op,
           Same, OldestPc, In
  <2> QED
    BY <1>1, <1>5, <1>7, <2>1, <2>2, <2>3 DEF ResultInv
<1>9. ~in.data_valid => ResultInv'
  BY <1>1 DEF ResultInv, In
<1> QED
  BY <1>1, <1>2, <1>3, <1>4, <1>6, <1>8, <1>9, Stutters DEF Good

LEMMA ExecuteGood ==
    ASSUME IInv, NEW in \in Inputs, Clock(in), In("EX")
    PROVE  Good
<1>1. /\ Keeps /\ current_state' = AfterEx
      /\ aluout' = AluRes /\ b_reg' = b_reg
      /\ pc_reg' = IF op \in {"jal", "jalr", "branch"} THEN PcNext ELSE pc_reg
      /\ UNCHANGED <<inst_reg, pc_old, pc_plus4, fetching, loading>>
  BY ExecuteEdge
<1>2. /\ inst_reg = prog[pc_old] /\ pc_reg = pc_old /\ pc_plus4 = After(pc_old)
      /\ a_reg = A /\ b_reg = B
      /\ op = "branch" => aluout = Wrap(pc_old + inst_reg.imm)
      /\ fetching = None /\ loading = None
  BY DEF IInv, PcInv, DataInv, PortInv, In, Decoded
<1>3. A' = A /\ B' = B /\ op' = op
  BY <1>1 DEF A, B, op, ReadReg, Keeps
<1>4. op \in Ops
  BY InstFields DEF IInv, TypeOK, op
<1>5. PortInv'
  BY <1>1, <1>2, <1>4 DEF PortInv, In, AfterEx, Ops
<1>6. PcInv'
  BY <1>1, <1>2, <1>4 DEF PcInv, In, AfterEx, Decoded, Keeps, After, Wrap, Ops
<1>7. /\ op \in {"store", "load", "imm", "jalr"} => AluRes = Wrap(A + inst_reg.imm)
      /\ op \in {"auipc", "jal"} => AluRes = Wrap(pc_old + inst_reg.imm)
      /\ op = "reg" => AluRes = Wrap(A + B)
  BY <1>2 DEF AluRes, AluA, AluB, In
<1>8. DataInv'
  BY <1>1, <1>2, <1>3, <1>4, <1>7 DEF DataInv, In, AfterEx, Wrap, Ops
<1>9. ASSUME op \in {"lui", "auipc", "jal", "jalr", "imm", "reg"}
      PROVE  ResultInv'
  <2>1. DataWb' = CASE op \in {"jal", "jalr"} -> After(pc_old)
                    [] op = "lui" -> inst_reg.imm
                    [] op \notin {"jal", "jalr", "lui"} -> AluRes
    BY <1>1, <1>2, <1>3, <1>9 DEF DataWb
  <2>2. In("WB")' /\ OldestPc' = pc_old /\ op' = op /\ inst_reg' = inst_reg
    BY <1>1, <1>3, <1>9 DEF AfterEx, In, OldestPc
  <2>3. Architecture!Result(inst_reg, A, B)' =
          CASE op = "lui" -> inst_reg.imm
            [] op = "auipc" -> Wrap(pc_old + inst_reg.imm)
            [] op \in {"jal", "jalr"} -> After(pc_old)
            [] op = "imm" -> Wrap(A + inst_reg.imm)
            [] op = "reg" -> Wrap(A + B)
    BY <1>3, <1>9, <2>2
       DEF Architecture!Result, Architecture!Wrap, Architecture!After, Wrap, After, op
  <2>4. DataWb' = Architecture!Result(inst_reg, A, B)'
    BY <1>7, <1>9, <2>1, <2>3
  <2>5. Architecture!Successor(inst_reg, A, B)' =
          CASE op = "jalr" -> Wrap(A + inst_reg.imm)
            [] op = "jal" -> Wrap(pc_old + inst_reg.imm)
            [] op \notin {"jal", "jalr"} -> After(pc_old)
    BY <1>3, <1>9, <2>2
       DEF Architecture!Successor, Architecture!Wrap, Architecture!After, Wrap, After, op
  <2>6. op \in {"jal", "jalr"} => pc_reg' = AluRes
    BY <1>1 DEF PcNext, In, BranchTaken
  <2> QED
    BY <1>1, <1>2, <1>3, <1>7, <1>9, <2>4, <2>5, <2>6 DEF ResultInv
<1>10. op \notin {"lui", "auipc", "jal", "jalr", "imm", "reg"} => ResultInv'
  BY <1>1, <1>4 DEF ResultInv, In, AfterEx, Ops
<1>11. CASE op # "branch"
  <2>1. Same
    BY <1>1, <1>2, <1>4, <1>11 DEF Same, OldestPc, In, AfterEx, Ops
  <2> QED
    BY <1>1, <1>5, <1>6, <1>8, <1>9, <1>10, <2>1, Stutters DEF Good
<1>12. CASE op = "branch"
  <2>1. /\ OldestPc = pc_old /\ OldestPc' = PcNext /\ [r \in Regs |-> ReadReg(r)]' = [r \in Regs |-> ReadReg(r)]
    BY <1>1, <1>12 DEF OldestPc, In, AfterEx, Keeps, ReadReg
  <2>2. PcNext = Architecture!Successor(inst_reg, A, B)
    BY <1>2, <1>12, <2>1
       DEF PcNext, BranchTaken, In, Architecture!Successor, Architecture!Wrap,
           Architecture!After, Wrap, After, op
  <2>3. Architecture!Execute
    <3>1. [r \in Regs |-> ReadReg(r)][inst_reg.rs1] = A /\ [r \in Regs |-> ReadReg(r)][inst_reg.rs2] = B
      BY InstFields DEF A, B, IInv, TypeOK
    <3>2. ~Architecture!WritesReg(inst_reg) /\ inst_reg.op # "store"
      BY <1>12 DEF Architecture!WritesReg, op
    <3> QED
      BY <1>1, <1>2, <2>1, <2>2, <3>1, <3>2 DEF Architecture!Execute, Keeps
  <2> QED
    BY <1>5, <1>6, <1>8, <1>10, <1>12, <2>3 DEF Good
<1> QED
  BY <1>11, <1>12

LEMMA StoreGood ==
    ASSUME IInv, NEW in \in Inputs, Clock(in), In("ST")
    PROVE  Good
<1>1. /\ UNCHANGED <<prog, rf>>
      /\ current_state' = IF in.mem_ready THEN "IF" ELSE "ST"
      /\ dmem' = IF in.mem_ready THEN [dmem EXCEPT ![aluout] = b_reg] ELSE dmem
      /\ pc_reg' = pc_plus4
      /\ UNCHANGED <<inst_reg, pc_old, pc_plus4, aluout, b_reg, fetching, loading>>
  BY StoreEdge
<1>2. /\ inst_reg = prog[pc_old] /\ pc_plus4 = After(pc_old)
      /\ op = "store" /\ aluout = Wrap(A + inst_reg.imm) /\ b_reg = B
      /\ fetching = None /\ loading = None
  BY DEF IInv, PcInv, DataInv, PortInv, In, Decoded
<1>3. A' = A /\ B' = B /\ op' = op /\ [r \in Regs |-> ReadReg(r)]' = [r \in Regs |-> ReadReg(r)]
  BY <1>1 DEF A, B, op, ReadReg
<1>4. PortInv' /\ PcInv' /\ DataInv' /\ ResultInv'
  BY <1>1, <1>2, <1>3
     DEF PortInv, PcInv, DataInv, ResultInv, In, Decoded, After, Wrap
<1>5. CASE ~in.mem_ready
  <2>1. Keeps /\ Same
    BY <1>1, <1>5 DEF Keeps, Same, OldestPc, In
  <2> QED
    BY <1>4, <2>1, Stutters DEF Good
<1>6. CASE in.mem_ready
  <2>1. OldestPc = pc_old /\ OldestPc' = After(pc_old)
    BY <1>1, <1>2, <1>6 DEF OldestPc, In
  <2>2. Architecture!Successor(inst_reg, A, B) = After(pc_old)
    BY <1>2, <2>1 DEF Architecture!Successor, Architecture!After, Architecture!Wrap, After, Wrap, op
  <2>3. [r \in Regs |-> ReadReg(r)][inst_reg.rs1] = A /\ [r \in Regs |-> ReadReg(r)][inst_reg.rs2] = B
    BY InstFields DEF A, B, IInv, TypeOK
  <2>4. ~Architecture!WritesReg(inst_reg) /\ inst_reg.op = "store"
    BY <1>2 DEF Architecture!WritesReg, op
  <2>5. dmem' = [dmem EXCEPT ![Architecture!Wrap(A + inst_reg.imm)] = B]
    BY <1>1, <1>2, <1>6 DEF Architecture!Wrap, Wrap
  <2>6. Architecture!Execute
    BY <1>1, <1>2, <1>3, <2>1, <2>2, <2>3, <2>4, <2>5 DEF Architecture!Execute
  <2> QED
    BY <1>4, <2>6 DEF Good
<1> QED
  BY <1>5, <1>6

LEMMA WriteBackGood ==
    ASSUME IInv, NEW in \in Inputs, Clock(in), In("WB")
    PROVE  Good
<1>1. /\ UNCHANGED <<prog, dmem>>
      /\ current_state' = "IF"
      /\ rf' = IF inst_reg.rd # 0 THEN [rf EXCEPT ![inst_reg.rd] = DataWb] ELSE rf
      /\ pc_reg' = IF op \in {"jal", "jalr"} THEN pc_reg ELSE pc_plus4
      /\ UNCHANGED <<fetching, loading>>
  BY WriteBackEdge
<1>2. /\ inst_reg = prog[pc_old]
      /\ op \notin {"branch", "store", "unknown"}
      /\ DataWb = Architecture!Result(inst_reg, A, B)
      /\ (IF op \in {"jal", "jalr"} THEN pc_reg ELSE pc_plus4)
           = Architecture!Successor(inst_reg, A, B)
      /\ fetching = None /\ loading = None
  BY DEF IInv, PcInv, ResultInv, PortInv, In, Decoded
<1>3. PortInv' /\ PcInv' /\ DataInv' /\ ResultInv'
  BY <1>1, <1>2 DEF PortInv, PcInv, DataInv, ResultInv, In, Decoded
<1>4. OldestPc = pc_old /\ OldestPc' = Architecture!Successor(inst_reg, A, B)
  BY <1>1, <1>2 DEF OldestPc, In
<1>5. [r \in Regs |-> ReadReg(r)][inst_reg.rs1] = A /\ [r \in Regs |-> ReadReg(r)][inst_reg.rs2] = B
  BY InstFields DEF A, B, IInv, TypeOK
<1>6. Architecture!WritesReg(inst_reg) /\ inst_reg.op # "store"
  BY <1>2 DEF Architecture!WritesReg, op
<1>7. [r \in Regs |-> ReadReg(r)]' =
        IF inst_reg.rd # 0
        THEN [[r \in Regs |-> ReadReg(r)] EXCEPT ![inst_reg.rd] = DataWb]
        ELSE [r \in Regs |-> ReadReg(r)]
  BY <1>1 DEF ReadReg, IInv, TypeOK
<1>8. Architecture!Execute
  BY <1>1, <1>2, <1>4, <1>5, <1>6, <1>7 DEF Architecture!Execute
<1> QED
  BY <1>3, <1>8 DEF Good

-----------------------------------------------------------------------------
LEMMA InvInit == Init => IInv
<1> SUFFICES ASSUME Init PROVE IInv
  OBVIOUS
<1>1. TypeOK
  BY TypeInit
<1>2. PortInv /\ PcInv /\ DataInv /\ ResultInv
  BY DEF Init, PortInv, PcInv, DataInv, ResultInv, In, Decoded
<1> QED
  BY <1>1, <1>2 DEF IInv

LEMMA EdgeGood ==
    ASSUME IInv, NEW in \in Inputs, Clock(in)
    PROVE  Good
<1>1. current_state \in States
  BY DEF IInv, TypeOK
<1> QED
  BY <1>1, InitGood, FetchGood, AnswerGood, DecodeGood, ExecuteGood, StoreGood, LoadGood,
     DataGood, WriteBackGood DEF States, In

LEMMA InvNext == ASSUME IInv, [Next]_vars PROVE IInv'
<1>1. CASE Next
  <2> PICK in \in Inputs : Clock(in)
    BY <1>1 DEF Next
  <2>1. Good
    BY EdgeGood
  <2>2. TypeOK'
    BY TypeNext DEF IInv
  <2> QED
    BY <2>1, <2>2 DEF IInv, Good
<1>2. CASE UNCHANGED vars
  <2>1. TypeOK'
    BY <1>2 DEF IInv, TypeOK, vars, memVars, coreVars
  <2>2. PortInv' /\ PcInv' /\ DataInv'
    BY <1>2 DEF IInv, PortInv, PcInv, DataInv, vars, memVars, coreVars, In, op, A, B, ReadReg,
                After, Wrap
  <2>3. ResultInv'
    BY <1>2 DEF IInv, ResultInv, vars, memVars, coreVars, In, op, A, B, ReadReg, DataWb,
                OldestPc, Architecture!Result, Architecture!Successor
  <2> QED
    BY <2>1, <2>2, <2>3 DEF IInv
<1> QED
  BY <1>1, <1>2

LEMMA Invariance == Spec => []IInv
  BY InvInit, InvNext, PTL DEF Spec

\* Every register of the core keeps a value of its width, and the state
\* machine never leaves its nine states (custom_cpu_prj3.v:258-299).
THEOREM TypeCorrect == Spec => []TypeOK
  BY Invariance, PTL DEF IInv

LEMMA ArchitectureInit == Init => Architecture!Init
<1> SUFFICES ASSUME Init PROVE Architecture!Init
  OBVIOUS
<1>1. TypeOK
  BY TypeInit
<1>2. [r \in Regs |-> ReadReg(r)] \in [Regs -> Words] /\ ReadReg(0) = 0
  BY <1>1, ReadIsWord DEF ReadReg
<1>3. OldestPc = 0
  BY DEF Init, OldestPc
<1> QED
  BY <1>1, <1>2, <1>3
     DEF TypeOK, Architecture!Init, Architecture!Words, Architecture!Instrs, Architecture!Ops,
         Words, Instrs, Ops

LEMMA StepImplements ==
    ASSUME IInv, [Next]_vars
    PROVE  [Architecture!Execute]_Architecture!isaVars
<1>1. CASE Next
  BY <1>1, EdgeGood DEF Next, Good
<1>2. CASE UNCHANGED vars
  <2>1. Keeps /\ Same
    BY <1>2 DEF vars, memVars, coreVars, Keeps, Same, OldestPc
  <2> QED
    BY <2>1, Stutters
<1> QED
  BY <1>1, <1>2

\* Every pass through the states executes the one instruction it fetched,
\* with the operands and the result of the sequential architecture, for
\* every program and any timing of the memory.
THEOREM CoreImplementsIsa == Spec => ImplementsIsa
<1>1. Spec => []IInv
  BY Invariance
<1>2. IInv /\ [Next]_vars => [Architecture!Execute]_Architecture!isaVars
  BY StepImplements
<1> QED
  BY <1>1, <1>2, ArchitectureInit, PTL DEF Spec, ImplementsIsa, Architecture!Spec

=============================================================================
