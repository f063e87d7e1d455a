--------------------------- MODULE PipelineProofs ---------------------------
(***************************************************************************)
(* The five-stage pipeline implements the instruction set architecture,    *)
(* for every program, every number of registers and words, every size and  *)
(* hash of the predictor, and any timing of the two ports.                 *)
(***************************************************************************)
EXTENDS Pipeline, TLAPS

USE WordCountAssumption, RegsAssumption

\* Where the next instruction comes from that enters IF/ID, ID/EX, EX/MEM.
FetchPc == IF if_discard THEN if_redirect_pc
           ELSE IF if_state = "IF_WAIT" THEN if_req.pc ELSE pc_reg
YoungPc == IF Holds(if_id) THEN if_id.pc ELSE FetchPc
NextPc  == IF Holds(id_ex) THEN id_ex.pc ELSE YoungPc

\* A register as the instruction in EX must see it: past the one in MEM.
PastMem(r) == IF FromMem(r) THEN ex_mem.value ELSE ReadReg(r)

\* The operands of the instruction in MEM, all older ones being committed.
A == ReadReg(ex_mem.ins.rs1)
B == ReadReg(ex_mem.ins.rs2)

\* Every stage holds the instruction of its address.
StageInv ==
    /\ Holds(if_id)  => if_id.ins = prog[if_id.pc]
    /\ Holds(id_ex)  => id_ex.ins = prog[id_ex.pc]
    /\ Holds(ex_mem) => ex_mem.ins = prog[ex_mem.pc]

\* The instruction port is busy for the request that IF waits for.
FetchInv ==
    /\ if_state = "IF_WAIT" => fetching = if_req.pc
    /\ if_state = "IF_REQ"  => fetching = None /\ ~if_discard

\* Until EX has resolved it, an instruction is followed by what was predicted.
ChainInv ==
    /\ Holds(if_id) => FetchPc = if_id.pred
    /\ Holds(id_ex) => YoungPc = id_ex.pred

\* EX has the operands that the program order gives, from the register file,
\* from a forwarding path or from the hold registers.
OperandInv ==
    /\ Holds(operand_hold) => Holds(id_ex)
    /\ Holds(id_ex) =>
          /\ UsesRs1(id_ex.ins) => ExA = PastMem(id_ex.ins.rs1)
          /\ UsesRs2(id_ex.ins) => ExB = PastMem(id_ex.ins.rs2)
          /\ Holds(ex_mem) /\ ex_mem.ins.op = "load" /\ ex_mem.ins.rd # 0 =>
                /\ UsesRs1(id_ex.ins) => id_ex.ins.rs1 # ex_mem.ins.rd
                /\ UsesRs2(id_ex.ins) => id_ex.ins.rs2 # ex_mem.ins.rd

\* What the instruction in MEM carries is what the architecture computes.
MemInv ==
    Holds(ex_mem) =>
        /\ WritesReg(ex_mem.ins) /\ ex_mem.ins.op # "load" =>
              ex_mem.value = Architecture!Result(ex_mem.ins, A, B)
        /\ Accesses(ex_mem.ins) => ex_mem.addr = Wrap(A + ex_mem.ins.imm)
        /\ ex_mem.ins.op = "store" => ex_mem.sdata = B
        /\ NextPc = Architecture!Successor(ex_mem.ins, A, B)

\* The data port is busy for the load in MEM, after its request only.
PortInv ==
    /\ mem_req_done => Holds(ex_mem) /\ ex_mem.ins.op = "load"
    /\ loading = (IF mem_req_done THEN ex_mem.addr ELSE None)

\* An entry that hits was trained by that very instruction.
BtbInv ==
    \A a \in Words : BtbHit(a) =>
        /\ IsControl(prog[a])
        /\ prog[a].op # "jalr" => btb[Index(a)].target = Wrap(a + prog[a].imm)

IInv ==
    /\ TypeOK /\ StageInv /\ FetchInv /\ ChainInv
    /\ OperandInv /\ MemInv /\ PortInv /\ BtbInv

-----------------------------------------------------------------------------
LEMMA Wraps == \A n \in Int : Wrap(n) \in Words
BY DEF Wrap, Words

LEMMA WordFacts == None \notin Words /\ -1 \notin Words /\ 0 \in Words
BY DEF None, Words

LEMMA Afters == \A a \in Words : After(a) \in Words
BY Wraps DEF After, Words

LEMMA InstFields ==
    ASSUME NEW i \in Instrs
    PROVE  /\ i.op \in Ops /\ i.rd \in Regs /\ i.rs1 \in Regs /\ i.rs2 \in Regs
           /\ i.imm \in Words
BY DEF Instrs

\* What a stage that holds an instruction holds.
LEMMA StageFields ==
    ASSUME TypeOK
    PROVE  /\ Holds(if_id) => /\ if_id.pc \in Words /\ if_id.pred \in Words
                              /\ if_id.ghr \in Indices /\ if_id.ins \in Instrs
           /\ Holds(id_ex) => /\ id_ex.pc \in Words /\ id_ex.pred \in Words
                              /\ id_ex.ghr \in Indices /\ id_ex.ins \in Instrs
                              /\ id_ex.a \in Words /\ id_ex.b \in Words
           /\ Holds(ex_mem) => /\ ex_mem.pc \in Words /\ ex_mem.ins \in Instrs
                               /\ ex_mem.value \in Words /\ ex_mem.addr \in Words
                               /\ ex_mem.sdata \in Words
           /\ Holds(mem_wb) => /\ mem_wb.pc \in Words /\ mem_wb.ins \in Instrs
                               /\ mem_wb.wdata \in Words
           /\ Holds(operand_hold) => operand_hold.a \in Words /\ operand_hold.b \in Words
BY DEF TypeOK, Holds

LEMMA NoBubble ==
    /\ \A s : s.pc \in Words => Holds(s)
    /\ \A x, y \in Words : Holds([a |-> x, b |-> y])
<1>1. \A s : s.pc \in Words => Holds(s)
  BY WordFacts DEF Holds, Bubble
<1>2. ASSUME NEW x \in Words, NEW y \in Words PROVE [a |-> x, b |-> y] # Bubble
  <2>1. DOMAIN [a |-> x, b |-> y] = {"a", "b"} /\ DOMAIN Bubble = {"pc"}
    BY DEF Bubble
  <2> QED
    BY <2>1
<1> QED
  BY <1>1, <1>2 DEF Holds

LEMMA ReadIsWord ==
    ASSUME TypeOK, NEW r \in Regs
    PROVE  ReadReg(r) \in Words
BY WordFacts, StageFields DEF ReadReg, FromWb, TypeOK

-----------------------------------------------------------------------------
(***************************************************************************)
(* Type correctness                                                        *)
(***************************************************************************)

LEMMA Division ==
    ASSUME NEW n \in Nat \ {0}, NEW a \in Nat
    PROVE  /\ a = n * (a \div n) + (a % n)
           /\ a % n \in 0 .. n - 1
           /\ a \div n \in 0 .. a
<1>1. a = n * (a \div n) + (a % n) /\ a % n \in 0 .. n - 1
  OBVIOUS
<1>2. a \div n \in Nat
  OBVIOUS
<1>3. \A q \in Nat : q <= n * q
  OBVIOUS
<1> QED
  BY <1>1, <1>2, <1>3

LEMMA IndexFacts ==
    ASSUME NEW a \in Words
    PROVE  Index(a) \in Indices /\ TagOf(a) \in Words
<1>1. a \in Nat
  BY DEF Words
<1>2. Entries \in Nat \ {0}
  BY EntriesAssumption
<1>3. a % Entries \in 0 .. Entries - 1 /\ a \div Entries \in 0 .. a
  BY <1>1, <1>2, Division
<1> QED
  BY <1>3 DEF Index, TagOf, Indices, Words

LEMMA IndexTag ==
    ASSUME NEW a \in Words, NEW p \in Words, Index(a) = Index(p), TagOf(a) = TagOf(p)
    PROVE  a = p
<1>1. a \in Nat /\ p \in Nat
  BY DEF Words
<1>2. Entries \in Nat \ {0}
  BY EntriesAssumption
<1>3. /\ a = Entries * (a \div Entries) + (a % Entries)
      /\ p = Entries * (p \div Entries) + (p % Entries)
  BY <1>1, <1>2, Division
<1>4. a % Entries = p % Entries /\ a \div Entries = p \div Entries
  BY DEF Index, TagOf
<1> QED
  BY <1>3, <1>4, Zenon

LEMMA TypeInit == Init => TypeOK
<1> SUFFICES ASSUME Init PROVE TypeOK
  OBVIOUS
<1>1. PredictorTypeOK
  BY WordFacts, EntriesAssumption DEF Init, PredictorInit, PredictorTypeOK, NoEntry, Indices
<1>2. if_req \in Fetches
  BY WordFacts, EntriesAssumption DEF Init, Fetches, Indices
<1> QED
  BY <1>1, <1>2, WordFacts DEF Init, TypeOK, Ports

\* The stage registers that an edge may load, and what they load.
LEMMA ExWords ==
    ASSUME TypeOK, Holds(id_ex)
    PROVE  /\ ExA \in Words /\ ExB \in Words /\ ExAddr \in Words /\ ExValue \in Words
           /\ ExNextPc \in Words
<1>1. ForwardedA \in Words /\ ForwardedB \in Words
  BY StageFields DEF ForwardedA, ForwardedB, Forwarded, FromMem, FromWb
<1>2. ExA \in Words /\ ExB \in Words
  BY <1>1, StageFields DEF ExA, ExB
<1>3. id_ex.pc \in Words /\ id_ex.ins.imm \in Words
  BY StageFields, InstFields
<1>4. ExAddr \in Words /\ ExTarget \in Words /\ Wrap(id_ex.pc + id_ex.ins.imm) \in Words
      /\ Wrap(ExA + ExB) \in Words /\ After(id_ex.pc) \in Words
  BY <1>2, <1>3, Wraps, Afters DEF ExAddr, ExTarget, Words
<1> QED
  BY <1>2, <1>3, <1>4 DEF ExValue, ExNextPc

LEMMA MemWords ==
    ASSUME TypeOK, NEW in \in Inputs, MemFires(in)
    PROVE  MemResult \in Words
<1>1. ex_mem.ins.op = "load" => loading # None
  BY DEF MemFires, MemAllows, DataFires, Inputs
<1> QED
  BY <1>1, StageFields DEF MemResult, MemFires, TypeOK, Ports

LEMMA PredictorTypes ==
    ASSUME TypeOK, NEW in \in Inputs, PredictorNext(in)
    PROVE  PredictorTypeOK'
<1>1. CASE ExFires(in) /\ IsControl(id_ex.ins)
  <2>1. Train(id_ex.pc, id_ex.ghr, ExTaken, ExNextPc) /\ Holds(id_ex)
    BY <1>1 DEF PredictorNext, ExFires
  <2>2. id_ex.pc \in Words /\ ExNextPc \in Words
    BY <2>1, StageFields, ExWords
  <2>3. \A n \in 0 .. 3 : Counted(n, ExTaken) \in 0 .. 3
    BY DEF Counted
  <2>4. pht' \in [Indices -> 0 .. 3]
    BY <2>1, <2>3 DEF Train, TypeOK, PredictorTypeOK
  <2>5. ghr' \in Indices
    <3>1. /\ 2 * ghr + (IF ExTaken THEN 1 ELSE 0) \in Nat
          /\ Entries \in Nat \ {0}
      BY EntriesAssumption DEF TypeOK, PredictorTypeOK, Indices
    <3>2. (2 * ghr + (IF ExTaken THEN 1 ELSE 0)) % Entries \in 0 .. Entries - 1
      BY <3>1, Division
    <3> QED
      BY <2>1, <3>2 DEF Train, Indices
  <2>6. btb' \in [Indices -> [valid : BOOLEAN, tag : Words, target : Words]]
    BY <2>1, <2>2, IndexFacts DEF Train, TypeOK, PredictorTypeOK
  <2> QED
    BY <2>4, <2>5, <2>6 DEF PredictorTypeOK
<1>2. CASE ~(ExFires(in) /\ IsControl(id_ex.ins))
  BY <1>2 DEF PredictorNext, predictorVars, TypeOK, PredictorTypeOK
<1> QED
  BY <1>1, <1>2

LEMMA PredictionIsWord ==
    ASSUME TypeOK, NEW a \in Words
    PROVE  PredictedPc(a) \in Words
<1>1. Index(a) \in Indices /\ After(a) \in Words
  BY IndexFacts, Afters
<1>2. btb[Index(a)].target \in Words
  BY <1>1 DEF TypeOK, PredictorTypeOK
<1> QED
  BY <1>1, <1>2 DEF PredictedPc

LEMMA FetchTypes ==
    ASSUME TypeOK, NEW in \in Inputs, Fetch(in)
    PROVE  /\ if_state' \in {"IF_REQ", "IF_WAIT"} /\ pc_reg' \in Words /\ if_req' \in Fetches
           /\ if_discard' \in BOOLEAN /\ if_redirect_pc' \in Words
<1>1. ExRedirects(in) => ExNextPc \in Words
  BY ExWords DEF ExRedirects, ExFires
<1>2. [pc |-> pc_reg, pred |-> PredictedPc(pc_reg), ghr |-> ghr] \in Fetches
  BY PredictionIsWord DEF Fetches, TypeOK, PredictorTypeOK
<1>3. if_req.pred \in Words
  BY DEF TypeOK, Fetches
<1>4. CASE RedirectAnswered(in) \/ RedirectWaiting(in) \/ RedirectIdle(in)
  BY <1>1, <1>4, WordFacts DEF RedirectAnswered, RedirectWaiting, RedirectIdle, TypeOK
<1>5. CASE RedirectRequested(in) \/ FetchRequested(in)
  BY <1>1, <1>2, <1>5 DEF RedirectRequested, FetchRequested, Requested, TypeOK
<1>6. CASE FetchAnswered(in) \/ FetchWaits(in)
  BY <1>3, <1>6, WordFacts DEF FetchAnswered, FetchWaits, TypeOK
<1> QED
  BY <1>4, <1>5, <1>6 DEF Fetch

LEMMA TypeNext ==
    ASSUME TypeOK, NEW in \in Inputs, Clock(in)
    PROVE  TypeOK'
<1>1. PredictorTypeOK'
  BY PredictorTypes DEF Clock, Core
<1>2. /\ if_state' \in {"IF_REQ", "IF_WAIT"} /\ pc_reg' \in Words /\ if_req' \in Fetches
      /\ if_discard' \in BOOLEAN /\ if_redirect_pc' \in Words
  BY FetchTypes DEF Clock, Core
<1>3. if_id' \in {Bubble} \cup [pc : Words, pred : Words, ghr : Indices, ins : Instrs]
  <2>1. InstEnters(in) => prog[fetching] \in Instrs
    BY DEF InstEnters, InstFires, Inputs, TypeOK, Ports
  <2>2. if_req.pc \in Words /\ if_req.pred \in Words /\ if_req.ghr \in Indices
    BY DEF TypeOK, Fetches
  <2>3. IfIdNext(in)
    BY DEF Clock, Core
  <2> QED
    BY <2>1, <2>2, <2>3 DEF IfIdNext, TypeOK
<1>4. id_ex' \in {Bubble} \cup [pc : Words, pred : Words, ghr : Indices, ins : Instrs,
                                a : Words, b : Words]
  <2>1. IdFires(in) => /\ if_id.pc \in Words /\ if_id.pred \in Words /\ if_id.ghr \in Indices
                       /\ if_id.ins \in Instrs
                       /\ ReadReg(if_id.ins.rs1) \in Words /\ ReadReg(if_id.ins.rs2) \in Words
    BY StageFields, InstFields, ReadIsWord DEF IdFires
  <2>2. IdExNext(in)
    BY DEF Clock, Core
  <2> QED
    BY <2>1, <2>2 DEF IdExNext, TypeOK
<1>5. ex_mem' \in {Bubble} \cup
         [pc : Words, ins : Instrs, value : Words, addr : Words, sdata : Words]
  <2>1. ExFires(in) => /\ id_ex.pc \in Words /\ id_ex.ins \in Instrs
                       /\ ExValue \in Words /\ ExAddr \in Words /\ ExB \in Words
    BY StageFields, ExWords DEF ExFires
  <2>2. ExMemNext(in)
    BY DEF Clock, Core
  <2> QED
    BY <2>1, <2>2 DEF ExMemNext, TypeOK, ExFires
<1>6. mem_wb' \in {Bubble} \cup [pc : Words, ins : Instrs, wdata : Words]
  BY StageFields, MemWords DEF Clock, Core, MemWbNext, TypeOK, MemFires
<1>7. operand_hold' \in {Bubble} \cup [a : Words, b : Words]
  <2>1. Holds(id_ex) => ForwardedA \in Words /\ ForwardedB \in Words
    BY StageFields DEF ForwardedA, ForwardedB, Forwarded, FromMem, FromWb
  <2>2. HoldNext(in)
    BY DEF Clock, Core
  <2> QED
    BY <2>1, <2>2 DEF HoldNext, TypeOK
<1>8. mem_req_done' \in BOOLEAN
  BY DEF Clock, Core, MemHandshakeNext, MemAllows, ReqDone
<1>9. rf' \in [Regs -> Words]
  BY StageFields DEF Clock, Core, RegFileNext, TypeOK
<1>10. fetching' \in Ports /\ prog' \in [Words -> Instrs]
  BY DEF Clock, InstPortNext, TypeOK, Ports
<1>11. loading' \in Ports /\ dmem' \in [Words -> Words]
  BY StageFields DEF Clock, DataPortNext, TypeOK, Ports, ReqFires, Requests
<1> QED
  BY <1>1, <1>2, <1>3, <1>4, <1>5, <1>6, <1>7, <1>8, <1>9, <1>10, <1>11 DEF TypeOK

-----------------------------------------------------------------------------
(***************************************************************************)
(* How the stages move                                                     *)
(***************************************************************************)

\* Only MEM holds EX up, and only a stage that holds something waits.
LEMMA StageMoves ==
    ASSUME TypeOK, NEW in \in Inputs, Clock(in)
    PROVE  /\ ~MemAllows(in) => Holds(ex_mem)
           /\ ExFires(in) <=> Holds(id_ex) /\ MemAllows(in)
           /\ IdFires(in) => Holds(if_id) /\ ~ExRedirects(in) /\ (Holds(id_ex) => ExFires(in))
           /\ ex_mem' = IF ExFires(in)
                        THEN [pc |-> id_ex.pc, ins |-> id_ex.ins,
                              value |-> ExValue, addr |-> ExAddr, sdata |-> ExB]
                        ELSE IF MemAllows(in) THEN Bubble ELSE ex_mem
           /\ id_ex' = IF IdFires(in)
                       THEN [pc |-> if_id.pc, pred |-> if_id.pred,
                             ghr |-> if_id.ghr, ins |-> if_id.ins,
                             a |-> ReadReg(if_id.ins.rs1), b |-> ReadReg(if_id.ins.rs2)]
                       ELSE IF MemAllows(in) THEN Bubble ELSE id_ex
           /\ prog' = prog
<1>1. /\ ~MemAllows(in) => Holds(ex_mem)
      /\ ExFires(in) <=> Holds(id_ex) /\ MemAllows(in)
      /\ IdFires(in) => Holds(if_id) /\ ~ExRedirects(in) /\ (Holds(id_ex) => ExFires(in))
  BY DEF MemAllows, ExFires, IdFires
<1>2. ExMemNext(in) /\ IdExNext(in) /\ prog' = prog
  BY DEF Clock, Core, InstPortNext
<1>3. ex_mem' = IF ExFires(in)
                THEN [pc |-> id_ex.pc, ins |-> id_ex.ins,
                      value |-> ExValue, addr |-> ExAddr, sdata |-> ExB]
                ELSE IF MemAllows(in) THEN Bubble ELSE ex_mem
  BY <1>1, <1>2 DEF ExMemNext
<1>4. id_ex' = IF IdFires(in)
               THEN [pc |-> if_id.pc, pred |-> if_id.pred,
                     ghr |-> if_id.ghr, ins |-> if_id.ins,
                     a |-> ReadReg(if_id.ins.rs1), b |-> ReadReg(if_id.ins.rs2)]
               ELSE IF MemAllows(in) THEN Bubble ELSE id_ex
  BY <1>1, <1>2 DEF IdExNext
<1> QED
  BY <1>1, <1>2, <1>3, <1>4

\* What leaves MEM is in WB for one cycle and then in the register file: as
\* ReadReg sees it, a register changes when an instruction leaves MEM.
LEMMA RegisterMoves ==
    ASSUME TypeOK, NEW in \in Inputs, Clock(in), NEW r \in Regs
    PROVE  ReadReg(r)' = IF /\ MemFires(in) /\ WritesReg(ex_mem.ins)
                            /\ ex_mem.ins.rd = r /\ r # 0
                         THEN MemResult ELSE ReadReg(r)
<1>1. mem_wb' = IF MemFires(in)
                THEN [pc |-> ex_mem.pc, ins |-> ex_mem.ins, wdata |-> MemResult]
                ELSE Bubble
  BY DEF Clock, Core, MemWbNext
<1>2. r # 0 => rf'[r] = ReadReg(r)
  BY StageFields DEF Clock, Core, RegFileNext, ReadReg, FromWb, TypeOK
<1>3. Holds(mem_wb)' <=> MemFires(in)
  <2>1. MemFires(in) => ex_mem.pc \in Words
    BY StageFields DEF MemFires
  <2>2. MemFires(in) => mem_wb'.pc \in Words
    BY <1>1, <2>1
  <2>3. MemFires(in) => mem_wb' # Bubble
    BY <2>2, NoBubble DEF Holds
  <2>4. ~MemFires(in) => mem_wb' = Bubble
    BY <1>1
  <2> QED
    BY <2>3, <2>4 DEF Holds
<1>4. FromWb(r)' <=> /\ MemFires(in) /\ WritesReg(ex_mem.ins)
                     /\ ex_mem.ins.rd = r /\ r # 0
  BY <1>1, <1>3 DEF FromWb, WritesReg
<1>5. FromWb(r)' => mem_wb'.wdata = MemResult
  BY <1>1, <1>4
<1>6. r = 0 => ReadReg(r) = 0
  BY DEF ReadReg
<1>7. ReadReg(r)' = IF r = 0 THEN 0 ELSE IF FromWb(r)' THEN mem_wb'.wdata ELSE rf'[r]
  BY DEF ReadReg
<1> QED
  BY <1>2, <1>4, <1>5, <1>6, <1>7

\* The address that IF works for: a redirection sets it, whatever the port
\* does, an instruction that enters ID moves it on, nothing else does.
LEMMA FetchMoves ==
    ASSUME TypeOK, FetchInv, NEW in \in Inputs, Clock(in)
    PROVE  /\ FetchInv'
           /\ ExRedirects(in) => FetchPc' = ExNextPc
           /\ InstEnters(in) => /\ ~ExRedirects(in) /\ FetchPc = if_req.pc
                                /\ FetchPc' = if_req.pred /\ fetching = if_req.pc
           /\ ~ExRedirects(in) /\ ~InstEnters(in) => FetchPc' = FetchPc
<1>1. Fetch(in)
      /\ fetching' = IF FetchFires(in) THEN pc_reg
                     ELSE IF InstFires(in) THEN None ELSE fetching
  <2>1. ~(FetchFires(in) /\ InstFires(in))
    BY DEF FetchFires, InstFires
  <2> QED
    BY <2>1 DEF Clock, Core, InstPortNext
<1>2. if_state \in {"IF_REQ", "IF_WAIT"} /\ if_discard \in BOOLEAN
  BY DEF TypeOK
<1>3. CASE RedirectAnswered(in)
  BY <1>1, <1>2, <1>3
     DEF RedirectAnswered, FetchInv, FetchPc, FetchFires, InstFires, InstEnters
<1>4. CASE RedirectWaiting(in)
  BY <1>1, <1>2, <1>4
     DEF RedirectWaiting, FetchInv, FetchPc, FetchFires, InstFires, InstEnters
<1>5. CASE RedirectRequested(in)
  BY <1>1, <1>2, <1>5
     DEF RedirectRequested, Requested, FetchInv, FetchPc, FetchFires, InstFires, InstEnters
<1>6. CASE RedirectIdle(in)
  BY <1>1, <1>2, <1>6
     DEF RedirectIdle, FetchInv, FetchPc, FetchFires, InstFires, InstEnters
<1>7. CASE FetchRequested(in)
  BY <1>1, <1>2, <1>7
     DEF FetchRequested, Requested, FetchInv, FetchPc, FetchFires, InstFires, InstEnters
<1>8. CASE FetchAnswered(in)
  BY <1>1, <1>2, <1>8
     DEF FetchAnswered, FetchInv, FetchPc, FetchFires, InstFires, InstEnters
<1>9. CASE FetchWaits(in)
  BY <1>1, <1>2, <1>9
     DEF FetchWaits, FetchInv, FetchPc, FetchFires, InstFires, InstEnters
<1> QED
  BY <1>1, <1>3, <1>4, <1>5, <1>6, <1>7, <1>8, <1>9 DEF Fetch

\* IF/ID is loaded with what IF worked for.
LEMMA IfIdMoves ==
    ASSUME TypeOK, StageInv, FetchInv, NEW in \in Inputs, Clock(in)
    PROVE  /\ ExRedirects(in) => ~Holds(if_id)'
           /\ InstEnters(in) =>
                 /\ Holds(if_id)' /\ if_id'.pc = if_req.pc /\ if_id'.pred = if_req.pred
                 /\ if_id'.ins = prog[if_req.pc]
                 /\ Holds(if_id) => IdFires(in)
           /\ ~ExRedirects(in) /\ ~InstEnters(in) =>
                 IF IdFires(in) THEN ~Holds(if_id)'
                 ELSE if_id' = if_id /\ (Holds(if_id)' <=> Holds(if_id))
<1>1. IfIdNext(in)
  BY DEF Clock, Core
<1>2. ExRedirects(in) => ~Holds(if_id)'
  BY <1>1 DEF IfIdNext, InstEnters, Holds
<1>3. ASSUME InstEnters(in)
      PROVE  /\ Holds(if_id)' /\ if_id'.pc = if_req.pc /\ if_id'.pred = if_req.pred
             /\ if_id'.ins = prog[if_req.pc]
             /\ Holds(if_id) => IdFires(in)
  <2>1. if_state = "IF_WAIT" /\ ~if_discard /\ ~ExRedirects(in) /\ fetching = if_req.pc
    BY <1>3 DEF InstEnters, InstFires, FetchInv
  <2>2. if_id' = [pc |-> if_req.pc, pred |-> if_req.pred, ghr |-> if_req.ghr,
                  ins |-> prog[fetching]]
    BY <1>1, <1>3, <2>1 DEF IfIdNext
  <2>3. if_id'.pc \in Words
    BY <2>2 DEF TypeOK, Fetches
  <2>4. Holds(if_id)'
    BY <2>3, NoBubble DEF Holds
  <2>5. Holds(if_id) => IdFires(in)
    BY <1>3, <2>1 DEF InstEnters, InstFires, IfIdAllows
  <2> QED
    BY <2>1, <2>2, <2>4, <2>5
<1>4. ASSUME ~ExRedirects(in), ~InstEnters(in)
      PROVE  IF IdFires(in) THEN ~Holds(if_id)'
             ELSE if_id' = if_id /\ (Holds(if_id)' <=> Holds(if_id))
  BY <1>1, <1>4 DEF IfIdNext, IfIdAllows, Holds
<1> QED
  BY <1>2, <1>3, <1>4

\* The oldest address that has not reached ID/EX moves only by a redirection
\* and when ID lets an instruction go, to what was predicted after it.
LEMMA YoungMoves ==
    ASSUME TypeOK, StageInv, FetchInv, ChainInv, NEW in \in Inputs, Clock(in)
    PROVE  /\ ExRedirects(in) => YoungPc' = ExNextPc
           /\ IdFires(in) => YoungPc = if_id.pc /\ YoungPc' = if_id.pred
           /\ ~ExRedirects(in) /\ ~IdFires(in) => YoungPc' = YoungPc
           /\ Holds(if_id)' => FetchPc' = if_id'.pred
<1>1. YoungPc' = IF Holds(if_id)' THEN if_id'.pc ELSE FetchPc'
  BY DEF YoungPc
<1>2. CASE ExRedirects(in)
  BY <1>1, <1>2, StageMoves, FetchMoves, IfIdMoves
<1>3. CASE InstEnters(in)
  BY <1>1, <1>3, StageMoves, FetchMoves, IfIdMoves DEF YoungPc, ChainInv
<1>4. CASE ~ExRedirects(in) /\ ~InstEnters(in)
  BY <1>1, <1>4, StageMoves, FetchMoves, IfIdMoves DEF YoungPc, ChainInv
<1> QED
  BY <1>2, <1>3, <1>4

LEMMA NextMoves ==
    ASSUME TypeOK, StageInv, FetchInv, ChainInv, NEW in \in Inputs, Clock(in)
    PROVE  /\ ExFires(in)  => NextPc = id_ex.pc /\ NextPc' = ExNextPc
           /\ ~ExFires(in) => NextPc' = NextPc
           /\ Holds(id_ex)' => IdFires(in) \/ (id_ex' = id_ex /\ ~MemAllows(in))
           /\ Holds(ex_mem)' => ExFires(in) \/ (ex_mem' = ex_mem /\ ~MemAllows(in))
<1>1. ExFires(in) => Holds(ex_mem)'
  <2>1. ExFires(in) => ex_mem'.pc \in Words
    BY StageMoves, StageFields
  <2> QED
    BY <2>1, NoBubble DEF Holds
<1>2. IdFires(in) => Holds(id_ex)'
  <2>1. IdFires(in) => id_ex'.pc \in Words
    BY StageMoves, StageFields
  <2> QED
    BY <2>1, NoBubble DEF Holds
<1>3. /\ Holds(id_ex)' => IdFires(in) \/ (id_ex' = id_ex /\ ~MemAllows(in))
      /\ Holds(ex_mem)' => ExFires(in) \/ (ex_mem' = ex_mem /\ ~MemAllows(in))
  BY StageMoves DEF Holds
<1>4. NextPc' = IF Holds(id_ex)' THEN id_ex'.pc ELSE YoungPc'
  BY DEF NextPc
<1>5. IdFires(in) => id_ex'.pc = if_id.pc
  BY StageMoves
<1>6. ExRedirects(in) <=> ExFires(in) /\ ExNextPc # id_ex.pred
  BY DEF ExRedirects
<1>7. CASE ExFires(in)
  <2>1. Holds(id_ex) /\ YoungPc = id_ex.pred /\ NextPc = id_ex.pc /\ MemAllows(in)
    BY <1>7, StageMoves DEF ChainInv, NextPc
  <2>2. CASE ExRedirects(in)
    BY <1>3, <1>4, <1>7, <2>1, <2>2, StageMoves, YoungMoves
  <2>3. CASE ~ExRedirects(in) /\ IdFires(in)
    BY <1>2, <1>3, <1>4, <1>5, <1>6, <1>7, <2>1, <2>3, YoungMoves
  <2>4. CASE ~ExRedirects(in) /\ ~IdFires(in)
    BY <1>3, <1>4, <1>6, <1>7, <2>1, <2>4, YoungMoves
  <2> QED
    BY <1>3, <2>2, <2>3, <2>4
<1>8. CASE ~ExFires(in)
  <2>1. CASE IdFires(in)
    BY <1>2, <1>3, <1>4, <1>5, <1>8, <2>1, StageMoves, YoungMoves DEF NextPc
  <2>2. CASE ~IdFires(in)
    <3>1. Holds(id_ex)' <=> Holds(id_ex)
      BY <1>8, <2>2, StageMoves DEF Holds
    <3> QED
      BY <1>3, <1>4, <1>6, <1>8, <2>2, <3>1, YoungMoves DEF NextPc
  <2> QED
    BY <2>1, <2>2
<1> QED
  BY <1>7, <1>8

\* Program order: the oldest address moves when an instruction leaves MEM.
LEMMA OldestMoves ==
    ASSUME TypeOK, StageInv, FetchInv, ChainInv, NEW in \in Inputs, Clock(in)
    PROVE  OldestPc' = IF MemFires(in) THEN NextPc ELSE OldestPc
<1>1. OldestPc = IF Holds(ex_mem) THEN ex_mem.pc ELSE NextPc
  BY DEF OldestPc, NextPc, YoungPc, FetchPc
<1>2. OldestPc' = IF Holds(ex_mem)' THEN ex_mem'.pc ELSE NextPc'
  BY DEF OldestPc, NextPc, YoungPc, FetchPc
<1>3. CASE ExFires(in)
  <2>1. ex_mem'.pc = id_ex.pc /\ ex_mem'.pc \in Words /\ MemAllows(in)
    BY <1>3, StageMoves, StageFields
  <2>2. Holds(ex_mem)'
    BY <2>1, NoBubble DEF Holds
  <2> QED
    BY <1>1, <1>2, <1>3, <2>1, <2>2, NextMoves DEF MemFires
<1>4. CASE ~ExFires(in) /\ MemAllows(in)
  <2>1. ~Holds(ex_mem)'
    BY <1>4, StageMoves DEF Holds
  <2> QED
    BY <1>1, <1>2, <1>4, <2>1, NextMoves DEF MemFires
<1>5. CASE ~MemAllows(in)
  <2>1. ex_mem' = ex_mem /\ Holds(ex_mem) /\ ~ExFires(in)
    BY <1>5, StageMoves
  <2>2. Holds(ex_mem)'
    BY <2>1 DEF Holds
  <2> QED
    BY <1>1, <1>2, <1>5, <2>1, <2>2 DEF MemFires
<1> QED
  BY <1>3, <1>4, <1>5

-----------------------------------------------------------------------------
(***************************************************************************)
(* A clock edge keeps the invariant                                        *)
(***************************************************************************)

LEMMA StageNext ==
    ASSUME TypeOK, StageInv, FetchInv, ChainInv, NEW in \in Inputs, Clock(in)
    PROVE  StageInv' /\ ChainInv'
<1>1. Holds(if_id)' => if_id'.ins = prog'[if_id'.pc]
  BY StageMoves, IfIdMoves, YoungMoves DEF StageInv
<1>2. Holds(id_ex)' => id_ex'.ins = prog'[id_ex'.pc] /\ YoungPc' = id_ex'.pred
  <2>1. CASE IdFires(in)
    BY <2>1, StageMoves, YoungMoves DEF StageInv
  <2>2. CASE id_ex' = id_ex /\ ~MemAllows(in) /\ ~IdFires(in)
    <3>1. (Holds(id_ex)' <=> Holds(id_ex)) /\ ~ExRedirects(in)
      BY <2>2, StageMoves DEF Holds, ExRedirects
    <3> QED
      BY <2>2, <3>1, StageMoves, YoungMoves DEF StageInv, ChainInv
  <2> QED
    BY <2>1, <2>2, NextMoves
<1>3. Holds(ex_mem)' => ex_mem'.ins = prog'[ex_mem'.pc]
  <2>1. CASE ExFires(in)
    BY <2>1, StageMoves DEF StageInv
  <2>2. CASE ex_mem' = ex_mem
    <3>1. Holds(ex_mem)' <=> Holds(ex_mem)
      BY <2>2 DEF Holds
    <3> QED
      BY <2>2, <3>1, StageMoves DEF StageInv
  <2> QED
    BY <2>1, <2>2, NextMoves
<1>4. Holds(if_id)' => FetchPc' = if_id'.pred
  BY YoungMoves
<1> QED
  BY <1>1, <1>2, <1>3, <1>4 DEF StageInv, ChainInv

LEMMA PortNext ==
    ASSUME TypeOK, PortInv, NEW in \in Inputs, Clock(in)
    PROVE  PortInv'
<1>1. /\ mem_req_done' = (~MemAllows(in) /\ ReqDone(in))
      /\ DataPortNext(in)
  BY DEF Clock, Core, MemHandshakeNext
<1>2. /\ in.mem_ready => loading = None
      /\ in.data_valid => loading # None
  BY DEF Inputs
<1>3. CASE ReqFires(in) /\ ex_mem.ins.op = "load"
  <2>1. /\ Holds(ex_mem) /\ ~mem_req_done /\ ReqDone(in) /\ ~DataFires(in) /\ ~MemAllows(in)
    BY <1>2, <1>3 DEF ReqFires, Requests, ReqDone, DataFires, MemAllows
  <2>2. ex_mem' = ex_mem /\ mem_req_done' /\ loading' = ex_mem.addr
    BY <1>1, <1>3, <2>1, StageMoves DEF DataPortNext
  <2> QED
    BY <1>3, <2>1, <2>2 DEF PortInv, Holds
<1>4. CASE DataFires(in)
  <2>1. MemAllows(in) /\ ~ReqFires(in)
    BY <1>2, <1>4 DEF DataFires, WaitsForData, MemAllows, ReqFires
  <2>2. ~mem_req_done' /\ loading' = None
    BY <1>1, <1>4, <2>1 DEF DataPortNext
  <2> QED
    BY <2>2 DEF PortInv
<1>5. CASE ~(ReqFires(in) /\ ex_mem.ins.op = "load") /\ ~DataFires(in)
  <2>1. loading' = loading
    BY <1>1, <1>5 DEF DataPortNext
  <2>2. mem_req_done' <=> mem_req_done
    BY <1>1, <1>5
       DEF PortInv, MemAllows, ReqDone, ReqFires, Requests, Accesses, DataFires, WaitsForData
  <2>3. mem_req_done => ~MemAllows(in)
    BY <1>5 DEF PortInv, MemAllows
  <2>4. mem_req_done => ex_mem' = ex_mem
    BY <2>3, StageMoves
  <2> QED
    BY <2>1, <2>2, <2>4 DEF PortInv, Holds
<1> QED
  BY <1>3, <1>4, <1>5

\* The stalls of ID keep a user of a load behind it until it has left MEM.
LEMMA LoadsAreWaitedFor ==
    ASSUME TypeOK, OperandInv, NEW in \in Inputs, Clock(in), Holds(id_ex)',
           IdFires(in) \/ (id_ex' = id_ex /\ ~MemAllows(in)),
           Holds(ex_mem)', ExFires(in) \/ (ex_mem' = ex_mem /\ ~MemAllows(in)),
           ex_mem'.ins.op = "load", ex_mem'.ins.rd # 0
    PROVE  /\ UsesRs1(id_ex'.ins) => id_ex'.ins.rs1 # ex_mem'.ins.rd
           /\ UsesRs2(id_ex'.ins) => id_ex'.ins.rs2 # ex_mem'.ins.rd
<1>1. CASE IdFires(in)
  <2>1. id_ex'.ins = if_id.ins /\ ~LoadUse(id_ex) /\ ~LoadUse(ex_mem)
    BY <1>1, StageMoves DEF IdFires
  <2>2. CASE ExFires(in)
    BY <2>1, <2>2, StageMoves DEF LoadUse
  <2>3. CASE ex_mem' = ex_mem
    BY <2>1, <2>3 DEF LoadUse, Holds
  <2> QED
    BY <2>2, <2>3
<1>2. CASE id_ex' = id_ex /\ ~MemAllows(in)
  <2>1. ex_mem' = ex_mem /\ Holds(ex_mem) /\ Holds(id_ex)
    BY <1>2, StageMoves DEF Holds
  <2> QED
    BY <1>2, <2>1 DEF OperandInv
<1> QED
  BY <1>1, <1>2

\* The operands of an instruction that enters EX.
LEMMA NewOperand ==
    ASSUME TypeOK, OperandInv, NEW in \in Inputs, Clock(in), IdFires(in)
    PROVE  /\ UsesRs1(id_ex.ins)' => ExA' = PastMem(id_ex.ins.rs1)'
           /\ UsesRs2(id_ex.ins)' => ExB' = PastMem(id_ex.ins.rs2)'
<1>1. /\ id_ex'.ins = if_id.ins
      /\ id_ex'.a = ReadReg(if_id.ins.rs1) /\ id_ex'.b = ReadReg(if_id.ins.rs2)
  BY StageMoves
<1>2. ~Holds(operand_hold)'
  <2>1. MemAllows(in) \/ ~Holds(id_ex)
    BY StageMoves
  <2>2. HoldNext(in)
    BY DEF Clock, Core
  <2>3. operand_hold' = Bubble
    BY <2>1, <2>2 DEF HoldNext, OperandInv, Holds
  <2> QED
    BY <2>3 DEF Holds
<1>3. \A r \in Regs : ~FromWb(r)' => ReadReg(r)' = ReadReg(r)
  <2> TAKE r \in Regs
  <2>1. r # 0 => rf'[r] = ReadReg(r)
    BY StageFields DEF Clock, Core, RegFileNext, ReadReg, FromWb, TypeOK
  <2> QED
    BY <2>1 DEF ReadReg
<1>4. if_id.ins.rs1 \in Regs /\ if_id.ins.rs2 \in Regs
  BY StageFields, InstFields DEF IdFires
<1>5. \A r \in Regs : FromWb(r)' => ReadReg(r)' = mem_wb'.wdata
  BY DEF ReadReg, FromWb
<1>6. UsesRs1(id_ex.ins)' => ExA' = PastMem(id_ex.ins.rs1)'
  <2> PICK r \in Regs : r = if_id.ins.rs1
    BY <1>4
  <2>1. ExA' = ForwardedA' /\ id_ex'.ins.rs1 = r /\ id_ex'.a = ReadReg(r)
    BY <1>1, <1>2 DEF ExA
  <2>2. UsesRs1(id_ex.ins)' =>
          ForwardedA' = IF FromMem(r)' THEN ex_mem'.value
                        ELSE IF FromWb(r)' THEN mem_wb'.wdata ELSE id_ex'.a
    <3>1. ForwardedA' = CASE UsesRs1(id_ex.ins)' /\ FromMem(r)' -> ex_mem'.value
                         [] UsesRs1(id_ex.ins)' /\ FromWb(r)' /\ ~FromMem(r)' -> mem_wb'.wdata
                         [] OTHER -> id_ex'.a
      BY <2>1 DEF ForwardedA, Forwarded, FromMem, FromWb
    <3> QED
      BY <3>1
  <2>3. PastMem(id_ex.ins.rs1)' = IF FromMem(r)' THEN ex_mem'.value ELSE ReadReg(r)'
    BY <2>1 DEF PastMem, FromMem, ReadReg, FromWb
  <2> QED
    BY <1>3, <1>5, <2>1, <2>2, <2>3
<1>7. UsesRs2(id_ex.ins)' => ExB' = PastMem(id_ex.ins.rs2)'
  <2> PICK r \in Regs : r = if_id.ins.rs2
    BY <1>4
  <2>1. ExB' = ForwardedB' /\ id_ex'.ins.rs2 = r /\ id_ex'.b = ReadReg(r)
    BY <1>1, <1>2 DEF ExB
  <2>2. UsesRs2(id_ex.ins)' =>
          ForwardedB' = IF FromMem(r)' THEN ex_mem'.value
                        ELSE IF FromWb(r)' THEN mem_wb'.wdata ELSE id_ex'.b
    <3>1. ForwardedB' = CASE UsesRs2(id_ex.ins)' /\ FromMem(r)' -> ex_mem'.value
                         [] UsesRs2(id_ex.ins)' /\ FromWb(r)' /\ ~FromMem(r)' -> mem_wb'.wdata
                         [] OTHER -> id_ex'.b
      BY <2>1 DEF ForwardedB, Forwarded, FromMem, FromWb
    <3> QED
      BY <3>1
  <2>3. PastMem(id_ex.ins.rs2)' = IF FromMem(r)' THEN ex_mem'.value ELSE ReadReg(r)'
    BY <2>1 DEF PastMem, FromMem, ReadReg, FromWb
  <2> QED
    BY <1>3, <1>5, <2>1, <2>2, <2>3
<1> QED
  BY <1>6, <1>7

LEMMA HeldOperand ==
    ASSUME TypeOK, OperandInv, NEW in \in Inputs, Clock(in),
           Holds(id_ex), id_ex' = id_ex, ~MemAllows(in)
    PROVE  /\ UsesRs1(id_ex.ins) => ExA' = PastMem(id_ex.ins.rs1)'
           /\ UsesRs2(id_ex.ins) => ExB' = PastMem(id_ex.ins.rs2)'
<1>1. operand_hold' = IF Holds(operand_hold) THEN operand_hold
                      ELSE [a |-> ForwardedA, b |-> ForwardedB]
  BY DEF Clock, Core, HoldNext
<1>2. Holds(operand_hold)' /\ operand_hold'.a = ExA /\ operand_hold'.b = ExB
  <2>1. ForwardedA \in Words /\ ForwardedB \in Words
    BY StageFields DEF ForwardedA, ForwardedB, Forwarded, FromMem, FromWb
  <2>2. Holds([a |-> ForwardedA, b |-> ForwardedB])
    BY <2>1, NoBubble
  <2>3. CASE Holds(operand_hold)
    BY <1>1, <2>3 DEF Holds, ExA, ExB
  <2>4. CASE ~Holds(operand_hold)
    BY <1>1, <2>2, <2>4 DEF Holds, ExA, ExB
  <2> QED
    BY <2>3, <2>4
<1>3. ExA' = ExA /\ ExB' = ExB
  BY <1>2 DEF ExA, ExB
<1>4. ex_mem' = ex_mem /\ Holds(ex_mem) /\ ~MemFires(in)
  BY StageMoves DEF MemFires
<1>5. id_ex.ins.rs1 \in Regs /\ id_ex.ins.rs2 \in Regs
  BY StageFields, InstFields
<1>6. \A r \in Regs : ReadReg(r)' = ReadReg(r)
  BY <1>4, RegisterMoves
<1>7. \A r \in Regs : PastMem(r)' = PastMem(r)
  BY <1>4, <1>6 DEF PastMem, FromMem, Holds, WritesReg
<1> QED
  BY <1>3, <1>5, <1>7 DEF OperandInv

LEMMA OperandNext ==
    ASSUME TypeOK, StageInv, FetchInv, ChainInv, OperandInv, NEW in \in Inputs, Clock(in)
    PROVE  OperandInv'
<1>1. /\ Holds(id_ex)' => IdFires(in) \/ (id_ex' = id_ex /\ ~MemAllows(in))
      /\ Holds(ex_mem)' => ExFires(in) \/ (ex_mem' = ex_mem /\ ~MemAllows(in))
  BY NextMoves
<1>2. Holds(id_ex)' =>
        /\ UsesRs1(id_ex.ins)' => ExA' = PastMem(id_ex.ins.rs1)'
        /\ UsesRs2(id_ex.ins)' => ExB' = PastMem(id_ex.ins.rs2)'
  <2>1. CASE IdFires(in)
    BY <2>1, NewOperand
  <2>2. CASE id_ex' = id_ex /\ ~MemAllows(in)
    <3>1. Holds(id_ex)' <=> Holds(id_ex)
      BY <2>2 DEF Holds
    <3> QED
      BY <2>2, <3>1, HeldOperand DEF UsesRs1, UsesRs2, PastMem, FromMem, ReadReg, FromWb
  <2> QED
    BY <1>1, <2>1, <2>2
<1>3. Holds(operand_hold)' => Holds(id_ex)'
  <2>1. operand_hold' # Bubble => ~MemAllows(in) /\ (Holds(id_ex) \/ Holds(operand_hold))
    BY DEF Clock, Core, HoldNext, Holds
  <2>2. operand_hold' # Bubble => Holds(id_ex) /\ ~MemAllows(in) /\ ~IdFires(in)
    BY <2>1, StageMoves DEF OperandInv
  <2>3. operand_hold' # Bubble => id_ex' = id_ex
    BY <2>2, StageMoves
  <2> QED
    BY <2>2, <2>3 DEF Holds
<1>4. Holds(id_ex)' /\ Holds(ex_mem)' /\ ex_mem'.ins.op = "load" /\ ex_mem'.ins.rd # 0 =>
        /\ UsesRs1(id_ex'.ins) => id_ex'.ins.rs1 # ex_mem'.ins.rd
        /\ UsesRs2(id_ex'.ins) => id_ex'.ins.rs2 # ex_mem'.ins.rd
  BY <1>1, LoadsAreWaitedFor
<1> QED
  BY <1>2, <1>3, <1>4 DEF OperandInv, Holds, UsesRs1, UsesRs2

\* When an instruction enters MEM, the operands EX gave it are the registers
\* of the program order.
LEMMA OperandsArrive ==
    ASSUME TypeOK, OperandInv, NEW in \in Inputs, Clock(in), ExFires(in)
    PROVE  /\ UsesRs1(id_ex.ins) => A' = ExA
           /\ UsesRs2(id_ex.ins) => B' = ExB
           /\ ex_mem'.ins = id_ex.ins
<1>1. ex_mem'.ins = id_ex.ins /\ Holds(id_ex) /\ MemAllows(in)
  BY StageMoves
<1>2. id_ex.ins.rs1 \in Regs /\ id_ex.ins.rs2 \in Regs
  BY <1>1, StageFields, InstFields
<1>3. \A r \in Regs :
        ~(Holds(ex_mem) /\ ex_mem.ins.op = "load" /\ ex_mem.ins.rd # 0 /\ ex_mem.ins.rd = r)
          => ReadReg(r)' = PastMem(r)
  <2> TAKE r \in Regs
  <2>1. FromMem(r) => MemFires(in) /\ MemResult = ex_mem.value
    BY <1>1 DEF FromMem, MemFires, MemResult
  <2>2. ReadReg(r)' = IF /\ MemFires(in) /\ WritesReg(ex_mem.ins)
                         /\ ex_mem.ins.rd = r /\ r # 0
                      THEN MemResult ELSE ReadReg(r)
    BY RegisterMoves
  <2> QED
    BY <2>1, <2>2 DEF PastMem, FromMem, MemFires
<1>4. ASSUME UsesRs1(id_ex.ins) PROVE A' = ExA
  <2> PICK r \in Regs : r = id_ex.ins.rs1
    BY <1>2
  <2>1. ExA = PastMem(r) /\ ReadReg(r)' = PastMem(r)
    BY <1>1, <1>3, <1>4 DEF OperandInv
  <2>2. A' = ReadReg(r)'
    BY <1>1 DEF A, ReadReg, FromWb
  <2> QED
    BY <2>1, <2>2
<1>5. ASSUME UsesRs2(id_ex.ins) PROVE B' = ExB
  <2> PICK r \in Regs : r = id_ex.ins.rs2
    BY <1>2
  <2>1. ExB = PastMem(r) /\ ReadReg(r)' = PastMem(r)
    BY <1>1, <1>3, <1>5 DEF OperandInv
  <2>2. B' = ReadReg(r)'
    BY <1>1 DEF B, ReadReg, FromWb
  <2> QED
    BY <2>1, <2>2
<1> QED
  BY <1>1, <1>4, <1>5

LEMMA MemEnters ==
    ASSUME TypeOK, StageInv, FetchInv, ChainInv, OperandInv,
           NEW in \in Inputs, Clock(in), ExFires(in)
    PROVE  MemInv'
<1>1. /\ ex_mem' = [pc |-> id_ex.pc, ins |-> id_ex.ins,
                    value |-> ExValue, addr |-> ExAddr, sdata |-> ExB]
      /\ Holds(id_ex) /\ id_ex.ins \in Instrs
  BY StageMoves, StageFields
<1> DEFINE ins == id_ex.ins
<1>2. /\ ex_mem'.ins = ins /\ ex_mem'.value = ExValue /\ ex_mem'.addr = ExAddr
      /\ ex_mem'.sdata = ExB /\ ex_mem'.pc = id_ex.pc /\ ins.op \in Ops
  BY <1>1, InstFields
<1>3. /\ UsesRs1(ins) => A' = ExA
      /\ UsesRs2(ins) => B' = ExB
  BY OperandsArrive
<1>4. Holds(ex_mem)' /\ OldestPc' = id_ex.pc /\ NextPc' = ExNextPc
  <2>1. ex_mem'.pc \in Words
    BY <1>1, StageFields
  <2>2. Holds(ex_mem)'
    BY <2>1, NoBubble DEF Holds
  <2> QED
    BY <1>2, <2>2, NextMoves DEF OldestPc
<1>5. ASSUME WritesReg(ins), ins.op # "load"
      PROVE  ExValue = Architecture!Result(ex_mem.ins, A, B)'
  BY <1>2, <1>3, <1>4, <1>5
     DEF ExValue, ExAddr, Architecture!Result, Architecture!Wrap, Architecture!After, Wrap,
         After, UsesRs1, UsesRs2, WritesReg, Ops
<1>6. Accesses(ins) => ExAddr = Wrap(A' + ins.imm)
  BY <1>3 DEF ExAddr, Accesses, UsesRs1
<1>7. ins.op = "store" => ExB = B'
  BY <1>3 DEF UsesRs2
<1>8. ExNextPc = Architecture!Successor(ex_mem.ins, A, B)'
  BY <1>2, <1>3, <1>4
     DEF ExNextPc, ExTaken, ExTarget, Architecture!Successor, Architecture!Wrap,
         Architecture!After, Wrap, After, UsesRs1, UsesRs2, Ops
<1> QED
  BY <1>2, <1>4, <1>5, <1>6, <1>7, <1>8 DEF MemInv, Accesses, WritesReg, Wrap

LEMMA MemNext ==
    ASSUME TypeOK, StageInv, FetchInv, ChainInv, OperandInv, MemInv,
           NEW in \in Inputs, Clock(in)
    PROVE  MemInv'
<1>1. CASE ExFires(in)
  BY <1>1, MemEnters
<1>2. CASE ~ExFires(in) /\ MemAllows(in)
  BY <1>2, StageMoves DEF MemInv, Holds
<1>3. CASE ~MemAllows(in)
  <2>1. ex_mem' = ex_mem /\ Holds(ex_mem) /\ ~ExFires(in) /\ ~MemFires(in)
    BY <1>3, StageMoves DEF MemFires
  <2>2. NextPc' = NextPc /\ OldestPc' = OldestPc
    BY <2>1, NextMoves, OldestMoves
  <2>3. \A r \in Regs : ReadReg(r)' = ReadReg(r)
    BY <2>1, RegisterMoves
  <2>4. A' = A /\ B' = B
    <3>1. ex_mem.ins.rs1 \in Regs /\ ex_mem.ins.rs2 \in Regs
      BY <2>1, StageFields, InstFields
    <3>2. PICK r \in Regs : r = ex_mem.ins.rs1
      BY <3>1
    <3>3. PICK q \in Regs : q = ex_mem.ins.rs2
      BY <3>1
    <3>4. A' = ReadReg(r)' /\ B' = ReadReg(q)'
      BY <2>1, <3>2, <3>3 DEF A, B, ReadReg, FromWb
    <3> QED
      BY <2>3, <3>2, <3>3, <3>4 DEF A, B
  <2>5. ex_mem.ins.op # "load" =>
          Architecture!Result(ex_mem.ins, A, B)' = Architecture!Result(ex_mem.ins, A, B)
    BY <2>1, <2>2, <2>4
       DEF Architecture!Result, Architecture!Wrap, Architecture!After
  <2>6. Architecture!Successor(ex_mem.ins, A, B)' = Architecture!Successor(ex_mem.ins, A, B)
    BY <2>1, <2>2, <2>4
       DEF Architecture!Successor, Architecture!Wrap, Architecture!After
  <2> QED
    BY <2>1, <2>2, <2>4, <2>5, <2>6 DEF MemInv, Holds, Accesses, WritesReg, Wrap
<1> QED
  BY <1>1, <1>2, <1>3

LEMMA BtbNext ==
    ASSUME TypeOK, StageInv, BtbInv, NEW in \in Inputs, Clock(in)
    PROVE  BtbInv'
<1>1. prog' = prog /\ PredictorNext(in)
  BY DEF Clock, Core, InstPortNext
<1>2. CASE btb' = btb
  BY <1>1, <1>2 DEF BtbInv, BtbHit
<1>3. CASE btb' # btb
  <2>1. /\ ExFires(in) /\ IsControl(id_ex.ins) /\ ExTaken
        /\ btb' = [btb EXCEPT ![Index(id_ex.pc)] =
                      [valid |-> TRUE, tag |-> TagOf(id_ex.pc), target |-> ExNextPc]]
    BY <1>1, <1>3 DEF PredictorNext, Train, predictorVars
  <2>2. id_ex.pc \in Words /\ id_ex.ins = prog[id_ex.pc]
    BY <2>1, StageFields DEF ExFires, StageInv
  <2>3. prog[id_ex.pc].op # "jalr" => ExNextPc = Wrap(id_ex.pc + prog[id_ex.pc].imm)
    BY <2>1, <2>2 DEF ExNextPc, ExTarget
  <2> SUFFICES ASSUME NEW a \in Words, BtbHit(a)'
               PROVE  /\ IsControl(prog'[a])
                      /\ prog'[a].op # "jalr" => btb'[Index(a)].target = Wrap(a + prog'[a].imm)
    BY DEF BtbInv, IsControl, Wrap
  <2>4. btb \in [Indices -> [valid : BOOLEAN, tag : Words, target : Words]]
    BY DEF TypeOK, PredictorTypeOK
  <2>5. Index(a) \in Indices /\ Index(id_ex.pc) \in Indices
    BY <2>2, IndexFacts
  <2>6. CASE Index(a) = Index(id_ex.pc)
    <3>1. /\ btb'[Index(a)].tag = TagOf(id_ex.pc)
          /\ btb'[Index(a)].target = ExNextPc
      BY <2>1, <2>4, <2>5, <2>6
    <3>2. TagOf(a) = TagOf(id_ex.pc)
      BY <3>1 DEF BtbHit
    <3>3. a = id_ex.pc
      BY <2>2, <2>6, <3>2, IndexTag
    <3> QED
      BY <1>1, <2>1, <2>2, <2>3, <3>1, <3>3
  <2>7. CASE Index(a) # Index(id_ex.pc)
    <3>1. btb'[Index(a)] = btb[Index(a)]
      BY <2>1, <2>4, <2>5, <2>7
    <3>2. BtbHit(a)
      BY <3>1 DEF BtbHit
    <3> QED
      BY <1>1, <3>1, <3>2 DEF BtbInv
  <2> QED
    BY <2>6, <2>7
<1> QED
  BY <1>2, <1>3

LEMMA InvInit == Init => IInv
<1> SUFFICES ASSUME Init PROVE IInv
  OBVIOUS
<1>1. TypeOK
  BY TypeInit
<1>2. /\ ~Holds(if_id) /\ ~Holds(id_ex) /\ ~Holds(ex_mem) /\ ~Holds(operand_hold)
      /\ if_state = "IF_REQ" /\ ~if_discard /\ fetching = None
      /\ ~mem_req_done /\ loading = None
      /\ btb = [i \in Indices |-> NoEntry]
  BY DEF Init, Holds, PredictorInit
<1>3. StageInv /\ FetchInv /\ ChainInv /\ OperandInv /\ MemInv /\ PortInv
  BY <1>2 DEF StageInv, FetchInv, ChainInv, OperandInv, MemInv, PortInv
<1>4. BtbInv
  BY <1>2, IndexFacts DEF BtbInv, BtbHit, NoEntry
<1> QED
  BY <1>1, <1>3, <1>4 DEF IInv

LEMMA InvClock ==
    ASSUME IInv, NEW in \in Inputs, Clock(in)
    PROVE  IInv'
BY TypeNext, StageNext, FetchMoves, OperandNext, MemNext, PortNext, BtbNext DEF IInv

LEMMA InvStutter == ASSUME IInv, UNCHANGED pipeVars PROVE IInv'
<1>1. /\ UNCHANGED <<prog, rf, dmem, if_state, pc_reg, if_req, if_discard, if_redirect_pc>>
      /\ UNCHANGED <<fetching, if_id, id_ex, ex_mem, mem_wb, operand_hold, mem_req_done>>
      /\ UNCHANGED <<loading, ghr, pht, btb>>
  BY DEF pipeVars, fetchVars, stageVars, predictorVars
<1>2. TypeOK'
  BY <1>1 DEF IInv, TypeOK, PredictorTypeOK
<1>3. /\ FetchPc' = FetchPc /\ YoungPc' = YoungPc /\ NextPc' = NextPc /\ OldestPc' = OldestPc
  BY <1>1 DEF FetchPc, YoungPc, NextPc, OldestPc, Holds
<1>4. StageInv' /\ FetchInv' /\ ChainInv' /\ PortInv'
  BY <1>1, <1>3 DEF IInv, StageInv, FetchInv, ChainInv, PortInv, Holds
<1>5. OperandInv'
  BY <1>1 DEF IInv, OperandInv, Holds, PastMem, FromMem, FromWb, ReadReg, ExA, ExB, ForwardedA,
              ForwardedB, Forwarded, UsesRs1, UsesRs2, WritesReg
<1>6. A' = A /\ B' = B
  BY <1>1 DEF A, B, ReadReg, FromWb, Holds, WritesReg
<1>7. MemInv'
  BY <1>1, <1>3, <1>6
     DEF IInv, MemInv, Holds, Accesses, WritesReg, Wrap, Architecture!Result,
         Architecture!Successor, Architecture!Wrap, Architecture!After
<1>8. BtbInv'
  BY <1>1 DEF IInv, BtbInv, BtbHit, IsControl, Wrap
<1> QED
  BY <1>2, <1>4, <1>5, <1>7, <1>8 DEF IInv

LEMMA InvNext == ASSUME IInv, [Next]_pipeVars PROVE IInv'
BY InvClock, InvStutter DEF Next

LEMMA Invariance == Spec => []IInv
  BY InvInit, InvNext, PTL DEF Spec

-----------------------------------------------------------------------------
(***************************************************************************)
(* The theorems                                                            *)
(***************************************************************************)

\* Every register of the pipeline keeps a value of its width.
THEOREM TypeCorrect == Spec => []TypeOK
  BY Invariance, PTL DEF IInv

LEMMA PortGivesAsksOnce == PortInv => AsksOnce
BY DEF PortInv, AsksOnce, Requests

\* A load that has been accepted asks the data port no second time, however long
\* it waits for its answer (custom_cpu_prj4.v:576-596).
THEOREM MemoryIsAskedOnce == Spec => []AsksOnce
  BY Invariance, PortGivesAsksOnce, PTL DEF IInv

LEMMA BtbGivesTarget == BtbInv => PredictsOwnTarget
BY DEF BtbInv, PredictsOwnTarget, PredictsTaken, PredictedPc

\* A prediction is that of the instruction at the very address, with any
\* number of addresses for each entry of the buffer.
THEOREM PredictionIsOwn == Spec => []PredictsOwnTarget
  BY Invariance, BtbGivesTarget, PTL DEF IInv

LEMMA ArchitectureInit == Init => Architecture!Init
<1> SUFFICES ASSUME Init PROVE Architecture!Init
  OBVIOUS
<1>1. TypeOK
  BY TypeInit
<1>2. [r \in Regs |-> ReadReg(r)] \in [Regs -> Words] /\ ReadReg(0) = 0
  BY <1>1, ReadIsWord DEF ReadReg
<1>3. OldestPc = 0
  BY DEF Init, OldestPc, Holds
<1> QED
  BY <1>1, <1>2, <1>3
     DEF TypeOK, Architecture!Init, Architecture!Words, Architecture!Instrs, Architecture!Ops,
         Words, Instrs, Ops

\* The edge at which an instruction leaves MEM executes it.
LEMMA CommitExecutes ==
    ASSUME IInv, NEW in \in Inputs, Clock(in), MemFires(in)
    PROVE  Architecture!Execute
<1> DEFINE ins  == ex_mem.ins
           regs == [r \in Regs |-> ReadReg(r)]
<1>1. /\ Holds(ex_mem) /\ MemAllows(in) /\ OldestPc = ex_mem.pc /\ ins = prog[OldestPc]
      /\ ins \in Instrs /\ prog' = prog
  BY StageMoves, StageFields DEF IInv, MemFires, OldestPc, StageInv
<1>2. regs[ins.rs1] = A /\ regs[ins.rs2] = B /\ ins.rd \in Regs
  BY <1>1, InstFields DEF A, B
<1>3. OldestPc' = Architecture!Successor(ins, A, B)
  BY <1>1, OldestMoves DEF IInv, MemInv
<1>4. WritesReg(ins) => MemResult = Architecture!Result(ins, A, B)
  <2>1. CASE ins.op = "load"
    <3>1. loading = ex_mem.addr /\ ex_mem.addr = Wrap(A + ins.imm)
      BY <1>1, <2>1
         DEF IInv, PortInv, MemInv, Accesses, MemAllows, DataFires, Inputs
    <3> QED
      BY <2>1, <3>1 DEF MemResult, Architecture!Result, Architecture!Wrap, Wrap
  <2>2. CASE ins.op # "load"
    BY <1>1, <2>2 DEF IInv, MemInv, MemResult
  <2> QED
    BY <2>1, <2>2
<1>5. regs' = IF WritesReg(ins) /\ ins.rd # 0
              THEN [regs EXCEPT ![ins.rd] = Architecture!Result(ins, A, B)] ELSE regs
  <2>1. \A r \in Regs : ReadReg(r)' = IF WritesReg(ins) /\ ins.rd = r /\ r # 0
                                      THEN MemResult ELSE ReadReg(r)
    BY RegisterMoves DEF IInv
  <2>2. regs' = [r \in Regs |-> ReadReg(r)']
    OBVIOUS
  <2> QED
    BY <1>2, <1>4, <2>1, <2>2
<1>6. dmem' = IF ins.op = "store"
              THEN [dmem EXCEPT ![Wrap(A + ins.imm)] = B] ELSE dmem
  <2>1. ins.op = "store" => ReqFires(in)
    BY <1>1 DEF IInv, PortInv, MemAllows, ReqDone
  <2>2. ins.op = "store" => ex_mem.addr = Wrap(A + ins.imm) /\ ex_mem.sdata = B
    BY <1>1 DEF IInv, MemInv, Accesses
  <2> QED
    BY <2>1, <2>2 DEF Clock, DataPortNext
<1>7. (Architecture!WritesReg(ins) <=> WritesReg(ins)) /\ Architecture!Wrap(A + ins.imm) = Wrap(A + ins.imm)
  BY DEF Architecture!WritesReg, Architecture!Wrap, WritesReg, Wrap
<1> HIDE DEF ins, regs
<1>8. ins = prog[OldestPc] /\ prog' = prog
  BY <1>1
<1>9. /\ OldestPc' = Architecture!Successor(ins, regs[ins.rs1], regs[ins.rs2])
      /\ regs' = IF Architecture!WritesReg(ins) /\ ins.rd # 0
                 THEN [regs EXCEPT ![ins.rd] =
                          Architecture!Result(ins, regs[ins.rs1], regs[ins.rs2])]
                 ELSE regs
      /\ dmem' = IF ins.op = "store"
                 THEN [dmem EXCEPT ![Architecture!Wrap(regs[ins.rs1] + ins.imm)] = regs[ins.rs2]]
                 ELSE dmem
  BY <1>2, <1>3, <1>5, <1>6, <1>7
<1>10. ASSUME NEW i, i = prog[OldestPc]
       PROVE  /\ OldestPc' = Architecture!Successor(i, regs[i.rs1], regs[i.rs2])
              /\ regs' = IF Architecture!WritesReg(i) /\ i.rd # 0
                         THEN [regs EXCEPT ![i.rd] =
                                  Architecture!Result(i, regs[i.rs1], regs[i.rs2])]
                         ELSE regs
              /\ dmem' = IF i.op = "store"
                         THEN [dmem EXCEPT ![Architecture!Wrap(regs[i.rs1] + i.imm)] = regs[i.rs2]]
                         ELSE dmem
  <2>1. i = ins
    BY <1>8, <1>10
  <2> QED
    BY <1>9, <2>1
<1> USE DEF regs
<1> QED
  BY <1>8, <1>10, Zenon DEF Architecture!Execute

\* Any other edge leaves what the architecture sees.
LEMMA OthersStutter ==
    ASSUME IInv, NEW in \in Inputs, Clock(in), ~MemFires(in)
    PROVE  UNCHANGED Architecture!isaVars
<1>1. OldestPc' = OldestPc
  BY OldestMoves DEF IInv
<1>2. \A r \in Regs : ReadReg(r)' = ReadReg(r)
  BY RegisterMoves DEF IInv
<1>3. [r \in Regs |-> ReadReg(r)]' = [r \in Regs |-> ReadReg(r)]
  <2>1. [r \in Regs |-> ReadReg(r)]' = [r \in Regs |-> ReadReg(r)']
    OBVIOUS
  <2> QED
    BY <1>2, <2>1
<1>4. prog' = prog
  BY DEF Clock, InstPortNext
<1>5. dmem' = dmem
  <2>1. ~(ReqFires(in) /\ ex_mem.ins.op = "store")
    BY DEF ReqFires, Requests, MemFires, MemAllows, ReqDone
  <2> QED
    BY <2>1 DEF Clock, DataPortNext
<1> QED
  BY <1>1, <1>3, <1>4, <1>5 DEF Architecture!isaVars

LEMMA StepImplements ==
    ASSUME IInv, [Next]_pipeVars
    PROVE  [Architecture!Execute]_Architecture!isaVars
<1>1. CASE Next
  BY <1>1, CommitExecutes, OthersStutter DEF Next
<1>2. CASE UNCHANGED pipeVars
  <2>1. OldestPc' = OldestPc /\ UNCHANGED <<prog, dmem>>
    BY <1>2 DEF pipeVars, fetchVars, stageVars, OldestPc, Holds
  <2>2. [r \in Regs |-> ReadReg(r)]' = [r \in Regs |-> ReadReg(r)]
    BY <1>2 DEF pipeVars, stageVars, ReadReg, FromWb, Holds, WritesReg
  <2> QED
    BY <2>1, <2>2 DEF Architecture!isaVars
<1> QED
  BY <1>1, <1>2

\* Whatever is predicted, fetched in vain, forwarded, held or stalled, the
\* instructions that commit are those of the sequential architecture, each
\* once and in order.
THEOREM PipelineImplementsIsa == Spec => ImplementsIsa
<1>1. Spec => []IInv
  BY Invariance
<1>2. IInv /\ [Next]_pipeVars => [Architecture!Execute]_Architecture!isaVars
  BY StepImplements
<1> QED
  BY <1>1, <1>2, ArchitectureInit, PTL DEF Spec, ImplementsIsa, Architecture!Spec

=============================================================================
