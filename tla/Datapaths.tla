----------------------------- MODULE Datapaths -----------------------------
(***************************************************************************)
(* What the other two cores compute from the operands of an instruction,   *)
(* with the ALU and the shifter of the single-cycle core.  When the        *)
(* operands are the right ones, and when each result is kept and used, is  *)
(* the subject of Pipeline and MultiCycle; here the operands are the       *)
(* registers.                                                              *)
(***************************************************************************)
EXTENDS SingleCycle

-----------------------------------------------------------------------------
(* The pipelined core, custom_cpu_prj4.v: decoding, EX and MEM. *)

id_is_mul(i)   == i.type = "R" /\ i.funct3 = 0 /\ i.mul
id_is_logic(i) == i.type \in {"R", "I"} /\ F(i, 2) /\ ~is_shift(i)
id_is_comp(i)  == i.type \in {"R", "I"} /\ ~F(i, 2) /\ F(i, 1)

\* The comparison of a branch; without funct3[1], all of them are unsigned.
BranchAluopSlip(i) == <<~F(i, 2), TRUE, F(i, 2)>>
BranchAluop(i)     == <<~F(i, 2) \/ ~F(i, 1), TRUE, F(i, 2) \/ F(i, 1)>>

id_aluop(i) ==
    CASE i.type = "R" /\ i.funct3 = 0 /\ ~id_is_mul(i) -> <<i.alt, TRUE, FALSE>>
      [] i.type = "I" /\ i.funct3 = 0                  -> <<FALSE, TRUE, FALSE>>
      [] id_is_logic(i) -> <<F(i, 2) # F(i, 1), FALSE, F(i, 1) # F(i, 0)>>
      [] id_is_comp(i)  -> <<~F(i, 0), TRUE, TRUE>>
      [] i.type = "B"   -> BranchAluop(i)
      [] id_is_mul(i)   -> <<FALSE, FALSE, FALSE>>
      [] OTHER          -> <<FALSE, TRUE, FALSE>>

ex_alu_a(i) == CASE i.type \in {"AUIPC", "JAL"} -> pc
                 [] i.type = "LUI"              -> 0
                 [] OTHER                       -> rdata1(i)
ex_alu_b(i) == IF i.type \in {"R", "B"} THEN rdata2(i) ELSE i.imm
ex_alu_result_raw(i) == AluResult(ex_alu_a(i), ex_alu_b(i), id_aluop(i))

ex_shift_result(i) == ShiftResult(rdata1(i), shift_b(i), shiftop(i))
ex_mul_result(i)   == Wrap(rdata1(i) * rdata2(i))
ex_jalr_target(i)  == LET to == ex_alu_result_raw(i) IN to - (to % 2)

ex_actual_next_pc(i) ==
    CASE i.type = "JALR" -> ex_jalr_target(i)
      [] i.type = "JAL" \/ branch_taken(i, ex_alu_result_raw(i)) -> Wrap(pc + i.imm)
      [] OTHER -> Wrap(pc + 4)

ex_alu_result(i) == IF i.type = "JALR" THEN ex_jalr_target(i) ELSE ex_alu_result_raw(i)

ex_mem_wb_value(i) ==
    CASE id_is_mul(i)               -> ex_mul_result(i)
      [] is_shift(i)                -> ex_shift_result(i)
      [] i.type \in {"JAL", "JALR"} -> Wrap(pc + 4)
      [] OTHER                      -> ex_alu_result(i)

mem_stage_wdata(i) ==
    IF i.type = "L"
    THEN load_data(i, ex_alu_result(i), mem[Row(ex_alu_result(i))])
    ELSE ex_mem_wb_value(i)

\* The lanes of a store.
mem_strb(i, a) == CASE i.funct3 = 2 -> Lanes
                    [] i.funct3 = 1 -> IF (a \div 2) % 2 = 0 THEN {0, 1} ELSE {2, 3}
                    [] i.funct3 = 0 -> {a % 4}
mem_stored(i) == LET a == ex_alu_result(i)
                 IN  MemAfter(i, a, mem_strb(i, a), Write_data(i, a, rdata2(i)))

-----------------------------------------------------------------------------
(* The multi-cycle core, custom_cpu_prj3.v: one ALU in several states. *)

\* aluop in EX; a shift to the right takes no result from the ALU.
aluop_EX(i) ==
    CASE i.type = "R" /\ i.funct3 = 0 -> <<i.alt, TRUE, FALSE>>
      [] i.type \in {"R", "I"} /\ F(i, 2) /\ ~is_shift(i) ->
            <<F(i, 2) # F(i, 1), FALSE, F(i, 1) # F(i, 0)>>
      [] i.type \in {"R", "I"} /\ i.funct3 \in {2, 3} -> <<~F(i, 0), TRUE, TRUE>>
      [] i.type = "B" -> <<~F(i, 2) \/ ~F(i, 1), TRUE, F(i, 2) \/ F(i, 1)>>
      [] OTHER        -> <<FALSE, TRUE, FALSE>>

alu_a_EX(i) == CASE i.type \in {"AUIPC", "JAL"} -> pc
                 [] i.type = "LUI"              -> 0
                 [] OTHER                       -> rdata1(i)
alu_b_EX(i) == CASE i.type \in {"R", "B"} -> rdata2(i)
                 [] i.type = "LUI"        -> 0
                 [] OTHER                 -> i.imm
alu_res_EX(i) == AluResult(alu_a_EX(i), alu_b_EX(i), aluop_EX(i))

\* The target of a branch comes from the ALU in ID.
aluout_ID(i) == AluResult(pc, i.imm, <<FALSE, TRUE, FALSE>>)

exec_result(i) ==
    CASE is_shift(i)     -> shift_res(i)
      [] i.type = "JALR" -> alu_res_EX(i) - (alu_res_EX(i) % 2)
      [] OTHER           -> alu_res_EX(i)

pc_next_EX(i) ==
    CASE i.type \in {"JAL", "JALR"}        -> exec_result(i)
      [] branch_taken(i, alu_res_EX(i))    -> aluout_ID(i)
      [] OTHER                             -> Wrap(pc + 4)

data_wb_WB(i) ==
    CASE i.type \in {"JAL", "JALR"} -> Wrap(pc + 4)
      [] i.type = "LUI"             -> i.imm
      [] i.type = "L"               -> load_data(i, exec_result(i), mem[Row(exec_result(i))])
      [] OTHER                      -> exec_result(i)

strb_ST(i, a) == CASE i.funct3 = 2 -> Lanes
                   [] i.funct3 = 1 -> IF (a \div 2) % 2 = 1 THEN {2, 3} ELSE {0, 1}
                   [] i.funct3 = 0 -> {a % 4}
mem_ST(i) == LET a == exec_result(i)
             IN  MemAfter(i, a, strb_ST(i, a), Write_data(i, a, rdata2(i)))

-----------------------------------------------------------------------------

\* The stages of the pipelined core and the states of the multi-cycle core
\* compute what the architecture defines, with decoders of their own: the next
\* PC, which the prediction is compared with, the value written back and the
\* lanes of a store; in the one core MUL and what the MEM stage passes on, in
\* the other an ALU that adds for a branch in ID and compares in EX, and one
\* result for shifts, sums and jump targets.
CoresComputeRv32im ==
    /\ \A i \in {j \in Instructions : Arch!Legal(j)} :
          AsDefined(i, ex_actual_next_pc(i), RfAfter(i, mem_stage_wdata(i)), mem_stored(i))
    /\ \A i \in Rv32iInstructions :
          AsDefined(i, pc_next_EX(i), RfAfter(i, data_wb_WB(i)), mem_ST(i))

=============================================================================
