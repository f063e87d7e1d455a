---------------------------- MODULE SingleCycle ----------------------------
(***************************************************************************)
(* The single-cycle core with its register file, the ALU, the shifter and  *)
(* the ideal memory.  A step is a clock edge after the reset.  The fields  *)
(* of an instruction and its immediate are inputs of the cycle; what the   *)
(* core derives from them is an operator of the wire's name.               *)
(***************************************************************************)
EXTENDS Integers

CONSTANTS
    ByteBits,       \* 8 in the code
    MemWords,       \* words of the memory, 1024 in the code
    Regs,           \* numbers of the registers, 0 .. 31 in the code
    Instructions    \* the instructions that a program may hold

ASSUME SizesAssumption == ByteBits \in Nat \ {0} /\ MemWords \in Nat \ {0}
ASSUME RegsAssumption  == 0 \in Regs

VARIABLES pc, rf, mem

vars == <<pc, rf, mem>>

Width == 4 * ByteBits
Size  == 2 ^ Width
Words == 0 .. Size - 1
Wrap(v) == v % Size
Wire(p) == IF p THEN 1 ELSE 0
Sign(v) == v >= Size \div 2

Types == {"R", "I", "L", "S", "B", "LUI", "AUIPC", "JAL", "JALR"}

\* The encodings of RV32I and of MUL; alt is inst[30].  A format without funct3 or
\* funct7 has bits of the immediate there: inst[30] tells SUB from ADD and the two
\* right shifts apart, is zero in the other R instructions and in SLLI, and is
\* either in an immediate.
Funct3(type) == CASE type = "B" -> {0, 1, 4, 5, 6, 7}
                  [] type = "L" -> {0, 1, 2, 4, 5}
                  [] type = "S" -> 0 .. 2
                  [] OTHER      -> 0 .. 7

ASSUME InstructionsAssumption ==
    \A i \in Instructions :
        /\ i.type \in Types /\ i.funct3 \in Funct3(i.type)
        /\ i.alt \in BOOLEAN /\ i.mul \in BOOLEAN
        /\ i.alt /\ i.type = "R" => i.funct3 \in {0, 5}
        /\ i.alt /\ i.type = "I" => i.funct3 # 1
        /\ i.mul => i.type = "R" /\ i.funct3 = 0 /\ ~i.alt
        /\ i.rd \in Regs /\ i.rs1 \in Regs /\ i.rs2 \in Regs
        /\ i.imm \in Words

Init ==
    /\ pc = 0
    /\ rf \in [Regs -> Words]                  \* not reset
    /\ mem \in [0 .. MemWords - 1 -> Words]

---------------------------------------------------------------------------
(* The ALU and the shifter, which all cores share.  A word is a number of  *)
(* Width bits, a wire of one bit is a Boolean.                             *)

\* The bits of a word that are ones, and the word that has these bits.
Ones(v)   == {n \in 0 .. Width - 1 : (v \div 2 ^ n) % 2 = 1}
OfOnes(s) == CHOOSE v \in Words : Ones(v) = s

\* alu.v: ALUop is <<ALUop[2], ALUop[1], ALUop[0]>>.
Cin(op)         == op[1] \/ op[3]
Signed_B(b, op) == IF Cin(op) THEN Size - 1 - b ELSE b
add_res(a, b, op)  == a + Signed_B(b, op) + Wire(Cin(op))      \* one bit wider
CarryOut(a, b, op) == IF Cin(op) THEN add_res(a, b, op) < Size ELSE add_res(a, b, op) >= Size
Overflow(a, b, op) == /\ Sign(a) = Sign(Signed_B(b, op))
                      /\ Sign(a) # Sign(Wrap(add_res(a, b, op)))

\* The sign of the difference alone.
SltNoOverflow(a, b, op) == Sign(Wrap(add_res(a, b, op)))

\* The difference is negative, or it overflowed and shows the other sign.
Slt(a, b, op) == Sign(Wrap(add_res(a, b, op))) # Overflow(a, b, op)

AluResult(a, b, op) ==
    CASE op = <<FALSE, FALSE, FALSE>> -> OfOnes(Ones(a) \cap Ones(b))
      [] op = <<FALSE, FALSE, TRUE>>  -> OfOnes(Ones(a) \cup Ones(b))
      [] op[2] /\ ~op[3]              -> Wrap(add_res(a, b, op))
      [] op = <<TRUE, TRUE, TRUE>>    -> Wire(Slt(a, b, op))
      [] op = <<TRUE, FALSE, FALSE>>  -> OfOnes((Ones(a) \cup Ones(b)) \ (Ones(a) \cap Ones(b)))
      [] op = <<TRUE, FALSE, TRUE>>   -> Size - 1 - OfOnes(Ones(a) \cup Ones(b))
      [] op = <<FALSE, TRUE, TRUE>>   -> Wire(CarryOut(a, b, op))

\* shifter.v: Shiftop is <<Shiftop[1], Shiftop[0]>>.
a_sign_ext(a) == IF Sign(a) THEN a + Size * (Size - 1) ELSE a   \* twice as wide
ShiftResult(a, b, op) ==
    CASE op = <<FALSE, FALSE>> -> Wrap(a * 2 ^ b)
      [] op = <<FALSE, TRUE>>  -> a \div 2 ^ b
      [] op = <<TRUE, TRUE>>   -> Wrap(a_sign_ext(a) \div 2 ^ b)
      [] OTHER                 -> 0

---------------------------------------------------------------------------
(* Decoding. *)

\* The n-th bit of funct3.
F(i, n) == (i.funct3 \div 2 ^ n) % 2 = 1

is_shift(i) == ~F(i, 1) /\ F(i, 0) /\ i.type \in {"R", "I"}
RegWrite(i) == i.type \in {"R", "AUIPC", "I", "JAL", "JALR", "L", "LUI"}

shiftop(i) == <<i.alt, F(i, 2)>>

aluop(i) ==
    CASE i.type = "R" /\ i.funct3 = 0                      -> <<i.alt, TRUE, FALSE>>
      [] i.type = "I" /\ i.funct3 = 0                      -> <<FALSE, TRUE, FALSE>>
      [] i.type \in {"R", "I"} /\ F(i, 2)                  -> <<F(i, 2) # F(i, 1), FALSE, F(i, 1) # F(i, 0)>>
      [] i.type \in {"R", "I"} /\ ~F(i, 2) /\ F(i, 1)      -> <<~F(i, 0), TRUE, TRUE>>
      [] i.type = "B"                                      -> <<~F(i, 1), TRUE, F(i, 2)>>
      [] OTHER                                             -> <<FALSE, TRUE, FALSE>>

---------------------------------------------------------------------------
(* Operands and results. *)

ReadPort(file, r) == IF r = 0 THEN 0 ELSE file[r]
rdata1(i) == ReadPort(rf, i.rs1)
rdata2(i) == ReadPort(rf, i.rs2)

b_reg(i) == (i.type = "R" /\ ~is_shift(i)) \/ i.type = "B"
b_imm(i) == (i.type = "I" /\ ~is_shift(i)) \/ i.type \in {"L", "S", "AUIPC", "JALR"}
alu_a(i) == IF i.type \in {"AUIPC", "JAL"} THEN pc ELSE rdata1(i)
alu_b(i) == IF b_reg(i) THEN rdata2(i) ELSE IF b_imm(i) THEN i.imm ELSE 0
alu_res(i) == AluResult(alu_a(i), alu_b(i), aluop(i))

shift_b(i)   == (IF i.type = "I" THEN i.imm ELSE rdata2(i)) % Width
shift_res(i) == ShiftResult(rdata1(i), shift_b(i), shiftop(i))

branch_taken(i, res) ==
    /\ i.type = "B"
    /\ \/ i.funct3 = 0 /\ res = 0
       \/ i.funct3 = 1 /\ res # 0
       \/ i.funct3 \in {4, 6} /\ res % 2 = 1
       \/ i.funct3 \in {5, 7} /\ res % 2 = 0

pc_next(i) ==
    CASE i.type = "JAL" \/ branch_taken(i, alu_res(i)) -> Wrap(pc + i.imm)
      [] i.type = "JALR" -> LET to == Wrap(rdata1(i) + i.imm) IN to - (to % 2)
      [] OTHER           -> Wrap(pc + 4)

---------------------------------------------------------------------------
(* Byte lanes.  Word w of the memory is addressed by the low bits of the   *)
(* address; lane n holds the bits n * ByteBits and up.                     *)

Lanes == 0 .. 3
Lane(w, n) == (w \div 2 ^ (ByteBits * n)) % 2 ^ ByteBits
FromLanes(f) == f[0] + f[1] * 2 ^ ByteBits + f[2] * 2 ^ (2 * ByteBits) + f[3] * 2 ^ (3 * ByteBits)
Row(a) == (a \div 4) % MemWords

\* The strobes and the data of a store of v to address a.
Write_strb(i, a) == CASE i.funct3 = 2 -> Lanes
                      [] i.funct3 = 1 -> {n \in Lanes : n \div 2 = (a \div 2) % 2}
                      [] i.funct3 = 0 -> {a % 4}
Write_data(i, a, v) ==
    CASE i.funct3 = 2 -> v
      [] i.funct3 = 1 -> (v % 2 ^ (2 * ByteBits)) * 2 ^ (2 * ByteBits * ((a \div 2) % 2))
      [] i.funct3 = 0 -> (v % 2 ^ ByteBits) * 2 ^ (ByteBits * (a % 4))

\* v has n bytes; its sign is repeated if the load is a signed one.
Extend(i, v, n) == IF ~F(i, 2) /\ v >= 2 ^ (n * ByteBits - 1)
                   THEN v + Size - 2 ^ (n * ByteBits) ELSE v

load_data(i, a, word) ==
    CASE i.funct3 % 4 = 2 -> word
      [] i.funct3 % 4 = 1 -> Extend(i, (word \div 2 ^ (2 * ByteBits * ((a \div 2) % 2))) % 2 ^ (2 * ByteBits), 2)
      [] i.funct3 % 4 = 0 -> Extend(i, Lane(word, a % 4), 1)

data_wb(i) ==
    CASE i.type = "L"                -> load_data(i, alu_res(i), mem[Row(alu_res(i))])
      [] i.type \in {"JAL", "JALR"}  -> Wrap(pc + 4)
      [] i.type = "LUI"              -> i.imm
      [] is_shift(i)                 -> shift_res(i)
      [] OTHER                       -> alu_res(i)

---------------------------------------------------------------------------
(* The clock edge. *)

\* The register file after value v is written back.
RfAfter(i, v) == IF RegWrite(i) /\ i.rd # 0 THEN [rf EXCEPT ![i.rd] = v] ELSE rf

\* The memory after a store to a: the lanes with a strobe are written.
MemAfter(i, a, strb, data) ==
    IF i.type # "S" THEN mem
    ELSE [mem EXCEPT ![Row(a)] =
             FromLanes([n \in Lanes |-> IF n \in strb THEN Lane(data, n) ELSE Lane(@, n)])]

rf_next(i)  == RfAfter(i, data_wb(i))
mem_next(i) == LET a == alu_res(i)
               IN  MemAfter(i, a, Write_strb(i, a), Write_data(i, a, rdata2(i)))

Clock(i) ==
    /\ pc' = pc_next(i)
    /\ rf' = rf_next(i)
    /\ mem' = mem_next(i)

\* The architecture, on the registers as the ports show them and the bytes
\* of the memory.
Shown(file) == [r \in Regs |-> ReadPort(file, r)]
BytesOf(m)  == [a \in 0 .. 4 * MemWords - 1 |-> Lane(m[a \div 4], a % 4)]
Arch == INSTANCE Rv32i WITH x <- Shown(rf), bytes <- BytesOf(mem)

\* Programs of this core do without MUL.
Rv32iInstructions == {i \in Instructions : ~i.mul /\ Arch!Legal(i)}

Next == \E i \in Rv32iInstructions : Clock(i)

Spec == Init /\ [][Next]_vars

---------------------------------------------------------------------------

\* A next PC, register file and memory are those that the architecture defines.
AsDefined(i, nextPc, nextRf, nextMem) ==
    /\ nextPc = Arch!NextPc(i)
    /\ Shown(nextRf) = Arch!NextX(i)
    /\ BytesOf(nextMem) = Arch!NextBytes(i)

\* From every state, every instruction leaves the PC, the registers and the
\* memory that the architecture defines: the subtraction that compares signed
\* numbers and its overflow, the carry that compares unsigned ones, the shift of
\* the extended operand, the strobes of a store and the lane of a load agree with
\* arithmetic on numbers and bytes (simple_cpu.v, alu.v, shifter.v).
ComputesRv32i == \A i \in Rv32iInstructions : AsDefined(i, pc_next(i), rf_next(i), mem_next(i))

=============================================================================
