------------------------------- MODULE Rv32i -------------------------------
(***************************************************************************)
(* What an instruction of RV32I, and MUL, computes, in the terms of the    *)
(* architecture: arithmetic on signed and unsigned numbers and a memory of *)
(* bytes.  A word is four little-endian bytes of ByteBits bits.            *)
(***************************************************************************)
EXTENDS Integers

CONSTANTS
    ByteBits,     \* 8 in the code
    MemWords      \* words of the memory, which repeats in the address space

VARIABLES pc, x, bytes

Width     == 4 * ByteBits
Size      == 2 ^ Width
Wrap(v)   == v % Size
Signed(v) == IF v >= Size \div 2 THEN v - Size ELSE v
Bit(v, n) == (v \div 2 ^ n) % 2

\* The word in which these bits are ones.
WordOf(bits) == CHOOSE v \in 0 .. Size - 1 : {n \in 0 .. Width - 1 : Bit(v, n) = 1} = bits

\* An instruction has a type, the fields funct3, alt (inst[30], bit 5 of funct7)
\* and mul (bit 0 of funct7), three registers, and its immediate, extended.
Left(i)   == x[i.rs1]
Right(i)  == IF i.type \in {"R", "B"} THEN x[i.rs2] ELSE i.imm
Places(i) == Right(i) % Width

\* The bits in which the operands differ, and those that are m in one of
\* them at least.
Differ(i)    == {n \in 0 .. Width - 1 : Bit(Left(i), n) # Bit(Right(i), n)}
Either(i, m) == {n \in 0 .. Width - 1 : m \in {Bit(Left(i), n), Bit(Right(i), n)}}

Computed(i) ==
    CASE i.mul -> Wrap(Left(i) * Right(i))
      [] ~i.mul /\ i.funct3 = 0 -> IF i.type = "R" /\ i.alt
                                   THEN Wrap(Left(i) - Right(i)) ELSE Wrap(Left(i) + Right(i))
      [] i.funct3 = 1 -> Wrap(Left(i) * 2 ^ Places(i))
      [] i.funct3 = 2 -> IF Signed(Left(i)) < Signed(Right(i)) THEN 1 ELSE 0
      [] i.funct3 = 3 -> IF Left(i) < Right(i) THEN 1 ELSE 0
      [] i.funct3 = 4 -> WordOf(Differ(i))
      [] i.funct3 = 5 -> Wrap((IF i.alt THEN Signed(Left(i)) ELSE Left(i)) \div 2 ^ Places(i))
      [] i.funct3 = 6 -> WordOf(Either(i, 1))
      [] i.funct3 = 7 -> WordOf((0 .. Width - 1) \ Either(i, 0))

Taken(i) ==
    CASE i.funct3 = 0 -> Left(i) = Right(i)
      [] i.funct3 = 1 -> Left(i) # Right(i)
      [] i.funct3 = 4 -> Signed(Left(i)) < Signed(Right(i))
      [] i.funct3 = 5 -> Signed(Left(i)) >= Signed(Right(i))
      [] i.funct3 = 6 -> Left(i) < Right(i)
      [] i.funct3 = 7 -> Left(i) >= Right(i)

\* An access is to 1, 2 or 4 bytes: bytes[At(i, k)] for k \in 0 .. Length(i) - 1.
Length(i)  == 2 ^ (i.funct3 % 4)
Target(i)  == Wrap(Left(i) + i.imm)
At(i, k)   == (Target(i) + k) % (4 * MemWords)

\* Programs access aligned data and jump to whole instructions.
Legal(i) == CASE i.type \in {"L", "S"} -> Target(i) % Length(i) = 0
              [] i.type = "JALR"       -> Target(i) % 4 \in {0, 1}
              [] OTHER                 -> TRUE

Loaded(i) ==
    LET range == 2 ^ (ByteBits * Length(i))
        part(k) == IF k < Length(i) THEN bytes[At(i, k)] * 2 ^ (ByteBits * k) ELSE 0
        v == part(0) + part(1) + part(2) + part(3)
    IN  IF i.funct3 < 4 /\ v >= range \div 2 THEN Wrap(v - range) ELSE v

Written(i) == CASE i.type \in {"R", "I"}      -> Computed(i)
                [] i.type = "L"               -> Loaded(i)
                [] i.type \in {"JAL", "JALR"} -> Wrap(pc + 4)
                [] i.type = "LUI"             -> i.imm
                [] i.type = "AUIPC"           -> Wrap(pc + i.imm)

NextPc(i) ==
    CASE i.type = "JAL" \/ (i.type = "B" /\ Taken(i)) -> Wrap(pc + i.imm)
      [] i.type = "JALR"                              -> Target(i) - (Target(i) % 2)
      [] OTHER                                        -> Wrap(pc + 4)

NextX(i) == IF i.type \in {"S", "B"} \/ i.rd = 0 THEN x ELSE [x EXCEPT ![i.rd] = Written(i)]

NextBytes(i) ==
    IF i.type # "S" THEN bytes
    ELSE [a \in DOMAIN bytes |->
            IF \E k \in 0 .. Length(i) - 1 : a = At(i, k)
            THEN LET k == CHOOSE k \in 0 .. Length(i) - 1 : a = At(i, k)
                 IN  (x[i.rs2] \div 2 ^ (ByteBits * k)) % 2 ^ ByteBits
            ELSE bytes[a]]

=============================================================================
