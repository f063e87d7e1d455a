---------------------------- MODULE Instructions ----------------------------
(***************************************************************************)
(* The instructions of the RV32I and MUL subset of the processor, up to    *)
(* what the pipeline tells apart: which registers an instruction reads and *)
(* writes, where its operands come from, and how it continues.  Addresses  *)
(* of instructions and of data count words; all arithmetic wraps.  The     *)
(* many ALU, shift and multiply operations are one sum of two operands,    *)
(* the six branch conditions are one comparison.                           *)
(***************************************************************************)
EXTENDS Integers

CONSTANTS
    WordCount,    \* number of words: 2^32 bytes in the code
    Regs          \* numbers of the registers: 0 .. 31 in the code

ASSUME WordCountAssumption == WordCount \in Nat \ {0}
ASSUME RegsAssumption      == 0 \in Regs

Words   == 0 .. WordCount - 1
Wrap(n) == n % WordCount
After(pc) == Wrap(pc + 1)

Ops == {"lui", "auipc", "jal", "jalr", "branch", "load", "store", "imm", "reg",
        "unknown"}
Instrs == [op : Ops, rd : Regs, rs1 : Regs, rs2 : Regs, imm : Words]

UsesRs1(i)   == i.op \in {"reg", "imm", "store", "branch", "load", "jalr"}
UsesRs2(i)   == i.op \in {"reg", "store", "branch"}
WritesReg(i) == i.op \notin {"store", "branch", "unknown"}
Accesses(i)  == i.op \in {"load", "store"}
IsControl(i) == i.op \in {"branch", "jal", "jalr"}

=============================================================================
