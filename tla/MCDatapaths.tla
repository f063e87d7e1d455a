---------------------------- MODULE MCDatapaths ----------------------------
(***************************************************************************)
(* The data paths of the three cores on every instruction of RV32I and on  *)
(* MUL, on narrow words, from every content of two registers and memory.   *)
(***************************************************************************)
EXTENDS Datapaths

CONSTANTS Imms, Offsets     \* immediates; offsets of jumps and branches

ThreeRegs == 0 .. 2

\* The immediates of a shift hold the places in their low bits.
Instr(type, funct3s, alts, imms) ==
    [type : {type}, funct3 : funct3s, alt : alts, mul : {FALSE},
     rd : {1}, rs1 : {1}, rs2 : {2}, imm : imms]

MCInstructions ==
    UNION { Instr("R", 0 .. 7, {FALSE}, {0}), Instr("R", {0, 5}, {TRUE}, {0}),
            Instr("I", {1}, {FALSE}, Imms), Instr("I", {0, 5}, BOOLEAN, Imms),
            \* inst[30] is a bit of the immediate, set in a small negative one
            Instr("I", {2, 3, 4, 6, 7}, {FALSE}, Imms \ {Size - 2}),
            Instr("I", {2, 3, 4, 6, 7}, {TRUE}, {Size - 2}),
            Instr("B", {0, 1, 4, 5, 6, 7}, {FALSE}, Offsets),
            Instr("L", {0, 1, 2, 4, 5}, {FALSE}, Imms), Instr("S", 0 .. 2, {FALSE}, Imms),
            Instr("LUI", {0}, {FALSE}, Imms), Instr("AUIPC", {0}, {FALSE}, Imms),
            Instr("JAL", {0}, {FALSE}, Offsets), Instr("JALR", {0}, {FALSE}, Imms),
            {[i EXCEPT !.mul = TRUE] : i \in Instr("R", {0}, {FALSE}, {0})},
            \* x0 as destination and as source
            {[i EXCEPT !.rd = 0] : i \in Instr("R", {0}, {FALSE}, {0})},
            {[i EXCEPT !.rs1 = 0, !.rd = 2] : i \in Instr("I", {0}, {FALSE}, Imms)},
            {[i EXCEPT !.rs2 = 0] : i \in Instr("S", {0}, {FALSE}, Imms)} }

\* The cell of x0 holds what it held when the power came.  The instructions fill
\* the register that they write with every value.
MCInit == Init /\ rf[0] = Size - 1 /\ rf[1] = 0

MCSpec == MCInit /\ [][Next]_vars

=============================================================================
