-------------------------------- MODULE Isa --------------------------------
(***************************************************************************)
(* The instruction set architecture: one instruction at a time, in program *)
(* order.  This is what the reference traces of the simulation record, and *)
(* what every core of the repository promises.                             *)
(***************************************************************************)
EXTENDS Instructions

VARIABLES prog, pc, regs, dmem

isaVars == <<prog, pc, regs, dmem>>

Init ==
    /\ prog \in [Words -> Instrs]
    /\ pc = 0
    /\ regs \in [Regs -> Words] /\ regs[0] = 0
    /\ dmem \in [Words -> Words]

\* The value written to rd.
Result(i, a, b) ==
    CASE i.op = "lui"             -> i.imm
      [] i.op = "auipc"           -> Wrap(pc + i.imm)
      [] i.op \in {"jal", "jalr"} -> After(pc)
      [] i.op = "load"            -> dmem[Wrap(a + i.imm)]
      [] i.op = "imm"             -> Wrap(a + i.imm)
      [] OTHER                    -> Wrap(a + b)

Successor(i, a, b) ==
    CASE i.op = "jalr"                               -> Wrap(a + i.imm)
      [] i.op = "jal" \/ (i.op = "branch" /\ a = b)  -> Wrap(pc + i.imm)
      [] OTHER                                       -> After(pc)

Execute ==
    LET i == prog[pc]
        a == regs[i.rs1]
        b == regs[i.rs2]
    IN  /\ pc' = Successor(i, a, b)
        /\ regs' = IF WritesReg(i) /\ i.rd # 0
                   THEN [regs EXCEPT ![i.rd] = Result(i, a, b)] ELSE regs
        /\ dmem' = IF i.op = "store"
                   THEN [dmem EXCEPT ![Wrap(a + i.imm)] = b] ELSE dmem
        /\ UNCHANGED prog

Spec == Init /\ [][Execute]_isaVars

=============================================================================
