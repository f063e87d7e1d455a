------------------------------ MODULE Programs ------------------------------
(***************************************************************************)
(* Programs of four instructions on which TLC runs the cores.  They wrap   *)
(* around: results used at every distance, loads used at once, jumps and   *)
(* branches both ways, stores whose address is computed.                   *)
(***************************************************************************)
EXTENDS Instructions

ThreeRegs == {0, 1, 2}

I(op, rd, rs1, rs2, imm) == [op |-> op, rd |-> rd, rs1 |-> rs1, rs2 |-> rs2, imm |-> imm]

Slot0 == { I("load", 1, 2, 0, 1), I("imm", 1, 1, 0, 1), I("load", 0, 2, 0, 0) }
Slot1 == { I("reg", 2, 1, 2, 0), I("store", 0, 1, 2, 1), I("branch", 0, 1, 2, 2),
           I("load", 2, 1, 0, 0), I("reg", 1, 1, 1, 0) }
Slot2 == { I("jal", 1, 0, 0, 2), I("jalr", 2, 1, 0, 1), I("branch", 0, 1, 0, 3),
           I("reg", 1, 1, 2, 0), I("unknown", 1, 0, 0, 0), I("jal", 0, 0, 0, 0) }
Slot3 == { I("store", 0, 2, 1, 0), I("imm", 1, 2, 0, 1), I("auipc", 2, 0, 0, 1),
           I("lui", 0, 0, 0, 3), I("jalr", 0, 2, 0, 3) }

SmallPrograms ==
    { [a \in Words |-> CASE a = 0 -> i [] a = 1 -> j [] a = 2 -> k [] OTHER -> l] :
        i \in Slot0, j \in Slot1, k \in Slot2, l \in Slot3 }

\* Different words, so that a load from a wrong address shows.
SmallMemory == [a \in Words |-> (a * 3 + 1) % WordCount]

=============================================================================
