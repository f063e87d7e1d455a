--------------------------- MODULE MCTestBenches ---------------------------
(***************************************************************************)
(* The test benches, small enough for TLC: a program of three instructions *)
(* of which two write a register, a core that may retire any of three wrong*)
(* writes instead, and a program that prints two characters.               *)
(***************************************************************************)
EXTENDS TestBenches

Limits == [golden |-> 32, turbo |-> 34, multi_cycle |-> 80]

Retiring(pc, waddr, wdata) == [en |-> TRUE, pc |-> pc, waddr |-> waddr, wdata |-> wdata]

ThreeInstructions == <<Retiring(0, 1, 1), Retiring(1, 0, 1), Retiring(2, 1, 0)>>
WrongWrites       == {Retiring(0, 1, 0), Retiring(2, 1, 1), Retiring(2, 2, 0)}

Write(pc, waddr, wdata, mask) ==
    [type |-> 1, pc |-> pc, waddr |-> waddr, wdata |-> wdata, mask |-> mask]
Store(pc)              == [type |-> 2, pc |-> pc]
Jump(pc)               == [type |-> 3, pc |-> pc]
Link(pc, waddr, wdata) == [type |-> 4, pc |-> pc, waddr |-> waddr, wdata |-> wdata]

Traces ==
    {<<Jump(0), Write(0, 1, 1, TRUE), Store(1), Link(2, 1, 0), Store(2)>>,
     <<Write(0, 1, 1, FALSE), Write(1, 0, 1, TRUE), Link(2, 1, 0)>>,
     <<Write(0, 1, 1, TRUE), Write(1, 0, 1, FALSE), Write(2, 1, 0, TRUE)>>,
     <<Store(0)>>, <<>>}

PrintsTwo ==
    <<[kind |-> "poll"], [kind |-> "putc", data |-> 1],
      [kind |-> "poll"], [kind |-> "putc", data |-> 0],
      [kind |-> "halt", data |-> 0]>>

=============================================================================
