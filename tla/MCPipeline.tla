----------------------------- MODULE MCPipeline -----------------------------
(***************************************************************************)
(* Instances of the pipeline small enough for TLC: four words of program   *)
(* and of data, two registers beside x0, a predictor of two entries.       *)
(***************************************************************************)
EXTENDS Pipeline, Programs

XorBit(i, j) == (i + j) % 2

MCInit ==
    /\ prog \in SmallPrograms
    /\ rf = [r \in Regs |-> 0]
    /\ dmem = SmallMemory
    /\ Init

MCSpec     == MCInit /\ [][Next]_pipeVars
MCFairSpec == MCSpec /\ Fairness

=============================================================================
