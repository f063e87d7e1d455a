---------------------------- MODULE MCMultiCycle ----------------------------
(***************************************************************************)
(* The multi-cycle core on the programs that the pipeline is checked on.   *)
(***************************************************************************)
EXTENDS MultiCycle, Programs

MCInit ==
    /\ prog \in SmallPrograms
    /\ rf = [r \in Regs |-> 0]
    /\ dmem = SmallMemory
    /\ Init

MCFairSpec == MCInit /\ [][Next]_vars /\ Fairness

=============================================================================
