------------------------------ MODULE SimMain ------------------------------
(***************************************************************************)
(* main() of sim_main.cpp: the C++ program around a verilated test bench.  *)
(* It drives clock and reset, stops the bench at a time limit, and turns   *)
(* the way the simulation ended into the exit status that make and CI see. *)
(*                                                                         *)
(* One step is one pass of the loop, with the eval() of the bench inside.  *)
(* The bench says how its eval() came out: $finish sets the flag that the  *)
(* loop looks at, $fatal ends the process on the spot.                     *)
(***************************************************************************)
EXTENDS Integers

VARIABLES
    sys_clk, sys_reset_n,     \* inputs of the bench
    main_time,                \* passes of the loop so far
    gotFinish,                \* VerilatedContext::gotFinish()
    exit                      \* "none" while running, then the exit status

simVars == <<sys_clk, sys_reset_n, main_time, gotFinish, exit>>

Outcomes   == {"none", "finish", "fatal"}
ExitStates == {"none", "success", "timeout", "abort"}

\* The pass in which reset is released.
ReleaseTimeOdd == 21
ReleaseTime    == 20

SimTypeOK ==
    /\ sys_clk \in {0, 1} /\ sys_reset_n \in {0, 1}
    /\ main_time \in Nat
    /\ gotFinish \in BOOLEAN
    /\ exit \in ExitStates

\* opened: whether the initial block of the bench, run by the first eval(),
\* got past its $fatal.
PowerUp(opened) ==
    /\ sys_clk = 1 /\ sys_reset_n = 0
    /\ main_time = 0
    /\ gotFinish = FALSE
    /\ exit = IF opened THEN "none" ELSE "abort"

-----------------------------------------------------------------------------
Running == exit = "none" /\ ~gotFinish

\* The eval() of this pass is a rising edge, and sees this reset.
RisingEdge == sys_clk = 0
resetNow   == IF main_time = ReleaseTime THEN 1 ELSE sys_reset_n

\* A counter of 32 bits would wrap below the limit of 20000000000 passes.
NextTimeNarrow == (main_time + 1) % (ReleaseTime + 8)
NextTime       == main_time + 1

HalfPeriod(limit, outcome) ==
    /\ Running
    /\ sys_clk' = 1 - sys_clk
    /\ sys_reset_n' = resetNow
    /\ gotFinish' = (outcome = "finish")
    /\ IF outcome = "fatal"
       THEN main_time' = main_time /\ exit' = "abort"
       ELSE /\ main_time' = NextTime
            /\ exit' = IF NextTime >= limit THEN "timeout" ELSE "none"

\* The loop ends, and the status is taken from the time alone.
Leave(limit) ==
    /\ exit = "none" /\ gotFinish
    /\ exit' = IF main_time >= limit THEN "timeout" ELSE "success"
    /\ UNCHANGED <<sys_clk, sys_reset_n, main_time, gotFinish>>

-----------------------------------------------------------------------------
\* The bench and the cores use reset as an input of their rising edges. It
\* never changes together with a rising edge, where the blocks of one eval()
\* could disagree about it, and it has been seen low by earlier ones.
ResetIsClean ==
    [][sys_reset_n = 0 /\ sys_reset_n' = 1
         => sys_clk' = 0 /\ main_time > 1]_simVars

=============================================================================
