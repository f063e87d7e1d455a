------------------------------ MODULE UartSim ------------------------------
(***************************************************************************)
(* The simulated UART of multi_cycle/cpu_test_top.v: the glue register     *)
(* that pushes a stored character one cycle after the core was released,   *)
(* uart_sim.v with its pop timer and its output register, and sim_fifo.v   *)
(* as the queue that Fifo.tla shows that design to be.                     *)
(***************************************************************************)
EXTENDS Naturals, Sequences

CONSTANTS UartDepth,          \* places of sim_fifo (16)
          UartPeriod          \* cycles between two pops (2^7)

ASSUME UartAssumption == UartDepth \in Nat \ {0} /\ UartPeriod \in Nat \ {0}

VARIABLES
    uart_write_fifo_r,
    fifo, counter,
    pop_fifo_r, pop_data,
    printed                   \* what $write has printed

uartVars == <<uart_write_fifo_r, fifo, counter, pop_fifo_r, pop_data, printed>>

full_fifo  == Len(fifo) = UartDepth
empty_fifo == fifo = <<>>
pop_fifo   == ~empty_fifo /\ counter = UartPeriod - 1

UartInit ==
    /\ uart_write_fifo_r = FALSE
    /\ fifo = <<>> /\ counter = 0
    /\ pop_fifo_r = FALSE /\ pop_data = 0
    /\ printed = <<>>

\* accepts: the core is released from a store to the UART in this cycle;
\* Write_data: what the port shows in this cycle.
Pushed(Write_data) == IF uart_write_fifo_r /\ ~full_fifo THEN <<Write_data>> ELSE <<>>

UartClock(reset, accepts, Write_data) ==
    /\ printed' = IF pop_fifo_r THEN Append(printed, pop_data) ELSE printed
    /\ pop_data' = IF pop_fifo THEN Head(fifo) ELSE pop_data
    /\ pop_fifo_r' = (~reset /\ pop_fifo)
    /\ uart_write_fifo_r' = (~reset /\ accepts)
    /\ counter' = IF reset THEN 0 ELSE (counter + 1) % UartPeriod
    /\ fifo' = IF reset THEN <<>>
               ELSE (IF pop_fifo THEN Tail(fifo) ELSE fifo) \o Pushed(Write_data)

=============================================================================
