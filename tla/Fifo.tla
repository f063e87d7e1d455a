-------------------------------- MODULE Fifo --------------------------------
(***************************************************************************)
(* The FIFO between the two engines of the DMA (fifo.v).  A step is a      *)
(* clock edge; each always block of the source is a conjunct of Clock.     *)
(***************************************************************************)
EXTENDS Integers, Sequences

CONSTANTS
    Depth,      \* RAM_DEPTH, 2^ADDR_WIDTH
    Items       \* values of a data word

ASSUME DepthAssumption == Depth \in Nat \ {0}
ASSUME ItemsAssumption == 0 \in Items

VARIABLES
    wr_pointer, rd_pointer, fifo_count, mem, data_out,
    reset       \* the reset wire at the last edge

fifoVars == <<wr_pointer, rd_pointer, fifo_count, mem, data_out, reset>>

Addresses == 0 .. Depth - 1

FifoTypeOK ==
    /\ wr_pointer \in Addresses /\ rd_pointer \in Addresses
    /\ fifo_count \in 0 .. Depth
    /\ mem \in [Addresses -> Items] /\ data_out \in Items
    /\ reset \in BOOLEAN

\* After the first edge under reset; the memory and the output power up with
\* any value.
FifoInit ==
    /\ wr_pointer = 0 /\ rd_pointer = 0 /\ fifo_count = 0
    /\ mem \in [Addresses -> Items] /\ data_out \in Items
    /\ reset = TRUE

-----------------------------------------------------------------------------
empty == fifo_count = 0
full  == fifo_count = Depth

\* The pointers are as wide as an address: they wrap.
NextAddress(p) == IF p = Depth - 1 THEN 0 ELSE p + 1

Pushes(push) == push /\ ~full
PopsEmpty(pop) == pop
Pops(pop) == pop /\ ~empty

\* A push and a pop that both take effect leave the count as it is; at the
\* ends only one of them does.
CountIgnoresEnds(push, pop) ==
    CASE push /\ ~pop /\ ~full  -> fifo_count + 1
      [] pop /\ ~push /\ ~empty -> fifo_count - 1
      [] OTHER                  -> fifo_count
Count(push, pop) ==
    CASE push /\ (pop => empty) /\ ~full  -> fifo_count + 1
      [] pop /\ (push => full) /\ ~empty  -> fifo_count - 1
      [] OTHER                            -> fifo_count

FifoCounter(rst, push, pop) == fifo_count' = IF rst THEN 0 ELSE Count(push, pop)

WritePtr(rst, push) ==
    wr_pointer' = IF rst THEN 0 ELSE IF Pushes(push) THEN NextAddress(wr_pointer)
                                                     ELSE wr_pointer

ReadPtr(rst, pop) ==
    rd_pointer' = IF rst THEN 0 ELSE IF Pops(pop) THEN NextAddress(rd_pointer)
                                                  ELSE rd_pointer

\* The memory has no reset.
Write(push, item) ==
    mem' = IF Pushes(push) THEN [mem EXCEPT ![wr_pointer] = item] ELSE mem

\* The assignment under reset is always followed by one of the other two.
Read(pop) == data_out' = IF Pops(pop) THEN mem[rd_pointer] ELSE data_out

Clock(rst, push, pop, item) ==
    /\ reset' = rst
    /\ FifoCounter(rst, push, pop)
    /\ WritePtr(rst, push)
    /\ ReadPtr(rst, pop)
    /\ Write(push, item)
    /\ Read(pop)

FifoNext == \E rst, push, pop \in BOOLEAN, item \in Items : Clock(rst, push, pop, item)

FifoSpec == FifoInit /\ [][FifoNext]_fifoVars

-----------------------------------------------------------------------------
\* The address n places after address p.
Ahead(p, n) == IF p + n < Depth THEN p + n ELSE p + n - Depth

Contents == [i \in 1 .. fifo_count |-> mem[Ahead(rd_pointer, i - 1)]]

\* The count, kept apart from the pointers by its own case distinction, is
\* always their distance.
CountIsDistance == wr_pointer = Ahead(rd_pointer, fifo_count)

\* First in, first out, at every fill level, with pushes and pops in the
\* same cycle and across the wrap of the pointers; nothing is lost unless
\* the FIFO is full.
Queue == INSTANCE BoundedQueue WITH queue <- Contents, out <- data_out

ImplementsQueue == Queue!Spec

=============================================================================
