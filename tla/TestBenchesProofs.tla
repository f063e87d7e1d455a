-------------------------- MODULE TestBenchesProofs --------------------------
(***************************************************************************)
(* Proofs about the test benches, for every program, trace file, core      *)
(* under test, FIFO depth and time limit.                                  *)
(*                                                                         *)
(*   ClockInv     the clock is the parity of the passes                    *)
(*   PortsInv     a port that differed has ended the bench                 *)
(*   UartInv      every character that was stored is printed, in the FIFO, *)
(*                in a register beside it, or was misplaced by the core    *)
(*                under test; and a store finds a place                    *)
(*   TraceInv     the history variable reference numbers the register      *)
(*                writes of the file                                       *)
(*   ReaderInv    as many writes were seen as the file has up to the       *)
(*                reader, each with the mask that the reader kept          *)
(*   VerdictInv   those two with NothingMissed and AbortIsDeserved         *)
(*   TypeInv      the ranges of the variables                              *)
(*                                                                         *)
(* and about the two FIFOs, each of which implements BoundedQueue: the     *)
(* one of the DMA engine, for every depth and any pushes and pops, whose   *)
(* count is the distance of its pointers (QueueInv), and the one of the    *)
(* simulated UART, by way of UartInv.                                      *)
(***************************************************************************)
EXTENDS TestBenches, Fifo, FiniteSetTheorems, SequenceTheorems, WellFoundedInduction,
        TLAPS

-----------------------------------------------------------------------------
ClockInv ==
    exit = "none" =>
        /\ main_time \in Nat
        /\ sys_clk = 1 - (main_time % 2)
        /\ sys_reset_n \in {0, 1}

PortsInv ==
    /\ strayed \in BOOLEAN
    /\ strayed => bench = "multi_cycle" /\ exit = "abort"

-----------------------------------------------------------------------------
Bit(b) == IF b THEN 1 ELSE 0

\* Nothing has happened on the ports, before the reset and in the other benches.
PortsFresh ==
    /\ UartInit
    /\ core = CoreAtReset /\ benchmark_finish = FALSE /\ sent = <<>> /\ misplaced = 0

CoreInv ==
    /\ core \in [phase : {"fetch", "wait", "mem", "resp"}, op : Nat \ {0}, data : {0, 1}]
    /\ core.phase \in {"mem", "resp"} => ~Spins
    /\ core.phase = "resp" => op.kind = "poll"

FifoInv ==
    /\ fifo \in Seq({0, 1}) /\ printed \in Seq({0, 1}) /\ sent \in Seq({0, 1})
    /\ pop_data \in {0, 1}
    /\ pop_fifo_r \in BOOLEAN /\ uart_write_fifo_r \in BOOLEAN
    /\ Len(fifo) <= UartDepth
    /\ misplaced \in Nat

\* A program that is about to store has seen a place, and nothing takes it.
PlaceInv ==
    /\ uart_write_fifo_r => core.phase = "fetch" /\ ~full_fifo
    /\ ~Spins /\ op.kind = "putc" => ~full_fifo /\ ~uart_write_fifo_r

\* A character is printed, on its way, or was stored at an address that the UART
\* does not decode.
Balance ==
    Len(sent) = Len(printed) + Len(fifo) + Bit(pop_fifo_r) + Bit(uart_write_fifo_r) + misplaced

FinishInv ==
    /\ benchmark_finish \in BOOLEAN
    /\ benchmark_finish =>
        /\ ~uart_write_fifo_r
        /\ ~Spins => op.kind = "halt"
    /\ bench = "multi_cycle" /\ (gotFinish \/ exit = "success") =>
        Len(printed) + misplaced = Len(sent)

UartInv ==
    /\ bench # "multi_cycle" \/ sys_reset_n = 0 => PortsFresh
    /\ CoreInv /\ FifoInv
    /\ exit # "abort" => PlaceInv /\ Balance /\ FinishInv

-----------------------------------------------------------------------------
Made(j) == UpTo(RegisterWrites(trace), j)

\* The mask that the reader keeps after j records.
Keeps(j, mask) ==
    \A i \in 1 .. j :
        trace[i].type = 1 /\ (\A k \in i + 1 .. j : trace[k].type # 1) => mask = trace[i].mask

Numbered ==
    /\ reference \in Seq(Range(reference))
    /\ Len(reference) = Cardinality(RegisterWrites(trace))
    /\ \A j \in RegisterWrites(trace) : reference[Made(j)] = Asks(trace[j])

\* What the recorder writes.
Recorded ==
    \A j \in DOMAIN trace : trace[j].type = 1 /\ trace[j].waddr # 0 /\ trace[j].mask = TRUE

TraceInv ==
    (bench = "golden" /\ exit # "abort") \/ trace # NoFile =>
        /\ WellFormed(trace)
        /\ Numbered
        /\ bench = "golden" => Recorded

Retirement == Strays \cup {NoWrite} \cup {Program[i] : i \in Nat}

ReaderInv ==
    /\ bench = "golden" =>
        /\ exit = "abort" => trace = NoFile
        /\ pos = 0 /\ feof = FALSE /\ rf_bit_cmp_ref = FALSE /\ trace_end = FALSE
        /\ seen = <<>>
    /\ done \in Nat
    /\ trace # NoFile =>
        /\ seen \in Seq(Retirement)
        /\ pos \in 0 .. Len(trace)
        /\ feof \in BOOLEAN /\ trace_end \in BOOLEAN
        /\ feof => pos = Len(trace)
        /\ trace_end => feof
        /\ Keeps(pos, rf_bit_cmp_ref)
        /\ exit # "abort" => Len(seen) = Made(pos)

VerdictInv == TraceInv /\ ReaderInv /\ NothingMissed /\ AbortIsDeserved

-----------------------------------------------------------------------------
(* Clock and reset *)

LEMMA HalfPeriodClock ==
    ASSUME NEW limit, NEW outcome, ClockInv, HalfPeriod(limit, outcome)
    PROVE  /\ ClockInv'
           /\ sys_reset_n = 0 /\ sys_reset_n' = 1 => sys_clk' = 0 /\ main_time > 1
<1> USE DEF ClockInv, HalfPeriod, Running, resetNow, ReleaseTime
<1>1. sys_reset_n' \in {0, 1}
  OBVIOUS
<1>2. exit' = "none" => main_time' = main_time + 1
  BY DEF NextTime
<1>3. ClockInv'
  BY <1>1, <1>2
<1>4. ASSUME sys_reset_n = 0, sys_reset_n' = 1 PROVE sys_clk' = 0 /\ main_time > 1
  BY <1>4
<1> QED
  BY <1>3, <1>4

LEMMA LeaveClock ==
    ASSUME NEW limit, ClockInv, Leave(limit)
    PROVE  ClockInv' /\ sys_reset_n' = sys_reset_n
BY DEF ClockInv, Leave

LEMMA ClockStep ==
    ASSUME ClockInv, [Next]_vars
    PROVE  /\ ClockInv'
           /\ sys_reset_n = 0 /\ sys_reset_n' = 1 => sys_clk' = 0 /\ main_time > 1
<1>1. CASE GoldenHalfPeriod
  BY <1>1, HalfPeriodClock DEF GoldenHalfPeriod
<1>2. CASE TurboHalfPeriod
  BY <1>2, HalfPeriodClock DEF TurboHalfPeriod
<1>3. CASE MultiCycleHalfPeriod
  BY <1>3, HalfPeriodClock DEF MultiCycleHalfPeriod
<1>4. CASE GoldenLeave \/ TurboLeave \/ MultiCycleLeave
  BY <1>4, LeaveClock DEF GoldenLeave, TurboLeave, MultiCycleLeave
<1>5. CASE \E b \in {"turbo", "multi_cycle"} : UseRecording(b)
  BY <1>5 DEF UseRecording, ClockInv
<1>6. CASE UNCHANGED vars
  BY <1>6 DEF vars, simVars, ClockInv
<1> QED
  BY <1>1, <1>2, <1>3, <1>4, <1>5, <1>6 DEF Next, Step, Ended

\* ResetAlwaysClean: reset never changes together with a rising edge of the
\* clock (sim_main.cpp:29-30), in none of the benches, whatever the program, the
\* file, the core and the time limit are.
THEOREM ResetAlwaysClean == Spec => ResetIsClean
<1>1. Init => ClockInv
  BY DEF Init, StartGolden, StartTurbo, StartMultiCycle, PowerUp, ClockInv
<1>2. ClockInv /\ [Next]_vars => ClockInv'
  BY ClockStep
<1>3. ClockInv /\ [Next]_vars
        => [sys_reset_n = 0 /\ sys_reset_n' = 1 => sys_clk' = 0 /\ main_time > 1]_simVars
  BY ClockStep
<1> QED
  BY <1>1, <1>2, <1>3, PTL DEF Spec, ResetIsClean

-----------------------------------------------------------------------------
(* The ports of the multi-cycle bench *)

\* The comparison of the ports tells apart what they mean: a difference in what
\* is requested or taken is found, and nothing else is.
LEMMA PortsDifferMeaning ==
    ASSUME NEW p, NEW g, Meaning(p) # Meaning(g)
    PROVE  PortsDiffer(p, g)
<1> SUFFICES ASSUME ~PortsDiffer(p, g) PROVE Meaning(p) = Meaning(g)
  OBVIOUS
<1> USE DEF PortsDiffer
<1>1. (IF p.Inst_Req_Valid THEN {p.PC} ELSE {}) = (IF g.Inst_Req_Valid THEN {g.PC} ELSE {})
  OBVIOUS
<1>2. (IF p.MemRead THEN {p.word} ELSE {}) = (IF g.MemRead THEN {g.word} ELSE {})
  OBVIOUS
<1>3. (IF p.MemWrite THEN {<<p.word, Strobed(p.Write_data, p.Write_strb)>>} ELSE {})
        = (IF g.MemWrite THEN {<<g.word, Strobed(g.Write_data, g.Write_strb)>>} ELSE {})
  OBVIOUS
<1>4. <<p.Inst_Ready, p.Read_data_Ready>> = <<g.Inst_Ready, g.Read_data_Ready>>
  OBVIOUS
<1> QED
  BY <1>1, <1>2, <1>3, <1>4 DEF Meaning

LEMMA PortsStep ==
    ASSUME PortsInv, [Next]_vars
    PROVE  PortsInv'
<1> USE DEF PortsInv
<1>1. CASE GoldenHalfPeriod \/ TurboHalfPeriod
  BY <1>1 DEF GoldenHalfPeriod, TurboHalfPeriod, HalfPeriod, Running, PortIdle
<1>2. CASE MultiCycleHalfPeriod
  <2>1. exit = "none" /\ ~strayed /\ bench = "multi_cycle" /\ bench' = bench
    BY <1>2 DEF MultiCycleHalfPeriod, HalfPeriod, Running
  <2>2. CASE ~RisingEdge
    BY <1>2, <2>1, <2>2 DEF MultiCycleHalfPeriod, PortIdle
  <2>3. CASE RisingEdge
    <3>1. PICK w \in Retired, p \in IF resetNow = 1 THEN MayShow ELSE {Shown} :
             /\ HalfPeriod(TIME_LIMIT.multi_cycle, MultiCycleOutcome(w, p))
             /\ strayed' = (strayed \/ Meaning(p) # Meaning(Shown))
      BY <1>2, <2>3 DEF MultiCycleHalfPeriod
    <3>2. CASE Meaning(p) = Meaning(Shown)
      BY <2>1, <3>1, <3>2
    <3>3. CASE Meaning(p) # Meaning(Shown)
      <4>1. PortsDiffer(p, Shown)
        BY <3>3, PortsDifferMeaning
      <4>2. resetNow = 1
        BY <3>1, <3>3
      <4>3. MultiCycleOutcome(w, p) = "fatal"
        BY <4>1, <4>2 DEF MultiCycleOutcome
      <4> QED
        BY <2>1, <3>1, <4>3 DEF HalfPeriod
    <3> QED
      BY <3>2, <3>3
  <2> QED
    BY <2>2, <2>3
<1>3. CASE GoldenLeave \/ TurboLeave \/ MultiCycleLeave
  BY <1>3 DEF GoldenLeave, TurboLeave, MultiCycleLeave, Leave, PortIdle
<1>4. CASE \E b \in {"turbo", "multi_cycle"} : UseRecording(b)
  BY <1>4 DEF UseRecording, historyVars
<1>5. CASE UNCHANGED vars
  BY <1>5 DEF vars, simVars, historyVars
<1> QED
  BY <1>1, <1>2, <1>3, <1>4, <1>5 DEF Next, Step, Ended

\* PortsAlwaysAgree: a core whose port asks for or takes anything else than the
\* golden core in any cycle ends the multi-cycle bench with $fatal
\* (custom_cpu_test.v:70-171), whatever else happens in that cycle.  The two low
\* bits of an address are no part of what it asks for.
THEOREM PortsAlwaysAgree == Spec => []PortsAgree
<1>1. Init => PortsInv
  BY DEF Init, StartGolden, StartTurbo, StartMultiCycle, FreshCore, PortsInv
<1>2. PortsInv /\ [Next]_vars => PortsInv'
  BY PortsStep
<1>3. PortsInv => PortsAgree
  BY DEF PortsInv, PortsAgree
<1> QED
  BY <1>1, <1>2, <1>3, PTL DEF Spec

-----------------------------------------------------------------------------
(* The UART of the multi-cycle bench *)

LEMMA OperationIsKnown ==
    ASSUME CoreInv, ~Spins
    PROVE  /\ core.op \in DOMAIN Operations
           /\ op.kind \in {"poll", "putc", "halt"}
           /\ op.kind # "poll" => op.data \in {0, 1}
           /\ op.kind = "putc" => core.op > 1 /\ Operations[core.op - 1].kind = "poll"
           /\ op.kind = "halt" => core.op = Len(Operations)
<1>1. Operations \in Seq(Range(Operations))
  BY OperationsAssumption
<1>2. DOMAIN Operations = 1 .. Len(Operations) /\ Len(Operations) \in Nat
  BY <1>1, LenProperties
<1>3. core.op \in DOMAIN Operations
  BY <1>2 DEF CoreInv, Spins
<1> QED
  BY <1>3, OperationsAssumption DEF op

LEMMA OperationsLength == Len(Operations) \in Nat
<1>1. Operations \in Seq(Range(Operations))
  BY OperationsAssumption
<1> QED
  BY <1>1, LenProperties

LEMMA FreshHolds ==
    ASSUME PortsFresh
    PROVE  /\ CoreInv /\ FifoInv /\ PlaceInv /\ Balance
           /\ benchmark_finish = FALSE
           /\ Len(printed) + misplaced = Len(sent)
<1> USE DEF PortsFresh, UartInit, CoreAtReset
<1>1. CoreInv
  BY DEF CoreInv
<1>2. FifoInv
  <2>1. <<>> \in Seq({0, 1}) /\ Len(<<>>) = 0
    BY EmptySeq
  <2>2. Len(<<>>) <= UartDepth
    BY <2>1, UartAssumption
  <2> QED
    BY <2>1, <2>2 DEF FifoInv
<1>3. Len(fifo) = 0 /\ Len(printed) = 0 /\ Len(sent) = 0
  BY EmptySeq
<1>4. PlaceInv
  <2>1. ~full_fifo
    BY <1>3, UartAssumption DEF full_fifo
  <2> QED
    BY <2>1 DEF PlaceInv
<1>5. Balance
  BY <1>3 DEF Balance, Bit
<1> QED
  BY <1>1, <1>2, <1>3, <1>4, <1>5

LEMMA FreshHoldsNext ==
    PortsFresh' => ( /\ CoreInv /\ FifoInv /\ PlaceInv /\ Balance
                     /\ benchmark_finish = FALSE
                     /\ Len(printed) + misplaced = Len(sent) )'
BY FreshHolds, PTL

LEMMA FreshIsUartInv == PortsFresh => UartInv
BY FreshHolds DEF UartInv, FinishInv

LEMMA FreshIsUartInvNext == PortsFresh' => UartInv'
BY FreshIsUartInv, PTL

\* One clock of uart_sim.v and sim_fifo.v out of reset: the FIFO loses what is
\* popped and gains what is pushed.
LEMMA FifoClock ==
    ASSUME FifoInv, NEW accepts \in BOOLEAN, NEW byte \in {0, 1},
           UartClock(FALSE, accepts, byte)
    PROVE  /\ fifo' \in Seq({0, 1}) /\ printed' \in Seq({0, 1}) /\ pop_data' \in {0, 1}
           /\ pop_fifo_r' = pop_fifo /\ uart_write_fifo_r' = accepts
           /\ Len(printed') = Len(printed) + Bit(pop_fifo_r)
           /\ Len(fifo') = Len(fifo) - Bit(pop_fifo) + Bit(uart_write_fifo_r /\ ~full_fifo)
           /\ pop_fifo => Len(fifo) > 0
<1> USE DEF FifoInv, UartClock
<1>1. printed' \in Seq({0, 1}) /\ Len(printed') = Len(printed) + Bit(pop_fifo_r)
  BY AppendProperties DEF Bit
<1>2. pop_fifo => fifo # <<>>
  BY DEF pop_fifo, empty_fifo
<1>3. pop_data' \in {0, 1}
  BY <1>2, HeadTailProperties
<1> DEFINE rest == IF pop_fifo THEN Tail(fifo) ELSE fifo
           new  == Pushed(byte)
<1>4. rest \in Seq({0, 1}) /\ Len(rest) = Len(fifo) - Bit(pop_fifo)
  BY <1>2, HeadTailProperties DEF Bit
<1>5. new \in Seq({0, 1}) /\ Len(new) = Bit(uart_write_fifo_r /\ ~full_fifo)
  <2>1. <<byte>> \in Seq({0, 1}) /\ Len(<<byte>>) = 1
    OBVIOUS
  <2> QED
    BY <2>1, EmptySeq DEF Bit, Pushed
<1>6. fifo' = rest \o new
  OBVIOUS
<1> HIDE DEF rest, new
<1>7. rest \o new \in Seq({0, 1}) /\ Len(rest \o new) = Len(rest) + Len(new)
  BY <1>4, <1>5, ConcatProperties
<1>8. pop_fifo => Len(fifo) > 0
  BY <1>2, EmptySeq
<1>9. Len(fifo') = Len(fifo) - Bit(pop_fifo) + Bit(uart_write_fifo_r /\ ~full_fifo)
  BY <1>4, <1>5, <1>6, <1>7
<1>10. pop_fifo_r' = pop_fifo /\ uart_write_fifo_r' = accepts
  BY DEF pop_fifo
<1> QED
  BY <1>1, <1>3, <1>6, <1>7, <1>8, <1>9, <1>10

\* The core goes on by one phase, and to its next access only from the answer
\* of a poll that found a place, or from the store of a character or a result.
LEMMA CoreGoesOn ==
    ASSUME CoreInv, core' = CoreSteps
    PROVE  /\ CoreInv'
           /\ core.phase = "mem" => core'.phase \in {"fetch", "resp"}
           /\ core.phase = "mem" /\ op.kind # "poll" =>
                core'.phase = "fetch" /\ core'.op = core.op + 1
           /\ core'.op # core.op =>
                /\ core'.op = core.op + 1
                /\ ~Spins
                /\ \/ core.phase = "mem" /\ op.kind # "poll"
                   \/ core.phase = "resp" /\ op.kind = "poll" /\ ~full_fifo
<1>0. core \in [phase : {"fetch", "wait", "mem", "resp"}, op : Nat \ {0}, data : {0, 1}]
  BY DEF CoreInv
<1>1. CASE core.phase = "fetch"
  <2>1. core' = [core EXCEPT !.phase = "wait"]
    BY <1>1 DEF CoreSteps
  <2>2. core'.phase = "wait" /\ core'.op = core.op
    BY <1>0, <2>1
  <2> QED
    BY <1>0, <1>1, <2>1, <2>2 DEF CoreInv
<1>2. CASE core.phase = "wait" /\ Spins
  <2>1. core' = [core EXCEPT !.phase = "fetch"]
    BY <1>2 DEF CoreSteps
  <2>2. core'.phase = "fetch" /\ core'.op = core.op
    BY <1>0, <2>1
  <2> QED
    BY <1>0, <1>2, <2>1, <2>2 DEF CoreInv
<1>3. CASE core.phase = "wait" /\ ~Spins
  <2> DEFINE data == IF op.kind = "poll" THEN core.data ELSE op.data
  <2>1. data \in {0, 1}
    BY <1>0, <1>3, OperationIsKnown
  <2>2. core' = [core EXCEPT !.phase = "mem", !.data = data]
    BY <1>0, <1>3 DEF CoreSteps
  <2> HIDE DEF data
  <2>3. core'.phase = "mem" /\ core'.op = core.op
    BY <1>0, <2>2
  <2>4. core' \in [phase : {"fetch", "wait", "mem", "resp"}, op : Nat \ {0}, data : {0, 1}]
    BY <1>0, <2>1, <2>2
  <2>5. ~Spins'
    BY <1>3, <2>3 DEF Spins
  <2> QED
    BY <1>0, <1>3, <2>3, <2>4, <2>5 DEF CoreInv
<1>4. CASE core.phase = "mem" /\ op.kind = "poll"
  <2>1. core' = [core EXCEPT !.phase = "resp"]
    BY <1>4 DEF CoreSteps
  <2>2. core'.phase = "resp" /\ core'.op = core.op
    BY <1>0, <2>1
  <2>3. ~Spins /\ ~Spins' /\ op'.kind = "poll"
    BY <1>4, <2>2 DEF CoreInv, Spins, op
  <2> QED
    BY <1>0, <1>4, <2>1, <2>2, <2>3 DEF CoreInv
<1>5. CASE core.phase = "mem" /\ op.kind # "poll"
  <2> DEFINE next == core.op + 1
  <2>1. core' = [core EXCEPT !.phase = "fetch", !.op = next]
    BY <1>0, <1>5 DEF CoreSteps
  <2>2. next \in Nat \ {0} /\ next = core.op + 1
    BY <1>0
  <2> HIDE DEF next
  <2>3. core'.phase = "fetch" /\ core'.op = next
    BY <1>0, <2>1
  <2>4. core' \in [phase : {"fetch", "wait", "mem", "resp"}, op : Nat \ {0}, data : {0, 1}]
    BY <1>0, <2>1, <2>2
  <2> QED
    BY <1>0, <1>5, <2>2, <2>3, <2>4 DEF CoreInv
<1>6. CASE core.phase = "resp"
  <2> DEFINE next == IF full_fifo THEN core.op ELSE core.op + 1
  <2>1. core' = [core EXCEPT !.phase = "fetch", !.op = next]
    BY <1>0, <1>6 DEF CoreSteps
  <2>2. next \in Nat \ {0}
    BY <1>0
  <2>3. (next # core.op) => ~full_fifo /\ next = core.op + 1
    BY <1>0
  <2> HIDE DEF next
  <2>4. core'.phase = "fetch" /\ core'.op = next
    BY <1>0, <2>1
  <2>5. core' \in [phase : {"fetch", "wait", "mem", "resp"}, op : Nat \ {0}, data : {0, 1}]
    BY <1>0, <2>1, <2>2
  <2> QED
    BY <1>0, <1>6, <2>3, <2>4, <2>5 DEF CoreInv
<1> QED
  BY <1>0, <1>1, <1>2, <1>3, <1>4, <1>5, <1>6

\* What the multi-cycle bench sees of a port of the core under test.
LEMMA MayShowBytes ==
    ASSUME CoreInv, NEW p \in MayShow
    PROVE  p.Write_data[0] \in {0, 1}
<1>1. Shown.Write_data[0] \in {0, 1}
  BY DEF Shown, CoreInv
<1>2. ASSUME NEW f \in DOMAIN Shown, NEW x \in SignalValues[f], p = [Shown EXCEPT ![f] = x]
      PROVE  p.Write_data[0] \in {0, 1}
  <2>1. CASE f = "Write_data"
    <3>1. x \in [{0, 1} -> {0, 1}]
      BY <1>2, <2>1 DEF SignalValues
    <3>2. p.Write_data = x
      BY <1>2, <2>1 DEF Shown
    <3> QED
      BY <3>1, <3>2
  <2>2. CASE f # "Write_data"
    <3>1. p.Write_data = Shown.Write_data
      BY <1>2, <2>2 DEF Shown
    <3> QED
      BY <1>1, <3>1
  <2> QED
    BY <2>1, <2>2
<1>3. p = Shown \/ \E f \in DOMAIN Shown : \E x \in SignalValues[f] : p = [Shown EXCEPT ![f] = x]
  BY Zenon DEF MayShow
<1> QED
  BY <1>1, <1>2, <1>3

\* A core whose ports agree stores the result only where the program ends.
LEMMA ResultIsLast ==
    ASSUME CoreInv, NEW p, StoresResult(p), ~PortsDiffer(p, Shown)
    PROVE  core.phase = "mem" /\ ~Spins /\ op.kind = "halt"
<1>1. p.MemWrite /\ p.word = ResultWord
  BY DEF StoresResult
<1>2. Shown.MemWrite /\ Shown.word = ResultWord
  BY <1>1 DEF PortsDiffer
<1>3. core.phase = "mem" /\ op.kind # "poll"
  BY <1>2 DEF Shown
<1>4. ~Spins
  BY <1>3 DEF CoreInv
<1>5. WordOf[op.kind] = ResultWord
  BY <1>2, <1>4 DEF Shown
<1>6. op.kind # "putc"
  BY <1>5 DEF WordOf, ResultWord, UartData
<1> QED
  BY <1>3, <1>4, <1>6, OperationIsKnown

\* Only the store of a character has the address of the FIFO.
LEMMA StoreIsPutc ==
    ASSUME CoreInv, core.phase = "mem", Shown.word = UartData
    PROVE  ~Spins /\ op.kind = "putc"
<1>1. ~Spins
  BY DEF CoreInv
<1>2. WordOf[op.kind] = UartData
  BY <1>1 DEF Shown
<1>3. op.kind # "poll" /\ op.kind # "halt"
  BY <1>2 DEF WordOf, ResultWord, UartData, UartStatus
<1> QED
  BY <1>1, <1>3, OperationIsKnown

LEMMA OperationIsKnownNext ==
    CoreInv' /\ ~Spins' =>
        (op.kind = "putc" => core.op > 1 /\ Operations[core.op - 1].kind = "poll")'
BY OperationIsKnown, PTL

\* A rising edge under reset leaves everything as it was.
LEMMA ResetEdge ==
    ASSUME PortsFresh, NEW p, resetNow = 0, PortEdge(p)
    PROVE  PortsFresh'
<1> USE DEF PortsFresh, UartInit
<1>1. PICK moves \in {FALSE} :
         LET released == moves /\ core.phase = "mem"
             stores   == released /\ Shown.word = UartData
         IN /\ core' = IF moves THEN CoreSteps ELSE core
            /\ UartClock(resetNow = 0, released /\ uart_write_fifo(p), p.Write_data[0])
            /\ sent' = IF stores THEN Append(sent, op.data) ELSE sent
            /\ misplaced' = IF stores /\ p.low # Shown.low THEN misplaced + 1 ELSE misplaced
            /\ benchmark_finish' =
                 (resetNow = 1 /\ (benchmark_finish
                                     \/ (StoresResult(p) /\ ~PortsDiffer(p, Shown))))
  BY DEF PortEdge
<1>2. core' = core /\ sent' = sent /\ misplaced' = misplaced /\ benchmark_finish' = FALSE
  <2>1. moves = FALSE /\ (resetNow = 1) = FALSE
    BY <1>1
  <2> QED
    BY <1>1, <2>1
<1>3. ~pop_fifo
  BY DEF pop_fifo, empty_fifo
<1>4. /\ printed' = printed /\ pop_data' = pop_data /\ pop_fifo_r' = FALSE
      /\ uart_write_fifo_r' = FALSE /\ counter' = 0 /\ fifo' = <<>>
  BY <1>1, <1>3 DEF UartClock
<1> QED
  BY <1>2, <1>4 DEF CoreAtReset

\* As long as the ports agree, the glue takes what the golden core stores to the
\* UART, but for the low bits of the address.
LEMMA GlueTakesStores ==
    ASSUME CoreInv, core.phase = "mem", NEW p, ~PortsDiffer(p, Shown)
    PROVE  uart_write_fifo(p) <=> Shown.word = UartData /\ p.low = Shown.low
<1>1. Shown.low = 0
  BY DEF Shown
<1>2. ASSUME uart_write_fifo(p) PROVE Shown.word = UartData
  BY <1>2 DEF uart_write_fifo, PortsDiffer
<1>3. ASSUME Shown.word = UartData PROVE p.MemWrite /\ p.word = UartData
  <2>1. Shown.MemWrite
    BY <1>3, StoreIsPutc DEF Shown
  <2> QED
    BY <1>3, <2>1 DEF PortsDiffer
<1> QED
  BY <1>1, <1>2, <1>3 DEF uart_write_fifo

LEMMA RunningEdge ==
    ASSUME UartInv, NEW w, NEW p \in MayShow, NEW limit, resetNow = 1,
           bench = "multi_cycle", bench' = bench,
           HalfPeriod(limit, MultiCycleOutcome(w, p)), PortEdge(p)
    PROVE  UartInv'
<1> DEFINE Released(moves) == moves /\ core.phase = "mem"
           Stores(moves)   == Released(moves) /\ Shown.word = UartData
           Accepts(moves)  == Released(moves) /\ uart_write_fifo(p)
           Slips(moves)    == Stores(moves) /\ p.low # Shown.low
<1>1. CoreInv /\ FifoInv /\ PlaceInv /\ Balance /\ FinishInv
  BY DEF UartInv, HalfPeriod, Running
<1>2. PICK moves \in BOOLEAN :
         /\ core' = IF moves THEN CoreSteps ELSE core
         /\ UartClock(FALSE, Accepts(moves), p.Write_data[0])
         /\ sent' = IF Stores(moves) THEN Append(sent, op.data) ELSE sent
         /\ misplaced' = IF Slips(moves) THEN misplaced + 1 ELSE misplaced
         /\ benchmark_finish' =
              (benchmark_finish \/ (StoresResult(p) /\ ~PortsDiffer(p, Shown)))
  <2>1. (resetNow = 0) = FALSE /\ (resetNow = 1) = TRUE
    OBVIOUS
  <2>2. PICK moves \in BOOLEAN :
           /\ core' = IF moves THEN CoreSteps ELSE core
           /\ UartClock(resetNow = 0, Accepts(moves), p.Write_data[0])
           /\ sent' = IF Stores(moves) THEN Append(sent, op.data) ELSE sent
           /\ misplaced' = IF Slips(moves) THEN misplaced + 1 ELSE misplaced
           /\ benchmark_finish' =
                (resetNow = 1 /\ (benchmark_finish
                                    \/ (StoresResult(p) /\ ~PortsDiffer(p, Shown))))
    BY DEF PortEdge
  <2>3. UartClock(FALSE, Accepts(moves), p.Write_data[0])
    BY <2>1, <2>2
  <2>4. benchmark_finish' = (benchmark_finish \/ (StoresResult(p) /\ ~PortsDiffer(p, Shown)))
    BY <2>1, <2>2
  <2> QED
    BY <2>2, <2>3, <2>4
<1> DEFINE stores  == Stores(moves)
           accepts == Accepts(moves)
           slips   == Slips(moves)
<1>3. /\ gotFinish' = (MultiCycleOutcome(w, p) = "finish")
      /\ exit' # "success" /\ sys_reset_n' = 1
      /\ exit' # "abort" => ~PortsDiffer(p, Shown)
  BY DEF HalfPeriod, MultiCycleOutcome
<1>4. /\ stores \in BOOLEAN /\ accepts \in BOOLEAN /\ slips \in BOOLEAN
      /\ p.Write_data[0] \in {0, 1}
  BY <1>1, MayShowBytes
<1>5. stores => moves /\ core.phase = "mem" /\ ~Spins /\ op.kind = "putc"
  BY <1>1, StoreIsPutc
<1>6. /\ core' = IF moves THEN CoreSteps ELSE core
      /\ UartClock(FALSE, accepts, p.Write_data[0])
      /\ sent' = IF stores THEN Append(sent, op.data) ELSE sent
      /\ misplaced' = IF slips THEN misplaced + 1 ELSE misplaced
  BY <1>2
<1>7. exit' # "abort" => Bit(stores) = Bit(accepts) + Bit(slips) /\ (accepts => stores)
  BY <1>1, <1>3, GlueTakesStores DEF Bit
<1> HIDE DEF stores, Stores, accepts, Accepts, slips, Slips, Released
<1>8. /\ fifo' \in Seq({0, 1}) /\ printed' \in Seq({0, 1}) /\ pop_data' \in {0, 1}
      /\ pop_fifo_r' = pop_fifo /\ uart_write_fifo_r' = accepts
      /\ Len(printed') = Len(printed) + Bit(pop_fifo_r)
      /\ Len(fifo') = Len(fifo) - Bit(pop_fifo) + Bit(uart_write_fifo_r /\ ~full_fifo)
      /\ pop_fifo => Len(fifo) > 0
  BY <1>1, <1>4, <1>6, FifoClock
<1>9. /\ Len(fifo) \in Nat /\ Len(printed) \in Nat /\ Len(sent) \in Nat /\ UartDepth \in Nat
      /\ Len(fifo) <= UartDepth /\ misplaced \in Nat
  BY <1>1, LenProperties, UartAssumption DEF FifoInv
<1>10. misplaced' \in Nat /\ misplaced' = misplaced + Bit(slips)
  BY <1>6, <1>9 DEF Bit
<1>11. CoreInv'
  <2>1. CASE moves
    BY <1>1, <1>6, <2>1, CoreGoesOn
  <2>2. CASE ~moves
    BY <1>1, <1>6, <2>2 DEF CoreInv, Spins, op
  <2> QED
    BY <2>1, <2>2
<1>12. stores => core'.phase = "fetch" /\ core'.op # core.op
  <2>1. stores => core'.phase = "fetch" /\ core'.op = core.op + 1
    BY <1>1, <1>5, <1>6, CoreGoesOn
  <2>2. core.op \in Nat
    BY <1>1 DEF CoreInv
  <2> QED
    BY <2>1, <2>2
<1>13. core'.op # core.op =>
         /\ core'.op = core.op + 1 /\ ~Spins
         /\ \/ core.phase = "mem" /\ op.kind # "poll"
            \/ core.phase = "resp" /\ op.kind = "poll" /\ ~full_fifo
  BY <1>1, <1>6, CoreGoesOn
<1>14. core'.op = core.op => Spins' = Spins /\ op' = op
  BY DEF Spins, op
<1>15. sent' \in Seq({0, 1}) /\ Len(sent') = Len(sent) + Bit(stores)
  <2>1. CASE stores
    <3>1. op.data \in {0, 1}
      BY <1>1, <1>5, <2>1, OperationIsKnown
    <3>2. sent \in Seq({0, 1})
      BY <1>1 DEF FifoInv
    <3>3. sent' = Append(sent, op.data)
      BY <1>6, <2>1
    <3> QED
      BY <2>1, <3>1, <3>2, <3>3, AppendProperties DEF Bit
  <2>2. CASE ~stores
    BY <1>1, <1>6, <1>9, <2>2 DEF FifoInv, Bit
  <2> QED
    BY <2>1, <2>2
<1>16. uart_write_fifo_r => ~full_fifo /\ core.phase = "fetch"
  BY <1>1 DEF PlaceInv
<1>17. Len(fifo') = Len(fifo) - Bit(pop_fifo) + Bit(uart_write_fifo_r)
  BY <1>8, <1>16 DEF Bit
<1>18. FifoInv'
  <2>1. Len(fifo') <= UartDepth
    BY <1>9, <1>16, <1>17 DEF Bit, full_fifo
  <2>2. pop_fifo_r' \in BOOLEAN /\ uart_write_fifo_r' \in BOOLEAN
    BY <1>4, <1>8 DEF pop_fifo
  <2> QED
    BY <1>8, <1>15, <1>10, <2>1, <2>2 DEF FifoInv
<1>19. ~full_fifo /\ ~uart_write_fifo_r => ~full_fifo'
  BY <1>9, <1>17 DEF Bit, full_fifo
<1>20. ASSUME exit' # "abort" PROVE PlaceInv'
  <2>1. accepts => stores /\ ~full_fifo /\ ~uart_write_fifo_r
    BY <1>1, <1>5, <1>7, <1>20 DEF PlaceInv
  <2>2. uart_write_fifo_r' => core'.phase = "fetch" /\ ~full_fifo'
    BY <1>8, <1>12, <1>19, <2>1
  <2>3. ASSUME ~Spins', op'.kind = "putc" PROVE ~full_fifo' /\ ~uart_write_fifo_r'
    <3>1. CASE core'.op = core.op
      <4>1. ~full_fifo /\ ~uart_write_fifo_r
        BY <1>1, <1>14, <2>3, <3>1 DEF PlaceInv
      <4> QED
        BY <1>8, <1>12, <1>19, <2>1, <3>1, <4>1
    <3>2. CASE core'.op # core.op
      <4>1. core'.op > 1 /\ Operations[core'.op - 1].kind = "poll"
        BY <1>11, <2>3, OperationIsKnownNext
      <4>2. core.op \in Nat
        BY <1>1 DEF CoreInv
      <4>3. op.kind = "poll"
        BY <1>13, <3>2, <4>1, <4>2 DEF op
      <4>4. core.phase = "resp" /\ ~full_fifo
        BY <1>13, <3>2, <4>3
      <4> QED
        BY <1>5, <1>8, <1>16, <1>19, <2>1, <4>4
    <3> QED
      BY <3>1, <3>2
  <2> QED
    BY <2>2, <2>3 DEF PlaceInv
<1>21. ASSUME exit' # "abort" PROVE Balance'
  <2> DEFINE shown  == Len(printed)
             queued == Len(fifo)
             ready  == Bit(pop_fifo_r)
             coming == Bit(uart_write_fifo_r)
             pops   == Bit(pop_fifo)
             takes  == Bit(accepts)
             lost   == Bit(slips)
  <2>1. Len(sent) = shown + queued + ready + coming + misplaced
    BY <1>1 DEF Balance
  <2>2. /\ shown \in Nat /\ queued \in Nat /\ ready \in Nat /\ coming \in Nat
        /\ pops \in Nat /\ takes \in Nat /\ lost \in Nat /\ misplaced \in Nat
    BY <1>9 DEF Bit
  <2>3. Bit(pop_fifo_r') = pops /\ Bit(uart_write_fifo_r') = takes
    BY <1>8
  <2>4. Len(printed') = shown + ready /\ Len(fifo') = queued - pops + coming
    BY <1>8, <1>17
  <2>5. Len(sent') = Len(sent) + (takes + lost) /\ misplaced' = misplaced + lost
    BY <1>7, <1>10, <1>15, <1>21
  <2> HIDE DEF shown, queued, ready, coming, pops, takes, lost
  <2>6. Len(printed') + Len(fifo') + pops = shown + queued + ready + coming
    BY <2>2, <2>4
  <2>7. Len(sent') = shown + queued + ready + coming + misplaced + (takes + lost)
    BY <2>1, <2>5
  <2>8. shown + queued + ready + coming \in Nat
    BY <2>2
  <2>9. Len(sent') = (shown + queued + ready + coming) + takes + misplaced'
    BY <2>2, <2>5, <2>7, <2>8
  <2>10. Len(sent') = Len(printed') + Len(fifo') + pops + takes + misplaced'
    BY <2>6, <2>9
  <2> QED
    BY <2>3, <2>10 DEF Balance
<1>22. benchmark_finish \/ (StoresResult(p) /\ ~PortsDiffer(p, Shown))
         => (~Spins => op.kind = "halt")
  BY <1>1, ResultIsLast DEF FinishInv
<1>23. ASSUME exit' # "abort" PROVE FinishInv'
  <2>1. benchmark_finish' \in BOOLEAN
    BY <1>1, <1>2 DEF FinishInv, StoresResult
  <2>2. ASSUME benchmark_finish' PROVE ~uart_write_fifo_r' /\ (~Spins' => op'.kind = "halt")
    <3>1. ~Spins => op.kind = "halt"
      BY <1>2, <1>22, <2>2
    <3>2. ~uart_write_fifo_r'
      BY <1>5, <1>8, <1>7, <1>23, <3>1
    <3>3. ASSUME ~Spins' PROVE op'.kind = "halt"
      <4>1. CASE core'.op = core.op
        BY <1>14, <3>1, <3>3, <4>1
      <4>2. CASE core'.op # core.op
        <5>1. core'.op = core.op + 1 /\ ~Spins
          BY <1>13, <4>2
        <5>2. core.op = Len(Operations)
          BY <1>1, <3>1, <5>1, OperationIsKnown
        <5> QED
          BY <3>3, <5>1, <5>2, OperationsLength DEF Spins
      <4> QED
        BY <4>1, <4>2
    <3> QED
      BY <3>2, <3>3
  <2>3. ASSUME gotFinish' \/ exit' = "success" 
        PROVE  Len(printed') + misplaced' = Len(sent')
    <3>1. MultiCycleOutcome(w, p) = "finish"
      BY <1>3, <2>3
    <3>2. benchmark_finish /\ empty_fifo
      BY <3>1 DEF MultiCycleOutcome, Passes
    <3>3. ~uart_write_fifo_r /\ ~stores /\ ~accepts
      BY <1>1, <1>5, <1>22, <1>23, <1>7, <3>2 DEF FinishInv
    <3>6. Bit(slips) = 0
      BY <1>23, <1>7, <3>3 DEF Bit
    <3>4. Len(fifo) = 0
      BY <3>2, EmptySeq DEF empty_fifo
    <3>5. Len(sent) = Len(printed) + Len(fifo) + Bit(pop_fifo_r) + Bit(uart_write_fifo_r)
                        + misplaced
      BY <1>1 DEF Balance
    <3>7. /\ Bit(uart_write_fifo_r) = 0 /\ Bit(stores) = 0
          /\ Bit(pop_fifo_r) \in Nat /\ Len(printed') = Len(printed) + Bit(pop_fifo_r)
      BY <1>8, <3>3 DEF Bit
    <3>8. Len(sent') = Len(sent) /\ misplaced' = misplaced
      BY <1>9, <1>15, <1>10, <3>6, <3>7
    <3> QED
      BY <1>9, <3>4, <3>5, <3>7, <3>8
  <2> QED
    BY <2>1, <2>2, <2>3 DEF FinishInv
<1> QED
  BY <1>3, <1>11, <1>18, <1>20, <1>21, <1>23 DEF UartInv

\* In a step that leaves the ports alone, only the end of the bench matters.
LEMMA IdleIsUartInv ==
    ASSUME UartInv, bench' = bench, UNCHANGED <<portVars, uartVars, sent, misplaced>>,
           exit' # "abort" => exit # "abort",
           sys_reset_n' = sys_reset_n \/ sys_reset_n' = 1,
           gotFinish' \/ exit' = "success" => gotFinish \/ exit = "success"
    PROVE  UartInv'
<1> USE DEF UartInv, portVars, uartVars
<1>1. (bench # "multi_cycle" \/ sys_reset_n = 0 => PortsFresh)'
  BY DEF PortsFresh, UartInit, CoreAtReset
<1>2. CoreInv'
  BY DEF CoreInv, Spins, op
<1>3. FifoInv' /\ (Balance => Balance')
  BY DEF FifoInv, Balance, Bit
<1>4. PlaceInv => PlaceInv'
  BY DEF PlaceInv, Spins, op, full_fifo
<1>5. FinishInv => FinishInv'
  BY DEF FinishInv, Spins, op
<1> QED
  BY <1>1, <1>2, <1>3, <1>4, <1>5

LEMMA UartStep ==
    ASSUME ClockInv, UartInv, [Next]_vars
    PROVE  UartInv'
<1>1. CASE GoldenHalfPeriod \/ TurboHalfPeriod
  <2>1. /\ bench' = bench /\ bench # "multi_cycle"
        /\ UNCHANGED <<portVars, uartVars, sent, misplaced>>
    BY <1>1 DEF GoldenHalfPeriod, TurboHalfPeriod, PortIdle
  <2>2. PortsFresh
    BY <2>1 DEF UartInv
  <2>3. PortsFresh'
    BY <2>1, <2>2 DEF PortsFresh, UartInit, CoreAtReset, portVars, uartVars
  <2> QED
    BY <2>3, FreshIsUartInvNext
<1>2. CASE MultiCycleHalfPeriod
  <2>1. bench = "multi_cycle" /\ bench' = bench
    BY <1>2 DEF MultiCycleHalfPeriod
  <2>2. CASE ~RisingEdge
    <3>1. HalfPeriod(TIME_LIMIT.multi_cycle, "none") /\ PortIdle
      BY <1>2, <2>2 DEF MultiCycleHalfPeriod
    <3>2. /\ sys_reset_n' = sys_reset_n \/ sys_reset_n' = 1
          /\ ~gotFinish' /\ exit' # "success" /\ exit # "abort"
      BY <3>1 DEF HalfPeriod, Running, resetNow
    <3> QED
      BY <2>1, <3>1, <3>2, IdleIsUartInv DEF PortIdle
  <2>3. CASE RisingEdge
    <3>1. PICK w \in Retired, p \in IF resetNow = 1 THEN MayShow ELSE {Shown} :
             /\ HalfPeriod(TIME_LIMIT.multi_cycle, MultiCycleOutcome(w, p))
             /\ PortEdge(p)
      BY <1>2, <2>3 DEF MultiCycleHalfPeriod
    <3>2. CASE resetNow = 1
      BY <2>1, <3>1, <3>2, RunningEdge
    <3>3. CASE resetNow # 1
      <4>1. sys_reset_n = 0 /\ resetNow = 0
        BY <3>1, <3>3 DEF ClockInv, HalfPeriod, Running, resetNow
      <4>2. PortsFresh
        BY <4>1 DEF UartInv
      <4>3. PortsFresh'
        BY <3>1, <4>1, <4>2, ResetEdge
      <4> QED
        BY <4>3, FreshIsUartInvNext
    <3> QED
      BY <3>2, <3>3
  <2> QED
    BY <2>2, <2>3
<1>3. CASE GoldenLeave \/ TurboLeave \/ MultiCycleLeave
  <2>1. /\ bench' = bench /\ UNCHANGED <<portVars, uartVars, sent, misplaced>>
        /\ gotFinish /\ sys_reset_n' = sys_reset_n /\ exit # "abort"
    BY <1>3 DEF GoldenLeave, TurboLeave, MultiCycleLeave, Leave, PortIdle
  <2> QED
    BY <2>1, IdleIsUartInv
<1>4. CASE \E b \in {"turbo", "multi_cycle"} : UseRecording(b)
  <2>1. PortsFresh
    BY <1>4 DEF UseRecording, UartInv
  <2>2. UNCHANGED <<portVars, uartVars, sent, misplaced>>
    BY <1>4 DEF UseRecording, historyVars
  <2>3. PortsFresh'
    BY <2>1, <2>2 DEF PortsFresh, UartInit, CoreAtReset, portVars, uartVars
  <2> QED
    BY <2>3, FreshIsUartInvNext
<1>5. CASE UNCHANGED vars
  BY <1>5, IdleIsUartInv DEF vars, simVars, historyVars
<1> QED
  BY <1>1, <1>2, <1>3, <1>4, <1>5 DEF Next, Step, Ended

THEOREM UartIsInvariant == Spec => [](ClockInv /\ UartInv)
<1>1. Init => ClockInv /\ UartInv
  <2>1. Init => ClockInv
    BY DEF Init, StartGolden, StartTurbo, StartMultiCycle, PowerUp, ClockInv
  <2>2. Init => PortsFresh
    BY DEF Init, StartGolden, StartTurbo, StartMultiCycle, FreshCore, PortsFresh
  <2> QED
    BY <2>1, <2>2, FreshIsUartInv
<1>2. ClockInv /\ UartInv /\ [Next]_vars => (ClockInv /\ UartInv)'
  BY ClockStep, UartStep
<1> QED
  BY <1>1, <1>2, PTL DEF Spec

\* PassedAlwaysPrinted: the multi-cycle bench waits for the FIFO
\* (custom_cpu_test.v:183), and that is enough: no character of a program that
\* polls before each store is lost on the way, for every depth and period of
\* the simulated UART and every program that ends with its result.  Those that
\* the core under test stores with other low address bits than the golden core
\* never reach the UART (cpu_test_top.v:173-174), and are all that is missing.
THEOREM PassedAlwaysPrinted == Spec => []PassedIsPrinted
<1>1. UartInv => PassedIsPrinted
  BY DEF UartInv, FinishInv, PassedIsPrinted
<1> QED
  BY <1>1, UartIsInvariant, PTL

-----------------------------------------------------------------------------
(* Least and greatest elements, and counting up to an element *)

Less == {ss \in Nat \X Nat : ss[1] < ss[2]}

LEMMA LessIsWellFounded == IsWellFoundedOn(Less, Nat)
BY NatLessThanWellFounded, Zenon DEF OpToRel, Less

LEMMA MinIsLeast ==
    ASSUME NEW S \in SUBSET Nat, S # {}
    PROVE  Min(S) \in S /\ \A y \in S : Min(S) <= y
<1>1. PICK x \in S : \A y \in S : ~(<<y, x>> \in Less)
  BY LessIsWellFounded, WFMin
<1>2. ASSUME NEW y \in S PROVE x <= y
  <2>1. x \in Nat /\ y \in Nat /\ ~(<<y, x>> \in Less)
    BY <1>1
  <2>2. y < x => <<y, x>> \in Less
    BY <2>1 DEF Less
  <2> QED
    BY <2>1, <2>2
<1>3. \E m \in S : \A y \in S : m <= y
  BY <1>2
<1> QED
  BY <1>3 DEF Min

LEMMA MaxIsGreatest ==
    ASSUME NEW n \in Nat, NEW S \in SUBSET (0 .. n), S # {}
    PROVE  Max(S) \in S /\ \A y \in S : Max(S) >= y
<1> DEFINE T == {n - y : y \in S}
<1>0. \A y \in S : y \in Nat /\ n - y \in Nat
  OBVIOUS
<1>1. T \in SUBSET Nat /\ T # {}
  BY <1>0
<1>2. Min(T) \in T /\ \A z \in T : Min(T) <= z
  BY <1>1, MinIsLeast
<1>3. PICK x \in S : Min(T) = n - x
  BY <1>2
<1>4. ASSUME NEW y \in S PROVE x >= y
  <2>1. n - y \in T
    OBVIOUS
  <2>2. n - x <= n - y
    BY <1>2, <1>3, <2>1
  <2> QED
    BY <2>2
<1>5. \E m \in S : \A y \in S : m >= y
  BY <1>4
<1> QED
  BY <1>5 DEF Max

LEMMA UpToIsNat ==
    ASSUME NEW n \in Nat, NEW S \in SUBSET (1 .. n), NEW j \in Nat
    PROVE  /\ IsFiniteSet(S) /\ IsFiniteSet({k \in S : k <= j})
           /\ UpTo(S, j) \in Nat /\ Cardinality(S) \in Nat
           /\ UpTo(S, j) <= Cardinality(S)
<1>0. IsFiniteSet(1 .. n)
  BY FS_Interval
<1>1. IsFiniteSet(S)
  BY <1>0, FS_Subset
<1>2. {k \in S : k <= j} \in SUBSET S
  OBVIOUS
<1>3. IsFiniteSet({k \in S : k <= j}) /\ Cardinality({k \in S : k <= j}) <= Cardinality(S)
  BY <1>1, <1>2, FS_Subset
<1> QED
  BY <1>1, <1>3, FS_CardinalityType DEF UpTo

LEMMA UpToAll ==
    ASSUME NEW S, NEW j, \A k \in S : k <= j
    PROVE  UpTo(S, j) = Cardinality(S)
<1>1. {k \in S : k <= j} = S
  OBVIOUS
<1> QED
  BY <1>1 DEF UpTo

LEMMA UpToNone ==
    ASSUME NEW n \in Nat, NEW S \in SUBSET (1 .. n)
    PROVE  UpTo(S, 0) = 0
<1>0. \A k \in S : ~(k <= 0)
  OBVIOUS
<1>1. {k \in S : k <= 0} = {}
  BY <1>0
<1> QED
  BY <1>1, FS_EmptySet DEF UpTo

LEMMA UpToNext ==
    ASSUME NEW n \in Nat, NEW S \in SUBSET (1 .. n), NEW j \in Nat, NEW s \in S,
           j < s, \A k \in S : j < k => s <= k
    PROVE  UpTo(S, s) = UpTo(S, j) + 1
<1> DEFINE old == {k \in S : k <= j}
<1>0. \A k \in S : k \in Nat
  OBVIOUS
<1>5. \A k \in S : k <= s <=> k <= j \/ k = s
  BY <1>0
<1>1. {k \in S : k <= s} = old \cup {s}
  BY <1>5, Zenon
<1>2. IsFiniteSet(old)
  BY UpToIsNat
<1>4. s \notin old
  BY <1>0
<1>3. Cardinality(old \cup {s}) = Cardinality(old) + 1
  BY <1>2, <1>4, FS_AddElement
<1> QED
  BY <1>1, <1>3 DEF UpTo

\* A number stands for one element.
LEMMA UpToInjective ==
    ASSUME NEW n \in Nat, NEW S \in SUBSET (1 .. n), NEW j \in S, NEW k \in S, j < k
    PROVE  UpTo(S, j) # UpTo(S, k)
<1> DEFINE A == {i \in S : i <= j}
           B == {i \in S : i <= k}
<1>0. \A i \in S : i \in Nat
  OBVIOUS
<1>4. k <= k /\ ~(k <= j) /\ \A i \in S : i <= j => i <= k
  BY <1>0
<1>1. A \in SUBSET B /\ k \in B /\ k \notin A
  BY <1>4, Zenon
<1>2. IsFiniteSet(B)
  BY <1>0, UpToIsNat
<1>3. Cardinality(B) # Cardinality(A)
  BY <1>1, <1>2, FS_Subset
<1> QED
  BY <1>3 DEF UpTo

LEMMA UpToPositive ==
    ASSUME NEW n \in Nat, NEW S \in SUBSET (1 .. n), NEW j \in S
    PROVE  UpTo(S, j) \in 1 .. Cardinality(S)
<1> DEFINE A == {i \in S : i <= j}
<1>0. j \in Nat
  OBVIOUS
<1>1. j \in A
  BY <1>0
<1>2. IsFiniteSet(A) /\ Cardinality(A) \in Nat /\ Cardinality(A) <= Cardinality(S)
      /\ Cardinality(S) \in Nat
  BY <1>0, UpToIsNat DEF UpTo
<1>3. Cardinality(A) # 0
  BY <1>1, <1>2, FS_EmptySet
<1> QED
  BY <1>2, <1>3 DEF UpTo

-----------------------------------------------------------------------------
(* The file and the register writes that it asks for *)

LEMMA RegisterWritesOf ==
    ASSUME NEW t, WellFormed(t)
    PROVE  /\ Len(t) \in Nat /\ DOMAIN t = 1 .. Len(t)
           /\ RegisterWrites(t) \in SUBSET (1 .. Len(t))
           /\ \A j \in 1 .. Len(t) : j \in RegisterWrites(t) <=> IsRegisterWrite(t[j])
<1>1. Len(t) \in Nat /\ DOMAIN t = 1 .. Len(t)
  BY LenProperties DEF WellFormed
<1>2. RegisterWrites(t) \in SUBSET (1 .. Len(t))
  BY <1>1 DEF RegisterWrites
<1>3. ASSUME NEW j \in DOMAIN t
      PROVE  (t[j].type \in {1, 4} /\ t[j].waddr # 0) <=> IsRegisterWrite(t[j])
  <2>1. t[j].type = 4 => t[j].waddr # 0
    BY DEF WellFormed
  <2> QED
    BY <2>1 DEF IsRegisterWrite
<1> QED
  BY <1>1, <1>2, <1>3 DEF RegisterWrites

LEMMA ReferenceIsNumbered ==
    ASSUME WellFormed(trace), reference = ReferenceOf(trace)
    PROVE  Numbered
<1> DEFINE R == RegisterWrites(trace)
           n == Cardinality(R)
           Nth(i) == CHOOSE j \in R : UpTo(R, j) = i
<1>1. Len(trace) \in Nat /\ R \in SUBSET (1 .. Len(trace))
  BY RegisterWritesOf
<1>2. n \in Nat
  BY <1>1, UpToIsNat
<1>3. reference = [i \in 1 .. n |-> Asks(trace[Nth(i)])]
  BY DEF ReferenceOf
<1>4. ASSUME NEW j \in R PROVE UpTo(R, j) \in 1 .. n /\ Nth(UpTo(R, j)) = j
  <2>1. UpTo(R, j) \in 1 .. n
    BY <1>1, UpToPositive
  <2> DEFINE k == Nth(UpTo(R, j))
  <2>2. k \in R /\ UpTo(R, k) = UpTo(R, j)
    OBVIOUS
  <2> HIDE DEF R, k
  <2>3. j \in Nat /\ k \in Nat
    BY <1>1, <2>2
  <2>4. ~(j < k) /\ ~(k < j)
    BY <1>1, <2>2, UpToInjective
  <2>5. k = j
    BY <2>3, <2>4
  <2> QED
    BY <2>1, <2>5 DEF k
<1> HIDE DEF R, n, Nth
<1>5. reference \in Seq(Range(reference)) /\ Len(reference) = n
  BY <1>2, <1>3 DEF Range
<1>6. \A j \in R : reference[UpTo(R, j)] = Asks(trace[j])
  BY <1>3, <1>4
<1> QED
  BY <1>5, <1>6 DEF Numbered, Made, R, n

\* The loop of read_trace ends at the next register write with the mask of the
\* last record of type 1, or at the end of the file.
LEMMA ReaderMoves ==
    ASSUME WellFormed(trace), pos \in 0 .. Len(trace), Keeps(pos, rf_bit_cmp_ref)
    PROVE  /\ Stop \in pos .. Len(trace)
           /\ Keeps(Stop, maskNow)
           /\ Made(pos) \in Nat
           /\ Upcoming = {} =>
                /\ Stop = Len(trace)
                /\ Made(pos) = Cardinality(RegisterWrites(trace))
           /\ Upcoming # {} =>
                /\ Stop \in RegisterWrites(trace)
                /\ Made(Stop) = Made(pos) + 1
                /\ Made(Stop) <= Cardinality(RegisterWrites(trace))
                /\ Asks(trace[Stop]).mask = maskNow
<1> DEFINE R == RegisterWrites(trace)
           n == Len(trace)
<1>1. /\ n \in Nat /\ DOMAIN trace = 1 .. n /\ R \in SUBSET (1 .. n)
      /\ \A j \in 1 .. n : j \in R <=> IsRegisterWrite(trace[j])
  BY RegisterWritesOf
<1>2. pos \in Nat /\ pos <= n
  BY <1>1
<1>3. Upcoming = {j \in pos + 1 .. n : j \in R}
  <2>1. \A j \in pos + 1 .. n : j \in 1 .. n
    BY <1>1, <1>2
  <2> QED
    BY <1>1, <2>1 DEF Upcoming
<1> HIDE DEF R
<1>4. Made(pos) \in Nat
  BY <1>1, <1>2, UpToIsNat DEF Made, R
<1>5. ASSUME Upcoming = {} PROVE Stop = n /\ Made(pos) = Cardinality(R)
  <2>1. Stop = n
    BY <1>5 DEF Stop
  <2>2. \A k \in R : k <= pos
    BY <1>1, <1>2, <1>3, <1>5
  <2>3. Made(pos) = Cardinality(R)
    BY <2>2, UpToAll DEF Made, R
  <2> QED
    BY <2>1, <2>3
<1>6. ASSUME Upcoming # {}
      PROVE  /\ Stop \in R /\ Stop \in pos + 1 .. n
             /\ Made(Stop) = Made(pos) + 1
             /\ Made(Stop) <= Cardinality(R)
  <2>1. Upcoming \in SUBSET Nat
    BY <1>2, <1>3
  <2>2. Stop = Min(Upcoming)
    BY <1>6 DEF Stop
  <2>3. Stop \in Upcoming /\ \A k \in Upcoming : Stop <= k
    BY <1>6, <2>1, <2>2, MinIsLeast
  <2>4. Stop \in R /\ Stop \in pos + 1 .. n /\ pos < Stop /\ Stop \in Nat
    BY <1>2, <1>3, <2>3
  <2>5. \A k \in R : pos < k => Stop <= k
    BY <1>1, <1>2, <1>3, <2>3
  <2>6. UpTo(R, Stop) = UpTo(R, pos) + 1
    BY <1>1, <1>2, <2>4, <2>5, UpToNext
  <2>7. UpTo(R, Stop) <= Cardinality(R)
    BY <1>1, <2>4, UpToIsNat
  <2> QED
    BY <2>4, <2>6, <2>7 DEF Made, R
<1>7. Stop \in pos .. n /\ Stop \in Nat /\ pos <= Stop /\ Stop <= n
  BY <1>2, <1>5, <1>6 DEF Stop
<1>8. Keeps(Stop, maskNow)
  <2> SUFFICES ASSUME NEW i \in 1 .. Stop, trace[i].type = 1,
                      \A k \in i + 1 .. Stop : trace[k].type # 1
               PROVE  maskNow = trace[i].mask
    BY DEF Keeps
  <2>1. MasksRead \in SUBSET (0 .. n) /\ \A j \in MasksRead : j \in pos + 1 .. Stop /\ trace[j].type = 1
    BY <1>2, <1>7 DEF MasksRead
  <2>2. \A j \in MasksRead : j <= i
    BY <1>2, <1>7, <2>1
  <2>3. CASE i > pos
    <3>1. i \in MasksRead
      BY <1>2, <1>7, <2>3 DEF MasksRead
    <3>2. Max(MasksRead) \in MasksRead /\ Max(MasksRead) >= i
      BY <1>1, <2>1, <3>1, MaxIsGreatest
    <3>4. Max(MasksRead) \in 0 .. n
      BY <2>1, <3>2
    <3>5. Max(MasksRead) <= i
      BY <2>2, <3>2
    <3>3. Max(MasksRead) = i
      BY <1>1, <1>7, <3>2, <3>4, <3>5
    <3> QED
      BY <3>1, <3>3 DEF maskNow
  <2>4. CASE i <= pos
    <3>1. MasksRead = {}
      BY <1>2, <1>7, <2>1, <2>2, <2>4
    <3>2. i \in 1 .. pos /\ \A k \in i + 1 .. pos : trace[k].type # 1
      BY <1>2, <1>7, <2>4
    <3>3. rf_bit_cmp_ref = trace[i].mask
      BY <3>2 DEF Keeps
    <3> QED
      BY <3>1, <3>3 DEF maskNow
  <2> QED
    BY <1>2, <1>7, <2>3, <2>4
<1>9. ASSUME Upcoming # {} PROVE Asks(trace[Stop]).mask = maskNow
  <2>1. Stop \in 1 .. n /\ trace[Stop].type \in {1, 4}
    BY <1>1, <1>2, <1>6, <1>9 DEF IsRegisterWrite
  <2>2. Asks(trace[Stop]).mask = (trace[Stop].type = 4 \/ trace[Stop].mask)
    BY DEF Asks
  <2>3. CASE trace[Stop].type = 1
    <3>1. maskNow = trace[Stop].mask
      BY <1>7, <1>8, <2>1, <2>3 DEF Keeps
    <3>2. trace[Stop].mask \in BOOLEAN
      BY <1>1, <2>1, <2>3 DEF WellFormed
    <3> QED
      BY <2>2, <2>3, <3>1, <3>2
  <2>4. CASE trace[Stop].type = 4
    <3>1. PICK i \in 1 .. Stop - 1 :
             /\ trace[i].type = 1 /\ trace[i].mask
             /\ \A k \in i + 1 .. Stop - 1 : trace[k].type # 1
      BY <1>1, <2>1, <2>4 DEF WellFormed
    <3>2. i \in 1 .. Stop /\ i \in 1 .. n /\ \A k \in i + 1 .. Stop : trace[k].type # 1
      BY <1>7, <2>4, <3>1
    <3>3. maskNow = trace[i].mask
      BY <1>8, <3>1, <3>2 DEF Keeps
    <3>4. trace[i].mask = TRUE
      <4>1. trace[i].mask \in BOOLEAN
        BY <1>1, <3>1, <3>2 DEF WellFormed
      <4> QED
        BY <3>1, <4>1
    <3> QED
      BY <2>2, <2>4, <3>3, <3>4
  <2> QED
    BY <2>1, <2>3, <2>4
<1> QED
  BY <1>4, <1>5, <1>6, <1>7, <1>8, <1>9 DEF R

-----------------------------------------------------------------------------
(* The comparison *)

LEMMA RetiredIsRetirement ==
    ASSUME NEW w \in Retired, done \in Nat
    PROVE  w \in Retirement
<1>1. done + 1 \in Nat
  OBVIOUS
<1>2. w \in Strays \/ w = NoWrite \/ w = Program[done + 1]
  BY DEF Retired, Correct
<1> QED
  BY <1>1, <1>2 DEF Retirement

\* What the sequence of writes becomes: it grows by a write that is compared
\* with its own record, and stays when the file has no record left.
LEMMA SeenSteps ==
    ASSUME WellFormed(trace), Numbered, ReaderInv, trace # NoFile, exit # "abort",
           NEW w \in Retirement, CheckEdge(w)
    PROVE  /\ pos' \in 0 .. Len(trace)
           /\ feof' \in BOOLEAN /\ trace_end' \in BOOLEAN
           /\ feof' => pos' = Len(trace)
           /\ trace_end' => feof'
           /\ Keeps(pos', rf_bit_cmp_ref')
           /\ seen' \in Seq(Retirement)
           /\ Len(seen') = UpTo(RegisterWrites(trace), pos')
           /\ \/ seen' = seen /\ (CompareFails(w) => trace = <<>>)
              \/ /\ seen' = Append(seen, w)
                 /\ Len(seen) + 1 \in DOMAIN reference
                 /\ CompareFails(w) <=> (trace = <<>> \/ ~Agrees(w, reference[Len(seen) + 1]))
<1> DEFINE R == RegisterWrites(trace)
           n == Len(trace)
<1>1. /\ n \in Nat /\ DOMAIN trace = 1 .. n /\ R \in SUBSET (1 .. n)
  BY RegisterWritesOf
<1>2. /\ seen \in Seq(Retirement) /\ pos \in 0 .. n
      /\ feof \in BOOLEAN /\ trace_end \in BOOLEAN
      /\ feof => pos = n
      /\ trace_end => feof
      /\ Keeps(pos, rf_bit_cmp_ref)
      /\ Len(seen) = Made(pos)
  BY DEF ReaderInv
<1>3. /\ DOMAIN reference = 1 .. Len(reference) /\ Len(reference) = Cardinality(R)
      /\ \A j \in R : reference[Made(j)] = Asks(trace[j])
  BY LenProperties DEF Numbered
<1>4. Cardinality(R) \in Nat /\ Len(seen) \in Nat
  BY <1>1, <1>2, UpToIsNat, LenProperties
<1>5. Made(n) = Cardinality(R)
  <2>1. \A k \in R : k <= n
    BY <1>1
  <2> QED
    BY <2>1, UpToAll DEF Made
<1>6. /\ trace_end' = (resetNow = 1 /\ (trace_end \/ feof \/ (Compares(w) /\ Upcoming = {})))
      /\ Compares(w) => pos' = Stop /\ feof' = (Upcoming = {}) /\ rf_bit_cmp_ref' = maskNow
      /\ ~Compares(w) => UNCHANGED <<pos, feof, rf_bit_cmp_ref>>
      /\ seen' = IF resetNow = 1 /\ WritesRegister(w) /\ Len(seen) < Len(reference)
                 THEN Append(seen, w) ELSE seen
  BY DEF CheckEdge, Compare
<1> HIDE DEF R, n
<1>7. trace_end' \in BOOLEAN /\ (trace_end' => feof')
  <2>1. trace_end' \in BOOLEAN
    BY <1>6, Zenon
  <2>2. trace_end' => feof \/ (Compares(w) /\ Upcoming = {})
    BY <1>2, <1>6, Zenon
  <2>3. Compares(w) => ~feof
    BY DEF Compares
  <2>4. feof => feof'
    BY <1>6, <2>3
  <2>5. Compares(w) /\ Upcoming = {} => feof'
    BY <1>6
  <2> QED
    BY <2>1, <2>2, <2>4, <2>5
<1>8. CASE ~Compares(w)
  <2>1. pos' = pos /\ feof' = feof /\ rf_bit_cmp_ref' = rf_bit_cmp_ref
    BY <1>6, <1>8
  <2>2. seen' = seen
    <3>1. CASE resetNow = 1 /\ WritesRegister(w)
      <4>1. feof
        BY <1>2, <1>8, <3>1 DEF Compares
      <4>2. Len(seen) = Len(reference)
        BY <1>2, <1>3, <1>5, <4>1
      <4> QED
        BY <1>4, <1>6, <4>2
    <3>2. CASE ~(resetNow = 1 /\ WritesRegister(w))
      BY <1>6, <3>2
    <3> QED
      BY <3>1, <3>2
  <2>3. ~CompareFails(w)
    BY <1>8 DEF CompareFails
  <2> QED
    BY <1>2, <1>7, <2>1, <2>2, <2>3 DEF Made, n
<1>9. CASE Compares(w)
  <2>1. /\ Stop \in pos .. n
        /\ Keeps(Stop, maskNow)
        /\ Made(pos) \in Nat
        /\ Upcoming = {} => Stop = n /\ Made(pos) = Cardinality(R)
        /\ Upcoming # {} =>
             /\ Stop \in R
             /\ Made(Stop) = Made(pos) + 1
             /\ Made(Stop) <= Cardinality(R)
             /\ Asks(trace[Stop]).mask = maskNow
    BY <1>2, ReaderMoves DEF R, n
  <2>2. pos' = Stop /\ feof' = (Upcoming = {}) /\ rf_bit_cmp_ref' = maskNow
    BY <1>6, <1>9
  <2>3. pos' \in 0 .. n /\ feof' \in BOOLEAN /\ (feof' => pos' = n) /\ Keeps(pos', rf_bit_cmp_ref')
    BY <1>1, <1>2, <2>1, <2>2
  <2>4. resetNow = 1 /\ WritesRegister(w)
    BY <1>9 DEF Compares
  <2>5. CASE Upcoming = {}
    <3>1. Len(seen) = Len(reference)
      BY <1>2, <1>3, <2>1, <2>5
    <3>2. seen' = seen
      BY <1>4, <1>6, <3>1
    <3>3. Len(seen') = Made(pos')
      BY <1>2, <1>5, <2>1, <2>2, <2>5, <3>2
    <3>4. CompareFails(w) => trace = <<>>
      BY <2>5 DEF CompareFails
    <3> QED
      BY <1>2, <1>7, <2>3, <3>2, <3>3, <3>4 DEF Made, n
  <2>6. CASE Upcoming # {}
    <3> DEFINE i == Len(seen) + 1
    <3>1. Made(Stop) = i /\ i <= Len(reference) /\ Stop \in R
      BY <1>2, <1>3, <2>1, <2>6
    <3>2. seen' = Append(seen, w)
      BY <1>3, <1>4, <1>6, <2>4, <3>1
    <3>3. seen' \in Seq(Retirement) /\ Len(seen') = i
      BY <1>2, <3>2, AppendProperties
    <3>4. Len(seen') = Made(pos') /\ i \in DOMAIN reference
      BY <1>3, <1>4, <2>2, <3>1, <3>3
    <3>5. reference[i] = Asks(trace[Stop])
      BY <1>3, <3>1
    <3>6. Agrees(w, reference[i]) <=> ~Differs(w, trace[Stop], maskNow)
      <4>1. /\ reference[i].pc = trace[Stop].pc /\ reference[i].waddr = trace[Stop].waddr
            /\ reference[i].wdata = trace[Stop].wdata /\ reference[i].mask = maskNow
        BY <2>1, <2>6, <3>5 DEF Asks
      <4> QED
        BY <4>1 DEF Agrees, Differs
    <3>7. CompareFails(w) <=> (trace = <<>> \/ ~Agrees(w, reference[i]))
      BY <1>9, <2>6, <3>6 DEF CompareFails
    <3> QED
      BY <1>7, <2>3, <3>2, <3>3, <3>4, <3>7 DEF Made, n
  <2> QED
    BY <2>5, <2>6
<1> QED
  BY <1>8, <1>9

\* The verdict of an edge in which the comparison, or the ports, end the bench.
LEMMA CheckStep ==
    ASSUME TraceInv, ReaderInv, NothingMissed, AbortIsDeserved,
           bench # "golden", bench' = bench, UNCHANGED <<trace, reference>>,
           NEW w \in Retired, CheckEdge(w), exit # "abort",
           CompareFails(w) => exit' = "abort",
           exit' = "abort" => CompareFails(w) \/ strayed'
    PROVE  TraceInv' /\ ReaderInv' /\ NothingMissed' /\ AbortIsDeserved'
<1>1. TraceInv'
  <2>1. Numbered => Numbered'
    BY DEF Numbered, Made
  <2>2. Recorded => Recorded'
    BY DEF Recorded
  <2> QED
    BY <2>1, <2>2 DEF TraceInv
<1>2. done' \in Nat
  BY DEF ReaderInv, CheckEdge, Retires
<1>3. CASE trace = NoFile
  <2>1. trace' = NoFile /\ bench' # "golden"
    BY <1>3
  <2>2. ReaderInv'
    BY <1>2, <2>1 DEF ReaderInv
  <2>3. NothingMissed'
    BY <2>1 DEF NothingMissed
  <2>4. AbortIsDeserved'
    BY <2>1 DEF AbortIsDeserved
  <2> QED
    BY <1>1, <2>2, <2>3, <2>4
<1>4. CASE trace # NoFile
  <2>1. WellFormed(trace) /\ Numbered
    BY <1>4 DEF TraceInv
  <2>2. w \in Retirement
    BY RetiredIsRetirement DEF ReaderInv
  <2>3. /\ pos' \in 0 .. Len(trace)
        /\ feof' \in BOOLEAN /\ trace_end' \in BOOLEAN
        /\ feof' => pos' = Len(trace)
        /\ trace_end' => feof'
        /\ Keeps(pos', rf_bit_cmp_ref')
        /\ seen' \in Seq(Retirement)
        /\ Len(seen') = UpTo(RegisterWrites(trace), pos')
        /\ \/ seen' = seen /\ (CompareFails(w) => trace = <<>>)
           \/ /\ seen' = Append(seen, w)
              /\ Len(seen) + 1 \in DOMAIN reference
              /\ CompareFails(w) <=> (trace = <<>> \/ ~Agrees(w, reference[Len(seen) + 1]))
    BY <1>4, <2>1, <2>2, SeenSteps
  <2>4. ReaderInv'
    BY <1>2, <1>4, <2>3 DEF ReaderInv, Keeps, Made, UpTo, RegisterWrites
  <2>5. seen \in Seq(Retirement)
    BY <1>4 DEF ReaderInv
  <2>6. \A i \in DOMAIN seen \cap DOMAIN reference : Agrees(seen[i], reference[i])
    BY <1>4 DEF NothingMissed, BothMade
  <2>7. CASE seen' = seen /\ (CompareFails(w) => trace = <<>>)
    <3>1. NothingMissed'
      BY <2>6, <2>7 DEF NothingMissed, BothMade, Agrees, Differs
    <3>2. AbortIsDeserved'
      BY <2>7 DEF AbortIsDeserved
    <3> QED
      BY <1>1, <2>4, <3>1, <3>2
  <2>8. CASE /\ seen' = Append(seen, w)
             /\ Len(seen) + 1 \in DOMAIN reference
             /\ CompareFails(w) <=> (trace = <<>> \/ ~Agrees(w, reference[Len(seen) + 1]))
    <3> DEFINE i == Len(seen) + 1
    <3>1. /\ DOMAIN seen = 1 .. Len(seen) /\ Len(seen) \in Nat
          /\ DOMAIN seen' = 1 .. i /\ seen'[i] = w
          /\ \A k \in 1 .. Len(seen) : seen'[k] = seen[k]
      BY <2>2, <2>3, <2>5, <2>8, AppendProperties, LenProperties
    <3>2. i \in DOMAIN seen' \cap DOMAIN reference
      BY <2>8, <3>1
    <3>3. NothingMissed'
      <4> SUFFICES ASSUME exit' # "abort", NEW k \in DOMAIN seen' \cap DOMAIN reference
                   PROVE  Agrees(seen'[k], reference[k])
        BY DEF NothingMissed, BothMade, Agrees, Differs
      <4>1. CASE k = i
        BY <2>8, <3>1, <4>1
      <4>2. CASE k # i
        <5>1. k \in DOMAIN seen \cap DOMAIN reference /\ seen'[k] = seen[k]
          BY <3>1, <4>2
        <5> QED
          BY <2>6, <5>1
      <4> QED
        BY <4>1, <4>2
    <3>4. AbortIsDeserved'
      <4> SUFFICES ASSUME exit' = "abort", ~strayed', trace # <<>>
                   PROVE  \E k \in DOMAIN seen' \cap DOMAIN reference :
                              ~Agrees(seen'[k], reference[k])
        BY DEF AbortIsDeserved, BothMade, Agrees, Differs
      <4>1. ~Agrees(seen'[i], reference[i])
        BY <2>8, <3>1
      <4> QED
        BY <3>2, <4>1
    <3> QED
      BY <1>1, <2>4, <3>3, <3>4
  <2> QED
    BY <2>3, <2>7, <2>8
<1> QED
  BY <1>3, <1>4

\* What does not touch the comparison keeps the verdict, unless the bench aborts.
LEMMA IdleKeepsVerdict ==
    ASSUME VerdictInv, bench' = bench, UNCHANGED <<trace, reference, readerVars, seen, done>>,
           exit' = "abort" => exit = "abort" \/ trace \in {NoFile, <<>>},
           exit = "abort" => exit' = "abort",
           strayed => strayed',
           bench = "golden" /\ exit' = "abort" => exit = "abort"
    PROVE  VerdictInv'
<1> USE DEF VerdictInv, readerVars
<1>1. TraceInv'
  BY DEF TraceInv, WellFormed, Numbered, Made, UpTo, RegisterWrites, Asks, Recorded
<1>2. ReaderInv'
  BY DEF ReaderInv, Keeps, Made, UpTo, RegisterWrites
<1>3. NothingMissed'
  BY DEF NothingMissed, BothMade, Agrees, Differs
<1>4. AbortIsDeserved'
  BY DEF AbortIsDeserved, BothMade, Agrees, Differs
<1> QED
  BY <1>1, <1>2, <1>3, <1>4

LEMMA StartOfVerdict ==
    ASSUME TraceInv, pos = 0, feof = FALSE, rf_bit_cmp_ref = FALSE, trace_end = FALSE,
           seen = <<>>, done \in Nat, exit = "abort" => trace = NoFile
    PROVE  VerdictInv
<1>1. seen \in Seq(Retirement) /\ Len(seen) = 0 /\ DOMAIN seen = {}
  BY EmptySeq
<1>2. ASSUME trace # NoFile PROVE pos \in 0 .. Len(trace) /\ Keeps(pos, rf_bit_cmp_ref) /\ Made(pos) = 0
  <2>1. Len(trace) \in Nat /\ RegisterWrites(trace) \in SUBSET (1 .. Len(trace))
    BY <1>2, RegisterWritesOf DEF TraceInv
  <2>2. Keeps(0, rf_bit_cmp_ref)
    BY DEF Keeps
  <2>3. Made(0) = 0
    BY <2>1, UpToNone DEF Made
  <2> QED
    BY <2>1, <2>2, <2>3
<1>3. ReaderInv
  BY <1>1, <1>2 DEF ReaderInv
<1>4. NothingMissed
  BY <1>1 DEF NothingMissed, BothMade
<1>5. AbortIsDeserved
  BY DEF AbortIsDeserved
<1> QED
  BY <1>3, <1>4, <1>5 DEF VerdictInv

LEMMA StartOfVerdictNext ==
    (/\ TraceInv /\ pos = 0 /\ feof = FALSE /\ rf_bit_cmp_ref = FALSE /\ trace_end = FALSE
     /\ seen = <<>> /\ done \in Nat
     /\ (exit = "abort" => trace = NoFile))'
    => VerdictInv'
BY StartOfVerdict, PTL

\* A recorded file is numbered by its positions.
LEMMA RecordedNumbers ==
    ASSUME NEW S, NEW t \in Seq(S), \A j \in DOMAIN t : t[j].type = 1 /\ t[j].waddr # 0
    PROVE  /\ RegisterWrites(t) = 1 .. Len(t)
           /\ Cardinality(RegisterWrites(t)) = Len(t)
           /\ \A j \in 1 .. Len(t) : UpTo(RegisterWrites(t), j) = j
<1>1. Len(t) \in Nat /\ DOMAIN t = 1 .. Len(t)
  BY LenProperties
<1>2. RegisterWrites(t) = 1 .. Len(t)
  BY <1>1 DEF RegisterWrites
<1>3. ASSUME NEW j \in 0 .. Len(t) PROVE Cardinality(1 .. j) = j
  BY <1>1, FS_Interval
<1>4. ASSUME NEW j \in 1 .. Len(t) PROVE UpTo(1 .. Len(t), j) = j
  <2>1. {k \in 1 .. Len(t) : k <= j} = 1 .. j
    BY <1>1
  <2>2. Cardinality(1 .. j) = j
    BY <1>1, <1>3
  <2> QED
    BY <2>1, <2>2 DEF UpTo
<1> QED
  BY <1>1, <1>2, <1>3, <1>4

LEMMA RecordedIsWellFormed ==
    ASSUME NEW S, NEW t \in Seq(S),
           \A j \in DOMAIN t : t[j].type = 1 /\ t[j].waddr # 0 /\ t[j].mask = TRUE
    PROVE  WellFormed(t)
<1>1. t \in Seq(Range(t))
  BY SeqOfRange
<1>2. ASSUME NEW j \in DOMAIN t PROVE t[j].mask \in BOOLEAN /\ t[j].type # 4
  <2>1. t[j].mask \in BOOLEAN
    BY Zenon
  <2>2. t[j].type # 4
    OBVIOUS
  <2> QED
    BY <2>1, <2>2
<1> QED
  BY <1>1, <1>2 DEF WellFormed

\* The recorder appends what the program asks for.
LEMMA RecorderStep ==
    ASSUME TraceInv, bench = "golden", bench' = bench, exit # "abort", NEW w, GoldenEdge(w)
    PROVE  TraceInv'
<1>1. WellFormed(trace) /\ Numbered /\ Recorded
  BY DEF TraceInv
<1>2. CASE ~WritesRegister(w)
  <2>1. trace' = trace /\ reference' = reference
    BY <1>2 DEF GoldenEdge, Record
  <2> QED
    BY <1>1, <2>1 DEF TraceInv, Numbered, Made, Recorded
<1>3. CASE WritesRegister(w)
  <2> DEFINE r == [type |-> 1, pc |-> w.pc, waddr |-> w.waddr, wdata |-> w.wdata, mask |-> TRUE]
             a == [pc |-> w.pc, waddr |-> w.waddr, wdata |-> w.wdata, mask |-> TRUE]
             n == Len(trace)
  <2>1. trace' = Append(trace, r) /\ reference' = Append(reference, a)
    BY <1>3 DEF GoldenEdge, Record
  <2>2. r.type = 1 /\ r.waddr # 0 /\ r.mask = TRUE /\ Asks(r) = a
    BY <1>3 DEF WritesRegister, Asks
  <2> DEFINE S == Range(trace) \cup {r}
             A == Range(reference) \cup {a}
  <2>3. trace \in Seq(S) /\ reference \in Seq(A)
    BY <1>1, SeqMonotonic DEF WellFormed, Numbered
  <2>4. r \in S /\ a \in A
    OBVIOUS
  <2> HIDE DEF r, a, S, A
  <2>5. /\ DOMAIN trace = 1 .. n /\ n \in Nat
        /\ Len(reference) \in Nat
    BY <2>3, LenProperties
  <2>6. \A j \in DOMAIN trace : trace[j].type = 1 /\ trace[j].waddr # 0 /\ trace[j].mask = TRUE
    BY <1>1 DEF Recorded
  <2>7. /\ Len(reference) = n
        /\ \A j \in 1 .. n : reference[j] = Asks(trace[j])
    BY <1>1, <2>3, <2>6, RecordedNumbers DEF Numbered, Made
  <2>8. /\ trace' \in Seq(S) /\ Len(trace') = n + 1
        /\ \A j \in 1 .. n : trace'[j] = trace[j]
        /\ trace'[n + 1] = r
    BY <2>1, <2>3, <2>4, AppendProperties
  <2>9. /\ reference' \in Seq(A) /\ Len(reference') = n + 1
        /\ \A j \in 1 .. n : reference'[j] = reference[j]
        /\ reference'[n + 1] = a
    BY <2>1, <2>3, <2>4, <2>7, AppendProperties
  <2>10. DOMAIN trace' = 1 .. n + 1
    BY <2>8, LenProperties
  <2>11. \A j \in 1 .. n + 1 : j \in 1 .. n \/ j = n + 1
    BY <2>5
  <2>12. \A j \in DOMAIN trace' :
            trace'[j].type = 1 /\ trace'[j].waddr # 0 /\ trace'[j].mask = TRUE
    BY <2>2, <2>5, <2>6, <2>8, <2>10, <2>11
  <2>13. \A j \in 1 .. n + 1 : reference'[j] = Asks(trace'[j])
    BY <2>2, <2>7, <2>8, <2>9, <2>11
  <2>14. WellFormed(trace')
    BY <2>8, <2>12, RecordedIsWellFormed
  <2>15. /\ RegisterWrites(trace') = 1 .. n + 1
         /\ Cardinality(RegisterWrites(trace')) = n + 1
         /\ \A j \in 1 .. n + 1 : UpTo(RegisterWrites(trace'), j) = j
    BY <2>8, <2>12, RecordedNumbers
  <2>16. reference' \in Seq(Range(reference'))
    BY <2>9, SeqOfRange
  <2>17. Numbered'
    BY <2>9, <2>13, <2>15, <2>16 DEF Numbered, Made
  <2>18. Recorded'
    BY <2>12 DEF Recorded
  <2> QED
    BY <2>14, <2>17, <2>18 DEF TraceInv
<1> QED
  BY <1>2, <1>3

-----------------------------------------------------------------------------
(* What the verdict says of the core *)

LEMMA MayShowSignals ==
    ASSUME NEW p \in MayShow, NEW s \in {"Inst_Req_Valid", "MemRead", "MemWrite"}
    PROVE  p[s] \in BOOLEAN
<1>1. Shown[s] \in BOOLEAN
  <2>1. Shown.Inst_Req_Valid = (core.phase = "fetch")
    BY DEF Shown
  <2>2. Shown.MemRead = (core.phase = "mem" /\ op.kind = "poll")
    BY DEF Shown
  <2>3. Shown.MemWrite = (core.phase = "mem" /\ op.kind # "poll")
    BY DEF Shown
  <2>4. /\ Shown["Inst_Req_Valid"] \in BOOLEAN /\ Shown["MemRead"] \in BOOLEAN
        /\ Shown["MemWrite"] \in BOOLEAN
    BY <2>1, <2>2, <2>3
  <2> QED
    BY <2>4
<1>2. ASSUME NEW f \in DOMAIN Shown, NEW x \in SignalValues[f], p = [Shown EXCEPT ![f] = x]
      PROVE  p[s] \in BOOLEAN
  <2>1. s \in DOMAIN Shown
    BY DEF Shown
  <2>2. CASE f = s
    <3>1. x \in BOOLEAN
      BY <1>2, <2>2 DEF SignalValues
    <3>2. p[s] = x
      BY <1>2, <2>1, <2>2
    <3> QED
      BY <3>1, <3>2
  <2>3. CASE f # s
    <3>1. p[s] = Shown[s]
      BY <1>2, <2>1, <2>3
    <3> QED
      BY <1>1, <3>1
  <2> QED
    BY <2>2, <2>3
<1>3. p = Shown \/ \E f \in DOMAIN Shown : \E x \in SignalValues[f] : p = [Shown EXCEPT ![f] = x]
  BY Zenon DEF MayShow
<1> QED
  BY <1>1, <1>2, <1>3

LEMMA MeaningOfDifference ==
    ASSUME NEW p \in MayShow, PortsDiffer(p, Shown)
    PROVE  Meaning(p) # Meaning(Shown)
<1> DEFINE g == Shown
<1> SUFFICES ASSUME Meaning(p) = Meaning(g) PROVE ~PortsDiffer(p, g)
  OBVIOUS
<1>1. /\ p.Inst_Req_Valid \in BOOLEAN /\ p.MemRead \in BOOLEAN /\ p.MemWrite \in BOOLEAN
      /\ g.Inst_Req_Valid \in BOOLEAN /\ g.MemRead \in BOOLEAN /\ g.MemWrite \in BOOLEAN
  <2>1. g \in MayShow
    BY Zenon DEF MayShow
  <2> QED
    BY <2>1, MayShowSignals
<1> HIDE DEF g
<1>2. Meaning(p).fetches = Meaning(g).fetches /\ Meaning(p).loads = Meaning(g).loads
      /\ Meaning(p).stores = Meaning(g).stores /\ Meaning(p).takes = Meaning(g).takes
  OBVIOUS
<1>3. /\ p.Inst_Req_Valid = g.Inst_Req_Valid
      /\ p.Inst_Req_Valid => p.PC = g.PC
  <2>1. (IF p.Inst_Req_Valid THEN {p.PC} ELSE {}) = (IF g.Inst_Req_Valid THEN {g.PC} ELSE {})
    BY <1>2 DEF Meaning
  <2> QED
    BY <1>1, <2>1
<1>4. /\ p.MemRead = g.MemRead
      /\ p.MemRead => p.word = g.word
  <2>1. (IF p.MemRead THEN {p.word} ELSE {}) = (IF g.MemRead THEN {g.word} ELSE {})
    BY <1>2 DEF Meaning
  <2> QED
    BY <1>1, <2>1
<1>5. /\ p.MemWrite = g.MemWrite
      /\ p.MemWrite => /\ p.word = g.word
                       /\ Strobed(p.Write_data, p.Write_strb) = Strobed(g.Write_data, g.Write_strb)
  <2>1. (IF p.MemWrite THEN {<<p.word, Strobed(p.Write_data, p.Write_strb)>>} ELSE {})
          = (IF g.MemWrite THEN {<<g.word, Strobed(g.Write_data, g.Write_strb)>>} ELSE {})
    BY <1>2 DEF Meaning
  <2>2. p.MemWrite = g.MemWrite
    BY <1>1, <2>1
  <2>3. p.MemWrite => <<p.word, Strobed(p.Write_data, p.Write_strb)>>
                        = <<g.word, Strobed(g.Write_data, g.Write_strb)>>
    BY <2>1, <2>2
  <2> QED
    BY <2>2, <2>3
<1>6. p.MemWrite => p.Write_strb = g.Write_strb
  <2>1. DOMAIN Strobed(p.Write_data, p.Write_strb) = p.Write_strb
        /\ DOMAIN Strobed(g.Write_data, g.Write_strb) = g.Write_strb
    BY DEF Strobed
  <2> QED
    BY <1>5, <2>1
<1>7. p.Inst_Ready = g.Inst_Ready /\ p.Read_data_Ready = g.Read_data_Ready
  <2>1. <<p.Inst_Ready, p.Read_data_Ready>> = <<g.Inst_Ready, g.Read_data_Ready>>
    BY <1>2 DEF Meaning
  <2> QED
    BY <2>1
<1>8. p.MemWrite => Strobed(p.Write_data, g.Write_strb) = Strobed(g.Write_data, g.Write_strb)
  BY <1>5, <1>6
<1> QED
  BY <1>3, <1>4, <1>5, <1>6, <1>7, <1>8 DEF PortsDiffer

LEMMA VerdictStart == Init => VerdictInv
<1>1. ASSUME NEW file \in {<<>>, NoFile}, StartGolden(file), reference = <<>>
      PROVE  VerdictInv
  <2> USE <1>1 DEF StartGolden, OpenTrace, FreshCore, PowerUp
  <2>1. CASE trace = NoFile
    <3>1. TraceInv
      BY <2>1 DEF TraceInv
    <3> QED
      BY <2>1, <3>1, StartOfVerdict
  <2>2. CASE trace # NoFile
    <3>1. trace = <<>> /\ trace \in Seq({}) /\ Len(trace) = 0 /\ DOMAIN trace = {}
      <4>1. trace = <<>>
        BY <2>2
      <4> QED
        BY <4>1, EmptySeq
    <3>2. WellFormed(trace) /\ Recorded
      BY <3>1, RecordedIsWellFormed DEF Recorded
    <3>3. Cardinality(RegisterWrites(trace)) = 0 /\ RegisterWrites(trace) = {}
      <4>1. \A j \in DOMAIN trace : trace[j].type = 1 /\ trace[j].waddr # 0
        BY <3>1
      <4>2. /\ RegisterWrites(trace) = 1 .. Len(trace)
            /\ Cardinality(RegisterWrites(trace)) = Len(trace)
        BY <3>1, <4>1, RecordedNumbers
      <4> QED
        BY <3>1, <4>2
    <3>4. reference \in Seq(Range(reference)) /\ Len(reference) = 0
      BY EmptySeq
    <3>5. Numbered
      BY <3>3, <3>4 DEF Numbered
    <3>6. TraceInv
      BY <3>2, <3>5 DEF TraceInv
    <3> QED
      BY <3>6, StartOfVerdict
  <2> QED
    BY <2>1, <2>2
<1>2. ASSUME NEW file \in StoredTraces \cup {NoFile},
             StartTurbo(file) \/ StartMultiCycle(file),
             reference = IF file = NoFile THEN <<>> ELSE ReferenceOf(file)
      PROVE  VerdictInv
  <2> USE <1>2 DEF StartTurbo, StartMultiCycle, OpenTrace, FreshCore, PowerUp
  <2>1. bench # "golden" /\ trace = file
    OBVIOUS
  <2>2. trace # NoFile => WellFormed(trace)
    BY <2>1, StoredTracesAssumption
  <2>3. trace # NoFile => Numbered
    BY <2>1, <2>2, ReferenceIsNumbered
  <2>4. TraceInv
    BY <2>1, <2>2, <2>3 DEF TraceInv
  <2>5. exit = "abort" => trace = NoFile
    BY <2>1
  <2>6. /\ pos = 0 /\ feof = FALSE /\ rf_bit_cmp_ref = FALSE /\ trace_end = FALSE
        /\ seen = <<>> /\ done \in Nat
    OBVIOUS
  <2> QED
    BY <2>1, <2>4, <2>5, <2>6, StartOfVerdict
<1> QED
  BY <1>1, <1>2 DEF Init

LEMMA GoldenVerdict ==
    ASSUME VerdictInv, GoldenHalfPeriod
    PROVE  VerdictInv'
<1>1. /\ bench = "golden" /\ bench' = bench
      /\ UNCHANGED <<readerVars, seen>>
  BY DEF GoldenHalfPeriod
<1>2. TraceInv /\ ReaderInv
  BY DEF VerdictInv
<1>3. pos' = 0 /\ feof' = FALSE /\ rf_bit_cmp_ref' = FALSE /\ trace_end' = FALSE /\ seen' = <<>>
  BY <1>1, <1>2 DEF ReaderInv, readerVars
<1>4. exit # "abort" /\ exit' # "abort"
  BY DEF GoldenHalfPeriod, HalfPeriod, Running, TrapOutcome
<1>5. TraceInv' /\ done' \in Nat
  <2>1. CASE RisingEdge
    <3>1. PICK w \in Correct : GoldenEdge(w)
      BY <2>1 DEF GoldenHalfPeriod
    <3>2. done' \in Nat
      BY <1>2, <3>1 DEF ReaderInv, GoldenEdge, Retires
    <3> QED
      BY <1>1, <1>2, <1>4, <3>1, <3>2, RecorderStep
  <2>2. CASE ~RisingEdge
    <3>1. CoreIdle /\ UNCHANGED <<trace, reference>>
      BY <2>2 DEF GoldenHalfPeriod
    <3> QED
      BY <1>1, <1>2, <1>4, <3>1
         DEF TraceInv, Numbered, Made, Recorded, ReaderInv, CoreIdle, coreVars
  <2> QED
    BY <2>1, <2>2
<1> QED
  BY <1>3, <1>4, <1>5, StartOfVerdictNext

LEMMA TurboVerdict ==
    ASSUME VerdictInv, TurboHalfPeriod
    PROVE  VerdictInv'
<1>1. /\ bench # "golden" /\ bench' = bench
      /\ UNCHANGED <<trace, reference>> /\ strayed' = strayed
  BY DEF TurboHalfPeriod, PortIdle
<1>2. exit = "none"
  BY DEF TurboHalfPeriod, HalfPeriod, Running
<1>3. CASE RisingEdge
  <2>1. PICK w \in Retired : HalfPeriod(TIME_LIMIT.turbo, TurboOutcome(w)) /\ CheckEdge(w)
    BY <1>3 DEF TurboHalfPeriod
  <2>2. exit' = "abort" <=> CompareFails(w)
    BY <2>1 DEF HalfPeriod, TurboOutcome, TrapOutcome
  <2> QED
    BY <1>1, <1>2, <2>1, <2>2, CheckStep DEF VerdictInv
<1>4. CASE ~RisingEdge
  <2>1. HalfPeriod(TIME_LIMIT.turbo, "none") /\ CheckIdle
    BY <1>4 DEF TurboHalfPeriod
  <2>2. exit' # "abort"
    BY <2>1 DEF HalfPeriod
  <2> QED
    BY <1>1, <1>2, <2>1, <2>2, IdleKeepsVerdict DEF CheckIdle, CoreIdle, coreVars
<1> QED
  BY <1>3, <1>4

LEMMA MultiCycleVerdict ==
    ASSUME VerdictInv, MultiCycleHalfPeriod
    PROVE  VerdictInv'
<1>1. bench # "golden" /\ bench' = bench /\ UNCHANGED <<trace, reference>>
  BY DEF MultiCycleHalfPeriod
<1>2. exit = "none"
  BY DEF MultiCycleHalfPeriod, HalfPeriod, Running
<1>3. CASE RisingEdge
  <2>1. PICK w \in Retired, p \in IF resetNow = 1 THEN MayShow ELSE {Shown} :
           /\ HalfPeriod(TIME_LIMIT.multi_cycle, MultiCycleOutcome(w, p))
           /\ CheckEdge(w)
           /\ strayed' = (strayed \/ Meaning(p) # Meaning(Shown))
    BY <1>3 DEF MultiCycleHalfPeriod
  <2>2. CompareFails(w) => exit' = "abort"
    BY <2>1 DEF HalfPeriod, MultiCycleOutcome
  <2>3. exit' = "abort" => CompareFails(w) \/ strayed'
    <3>1. exit' = "abort" => CompareFails(w) \/ (resetNow = 1 /\ PortsDiffer(p, Shown))
      BY <2>1 DEF HalfPeriod, MultiCycleOutcome
    <3>2. resetNow = 1 /\ PortsDiffer(p, Shown) => Meaning(p) # Meaning(Shown)
      BY <2>1, MeaningOfDifference
    <3> QED
      BY <2>1, <3>1, <3>2
  <2> QED
    BY <1>1, <1>2, <2>1, <2>2, <2>3, CheckStep DEF VerdictInv
<1>4. CASE ~RisingEdge
  <2>1. HalfPeriod(TIME_LIMIT.multi_cycle, "none") /\ CheckIdle /\ PortIdle
    BY <1>4 DEF MultiCycleHalfPeriod
  <2>2. exit' # "abort"
    BY <2>1 DEF HalfPeriod
  <2> QED
    BY <1>1, <1>2, <2>1, <2>2, IdleKeepsVerdict
       DEF CheckIdle, CoreIdle, coreVars, PortIdle
<1> QED
  BY <1>3, <1>4

LEMMA VerdictStep ==
    ASSUME VerdictInv, [Next]_vars
    PROVE  VerdictInv'
<1>1. CASE GoldenHalfPeriod
  BY <1>1, GoldenVerdict
<1>2. CASE TurboHalfPeriod
  BY <1>2, TurboVerdict
<1>3. CASE MultiCycleHalfPeriod
  BY <1>3, MultiCycleVerdict
<1>4. CASE GoldenLeave \/ TurboLeave \/ MultiCycleLeave
  <2>1. /\ exit = "none" /\ exit' # "abort" /\ bench' = bench
        /\ UNCHANGED <<trace, reference, readerVars, seen, done, strayed>>
    BY <1>4 DEF GoldenLeave, TurboLeave, MultiCycleLeave, Leave, CheckIdle, PortIdle,
                CoreIdle, coreVars
  <2> QED
    BY <2>1, IdleKeepsVerdict
<1>5. CASE \E b \in {"turbo", "multi_cycle"} : UseRecording(b)
  <2>1. /\ bench = "golden" /\ bench' # "golden" /\ exit' = "none" /\ done' = 0
        /\ UNCHANGED <<trace, readerVars, seen, reference>>
    BY <1>5 DEF UseRecording, historyVars
  <2>2. TraceInv'
    BY <2>1 DEF VerdictInv, TraceInv, Numbered, Made
  <2>3. pos' = 0 /\ feof' = FALSE /\ rf_bit_cmp_ref' = FALSE /\ trace_end' = FALSE /\ seen' = <<>>
    BY <2>1 DEF VerdictInv, ReaderInv, readerVars
  <2> QED
    BY <2>1, <2>2, <2>3, StartOfVerdictNext
<1>6. CASE UNCHANGED vars
  <2>1. /\ exit' = exit /\ bench' = bench
        /\ UNCHANGED <<trace, reference, readerVars, seen, done, strayed>>
    BY <1>6 DEF vars, simVars, historyVars, coreVars
  <2> QED
    BY <2>1, IdleKeepsVerdict DEF VerdictInv, ReaderInv
<1> QED
  BY <1>1, <1>2, <1>3, <1>4, <1>5, <1>6 DEF Next, Step, Ended

THEOREM VerdictIsInvariant == Spec => []VerdictInv
BY VerdictStart, VerdictStep, PTL DEF Spec

\* NothingIsMissed: whatever records of other kinds, stalls and masks lie
\* between, each register write of a core is compared with its own record and
\* its own bits (custom_cpu_test.v:66-94), for every trace file of the
\* repository's form and every file that the golden bench recorded.
THEOREM NothingIsMissed == Spec => []NothingMissed
BY VerdictIsInvariant, PTL DEF VerdictInv

\* AbortIsAlwaysDeserved: no core is refused for the order of the records, the
\* end of the file, or its time: only for a wrong write or a port that differs
\* in what it means.
THEOREM AbortIsAlwaysDeserved == Spec => []AbortIsDeserved
BY VerdictIsInvariant, PTL DEF VerdictInv

-----------------------------------------------------------------------------
(* The ranges of the variables *)

ReaderTypes == feof \in BOOLEAN /\ rf_bit_cmp_ref \in BOOLEAN /\ trace_end \in BOOLEAN
CoreTypes   == done \in 0 .. Len(Program) + 1 /\ result \in {"unset", "good", "bad"}
UartTypes   == counter \in 0 .. UartPeriod - 1

TypeInv == SimTypeOK /\ bench \in Benches /\ ReaderTypes /\ CoreTypes /\ UartTypes

LEMMA HalfPeriodTypes ==
    ASSUME SimTypeOK, NEW limit, NEW outcome, HalfPeriod(limit, outcome)
    PROVE  SimTypeOK'
<1>1. sys_clk' \in {0, 1} /\ sys_reset_n' \in {0, 1}
  BY DEF SimTypeOK, HalfPeriod, resetNow
<1>2. gotFinish' \in BOOLEAN
  BY DEF HalfPeriod
<1>3. main_time' \in Nat /\ exit' \in ExitStates
  BY DEF SimTypeOK, HalfPeriod, NextTime, ExitStates
<1> QED
  BY <1>1, <1>2, <1>3 DEF SimTypeOK

LEMMA ProgramLength == Len(Program) \in Nat
<1>1. Program \in Seq(Range(Program))
  BY ProgramAssumption
<1> QED
  BY <1>1, LenProperties

\* A core that has strayed retires at most one instruction more than the program.
LEMMA RetiresTypes ==
    ASSUME CoreTypes, NEW w \in Retired, Retires(w)
    PROVE  done' \in 0 .. Len(Program) + 1
<1>1. Len(Program) \in Nat /\ done \in Nat /\ done <= Len(Program) + 1
  BY ProgramLength DEF CoreTypes
<1>2. w # NoWrite => done <= Len(Program)
  BY <1>1 DEF Retired, Correct
<1> QED
  BY <1>1, <1>2 DEF Retires

LEMMA RamTypes ==
    ASSUME CoreTypes, RamEdge
    PROVE  result' \in {"unset", "good", "bad"}
BY DEF CoreTypes, RamEdge

LEMMA CheckTypes ==
    ASSUME VerdictInv, ReaderTypes, NEW w, CheckEdge(w), bench # "golden"
    PROVE  ReaderTypes'
<1>1. trace_end' = (resetNow = 1 /\ (trace_end \/ feof \/ (Compares(w) /\ Upcoming = {})))
  BY DEF CheckEdge, Compare
<1>2. trace_end' \in BOOLEAN
  BY <1>1, Zenon
<1>3. feof' \in BOOLEAN
  BY DEF ReaderTypes, CheckEdge, Compare
<1>4. rf_bit_cmp_ref' \in BOOLEAN
  <2>1. CASE ~Compares(w) \/ MasksRead = {}
    BY <2>1 DEF ReaderTypes, CheckEdge, Compare, maskNow
  <2>2. CASE Compares(w) /\ MasksRead # {}
    <3>1. trace # NoFile
      BY <2>2 DEF Compares
    <3>2. /\ WellFormed(trace) /\ pos \in 0 .. Len(trace) /\ Keeps(pos, rf_bit_cmp_ref)
      BY <3>1 DEF VerdictInv, TraceInv, ReaderInv
    <3>3. Stop \in pos .. Len(trace)
      BY <3>2, ReaderMoves
    <3>4. /\ Len(trace) \in Nat /\ DOMAIN trace = 1 .. Len(trace)
      BY <3>2, RegisterWritesOf
    <3>5. pos \in Nat /\ Stop \in Nat /\ pos <= Stop /\ Stop <= Len(trace)
      BY <3>2, <3>3, <3>4
    <3>6. MasksRead \in SUBSET (0 .. Len(trace))
      BY <3>4, <3>5 DEF MasksRead
    <3>7. Max(MasksRead) \in MasksRead
      BY <2>2, <3>4, <3>6, MaxIsGreatest
    <3>8. Max(MasksRead) \in DOMAIN trace /\ trace[Max(MasksRead)].type = 1
      BY <3>4, <3>5, <3>7 DEF MasksRead
    <3>9. trace[Max(MasksRead)].mask \in BOOLEAN
      BY <3>2, <3>8 DEF WellFormed
    <3> QED
      BY <2>2, <3>9 DEF CheckEdge, Compare, maskNow
  <2> QED
    BY <2>1, <2>2
<1> QED
  BY <1>2, <1>3, <1>4 DEF ReaderTypes

LEMMA ClockTypes ==
    ASSUME UartTypes, NEW rst, NEW accepts, NEW byte, UartClock(rst, accepts, byte)
    PROVE  UartTypes'
BY UartAssumption DEF UartTypes, UartClock

LEMMA TypeStep ==
    ASSUME VerdictInv, TypeInv, [Next]_vars
    PROVE  TypeInv'
<1> USE DEF TypeInv
<1>1. CASE GoldenHalfPeriod
  <2>1. /\ bench' = bench /\ UNCHANGED readerVars /\ PortIdle
        /\ \E outcome : HalfPeriod(TIME_LIMIT.golden, outcome)
    BY <1>1 DEF GoldenHalfPeriod
  <2>2. SimTypeOK'
    BY <2>1, HalfPeriodTypes
  <2>3. CoreTypes'
    <3>1. CASE RisingEdge
      <4>1. PICK w \in Correct : Retires(w) /\ RamEdge
        BY <1>1, <3>1 DEF GoldenHalfPeriod, GoldenEdge
      <4>2. w \in Retired
        BY <4>1 DEF Retired
      <4> QED
        BY <4>1, <4>2, RetiresTypes, RamTypes DEF CoreTypes
    <3>2. CASE ~RisingEdge
      BY <1>1, <3>2 DEF GoldenHalfPeriod, CoreIdle, coreVars, CoreTypes
    <3> QED
      BY <3>1, <3>2
  <2> QED
    BY <2>1, <2>2, <2>3 DEF ReaderTypes, UartTypes, readerVars, PortIdle, uartVars
<1>2. CASE TurboHalfPeriod
  <2>1. bench' = bench /\ bench # "golden" /\ PortIdle
    BY <1>2 DEF TurboHalfPeriod
  <2>2. CASE RisingEdge
    <3>1. PICK w \in Retired :
             HalfPeriod(TIME_LIMIT.turbo, TurboOutcome(w)) /\ CheckEdge(w) /\ RamEdge
      BY <1>2, <2>2 DEF TurboHalfPeriod
    <3>2. SimTypeOK' /\ ReaderTypes'
      BY <2>1, <3>1, HalfPeriodTypes, CheckTypes
    <3>3. CoreTypes'
      BY <3>1, RetiresTypes, RamTypes DEF CheckEdge, CoreTypes
    <3> QED
      BY <2>1, <3>2, <3>3 DEF UartTypes, PortIdle, uartVars
  <2>3. CASE ~RisingEdge
    <3>1. HalfPeriod(TIME_LIMIT.turbo, "none") /\ CheckIdle
      BY <1>2, <2>3 DEF TurboHalfPeriod
    <3>2. SimTypeOK'
      BY <3>1, HalfPeriodTypes
    <3> QED
      BY <2>1, <3>1, <3>2
         DEF ReaderTypes, CoreTypes, UartTypes, CheckIdle, CoreIdle, coreVars, readerVars,
             PortIdle, uartVars
  <2> QED
    BY <2>2, <2>3
<1>3. CASE MultiCycleHalfPeriod
  <2>1. bench' = bench /\ bench # "golden"
    BY <1>3 DEF MultiCycleHalfPeriod
  <2>2. CASE RisingEdge
    <3>1. PICK w \in Retired, p \in IF resetNow = 1 THEN MayShow ELSE {Shown} :
             /\ HalfPeriod(TIME_LIMIT.multi_cycle, MultiCycleOutcome(w, p))
             /\ CheckEdge(w) /\ UNCHANGED result /\ PortEdge(p)
      BY <1>3, <2>2 DEF MultiCycleHalfPeriod
    <3>2. SimTypeOK' /\ ReaderTypes'
      BY <2>1, <3>1, HalfPeriodTypes, CheckTypes
    <3>3. CoreTypes'
      BY <3>1, RetiresTypes DEF CheckEdge, CoreTypes
    <3>4. UartTypes'
      BY <3>1, ClockTypes DEF PortEdge
    <3> QED
      BY <2>1, <3>2, <3>3, <3>4
  <2>3. CASE ~RisingEdge
    <3>1. HalfPeriod(TIME_LIMIT.multi_cycle, "none") /\ CheckIdle /\ PortIdle
      BY <1>3, <2>3 DEF MultiCycleHalfPeriod
    <3>2. SimTypeOK'
      BY <3>1, HalfPeriodTypes
    <3> QED
      BY <2>1, <3>1, <3>2
         DEF ReaderTypes, CoreTypes, UartTypes, CheckIdle, CoreIdle, coreVars, readerVars,
             PortIdle, uartVars
  <2> QED
    BY <2>2, <2>3
<1>4. CASE GoldenLeave \/ TurboLeave \/ MultiCycleLeave
  <2>1. /\ UNCHANGED <<bench, readerVars>> /\ CoreIdle /\ PortIdle
        /\ \E limit : Leave(limit)
    BY <1>4 DEF GoldenLeave, TurboLeave, MultiCycleLeave, CheckIdle
  <2>2. SimTypeOK'
    BY <2>1 DEF SimTypeOK, Leave, ExitStates
  <2> QED
    BY <2>1, <2>2
       DEF ReaderTypes, CoreTypes, UartTypes, CoreIdle, coreVars, readerVars, PortIdle, uartVars
<1>5. CASE \E b \in {"turbo", "multi_cycle"} : UseRecording(b)
  <2>1. bench' \in Benches /\ SimTypeOK'
    <3>1. PICK b \in {"turbo", "multi_cycle"} : UseRecording(b)
      BY <1>5
    <3>2. bench' \in Benches
      BY <3>1 DEF UseRecording, Benches
    <3>3. /\ sys_clk' = 1 /\ sys_reset_n' = 0 /\ main_time' = 0
          /\ gotFinish' = FALSE /\ exit' = "none"
      BY <3>1 DEF UseRecording
    <3> QED
      BY <3>2, <3>3 DEF SimTypeOK, ExitStates
  <2>2. CoreTypes'
    BY <1>5, ProgramLength DEF UseRecording, CoreTypes
  <2>3. UNCHANGED <<readerVars, uartVars>>
    BY <1>5 DEF UseRecording
  <2> QED
    BY <2>1, <2>2, <2>3 DEF ReaderTypes, UartTypes, readerVars, uartVars
<1>6. CASE UNCHANGED vars
  BY <1>6 DEF vars, simVars, SimTypeOK, ReaderTypes, CoreTypes, UartTypes, coreVars,
              readerVars, uartVars
<1> QED
  BY <1>1, <1>2, <1>3, <1>4, <1>5, <1>6 DEF Next, Step, Ended

\* TypesAlwaysOK: the variables keep their ranges; no core retires more than one
\* instruction beyond the program, and the FIFO never holds more than its places.
THEOREM TypesAlwaysOK == Spec => []TypeOK
<1>1. Init => TypeInv
  <2> SUFFICES ASSUME Init PROVE TypeInv
    OBVIOUS
  <2>1. /\ bench \in Benches
        /\ \E opened \in BOOLEAN : PowerUp(opened)
        /\ \E file : OpenTrace(file)
        /\ FreshCore
    BY DEF Init, StartGolden, StartTurbo, StartMultiCycle, Benches
  <2>2. SimTypeOK
    <3>1. ASSUME NEW opened \in BOOLEAN, PowerUp(opened) PROVE SimTypeOK
      BY <3>1 DEF PowerUp, SimTypeOK, ExitStates
    <3> QED
      BY <2>1, <3>1
  <2>3. ReaderTypes
    BY <2>1 DEF OpenTrace, ReaderTypes
  <2>4. CoreTypes
    BY <2>1, ProgramLength DEF FreshCore, CoreTypes
  <2>5. UartTypes
    BY <2>1, UartAssumption DEF FreshCore, UartInit, UartTypes
  <2> QED
    BY <2>1, <2>2, <2>3, <2>4, <2>5 DEF TypeInv
<1>2. VerdictInv /\ TypeInv /\ [Next]_vars => TypeInv'
  BY TypeStep
<1>3. VerdictInv /\ TypeInv /\ UartInv => TypeOK
  BY DEF VerdictInv, ReaderInv, TypeInv, SimTypeOK, ReaderTypes, CoreTypes, UartTypes,
         UartInv, FifoInv, TypeOK
<1> QED
  BY <1>1, <1>2, <1>3, VerdictIsInvariant, UartIsInvariant, PTL DEF Spec

-----------------------------------------------------------------------------
(* The FIFO of the DMA *)

QueueInv == FifoTypeOK /\ CountIsDistance

\* Addresses are counted modulo the depth.
LEMMA AheadFacts ==
    ASSUME NEW p \in Addresses, NEW n \in 0 .. Depth
    PROVE  /\ Ahead(p, n) \in Addresses
           /\ NextAddress(p) \in Addresses
           /\ Ahead(p, 0) = p
           /\ n < Depth => NextAddress(Ahead(p, n)) = Ahead(p, n + 1)
           /\ n > 0 => Ahead(NextAddress(p), n - 1) = Ahead(p, n)
           /\ \A m \in 0 .. Depth - 1 : m < n /\ n < Depth => Ahead(p, m) # Ahead(p, n)
  BY DepthAssumption DEF Ahead, NextAddress, Addresses

\* Whatever the ends of the queue allow, the count moves as the pointers do.
LEMMA CountFacts ==
    ASSUME FifoTypeOK, NEW push \in BOOLEAN, NEW pop \in BOOLEAN
    PROVE  /\ Pushes(push) /\ Pops(pop) => Count(push, pop) = fifo_count
           /\ Pushes(push) /\ ~Pops(pop) => Count(push, pop) = fifo_count + 1
           /\ ~Pushes(push) /\ Pops(pop) => Count(push, pop) = fifo_count - 1
           /\ ~Pushes(push) /\ ~Pops(pop) => Count(push, pop) = fifo_count
           /\ Pushes(push) => fifo_count < Depth
           /\ Pops(pop) => fifo_count > 0
  BY DepthAssumption DEF FifoTypeOK, Pushes, Pops, Count, empty, full

LEMMA FifoInitInv == FifoInit => QueueInv
  BY DepthAssumption DEF FifoInit, QueueInv, FifoTypeOK, CountIsDistance, Ahead, Addresses

LEMMA FifoClockInv ==
    ASSUME QueueInv, NEW rst \in BOOLEAN, NEW push \in BOOLEAN, NEW pop \in BOOLEAN,
           NEW item \in Items, Clock(rst, push, pop, item)
    PROVE  QueueInv'
  <1> USE DEF QueueInv, Clock, FifoCounter, WritePtr, ReadPtr
  <1>1. mem' \in [Addresses -> Items] /\ data_out' \in Items /\ reset' \in BOOLEAN
    BY DEF FifoTypeOK, Write, Read
  <1>2. CASE rst
    BY <1>1, <1>2, DepthAssumption DEF FifoTypeOK, CountIsDistance, Ahead, Addresses
  <1>3. CASE ~rst
    <2>1. /\ Ahead(rd_pointer, fifo_count) \in Addresses
          /\ NextAddress(rd_pointer) \in Addresses
          /\ NextAddress(wr_pointer) \in Addresses
      BY AheadFacts, DepthAssumption DEF FifoTypeOK
    <2>2. /\ fifo_count < Depth =>
               NextAddress(wr_pointer) = Ahead(rd_pointer, fifo_count + 1)
          /\ fifo_count > 0 =>
               Ahead(NextAddress(rd_pointer), fifo_count - 1) = wr_pointer
      BY AheadFacts DEF FifoTypeOK, CountIsDistance
    <2>3. fifo_count > 0 /\ fifo_count < Depth =>
               NextAddress(wr_pointer) = Ahead(NextAddress(rd_pointer), fifo_count)
      <3> SUFFICES ASSUME fifo_count > 0, fifo_count < Depth
                   PROVE  NextAddress(wr_pointer) = Ahead(NextAddress(rd_pointer), fifo_count)
        OBVIOUS
      <3>1. fifo_count - 1 \in 0 .. Depth /\ fifo_count - 1 < Depth
        BY DepthAssumption DEF FifoTypeOK
      <3>2. NextAddress(Ahead(NextAddress(rd_pointer), fifo_count - 1))
              = Ahead(NextAddress(rd_pointer), (fifo_count - 1) + 1)
        BY <2>1, <3>1, AheadFacts
      <3>3. (fifo_count - 1) + 1 = fifo_count
        BY DepthAssumption DEF FifoTypeOK
      <3>4. Ahead(NextAddress(rd_pointer), fifo_count - 1) = wr_pointer
        BY <2>2
      <3> QED
        BY <3>2, <3>3, <3>4
    <2>4. /\ fifo_count' = Count(push, pop)
          /\ wr_pointer' = IF Pushes(push) THEN NextAddress(wr_pointer) ELSE wr_pointer
          /\ rd_pointer' = IF Pops(pop) THEN NextAddress(rd_pointer) ELSE rd_pointer
      BY <1>3
    <2>5. fifo_count' \in 0 .. Depth
      BY <2>4, CountFacts, DepthAssumption DEF FifoTypeOK
    <2>6. wr_pointer' \in Addresses /\ rd_pointer' \in Addresses
      BY <2>1, <2>4 DEF FifoTypeOK
    <2>7. wr_pointer' = Ahead(rd_pointer', fifo_count')
      <3>1. CASE Pushes(push) /\ Pops(pop)
        BY <2>3, <2>4, <3>1, CountFacts
      <3>2. CASE Pushes(push) /\ ~Pops(pop)
        BY <2>2, <2>4, <3>2, CountFacts
      <3>3. CASE ~Pushes(push) /\ Pops(pop)
        BY <2>2, <2>4, <3>3, CountFacts
      <3>4. CASE ~Pushes(push) /\ ~Pops(pop)
        BY <2>4, <3>4, CountFacts DEF CountIsDistance
      <3> QED
        BY <3>1, <3>2, <3>3, <3>4
    <2> QED
      BY <1>1, <2>5, <2>6, <2>7 DEF FifoTypeOK, CountIsDistance
  <1> QED
    BY <1>2, <1>3

LEMMA QueueInvariance == FifoSpec => []QueueInv
  <1>1. QueueInv /\ [FifoNext]_fifoVars => QueueInv'
    <2> SUFFICES ASSUME QueueInv, [FifoNext]_fifoVars PROVE QueueInv'
      OBVIOUS
    <2>1. CASE FifoNext
      BY <2>1, FifoClockInv DEF FifoNext
    <2>2. CASE UNCHANGED fifoVars
      BY <2>2 DEF fifoVars, QueueInv, FifoTypeOK, CountIsDistance
    <2> QED
      BY <2>1, <2>2
  <1> QED
    BY <1>1, FifoInitInv, PTL DEF FifoSpec

\* The pointers address the memory and the count never exceeds its places,
\* also when a push meets a full FIFO or a pop an empty one.
THEOREM FifoTypeCorrect == FifoSpec => []FifoTypeOK
  BY QueueInvariance, PTL DEF QueueInv

\* The count and the pointers, updated by separate conditions (fifo.v:47-79),
\* never drift apart: through simultaneous pushes and pops, refused ones,
\* and resets.
THEOREM CountIsAlwaysDistance == FifoSpec => []CountIsDistance
  BY QueueInvariance, PTL DEF QueueInv

-----------------------------------------------------------------------------
(***************************************************************************)
(* The refinement                                                          *)
(***************************************************************************)

\* What the FIFO holds, as a sequence.
LEMMA ContentsFacts ==
    ASSUME FifoTypeOK
    PROVE  /\ Contents \in Seq(Items)
           /\ Len(Contents) = fifo_count
           /\ \A i \in 1 .. fifo_count : Contents[i] = mem[Ahead(rd_pointer, i - 1)]
  <1>1. ASSUME NEW i \in 1 .. fifo_count
        PROVE  mem[Ahead(rd_pointer, i - 1)] \in Items
    <2>1. i - 1 \in 0 .. Depth
      BY DepthAssumption DEF FifoTypeOK
    <2>2. Ahead(rd_pointer, i - 1) \in Addresses
      BY <2>1, AheadFacts DEF FifoTypeOK
    <2> QED
      BY <2>2 DEF FifoTypeOK
  <1>2. Contents \in [1 .. fifo_count -> Items]
    BY <1>1 DEF Contents
  <1>3. fifo_count \in Nat
    BY DepthAssumption DEF FifoTypeOK
  <1> QED
    BY <1>2, <1>3, SeqDef DEF Contents

\* A pop shows the oldest item and drops it.
LEMMA PopFacts ==
    ASSUME FifoTypeOK, NEW pop \in BOOLEAN
    PROVE  /\ Pops(pop) <=> pop /\ Contents # <<>>
           /\ Pops(pop) => Head(Contents) = mem[rd_pointer]
  <1>1. Contents # <<>> <=> fifo_count # 0
    BY ContentsFacts, EmptySeq
  <1>2. fifo_count > 0 => Contents[1] = mem[rd_pointer]
    BY ContentsFacts, AheadFacts, DepthAssumption DEF FifoTypeOK
  <1>3. fifo_count # 0 => fifo_count > 0
    BY DepthAssumption DEF FifoTypeOK
  <1> QED
    BY <1>1, <1>2, <1>3, ContentsFacts DEF Pops, empty

\* The items that a cycle leaves in their places.
LEMMA KeptItems ==
    ASSUME QueueInv, NEW push \in BOOLEAN, NEW item \in Items, Write(push, item),
           NEW n \in 0 .. Depth, n < fifo_count
    PROVE  mem'[Ahead(rd_pointer, n)] = mem[Ahead(rd_pointer, n)]
  <1>1. Pushes(push) => n < fifo_count /\ fifo_count < Depth
    BY DepthAssumption DEF QueueInv, FifoTypeOK, Pushes, full
  <1>2. Pushes(push) => Ahead(rd_pointer, n) # wr_pointer
    <2>1. n \in 0 .. Depth - 1 /\ fifo_count \in 0 .. Depth /\ rd_pointer \in Addresses
      BY DepthAssumption DEF QueueInv, FifoTypeOK
    <2>2. Pushes(push) => Ahead(rd_pointer, n) # Ahead(rd_pointer, fifo_count)
      BY <1>1, <2>1, AheadFacts
    <2> QED
      BY <2>2 DEF QueueInv, CountIsDistance
  <1>3. Ahead(rd_pointer, n) \in Addresses
    BY AheadFacts DEF QueueInv, FifoTypeOK
  <1> QED
    BY <1>2, <1>3 DEF Write, QueueInv, FifoTypeOK

LEMMA ClockImplements ==
    ASSUME QueueInv, QueueInv', NEW push \in BOOLEAN, NEW pop \in BOOLEAN,
           NEW item \in Items, Clock(FALSE, push, pop, item)
    PROVE  Queue!Cycle(push, pop, item)
  <1> DEFINE rest == IF Pops(pop) THEN Tail(Contents) ELSE Contents
             next == IF Pushes(push) THEN Append(rest, item) ELSE rest
             gone == IF Pops(pop) THEN 1 ELSE 0
  <1>1. /\ Contents \in Seq(Items) /\ Len(Contents) = fifo_count
        /\ \A i \in 1 .. fifo_count : Contents[i] = mem[Ahead(rd_pointer, i - 1)]
        /\ fifo_count \in 0 .. Depth
    BY ContentsFacts DEF QueueInv, FifoTypeOK
  <1>2. /\ Contents' \in Seq(Items) /\ Len(Contents') = fifo_count'
        /\ \A i \in 1 .. fifo_count' : Contents'[i] = mem'[Ahead(rd_pointer', i - 1)]
        /\ fifo_count' \in 0 .. Depth
    <2>1. FifoTypeOK'
      BY DEF QueueInv
    <2>2. (/\ Contents \in Seq(Items)
           /\ Len(Contents) = fifo_count
           /\ \A i \in 1 .. fifo_count : Contents[i] = mem[Ahead(rd_pointer, i - 1)])'
      BY <2>1, ContentsFacts, PTL
    <2> QED
      BY <2>1, <2>2 DEF FifoTypeOK
  <1>3. Pops(pop) => Contents # <<>>
    BY PopFacts DEF QueueInv
  <1>4. /\ rest \in Seq(Items) /\ Len(rest) = fifo_count - gone
        /\ \A i \in 1 .. Len(rest) : rest[i] = Contents[i + gone]
    <2>1. CASE Pops(pop)
      BY <1>1, <1>3, <2>1, HeadTailProperties
    <2>2. CASE ~Pops(pop)
      BY <1>1, <2>2, DepthAssumption
    <2> QED
      BY <2>1, <2>2
  <1> HIDE DEF rest
  <1>5. fifo_count' = fifo_count - gone + (IF Pushes(push) THEN 1 ELSE 0)
    BY <1>1, CountFacts, DepthAssumption DEF QueueInv, Clock, FifoCounter
  <1>6. /\ next \in Seq(Items) /\ Len(next) = fifo_count'
        /\ \A i \in 1 .. Len(rest) : next[i] = rest[i]
        /\ Pushes(push) => next[Len(next)] = item
    <2>1. fifo_count - gone \in Nat /\ gone \in {0, 1}
      BY <1>4, LenProperties
    <2>2. CASE Pushes(push)
      <3>1. /\ Append(rest, item) \in Seq(Items)
            /\ Len(Append(rest, item)) = Len(rest) + 1
            /\ \A i \in 1 .. Len(rest) : Append(rest, item)[i] = rest[i]
            /\ Append(rest, item)[Len(rest) + 1] = item
        BY <1>4, AppendProperties
      <3> QED
        BY <1>4, <1>5, <2>1, <2>2, <3>1
    <2>3. CASE ~Pushes(push)
      BY <1>1, <1>4, <1>5, <2>1, <2>3, DepthAssumption
    <2> QED
      BY <2>2, <2>3
  <1>7. rd_pointer' = IF Pops(pop) THEN NextAddress(rd_pointer) ELSE rd_pointer
    BY DEF Clock, ReadPtr
  <1>8. ASSUME NEW i \in 1 .. Len(rest)
        PROVE  Contents'[i] = next[i]
    <2>1. i + gone - 1 \in 0 .. Depth /\ i + gone - 1 < fifo_count
      BY <1>1, <1>4, DepthAssumption
    <2>2. Ahead(rd_pointer', i - 1) = Ahead(rd_pointer, i + gone - 1)
      <3>1. CASE Pops(pop)
        BY <1>7, <2>1, <3>1, AheadFacts, DepthAssumption DEF QueueInv, FifoTypeOK
      <3>2. CASE ~Pops(pop)
        BY <1>4, <1>7, <3>2
      <3> QED
        BY <3>1, <3>2
    <2>3. mem'[Ahead(rd_pointer, i + gone - 1)] = mem[Ahead(rd_pointer, i + gone - 1)]
      BY <2>1, KeptItems DEF Clock
    <2>4. i \in 1 .. fifo_count' /\ i + gone \in 1 .. fifo_count
      BY <1>1, <1>2, <1>4, <1>5, DepthAssumption
    <2>5. Contents[i + gone] = mem[Ahead(rd_pointer, i + gone - 1)]
      BY <1>1, <2>4
    <2> QED
      BY <1>2, <1>4, <1>6, <2>2, <2>3, <2>4, <2>5
  <1>9. Pushes(push) => Contents'[fifo_count'] = item
    <2> SUFFICES ASSUME Pushes(push) PROVE Contents'[fifo_count'] = item
      OBVIOUS
    <2>1. fifo_count' \in 1 .. fifo_count' /\ fifo_count < Depth
      BY <1>1, <1>2, <1>5, CountFacts, DepthAssumption DEF QueueInv, Pops, empty
    <2>2. Ahead(rd_pointer', fifo_count' - 1) = wr_pointer
      <3>1. CASE Pops(pop)
        <4>1. fifo_count > 0 /\ fifo_count' = fifo_count
          BY <1>1, <1>5, <3>1, CountFacts, DepthAssumption DEF QueueInv
        <4> QED
          BY <1>1, <1>7, <3>1, <4>1, AheadFacts DEF QueueInv, FifoTypeOK, CountIsDistance
      <3>2. CASE ~Pops(pop)
        <4>1. fifo_count' - 1 = fifo_count
          BY <1>1, <1>5, <3>2, DepthAssumption
        <4> QED
          BY <1>7, <3>2, <4>1 DEF QueueInv, CountIsDistance
      <3> QED
        BY <3>1, <3>2
    <2>3. mem'[wr_pointer] = item
      BY DEF Clock, Write, QueueInv, FifoTypeOK
    <2> QED
      BY <1>2, <2>1, <2>2, <2>3
  <1>10. Contents' = next
    <2>1. ASSUME NEW i \in 1 .. Len(Contents')
          PROVE  Contents'[i] = next[i]
      <3>1. Len(rest) \in Nat /\ fifo_count' \in Nat
        BY <1>2, <1>4, DepthAssumption, LenProperties
      <3>2. i \in 1 .. fifo_count'
        BY <1>2
      <3>3. CASE Pushes(push)
        <4>1. fifo_count' = Len(rest) + 1
          BY <1>1, <1>4, <1>5, <3>1, <3>3, DepthAssumption
        <4>2. i \in 1 .. Len(rest) \/ i = fifo_count'
          BY <3>1, <3>2, <4>1
        <4> QED
          BY <1>6, <1>8, <1>9, <3>3, <4>2
      <3>4. CASE ~Pushes(push)
        <4>1. fifo_count' = Len(rest)
          BY <1>1, <1>4, <1>5, <3>1, <3>4, DepthAssumption
        <4> QED
          BY <1>8, <3>2, <4>1
      <3> QED
        BY <3>3, <3>4
    <2> HIDE DEF next
    <2> QED
      BY <1>2, <1>6, <2>1, SeqEqual
  <1>11. Pushes(push) <=> push /\ Len(Contents) < Depth
    BY <1>1, DepthAssumption DEF Pushes, full
  <1>12. data_out' = IF Pops(pop) THEN Head(Contents) ELSE data_out
    BY PopFacts DEF QueueInv, Clock, Read
  <1>13. Pops(pop) <=> pop /\ Contents # <<>>
    BY PopFacts DEF QueueInv
  <1>14. reset' = FALSE
    BY DEF Clock
  <1> QED
    BY <1>10, <1>11, <1>12, <1>13, <1>14 DEF Queue!Cycle, rest

\* First in, first out, for every depth, whatever pushes, pops and resets
\* fall into the same cycle (fifo.v).
THEOREM FifoIsQueue == FifoSpec => ImplementsQueue
  <1>1. FifoInit => Queue!Init
    <2> SUFFICES ASSUME FifoInit PROVE Queue!Init
      OBVIOUS
    <2>1. Contents \in Seq(Items) /\ Len(Contents) = 0
      BY FifoInitInv, ContentsFacts DEF QueueInv, FifoInit
    <2> QED
      BY <2>1, EmptySeq DEF FifoInit, Queue!Init
  <1>2. QueueInv /\ QueueInv' /\ [FifoNext]_fifoVars => [Queue!Next]_<<Contents, data_out, reset>>
    <2> SUFFICES ASSUME QueueInv, QueueInv', [FifoNext]_fifoVars
                 PROVE  [Queue!Next]_<<Contents, data_out, reset>>
      OBVIOUS
    <2>1. ASSUME NEW rst \in BOOLEAN, NEW push \in BOOLEAN, NEW pop \in BOOLEAN,
                 NEW item \in Items, Clock(rst, push, pop, item), rst
          PROVE  Queue!Reset
      <3>1. fifo_count' = 0 /\ reset' = TRUE
        BY <2>1 DEF Clock, FifoCounter
      <3>2. (Contents \in Seq(Items) /\ Len(Contents) = fifo_count)'
        <4>1. FifoTypeOK'
          BY DEF QueueInv
        <4> QED
          BY <4>1, ContentsFacts, PTL
      <3>3. Contents' = <<>>
        BY <3>1, <3>2, EmptySeq
      <3>4. data_out' \in Items
        BY DEF QueueInv, FifoTypeOK
      <3> QED
        BY <3>1, <3>3, <3>4 DEF Queue!Reset
    <2>2. ASSUME NEW rst \in BOOLEAN, NEW push \in BOOLEAN, NEW pop \in BOOLEAN,
                 NEW item \in Items, Clock(rst, push, pop, item), ~rst
          PROVE  Queue!Cycle(push, pop, item)
      <3>1. rst = FALSE
        BY <2>2
      <3> QED
        BY <2>2, <3>1, ClockImplements
    <2>3. CASE FifoNext
      BY <2>1, <2>2, <2>3 DEF FifoNext, Queue!Next
    <2>4. CASE UNCHANGED fifoVars
      BY <2>4 DEF fifoVars, Contents
    <2> QED
      BY <2>3, <2>4
  <1> QED
    BY <1>1, <1>2, QueueInvariance, PTL DEF FifoSpec, ImplementsQueue, Queue!Spec

-----------------------------------------------------------------------------
(* The FIFO of the simulated UART *)

\* sim_fifo.v is the design of the FIFO of the DMA, and UartSim takes the queue
\* that this design is: the reset wire of the bench, as its last edge saw it, and
\* the data output.
UartQueue == INSTANCE BoundedQueue WITH
    Depth <- UartDepth, Items <- {0, 1},
    queue <- fifo, out <- pop_data, reset <- (sys_reset_n = 0)

uartQueueVars == <<fifo, pop_data, (sys_reset_n = 0)>>

LEMMA UartCycle ==
    ASSUME FifoInv, NEW accepts \in BOOLEAN, NEW byte \in {0, 1},
           UartClock(FALSE, accepts, byte), sys_reset_n' = 1
    PROVE  UartQueue!Cycle(uart_write_fifo_r, pop_fifo, byte)
<1> DEFINE rest == IF pop_fifo THEN Tail(fifo) ELSE fifo
<1>1. pop_fifo => fifo # <<>>
  BY DEF pop_fifo, empty_fifo
<1>2. rest \in Seq({0, 1})
  BY <1>1, HeadTailProperties DEF FifoInv
<1>3. Len(fifo) < UartDepth <=> ~full_fifo
  BY LenProperties, UartAssumption DEF FifoInv, full_fifo
<1>4. fifo' = rest \o (IF uart_write_fifo_r /\ ~full_fifo THEN <<byte>> ELSE <<>>)
  BY DEF UartClock, Pushed
<1> HIDE DEF rest
<1>5. rest \o <<byte>> = Append(rest, byte) /\ rest \o <<>> = rest
  BY <1>2, AppendIsConcat, ConcatEmptySeq
<1>6. fifo' = IF uart_write_fifo_r /\ Len(fifo) < UartDepth THEN Append(rest, byte) ELSE rest
  BY <1>3, <1>4, <1>5
<1>7. pop_data' = IF pop_fifo THEN Head(fifo) ELSE pop_data
  BY DEF UartClock
<1>8. (sys_reset_n' = 0) = FALSE
  OBVIOUS
<1> QED
  BY <1>1, <1>6, <1>7, <1>8 DEF UartQueue!Cycle, rest

\* A cycle that neither pushes nor pops, and the end of the reset.
LEMMA UartIdle ==
    ASSUME fifo' = fifo, pop_data' = pop_data,
           sys_reset_n' = sys_reset_n \/ sys_reset_n' = 1
    PROVE  [UartQueue!Next]_uartQueueVars
<1>1. CASE sys_reset_n' = sys_reset_n
  BY <1>1 DEF uartQueueVars
<1>2. CASE sys_reset_n' = 1
  <2>1. UartQueue!Cycle(FALSE, FALSE, 0)
    BY <1>2 DEF UartQueue!Cycle
  <2> QED
    BY <2>1 DEF UartQueue!Next
<1> QED
  BY <1>1, <1>2

LEMMA UartReset ==
    ASSUME PortsFresh', sys_reset_n' = 0
    PROVE  UartQueue!Reset
BY DEF PortsFresh, UartInit, UartQueue!Reset

LEMMA UartQueueStep ==
    ASSUME ClockInv, UartInv, [Next]_vars
    PROVE  [UartQueue!Next]_uartQueueVars
<1> USE DEF uartVars
<1>1. CASE GoldenHalfPeriod \/ TurboHalfPeriod
  <2>1. sys_reset_n' = sys_reset_n \/ sys_reset_n' = 1
    BY <1>1 DEF GoldenHalfPeriod, TurboHalfPeriod, HalfPeriod, resetNow
  <2> QED
    BY <1>1, <2>1, UartIdle DEF GoldenHalfPeriod, TurboHalfPeriod, PortIdle
<1>2. CASE MultiCycleHalfPeriod
  <2>1. CASE ~RisingEdge
    <3>1. HalfPeriod(TIME_LIMIT.multi_cycle, "none") /\ PortIdle
      BY <1>2, <2>1 DEF MultiCycleHalfPeriod
    <3> QED
      BY <3>1, UartIdle DEF HalfPeriod, resetNow, PortIdle
  <2>2. CASE RisingEdge
    <3>1. PICK w \in Retired, p \in IF resetNow = 1 THEN MayShow ELSE {Shown} :
             /\ HalfPeriod(TIME_LIMIT.multi_cycle, MultiCycleOutcome(w, p))
             /\ PortEdge(p)
      BY <1>2, <2>2 DEF MultiCycleHalfPeriod
    <3>2. CASE resetNow = 1
      <4>1. p.Write_data[0] \in {0, 1} /\ sys_reset_n' = 1 /\ FifoInv
        BY <3>1, <3>2, MayShowBytes DEF UartInv, HalfPeriod
      <4>2. PICK accepts \in BOOLEAN : UartClock(resetNow = 0, accepts, p.Write_data[0])
        BY <3>1 DEF PortEdge
      <4>3. (resetNow = 0) = FALSE
        BY <3>2
      <4>4. UartQueue!Cycle(uart_write_fifo_r, pop_fifo, p.Write_data[0])
        BY <4>1, <4>2, <4>3, UartCycle
      <4>5. uart_write_fifo_r \in BOOLEAN /\ pop_fifo \in BOOLEAN
        BY <4>1 DEF FifoInv, pop_fifo
      <4> QED
        BY <4>1, <4>4, <4>5 DEF UartQueue!Next
    <3>3. CASE resetNow # 1
      <4>1. sys_reset_n = 0 /\ resetNow = 0 /\ sys_reset_n' = 0
        BY <3>1, <3>3 DEF ClockInv, HalfPeriod, Running, resetNow
      <4>2. PortsFresh'
        BY <3>1, <4>1, ResetEdge DEF UartInv
      <4> QED
        BY <4>1, <4>2, UartReset DEF UartQueue!Next
    <3> QED
      BY <3>2, <3>3
  <2> QED
    BY <2>1, <2>2
<1>3. CASE GoldenLeave \/ TurboLeave \/ MultiCycleLeave
  BY <1>3, UartIdle DEF GoldenLeave, TurboLeave, MultiCycleLeave, Leave, PortIdle
<1>4. CASE \E b \in {"turbo", "multi_cycle"} : UseRecording(b)
  <2>1. PortsFresh /\ UNCHANGED <<portVars, uartVars, sent, misplaced>> /\ sys_reset_n' = 0
    BY <1>4 DEF UseRecording, UartInv, historyVars
  <2>2. PortsFresh'
    BY <2>1 DEF PortsFresh, UartInit, CoreAtReset, portVars
  <2> QED
    BY <2>1, <2>2, UartReset DEF UartQueue!Next
<1>5. CASE UNCHANGED vars
  BY <1>5, UartIdle DEF vars, simVars
<1> QED
  BY <1>1, <1>2, <1>3, <1>4, <1>5 DEF Next, Step, Ended

\* Through all of a bench, from the cycles under reset to its end, the FIFO of the
\* UART is the queue that FifoIsQueue shows the design to be, for every depth
\* (sim_fifo.v, uart_sim.v).
THEOREM UartFifoIsQueue == Spec => UartQueue!Spec
<1>1. Init => UartQueue!Init
  <2>1. Init => UartInit /\ sys_reset_n = 0
    BY DEF Init, StartGolden, StartTurbo, StartMultiCycle, FreshCore, PowerUp
  <2> QED
    BY <2>1 DEF UartInit, UartQueue!Init
<1>2. ClockInv /\ UartInv /\ [Next]_vars => [UartQueue!Next]_uartQueueVars
  BY UartQueueStep
<1> QED
  BY <1>1, <1>2, UartIsInvariant, PTL DEF Spec, UartQueue!Spec, uartQueueVars

=============================================================================
