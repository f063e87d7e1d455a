---------------------------- MODULE TestBenches ----------------------------
(***************************************************************************)
(* The three verilated test benches of the cores, and the order in which   *)
(* they are used: the golden bench records the trace of a program, the     *)
(* turbo and the multi-cycle bench check a core against such a file (or    *)
(* one of those in the repository).  Each is a process of its own, with    *)
(* its own main().                                                         *)
(*                                                                         *)
(*   golden       writes a record for each register write of its core      *)
(*   turbo        compares the register writes of the core with the file   *)
(*   multi_cycle  also compares the ports of the core with those of a      *)
(*                golden core, cycle by cycle, and prints the UART         *)
(*                                                                         *)
(* The golden core does what the program says, in any time.  The core under*)
(* test may retire something else, or show something else on a port, in    *)
(* any cycle.                                                              *)
(***************************************************************************)
EXTENDS TraceComparator, UartSim

CONSTANTS
    TIME_LIMIT,               \* of each bench
    Program,                  \* inst_retire of the instructions of a program
    Strays,                   \* values of inst_retire that no program asks for
    StoredTraces,             \* trace files of the repository
    Operations                \* the accesses that a program makes to the UART
                              \* and to global_result, in order

ASSUME TimeLimitAssumption ==
    /\ TIME_LIMIT.golden > ReleaseTime
    /\ TIME_LIMIT.turbo > ReleaseTime /\ TIME_LIMIT.multi_cycle > ReleaseTime

ASSUME ProgramAssumption == Program \in Seq(Range(Program))

\* In the traces of the repository a record of type 4 names a register, and the
\* mask of the last record of type 1 before it is full.
WellFormed(t) ==
    /\ t \in Seq(Range(t))
    /\ \A j \in DOMAIN t : t[j].type = 1 => t[j].mask \in BOOLEAN
    /\ \A j \in DOMAIN t :
        t[j].type = 4 =>
            /\ t[j].waddr # 0
            /\ \E i \in 1 .. j - 1 :
                 /\ t[i].type = 1 /\ t[i].mask
                 /\ \A k \in i + 1 .. j - 1 : t[k].type # 1

ASSUME StoredTracesAssumption == \A t \in StoredTraces : WellFormed(t)

\* puts() (printf.c:255) reads the status before each store to the UART, and
\* _halt() (trap.h:4) loops for ever after the store of its argument.
ASSUME OperationsAssumption ==
    /\ Operations \in Seq(Range(Operations))
    /\ \A i \in DOMAIN Operations :
         LET kind == Operations[i].kind
         IN /\ kind \in {"poll", "putc", "halt"}
            /\ kind # "poll" => Operations[i].data \in {0, 1}
            /\ kind = "putc" => i > 1 /\ Operations[i - 1].kind = "poll"
            /\ kind = "halt" => i = Len(Operations)

VARIABLES
    bench,                    \* "golden", "turbo" or "multi_cycle"
    done,                     \* instructions retired by the core
    result,                   \* global_result in the RAM
    core,                     \* the golden core of the multi-cycle bench
    benchmark_finish,
    seen, reference,          \* history: register writes of the core under
                              \* test, as many as it should have made, and
                              \* those it should have made
    strayed, sent,            \* history: the ports differed; characters stored
    misplaced                 \* history: how many of them the core under test
                              \* stored with other low address bits

Benches == {"golden", "turbo", "multi_cycle"}

coreVars    == <<done, result>>
portVars    == <<core, benchmark_finish>>
historyVars == <<seen, reference, strayed, sent, misplaced>>
vars == <<simVars, trace, readerVars, uartVars, bench, coreVars, portVars, historyVars>>

CoreAtReset == [phase |-> "fetch", op |-> 1, data |-> 0]

\* What a file asks a core to write: a return address counts with every bit.
Asks(r) ==
    [pc |-> r.pc, waddr |-> r.waddr, wdata |-> r.wdata, mask |-> r.type = 4 \/ r.mask]

RegisterWrites(t) == {j \in DOMAIN t : t[j].type \in {1, 4} /\ t[j].waddr # 0}
UpTo(S, j)        == Cardinality({k \in S : k <= j})

ReferenceOf(t) ==
    LET writes == RegisterWrites(t)
    IN [i \in 1 .. Cardinality(writes) |->
          Asks(t[CHOOSE j \in writes : UpTo(writes, j) = i])]

FreshCore ==
    /\ UartInit
    /\ done = 0 /\ result = "unset"
    /\ core = CoreAtReset /\ benchmark_finish = FALSE
    /\ seen = <<>> /\ strayed = FALSE /\ sent = <<>> /\ misplaced = 0

\* The golden bench writes the file and the turbo bench reads it: they need it.  The
\* multi-cycle bench goes on without it.
StartGolden(file) ==
    bench = "golden" /\ PowerUp(file # NoFile) /\ OpenTrace(file) /\ FreshCore

StartTurbo(file) ==
    bench = "turbo" /\ PowerUp(file # NoFile) /\ OpenTrace(file) /\ FreshCore

StartMultiCycle(file) ==
    bench = "multi_cycle" /\ PowerUp(TRUE) /\ OpenTrace(file) /\ FreshCore

Init ==
    \/ (\E file \in {<<>>, NoFile} : StartGolden(file)) /\ reference = <<>>
    \/ \E file \in StoredTraces \cup {NoFile} :
         /\ StartTurbo(file) \/ StartMultiCycle(file)
         /\ reference = IF file = NoFile THEN <<>> ELSE ReferenceOf(file)

-----------------------------------------------------------------------------
(* inst_retire and the RAM, at a rising edge *)

Correct == IF resetNow = 1 /\ done < Len(Program) THEN {NoWrite, Program[done + 1]}
           ELSE {NoWrite}
Retired == IF resetNow = 1 /\ done <= Len(Program) THEN Correct \cup Strays ELSE Correct

\* The program ends in hit_good_trap() or in _halt(1), and stores no more.
Retires(w) == done' = IF w = NoWrite THEN done ELSE done + 1
RamEdge ==
    result' \in IF result = "unset" /\ done >= Len(Program)
                THEN {"unset", "good", "bad"} ELSE {result}

\* Both traps end the simulation in the same way.
TrapOutcome == IF result # "unset" THEN "finish" ELSE "none"

CoreIdle == UNCHANGED coreVars
PortIdle == UNCHANGED <<portVars, uartVars, strayed, sent, misplaced>>

-----------------------------------------------------------------------------
(* golden: sim/custom_cpu/golden *)

Record(w) ==
    IF WritesRegister(w)
    THEN Append(trace, [type |-> 1, pc |-> w.pc, waddr |-> w.waddr,
                        wdata |-> w.wdata, mask |-> TRUE])
    ELSE trace

GoldenEdge(w) ==
    /\ trace' = Record(w)
    /\ reference' = IF WritesRegister(w)
                    THEN Append(reference, [pc |-> w.pc, waddr |-> w.waddr,
                                            wdata |-> w.wdata, mask |-> TRUE])
                    ELSE reference
    /\ Retires(w) /\ RamEdge

GoldenHalfPeriod ==
    /\ bench = "golden"
    /\ HalfPeriod(TIME_LIMIT.golden, IF RisingEdge THEN TrapOutcome ELSE "none")
    /\ IF RisingEdge THEN \E w \in Correct : GoldenEdge(w)
       ELSE CoreIdle /\ UNCHANGED <<trace, reference>>
    /\ PortIdle
    /\ UNCHANGED <<bench, readerVars, seen>>

GoldenLeave ==
    /\ bench = "golden"
    /\ Leave(TIME_LIMIT.golden)
    /\ CoreIdle /\ PortIdle
    /\ UNCHANGED <<bench, trace, readerVars, seen, reference>>

-----------------------------------------------------------------------------
(* turbo: sim/custom_cpu/turbo *)

CheckEdge(w) ==
    /\ Compare(w)
    /\ seen' = IF resetNow = 1 /\ WritesRegister(w) /\ Len(seen) < Len(reference)
               THEN Append(seen, w) ELSE seen
    /\ Retires(w)

CheckIdle == CoreIdle /\ UNCHANGED <<readerVars, seen>>

TurboOutcome(w) == IF CompareFails(w) THEN "fatal" ELSE TrapOutcome

TurboHalfPeriod ==
    /\ bench = "turbo"
    /\ IF RisingEdge
       THEN \E w \in Retired :
              HalfPeriod(TIME_LIMIT.turbo, TurboOutcome(w)) /\ CheckEdge(w) /\ RamEdge
       ELSE HalfPeriod(TIME_LIMIT.turbo, "none") /\ CheckIdle
    /\ PortIdle
    /\ UNCHANGED <<bench, trace, reference>>

TurboLeave ==
    /\ bench = "turbo"
    /\ Leave(TIME_LIMIT.turbo)
    /\ CheckIdle /\ PortIdle
    /\ UNCHANGED <<bench, trace, reference>>

-----------------------------------------------------------------------------
(* multi_cycle: sim/custom_cpu/multi_cycle.  What a core shows of its ports  *)
(* in one cycle; an address is a word and its two lowest bits.               *)

UartStatus == 8
UartData   == 4
ResultWord == 12

SignalValues ==
    [Inst_Req_Valid |-> BOOLEAN, PC |-> {0, 1}, Inst_Ready |-> BOOLEAN,
     MemRead |-> BOOLEAN, MemWrite |-> BOOLEAN,
     word |-> {UartStatus, UartData, ResultWord}, low |-> {0, 1},
     Write_strb |-> {{0}, {0, 1}}, Write_data |-> [{0, 1} -> {0, 1}],
     Read_data_Ready |-> BOOLEAN]

\* After its last access the program spins, and makes none.
Spins == core.op > Len(Operations)
op    == Operations[core.op]

WordOf == [poll |-> UartStatus, putc |-> UartData, halt |-> ResultWord]

Shown ==
    [Inst_Req_Valid |-> core.phase = "fetch", PC |-> core.op % 2,
     Inst_Ready |-> core.phase = "wait",
     MemRead |-> core.phase = "mem" /\ op.kind = "poll",
     MemWrite |-> core.phase = "mem" /\ op.kind # "poll",
     word |-> IF Spins THEN ResultWord ELSE WordOf[op.kind], low |-> 0, Write_strb |-> {0},
     Write_data |-> [b \in {0, 1} |-> IF b = 0 THEN core.data ELSE 0],
     Read_data_Ready |-> core.phase = "resp"]

\* The core under test is right, or wrong in one signal.
MayShow ==
    {Shown} \cup UNION {{[Shown EXCEPT ![f] = x] : x \in SignalValues[f]} :
                          f \in DOMAIN Shown}

Strobed(data, strb) == [b \in strb |-> data[b]]

\* p: the core under test, g: the golden core.
RequestsDiffer(p, g) ==
    \/ p.Inst_Req_Valid # g.Inst_Req_Valid
    \/ p.Inst_Req_Valid /\ p.PC # g.PC
    \/ p.MemRead # g.MemRead
    \/ p.MemWrite # g.MemWrite
    \/ (p.MemRead \/ p.MemWrite) /\ p.word # g.word
    \/ p.MemWrite /\ p.Write_data # g.Write_data

PortsDiffer(p, g) ==
    \/ p.Inst_Req_Valid # g.Inst_Req_Valid
    \/ p.Inst_Req_Valid /\ p.PC # g.PC
    \/ p.Inst_Ready # g.Inst_Ready
    \/ p.MemRead # g.MemRead
    \/ p.MemWrite # g.MemWrite
    \/ p.MemRead /\ p.word # g.word
    \/ p.MemWrite /\ p.word # g.word
    \/ p.MemWrite /\ p.Write_strb # g.Write_strb
    \/ p.MemWrite /\ Strobed(p.Write_data, g.Write_strb)
                     # Strobed(g.Write_data, g.Write_strb)
    \/ p.Read_data_Ready # g.Read_data_Ready

StoresResult(p) ==
    p.MemWrite /\ p.word = ResultWord /\ p.low = 0 /\ p.Write_data = [b \in {0, 1} |-> 0]

PassesEarly == benchmark_finish
Passes      == benchmark_finish /\ empty_fifo

MultiCycleOutcome(w, p) ==
    IF CompareFails(w) \/ (resetNow = 1 /\ PortsDiffer(p, Shown)) THEN "fatal"
    ELSE IF resetNow = 1 /\ ~StoresResult(p) /\ Passes THEN "finish" ELSE "none"

\* Memory takes and answers requests after any time; a poll that finds the
\* FIFO full is made again.  The register writes come before the accesses.
CoreSteps ==
    CASE core.phase = "fetch" -> [core EXCEPT !.phase = "wait"]
      [] core.phase = "wait" /\ Spins -> [core EXCEPT !.phase = "fetch"]
      [] core.phase = "wait" /\ ~Spins ->
           [core EXCEPT !.phase = "mem",
                        !.data = IF op.kind = "poll" THEN @ ELSE op.data]
      [] core.phase = "mem" /\ op.kind = "poll" -> [core EXCEPT !.phase = "resp"]
      [] core.phase = "mem" /\ op.kind # "poll" ->
           [core EXCEPT !.phase = "fetch", !.op = @ + 1]
      [] core.phase = "resp" ->
           [core EXCEPT !.phase = "fetch", !.op = IF full_fifo THEN @ ELSE @ + 1]

\* The address of the core under test is decoded with every bit, although the
\* bench compares the word alone.
uart_write_fifo(p) == p.MemWrite /\ p.word = UartData /\ p.low = 0

\* moves: memory takes or answers what the cores wait for in this cycle, which
\* for an access is Mem_Req_Ready.
PortEdge(p) ==
    \E moves \in IF resetNow = 1 /\ done >= Len(Program) THEN BOOLEAN ELSE {FALSE} :
        LET released == moves /\ core.phase = "mem"
            stores   == released /\ Shown.word = UartData
        IN /\ core' = IF moves THEN CoreSteps ELSE core
           /\ UartClock(resetNow = 0, released /\ uart_write_fifo(p), p.Write_data[0])
           /\ sent' = IF stores THEN Append(sent, op.data) ELSE sent
           /\ misplaced' = IF stores /\ p.low # Shown.low THEN misplaced + 1 ELSE misplaced
           /\ benchmark_finish' =
                (resetNow = 1 /\ (benchmark_finish
                                    \/ (StoresResult(p) /\ ~PortsDiffer(p, Shown))))

\* What a port asks for and takes in a cycle, with addresses of words.
Meaning(p) ==
    [fetches |-> IF p.Inst_Req_Valid THEN {p.PC} ELSE {},
     loads   |-> IF p.MemRead THEN {p.word} ELSE {},
     stores  |-> IF p.MemWrite THEN {<<p.word, Strobed(p.Write_data, p.Write_strb)>>} ELSE {},
     takes   |-> <<p.Inst_Ready, p.Read_data_Ready>>]

MultiCycleHalfPeriod ==
    /\ bench = "multi_cycle"
    /\ IF RisingEdge
       THEN \E w \in Retired, p \in IF resetNow = 1 THEN MayShow ELSE {Shown} :
              /\ HalfPeriod(TIME_LIMIT.multi_cycle, MultiCycleOutcome(w, p))
              /\ CheckEdge(w) /\ UNCHANGED result
              /\ PortEdge(p)
              /\ strayed' = (strayed \/ Meaning(p) # Meaning(Shown))
       ELSE HalfPeriod(TIME_LIMIT.multi_cycle, "none") /\ CheckIdle /\ PortIdle
    /\ UNCHANGED <<bench, trace, reference>>

MultiCycleLeave ==
    /\ bench = "multi_cycle"
    /\ Leave(TIME_LIMIT.multi_cycle)
    /\ CheckIdle /\ PortIdle
    /\ UNCHANGED <<bench, trace, reference>>

-----------------------------------------------------------------------------
\* The recorded file is used by one of the other benches.
UseRecording(b) ==
    /\ bench = "golden" /\ exit # "none" /\ trace # NoFile
    /\ bench' = b
    /\ sys_clk' = 1 /\ sys_reset_n' = 0 /\ main_time' = 0
    /\ gotFinish' = FALSE /\ exit' = "none"
    /\ done' = 0 /\ result' = "unset"
    /\ UNCHANGED <<trace, readerVars, uartVars, portVars, historyVars>>

\* The last process has ended.
Ended == exit # "none" /\ (bench # "golden" \/ trace = NoFile) /\ UNCHANGED vars

Step ==
    \/ GoldenHalfPeriod \/ GoldenLeave
    \/ TurboHalfPeriod \/ TurboLeave
    \/ MultiCycleHalfPeriod \/ MultiCycleLeave

Next == Step \/ (\E b \in {"turbo", "multi_cycle"} : UseRecording(b)) \/ Ended

\* The process runs.
Spec == Init /\ [][Next]_vars /\ WF_vars(Step)

-----------------------------------------------------------------------------
TypeOK ==
    /\ SimTypeOK
    /\ bench \in Benches
    /\ trace # NoFile => pos \in 0 .. Len(trace)
    /\ feof \in BOOLEAN /\ rf_bit_cmp_ref \in BOOLEAN /\ trace_end \in BOOLEAN
    /\ done \in 0 .. Len(Program) + 1
    /\ result \in {"unset", "good", "bad"}
    /\ Len(fifo) <= UartDepth /\ counter \in 0 .. UartPeriod - 1

Agrees(w, r) == ~Differs(w, r, r.mask)

BothMade == DOMAIN seen \cap DOMAIN reference

\* A core that made a wrong register write does not get past the bench, for
\* as long as the file has records: each write is compared with its own
\* record, with the bits that record asks for, whatever records of other
\* kinds lie between, and however the core is stalled.
NothingMissed ==
    trace # NoFile /\ exit # "abort" =>
        \A i \in BothMade : Agrees(seen[i], reference[i])

\* A bench aborts only for a core that made a wrong write or differed from the
\* golden core on a port (or for a file that it cannot use), never because of the
\* order of records, of the end of the file, or of the time the core takes.
AbortIsDeserved ==
    exit = "abort" =>
        \/ trace \in {NoFile, <<>>}
        \/ strayed
        \/ \E i \in BothMade : ~Agrees(seen[i], reference[i])

\* A port that differs in a request, or in taking an answer, is not passed.  The
\* two low bits of an address are no part of a request here: the benches leave
\* them open (custom_cpu_test.v:120,130), since the strobes say which bytes.
PortsAgree == strayed => exit = "abort"

\* When the multi-cycle bench says that the program passed, every character that
\* the program stored to the UART has been printed, although the FIFO drains
\* much more slowly than the program runs.  The only ones that are lost are those
\* that the core under test stored with other low address bits: the bench does
\* not compare these, but the UART decodes them (cpu_test_top.v:172-174).
PassedIsPrinted ==
    bench = "multi_cycle" /\ exit = "success" => Len(printed) + misplaced = Len(sent)

\* Every bench ends, whatever the core does: with a verdict or at its limit.
BenchEnds == \A b \in Benches : bench = b ~> bench = b /\ exit # "none"

=============================================================================
