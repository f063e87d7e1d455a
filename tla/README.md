# A verification development for the RISC-V laboratory processor

The repository is a set of Verilog modules for the computer-organization
laboratory of UCAS: RISC-V cores, their caches and bus adapters, a simulation
environment with an AXI interconnect and a RAM, and the C programs that the cores
run.  This directory holds TLA+ models of the parts that keep state and interact,
TLC configurations that check them on small instances, and proofs for all
instances that the TLA+ proof system checks.

Paths below are relative to
`src/cod-lab/fpga/design/ucas-cod/hardware/` unless they start with `software/`
(which is `src/cod-lab/software/workload/ucas-cod/`).

## 1. The system

```
   core (prj4: pipeline, prj3: multi-cycle)
     | instruction port              | data port
   I-cache  or inst_if_wrapper     D-cache  or mem_if_wrapper   --- UART glue (simulation)
     | AR, R                         | AR, R, AW, W, B
   ------------------ AXI interconnect, round-robin arbiter ------------------
     | RAM                                     | accelerator, devices
```

| Component | State it keeps | Operations | Talks to |
|---|---|---|---|
| Pipelined core, `sources/custom_cpu/riscv32/custom_cpu_prj4.v`, `forward_unit.v`, `pipeline_reg.v` | four stage registers, fetch state with a discard flag and a redirect address, operand hold, request flags, branch predictor, register file | one clock edge | instruction port, data port |
| Multi-cycle core, `custom_cpu_prj3.v` | one-hot state, PC and its copies, instruction, operands, ALU output, load data, counters | one clock edge | the same ports |
| D-cache, `sources/custom_cpu/cache/dcache_top.v` | state machine of 13 states, valid, dirty, tag and data arrays, round-robin pointers, latched request, victim and block, refill buffer, beat counters | one arm of the state machine each | core, AXI |
| I-cache, `icache_top.v` | the same without dirty bits and write paths | one arm of the state machine each | core, AXI |
| Port wrappers, `wrapper/custom_cpu/mem_if_wrapper.v`, `inst_if_wrapper.v` | AW and W registers, one acknowledge tag each | latch, handshakes, release | core, AXI |
| Interconnect, arbiter, RAM, `sim/custom_cpu/common/axi_interconnect.v`, `arbiter.v`, `axi_ram.v` | transaction state, skid buffers, burst counters, memory | handshakes of five channels | all masters |
| UART of the simulation, `sim/custom_cpu/turbo/cpu_test_top.v`, `multi_cycle/cpu_test_top.v`, `common/uart_sim.v`, `sim_fifo.v` | two glue registers, FIFO, pop timer | poll, push, pop | core, data port |
| Test benches, `sim/custom_cpu/{golden,turbo,multi_cycle}/sim_main.cpp` and `custom_cpu_test.v` | clock, reset, time, finish flag; position in the trace, fields of the record read last, mask | a pass of the loop of `main()`, a rising edge of the bench | the core's `inst_retire`, its ports, the trace file, the exit status |
| DMA FIFO, `sources/custom_cpu/dma/fifo.v` | pointers, count, memory, output | push, pop, reset | the two halves of the DMA engine (stubs) |
| Single-cycle core, ALU, shifter, register file, ideal memory, `sources/simple_cpu/simple_cpu.v`, `alu/alu.v`, `shifter/shifter.v`, `reg_file/reg_file.v`, `wrapper/simple_cpu/ideal_mem.v` | PC, registers, memory | one instruction per clock edge | the other cores instantiate the same ALU, shifter and register file |
| DNN accelerator, DMA engine, MIPS core | black box, stub, stub | | AXI |
| `software/benchmark` | | programs of the cores | |

### What is hard about it

* **Every handshake may take any time.**  The simulation puts pseudo-random masks
  on every channel.  A value that is read in one cycle and used after a handshake
  (the block of a hit, the operands from a forwarding path, the address of a
  fetch) must not have changed, or must have been kept.
* **Writes are posted.**  Neither the D-cache nor `mem_if_wrapper` waits for the B
  response.  That a later load sees the write rests on the interconnect, which
  carries one transaction at a time.
* **Several masters, one memory, no snooping.**  The accelerator writes behind the
  D-cache; the address ranges that bypass the cache are all that keeps the core
  from reading stale lines.
* **Speculation.**  The pipeline fetches on a prediction, and a fetch that was
  taken cannot be withdrawn: its answer must be discarded later, also when another
  redirection comes first.
* **Two ends count a burst.**  The interconnect ends a write on WLAST, the RAM on
  AWLEN; a disagreement is a deadlock.
* **The verdict.**  A test bench is a program too: it compares a stream of
  retirements with a file in which other records lie between, releases reset, ends by
  three ways, and turns the way it ended into an exit status.
* **Registers without a reset.**  Tag and data arrays and the latches of the caches
  power up with any value.

The list, at its lines, is `hazards` in `PROJECT.json`.  Two more are documented here
because no property speaks of them: in both test tops AW and W are masked by the address that the
CPU shows now (`turbo/cpu_test_top.v:187-191`), so a store to the UART that the D-cache posted would reach the RAM once
the CPU goes on (no program gets past the first poll there, see section 6); and the I-cache does not see
stores (section 5).

### What makes each component correct

* A cache: the core cannot tell it from a memory without a cache; a request always
  completes; a line is in one way only; lines that devices write are never cached.
* A core: the instructions that complete are those of the sequential architecture,
  each once and in order, for any timing of the memory; instructions keep
  completing; a load that waits for its answer is not asked for again.
* A wrapper: the same promise of the memory as the cache makes.
* A FIFO: it is a queue.
* The interconnect: transactions do not overlap, the words of a burst arrive each once
  and in order, and no master waits for ever.
* A test bench: it ends; it does not pass a core that made a wrong register write, and
  does not refuse a right one; it does not cut the output of a program.

## 2. Modules

Abstract specifications state what a component promises; each is the `PROPERTY`
of a run of the detailed module, under a refinement mapping.

| Module | Models | Extends / uses |
|---|---|---|
| `MemoryTypes` | tags, sets, words, byte lanes, requests, `merge_word` | |
| `Interconnect`, `MCInterconnect`, `InterconnectProofs` | arbiter, interconnect, skid buffers, RAM and masks with two masters, a step per clock cycle; a history of who was served before whom; proofs | |
| `AxiMemory` | one master's view of interconnect and RAM, word by word; devices that write | `MemoryTypes` |
| `CoherentMemory` | **abstract**: a memory without a cache, with one posted write | `MemoryTypes` |
| `DCache` | the registers of the D-cache, an action per arm | `MemoryTypes` |
| `DCacheSystem` | D-cache and AXI memory, with joint handshakes; safety and liveness | `DCache`, `AxiMemory` |
| `DCacheRefinement` | the mapping to `CoherentMemory` | `DCacheSystem` |
| `DCacheInvariant` | the inductive invariant | `DCacheRefinement` |
| `DCacheReplacement`, `MCDCache` | instances for TLC; a history of which way was filled before which | `DCacheInvariant` |
| `DCacheProofs` | proofs | `DCacheReplacement` |
| `ICache`, `ICacheSystem`, `MCICache`, `ICacheProofs` | the I-cache, with the fetch stage and the AXI memory; proofs | `AxiMemory` |
| `InstructionPort` | **abstract**: what `Pipeline` assumes of its instruction port | `MemoryTypes` |
| `Instructions`, `Isa` | instruction classes; **abstract**: one instruction at a time | |
| `Predictor`, `Pipeline`, `MCPipeline`, `Programs`, `PipelineProofs` | the pipelined core; the programs it runs under TLC; proofs | `Instructions` |
| `PipelineOnAxi` | the pipelined core without the I-cache | `MCPipeline` |
| `MultiCycle`, `MCMultiCycle`, `MultiCycleProofs` | the multi-cycle core; proofs | `Instructions`, `Programs` |
| `MemIfWrapper`, `MCMemIfWrapper`, `MemIfWrapperProofs` | the data port without the D-cache | `AxiMemory`, `CoherentMemory` |
| `BoundedQueue`, `Fifo` | **abstract** queue; the FIFO (proofs in `TestBenchesProofs`, beside those of the UART's FIFO) | |
| `Rv32i`, `SingleCycle` | **abstract**: RV32I and MUL on numbers and bytes; the ALU and the shifter, the single-cycle core | |
| `Datapaths`, `MCDatapaths`, `DatapathsProofs` | what the stages of the other two cores compute from an instruction's operands; proofs for all three | `SingleCycle`, `Rv32i` |
| `TurboUart` | the UART behind the D-cache in the test top of the pipelined core | |
| `SimMain` | `main()` of `sim_main.cpp`: clock, reset, limit, exit status | |
| `TraceComparator` | the reader of the trace file and the comparison with a retirement | `SimMain` |
| `UartSim` | glue, `uart_sim` and FIFO of the multi-cycle test top | |
| `TestBenches`, `MCTestBenches`, `TestBenchesProofs` | the three benches: recorder, checker, lock-step comparison; a program and its wrong variants; proofs of the benches and of both FIFOs | `TraceComparator`, `UartSim`; the proofs `Fifo`, `BoundedQueue` |

### How state and actions correspond to the code

* **Caches.**  A register of the Verilog is a variable of the same name
  (`tags` and `data` are the contents of `tag_array` and `data_array`; `req` is the
  record of `req_addr`, `req_wr`, `req_wdata`, `req_wstrb`).  An action is an arm of
  the `case` on the state, with the outcome of `D_TAG` split into bypass, hit and
  miss; a wire is an operator.  A cycle in which an arm waits for a handshake is
  stuttering.  In the `System` modules a handshake is one joint step of the cache
  and of `AxiMemory`.
* **`AxiMemory`.**  `phase` is `state_reg` of the interconnect, `beats` the words
  between the RAM and the master.  The queue may grow to the whole burst, which
  allows every delay of the registers of the interconnect.  `last` is explicit
  both ways, and the two ends count for themselves.  The interconnect has one master here; the
  other masters appear as `DeviceWrite` on the lines that bypass the cache.
* **Cores.**  A step is a clock edge: every `always` block is a conjunct of `Clock`,
  and the argument `in` is the input wires of the cycle.  The memory side is part of
  the module: it takes a request and answers it after any time.  Instructions
  are classes (`load`, `store`, `branch`, `jal`, `jalr`, `lui`, `auipc`, `imm`, `reg`,
  `unknown`); the ALU operations and shifts are one sum modulo the word count, the
  branch conditions are one comparison, byte and halfword accesses are words.
  What is kept is everything that decides *when* and *whether* a value is used.
* **Data paths.**  Where the models of the cores have one sum, one comparison and whole words,
  `SingleCycle` and `Datapaths` have the decoders, the ALU operations,
  the shifts, the conditions and the byte lanes, as operators named after the wires.  An AND-OR
  selection whose selectors exclude each other is a `CASE`.  The two halves meet at the operands: that they are
  those of the architecture is `ImplementsIsa`, that the right result comes out is here.
* **Interconnect.**  A step is a clock cycle.  `open` is the value of the masks in this cycle, and whether the
  reading master takes a word; `ask` is what an idle master begins.  A register is a
  variable or a field of one; a beat is its master and its place in the burst, so that a
  lost, doubled or overtaken word shows.  The operators above the line are the wires.
* **Test benches.**  A step is a pass of the loop of `main()`, in which the bench sees a
  rising edge in every other pass.  `$finish` sets a flag, which the loop looks at before the next
  pass; `$fatal` ends the process.  A record of the trace is a record; reading past the
  end leaves the old fields and sets `feof`.  Cores are external: the golden core retires
  what the program says after any time, the core under test may retire or show something else
  in any cycle.
* **Wrapper.**  A channel is an empty or one-element sequence: its valid bit with
  its register.
* **FIFO.**  A step is a clock edge with any combination of reset, push and pop.

A few definitions of the component modules are not used by any specification
(`HitWayStale`, `WbLastEarly`, `HoldNever`, ...).  Each is a plausible slip of the
definition that follows it; `mutants` in `PROJECT.json` says which property of
which run refutes the model once the slip takes the place of the original.

## 3. Runs

All bounds are constants in the `.cfg` files; no state constraint cuts the state
space, so each run is exhaustive for its instance.

| Run | Instance | Shows |
|---|---|---|
| `dcache_burst` | 1 set, 1 way, 2 cacheable tags and 1 bypass line, 2 words of 1 bit | inductive invariant; clean copies equal memory; victims saved; the words of a write-back; WLAST and AWLEN agree; **implements `CoherentMemory`** |
| `dcache_ways` | 2 ways, 3 cacheable tags and 1 bypass line, 2 words, contents left out | one copy, bypass lines not cached, first-in first-out replacement; **every request completes and every write arrives** |
| `icache` | 2 ways, 3 tags of code with different words, 2 words | invariants of the I-cache; **implements `InstructionPort`**; every fetch is answered |
| `pipeline` | 450 programs of 4 instructions, 2 registers beside x0, predictor of 2 entries, any port timing | **implements `Isa`**; a load is requested once; predicts only targets of the instruction itself; keeps committing |
| `multi_cycle` | the same programs | **implements `Isa`**; keeps completing |
| `data_port` | 2 lines, words of 2 byte lanes | channels belong to the store of the CPU; **implements `CoherentMemory`**; requests complete |
| `interconnect` | lines of 8 words, 2 masters, any masks | words of a read and of a write each once and in order; a waiting port is passed once at most; **every request is served** |
| `test_bench` | a program of 3 instructions, 5 trace files, 2 characters | no wrong write or port passes, no right core is refused, output is printed before success (but for stores with other low address bits), reset is released between rising edges, **every bench ends** |
| `fifo` | depth 3, 2 values, any push, pop, reset | pointers and count agree; **implements `BoundedQueue`** |
| `data_paths` | words of 4 bits (bytes of 1), a memory of one word, every content of 2 registers and the memory, 95 instructions | all three cores **compute what `Rv32i` defines** |
| `fetch_without_icache` | as `pipeline` | violation, see section 6 |
| `turbo_uart` | string of 2 characters | violation, see section 6 |

Why the bounds are enough:

* *Caches.*  A block of two words has a first and a last beat, which differ, and a
  counter that wraps.  Two cacheable tags in one way give every eviction, clean and
  dirty; three tags in two ways give full sets and a pointer that goes round.  Sets
  do not interact: one is enough to meet every transition, and the proofs are for
  all of them.  Two values tell a stale word from a current one.  The tag of the
  bypass lines is separate, because the bypass ranges are made of whole lines.
* *Cores.*  The programs place, at each of four addresses, instructions that use
  results at distance one, two and three, load-use pairs, taken and not taken
  branches both ways, jumps through registers, and stores with computed addresses;
  the program wraps around, so every instruction also follows the last one.
  Two predictor entries for four addresses make the addresses share entries, so that
  the tags of the target buffer matter.
  Byte lanes play no part in the runs of the caches: that bytes which are not strobed survive
  is proved for every set of lanes (`CacheImplementsMemory`), and `data_port` has two of them.
* *Data paths.*  Every pair of operands of four bits is tried, so every sign, carry and overflow and
  every distance of a shift occurs; the immediates include zero, the largest positive number and a
  negative one.  A byte of one bit still has a sign and four places in a word, a halfword two.
  The equations are the same at every width; the proofs are for all of them.
* *Interconnect.*  The line length is the one of the code.  Eight words are more than the three
  registers on the way of a word hold, so that the buffers fill, stop and drain within one burst;
  every pattern of the masks may come in every cycle.
* *Test benches.*  The files have a record of every type at each place that matters: before, between
  and after the compared ones, with a full and with a partial mask, and no record at all.  A
  limit is reached before and after the program ends.  The FIFO has one place, so that the second
  character finds it full, and drains more slowly than the program runs.
* *FIFO.*  Depth 3 has an empty, a full and two partial fill levels, and pointers
  that wrap at a number that is not a power of two; the proofs are for every depth.

`MCDCache` gives TLC a `VIEW` that leaves out registers that no later step can
read before it writes them.  Only `dcache_burst` uses it, for safety and refinement; the
runs with liveness have none.

### Fairness

* *Caches, wrapper*: weak fairness of the steps of the cache or wrapper, of the
  memory, and of the core taking an answer.  The clock never stops; RAM and
  interconnect answer every request; the cores hold `Read_data_Ready` or
  `Inst_Ready` until the answer comes.  That the interconnect serves a waiting port is
  what `RequestServed` of the run `interconnect` shows.  No fairness is put on requests.
* *Interconnect*: cycles in which no mask holds anything back come again and again.  The masks are
  disjoint bits of a shift register of 23 bits with the feedback x^23 + x^18 + 1
  (`sim/custom_cpu/common/pseudo_random.v`), which goes through every state but zero, and a
  master that waits for a word is ready for it.  The masters need not ask.
* *Test benches*: the process runs on; nothing is assumed of the core.  The limit of the
  multi-cycle bench is 2^63, which means none: that this bench ends is a statement
  about the limit, not one that somebody will wait for.
* *Cores*: weak fairness of the clock with each input high, which says that each
  port keeps taking and answering.  An input stays possible until it is used, so weak
  fairness is enough.
* `multi_cycle` does not promise progress past an unknown opcode, which the core fetches
  again for ever (`custom_cpu_prj3.v:280`), while the pipeline goes past it.

## 4. Proofs

Checked by the TLA+ proof system for **all** values of the constants, from the named
assumptions of the modules only: at least one word per block, one way, one place in
the FIFO; bypass lines are lines; zero is a value.  Those of the test benches say what the files and
programs of the repository are: a record of type 4 names a register and follows a full mask
(`StoredTracesAssumption`), `puts` reads the status before each store (`printf.c:255`) and `_halt` loops after its
store (`trap.h:4`, both in `OperationsAssumption`); each limit leaves time for the reset.  Those of the data
paths say which encodings RV32I and MUL have (`InstructionsAssumption`): the values of `funct3` that a format
has, and that `inst[30]`, which is bit 5 of `funct7` or a bit of an immediate, is set in an `R`
instruction only for `SUB` and `SRA` and is clear in `SLLI`.

* **D-cache** (`DCacheProofs`).  `TypeCorrect`, `CoherenceInvariant`, `CacheIsCoherent`.
  `OneCopy`, `BypassNotCached` and `CleanIsMemory` are not inductive.  That a refill leaves a clean
  copy equal to memory needs to know what the buffer holds in `D_REFILL`, hence what it
  holds after `recv_cnt` words and what is still in flight (`FillHolds`), hence that the
  transaction on the bus is the one of this state (`BusFollowsState`,
  `StateFollowsBus`) and that nobody writes the line meanwhile.  The write-back of the
  victim may still run when `D_MREQ` is entered; `WriteBackHolds` says how much of it
  has reached memory and that the rest is in flight with the data of the cache, so that
  `VictimHolds` is true when the refill starts and the victim can be dropped.
  `DecisionHolds` keeps what `D_TAG` found true until it is acted on.  Their conjunction
  is `CoherenceInv`; TLC checks it as an invariant, and the proof has a lemma per action
  and a step per conjunct.
* **D-cache against memory without a cache** (`DCacheProofs`).
  `CacheImplementsMemory`: the memory that the CPU sees is the cached copy where there is one,
  else memory with the posted write applied.  Each arm maps to a step of `CoherentMemory` or
  leaves it unchanged: the store takes effect in `D_WHIT`, in `D_REFILL`, or with its request on the bus,
  the load in the answer.  The invariant needs `CoherenceInv` and that an uncached write is
  a single word (`UncachedIsSingle`).
* **Replacement order** (`DCacheProofs`).  `AlwaysEvictsOldest`, for every number of sets and ways.
  `ReplacementInv` gives a way its rank, how far it is ahead of the pointer: among the valid ways
  the one with the lower rank was filled first (`RankIsAge`).  While the set fills up the pointer stays at 0 and
  the invalid ways are the last ones (`FilledFromZero`), so age and rank agree when it begins to move.
  `VictimStands` keeps the choice of `D_TAG` until the refill.
* **I-cache** (`ICacheProofs`).  `TypeCorrect`, `OneCopyOnly`, `CacheHoldsCode`, `AnswersAreAwaited`,
  `CacheImplementsPort`.  `BusInv` says that the bus carries the refill and nothing else, `FillInv`
  that the words received and on the way are those of memory, `LookupInv` that what `I_TAG_RD`
  found is still so when it is used.
* **Multi-cycle core** (`MultiCycleProofs`).  `CoreImplementsIsa`: for every program, register
  count, word count, power-up state and timing of the ports, a cycle is a stutter or
  the instruction at the address that the architecture has reached.  `PcInv` keeps
  apart the three copies of the address, which change in different states; `DataInv` says what the
  shared registers hold where they are used, `ResultInv` that in `WB` the result is that of the
  architecture although a jump has already changed PC.
* **Pipelined core** (`PipelineProofs`).  `PipelineImplementsIsa`, for every program, number of
  registers and words, size and hash of the predictor and timing of the ports.  The instruction that
  commits is the one in MEM; the invariant says of every younger one what has to be true
  of it when it gets there.  `ChainInv`: until EX has resolved it, an
  instruction is followed by what was predicted for it, through the stage, the fetch in flight, or
  the redirect address that waits for a discarded answer.  `OperandInv`: EX has the operands
  of the program order, from whichever of register file, forwarding path and hold
  registers.  `MemInv`: what MEM carries is what the architecture computes, and what
  follows it is the successor.  `TypeCorrect`, `MemoryIsAskedOnce` and `PredictionIsOwn` come
  from the same invariant.
* Both cores map x0 to zero: its register powers up with any value and is never written,
  and it reads as zero (`reg_file.v:23-24`).
* **Data paths** (`DatapathsProofs`).  `AlwaysComputesRv32i`, `AlwaysComputesRv32im`: for every width of a
  byte, memory, set of registers and set of instructions, the three cores compute what `Rv32i` defines.
  The invariant is the ranges of PC, registers and memory; what is hard is that the equations of the
  wires agree with the arithmetic on every such state, and the lemmas follow the hardware.
  `EuclidUnique`, `DivDiv` and `PowerStep` do arithmetic for a variable power of two, of which the provers
  know nothing (the power is the number of subsets, by `FS_SUBSET`).  `BitsExist`: every set of bits is that
  of a word, by the least counterexample.  `AluComparesUnsigned` and `AluComparesSigned`: the carry and the sign
  corrected by the overflow of a subtraction are the two comparisons; `ShifterFacts`: so is the word with its
  sign repeated an arithmetic shift.  `SingleCycleDecodes`, `PipelineDecodes`, `MultiCycleDecodes`:
  three sets of equations select the same operations.  `AlignedAccess`: a legal access stays in one row, so
  that `Loads` and `Stores` can compare lanes and strobes with bytes of the architecture one by one.
* **FIFOs** (`TestBenchesProofs`).  `CountIsAlwaysDistance`: with the types of the registers,
  `wr_pointer` is `fifo_count` places ahead of `rd_pointer`.  `FifoIsQueue`: the contents
  between the pointers are the queue; a push appends, a pop drops the head, and both in one cycle
  do both; lemmas about `Ahead` carry the wrap of the pointers.  `sim_fifo.v` is the same design, and `UartSim`
  takes the queue for it; `UartFifoIsQueue` shows that under every bench each step is one of that queue:
  a step that is not a cycle of the UART leaves it alone, and reset, which only begins a bench, empties it.
* **Data port** (`MemIfWrapperProofs`).  `ChannelsAlwaysBelong`, with the strengthening
  that a tag is never up while its channel is full (`TagsFollowChannels`), and
  `PortImplementsCoherentMemory`: without the D-cache the CPU sees the same memory as with it.
  A store is posted when its word is on the bus and done when the RAM takes it; a load takes effect
  when the RAM reads.  The channels hold the store that the CPU still shows (`ChannelsHoldStore`, `RequestIsHeld`), and the
  transaction on the bus is a single beat, that of this request (`BusFollowsPort`, `TxnIsOneBeat`).
* **Interconnect** (`InterconnectProofs`).  `ReadInOrder` and `WriteInOrder`, for every length of a
  line.  `SkidCycle` and `BurstCycle` say once what a cycle of a skid buffer does with a burst: what is
  in it stays in order before what comes in, which never finds the temp register occupied, because
  ready was raised only while it was free (`SkidInv`).  `GrantInv` and `SignalInv` tie the handshake
  registers and the states of the two masters to the state machine, `ReadInv` and `WriteInv` count: the
  words taken, those in the registers and those the RAM still owes add up to the burst.  That gives
  `AckFacts`, with the last word nothing else is on its way, so the port can be granted
  to another in that cycle.  The proof has a lemma per state of the state machine.
  `OvertakenAtMostOnce`: the ports that can still be served before a waiting one are those between
  it and the mask, going round (`Between`); a grant takes the winner out of them, and none that
  has passed the waiting port is among them (`RoundRobin`).
* **Test benches** (`TestBenchesProofs`), for every program, trace file, core under test, FIFO
  depth and limit.  `ResetAlwaysClean`: the clock is the parity of the passes (`ClockInv`), and reset
  changes with a falling edge.  `PortsAlwaysAgree`.
  `PassedAlwaysPrinted`: a character that was stored is printed, in the FIFO, in one of the two
  registers beside it, or one of the `misplaced` ones that the UART did not decode (`Balance`, as long as
  the bench has not aborted); none is dropped, because a program about to store has seen
  a free place that nobody else takes (`PlaceInv`); success waits until the FIFO is empty.
  `NothingIsMissed` and `AbortIsAlwaysDeserved` are two sides of one invariant: as many
  register writes of the core were compared as the file has up to the reader, each with
  the mask in force there (`ReaderInv`), and the n-th one that the file has is the n-th that it
  asks for (`TraceInv`), in a recording because the recorder makes nothing else (`Recorded`).

The type invariants are proved for every value of the constants; the runs check the pipeline's, in
which the counters of the predictor could leave their range, and those that are part of another invariant.

Only model-checked: liveness, since fairness and `ENABLED` are outside the prover: that requests, fetches
and writes complete, the cores keep going, the round robin serves every port, and the benches end.  Every
safety property, action property and refinement of a passing run is also a theorem.

## 5. Not modelled

* The extraction of the immediate from the instruction word: a fixed wiring, an input of the models.
* Performance counters: nothing reads
  them but printing programs.
* DMA engine and MIPS core: `engine_core.v` and `mips/custom_cpu.v` have no logic in
  this repository.  The DNN accelerator is a netlist that is not part of it.
* The AXI-Lite loader around the single-cycle core (`simple_cpu_top.v`, `axi_lite_if.v`) and the
  example adder: templates of the laboratory.  While the loader fills the memory the core is in reset
  and only its PC is held: see section 6.
* Golden netlists, traces, emulation, FPGA scripts: generated or third-party.
* The reset is the initial state, except in `Fifo` and in the test benches, where it is a signal.
* A store to code that is being executed or cached: the core has no `fence.i`, no program does it,
  and the I-cache would not see it (`CodeLines` in `ICacheSystem`).
* In the test benches: a truncated record at the end of a file (every file in the
  repository ends with a whole one).
* `Interconnect` and `AxiMemory` model the same hardware, by clock cycles and by transactions.  A
  cycle is up to five steps of `AxiMemory`; that one implements the other is not a checked
  refinement.  What the caches rely on is checked of `Interconnect` by its properties:
  one transaction at a time, its words once and in order, the last one marked, every
  request served.  The DROP states are left out (one RAM decodes every address);
  the RESP state of the RAM is never entered (`WriteBeatsInOrder`).

## 6. Findings

* **`fetch_without_icache`.**  Without the I-cache, the interconnect registers the fetch
  address one cycle before it raises ARREADY.  A redirection in that very cycle changes
  PC; the core then takes the instruction of the old address for the one of the new, and
  retires it.  The I-cache takes the address in the cycle of the handshake, and `pipeline`
  shows that nothing goes wrong with it.
* **`turbo_uart`.**  In `turbo/cpu_test_top.v` the first poll of the UART status is never
  answered.  The D-cache raises its read request after MemRead has fallen, and the glue
  masks it for as long as the address shows the UART; and the R channel is connected past the
  multiplexer that `multi_cycle/cpu_test_top.v` uses, so that the poll would also hang
  without the D-cache.

Observations that no property depends on:

* The assignment to `data_out` under reset in `fifo.v:91` is always overridden by the one that
  follows it; `conv.c:289-292` prints the counters under labels of another order.
* A bad trap (`turbo/custom_cpu_test.v:103-108`, and the golden bench) prints "ERROR: Hit bad trap"
  and ends by `$finish`: `main()` returns 0, and the jobs of `.gitlab-ci.yml` that look at the
  status alone count it as passed.  `BenchEnds` and `NothingMissed` do not speak of it.
* `fini_inst` of the multi-cycle core (`custom_cpu_prj3.v:525`) is high in every cycle of the state ST,
  so a store that waits for the bus is counted once per cycle; the benchmarks print the counter as
  `inst_retired`.
* The reset of the single-cycle core holds PC at 0 and masks neither `RegWrite` nor `MemWrite`
  (`simple_cpu.v:98,145,238`): the word at address 0 is executed in every cycle of the reset.  The programs
  begin by loading a constant (`start.S`), which may be repeated.
* A `$finish` in the very last pass before the limit is reported as a timeout, because the status
  is taken from the time alone.
* A record of type 4 carries no mask and is compared with that of an earlier record.  It is
  full in every trace of the repository (`StoredTracesAssumption`); otherwise bits of
  a return address would go unchecked.
* The multi-cycle bench compares Write_data only while MemWrite is up, the UART takes it one cycle
  later.  `PassedIsPrinted` therefore counts characters and does not compare them.
* The multi-cycle bench compares `Address[31:2]` of the two cores (`custom_cpu_test.v:120,130`), but
  the UART decodes `Address[3:0]` of the core under test (`cpu_test_top.v:172-174`).  A core with other low
  bits in the cycle in which its store is released loses the character and still passes.  `PortsAgree`
  leaves these bits out; the history variable `misplaced` of `TestBenches` counts the
  characters lost in this way, and `PassedIsPrinted` says that they are the only ones.

## 7. Plan

Done: the data path from the core to memory (D-cache, I-cache, wrappers, interconnect, RAM), both
cores against the architecture, the data paths of all three, the FIFO, the UART in both test tops, the
test benches; proofs of every safety property and refinement that a run checks.

What would come next:

1. `Interconnect` as an implementation of `AxiMemory`, with the steps of a cycle one after another.
2. The D-cache under the pipeline in one model: requests only as the core makes them.
