---------------------------- MODULE Interconnect ----------------------------
(***************************************************************************)
(* The AXI interconnect of the test benches, clock cycle by clock cycle:   *)
(* the round-robin arbiter, the state machine that carries one transaction *)
(* at a time, the skid buffers of its R and W channels, the RAM, and the   *)
(* masks that hold back the handshakes of the RAM at random.               *)
(* The masters are the instruction port, which only reads, and the data    *)
(* port, which also writes and does not wait for the answer on B before it *)
(* asks again (its bready is constant); both move lines or single words.   *)
(* A beat is the master it belongs to and its place in the burst.  The     *)
(* data registers of a beat that is not valid hold NoBeat.                 *)
(***************************************************************************)
EXTENDS Integers, FiniteSetsExt

CONSTANT LineLen                 \* AxLEN of a line: 7 in the code
ASSUME LineLenAssumption == LineLen \in Nat

Inst    == 0
Data    == 1
Masters == {Inst, Data}
Ports   == 0 .. 3                \* 2n is AW and 2n + 1 is AR of master n
NoPort  == -1
NoBeat  == [of |-> -1, n |-> -1, last |-> FALSE]

VARIABLES
    master,      \* what each master does; n counts the beats it has moved
    grant, mask, \* of the arbiter
    state_reg, axi, axi_addr_valid,
    ready,       \* s_axi_arready, s_axi_awready and s_axi_wready, by master
    b_valid,     \* the masters with s_axi_bvalid
    m_axi,       \* arvalid, awvalid, rready and bready towards the RAM
    r_valid,     \* the masters with s_axi_rvalid
    r_skid, w_skid,
    read, write, \* the state machines of the RAM
    ram          \* its arready, awready, wready, bvalid, and the beat on R

busVars == <<grant, mask, state_reg, axi, axi_addr_valid, ready, b_valid, m_axi>>
vars    == <<master, busVars, r_valid, r_skid, w_skid, read, write, ram>>

EmptySkid == [ready |-> FALSE, out |-> NoBeat, temp |-> NoBeat]
IdleRam   == [busy |-> FALSE, of |-> Inst, count |-> 0, n |-> 0]
Idle      == [state |-> "idle", wr |-> FALSE, len |-> 0, n |-> 0]

Init ==
    /\ master = [n \in Masters |-> Idle]
    /\ grant = NoPort /\ mask = {}
    /\ state_reg = "IDLE" /\ axi = [of |-> Inst, len |-> 0] /\ axi_addr_valid = FALSE
    /\ ready = [ar |-> {}, aw |-> {}, w |-> {}]
    /\ b_valid = {} /\ r_valid = {}
    /\ m_axi = [ar |-> FALSE, aw |-> FALSE, r |-> FALSE, b |-> FALSE]
    /\ r_skid = EmptySkid /\ w_skid = EmptySkid
    /\ read = IdleRam /\ write = IdleRam
    /\ ram = [ar |-> FALSE, aw |-> FALSE, w |-> FALSE, b |-> FALSE, r |-> NoBeat]

-----------------------------------------------------------------------------
\* Combinational signals.  "open" holds the masks of the cycle on the
\* channels of the RAM, and whether the reading master is ready.

granted  == grant # NoPort
encoded  == IF granted THEN grant ELSE 0
isRead   == encoded % 2 = 1
s_select == encoded \div 2

request ==
    {2 * n + (IF master[n].wr THEN 0 ELSE 1) : n \in {k \in Masters : master[k].state = "asks"}}

SReady(open)   == open.s /\ master[s_select].state = "reads"
WFires         == s_select \in ready.w /\ master[s_select].state = "sends"
RFires(open)   == m_axi.r /\ open.r /\ ram.r # NoBeat
BFires         == m_axi.b /\ ram.b
ArFires(open)  == m_axi.ar /\ ram.ar /\ open.ar
AwFires(open)  == m_axi.aw /\ ram.aw /\ open.aw
MWReady(open)  == ram.w /\ open.w
RamWrites(open) == MWReady(open) /\ w_skid.out # NoBeat

\* A read is acknowledged by its last beat, a write by the answer on B.
Acknowledge(open) ==
    /\ granted
    /\ IF isRead
       THEN s_select \in r_valid /\ SReady(open) /\ r_skid.out.last
       ELSE s_select \in b_valid

\* The beats that enter the skid buffers.
RInput(open) == IF state_reg = "READ" /\ RFires(open) THEN ram.r ELSE NoBeat
WInput ==
    IF state_reg = "WRITE" /\ WFires
    THEN [of |-> s_select, n |-> master[s_select].n,
          last |-> master[s_select].n = master[s_select].len]
    ELSE NoBeat

\* The input may be ready in the next cycle when the output is taken, or
\* when the temp register is free and will not be filled in this one.
ReadyEarlyTemp(skid, outValid, outReady, input) == outReady \/ skid.temp = NoBeat
ReadyEarly(skid, outValid, outReady, input) ==
    outReady \/ (skid.temp = NoBeat /\ (~outValid \/ input = NoBeat))

REarly(open) == ReadyEarly(r_skid, s_select \in r_valid, SReady(open), RInput(open))
WEarly(open) == ReadyEarly(w_skid, w_skid.out # NoBeat, MWReady(open), WInput)

-----------------------------------------------------------------------------
(***************************************************************************)
(* The registers, one operator per always block.                           *)
(***************************************************************************)

\* Masked requests go first, then all, lowest first; the mask keeps the
\* ports after the one that is granted.
Winner == IF request \cap mask # {} THEN Min(request \cap mask) ELSE Min(request)
AfterSame(port) == {p \in Ports : p >= port}
After(port) == {p \in Ports : p > port}

Arbiter(open) ==
    IF granted /\ ~Acknowledge(open)
    THEN UNCHANGED <<grant, mask>>
    ELSE IF request = {}
    THEN grant' = NoPort /\ UNCHANGED mask
    ELSE grant' = Winner /\ mask' = After(Winner)

BusState(open) ==
    state_reg' =
        CASE state_reg = "IDLE"   -> IF granted THEN "DECODE" ELSE "IDLE"
          [] state_reg = "DECODE" -> IF isRead THEN "READ" ELSE "WRITE"
          [] state_reg = "WRITE"  -> IF WInput.last THEN "WRITE_RESP" ELSE "WRITE"
          [] state_reg = "WRITE_RESP" -> IF BFires THEN "WAIT_IDLE" ELSE "WRITE_RESP"
          [] state_reg = "READ"   -> IF RInput(open).last THEN "WAIT_IDLE" ELSE "READ"
          [] OTHER -> IF ~granted \/ Acknowledge(open) THEN "IDLE" ELSE "WAIT_IDLE"

BusRegisters(open) ==
    LET starts == state_reg = "IDLE" /\ granted
        only(on) == IF on THEN {s_select} ELSE {}
        ends == WInput.last
    IN  /\ axi' = IF starts THEN [of |-> s_select, len |-> master[s_select].len] ELSE axi
        /\ axi_addr_valid' = (starts \/ (axi_addr_valid /\ state_reg \notin {"READ", "WRITE"}))
        /\ ready' = [ar |-> only(starts /\ isRead), aw |-> only(starts /\ ~isRead),
                     w |-> only(/\ ~isRead /\ ~ends /\ WEarly(open)
                                /\ state_reg \in {"DECODE", "WRITE"})]
        /\ b_valid' = only(state_reg = "WRITE_RESP" /\ BFires)
        /\ m_axi' =
              [ar |-> \/ m_axi.ar /\ ~(ram.ar /\ open.ar)
                      \/ state_reg = "READ" /\ axi_addr_valid,
               aw |-> \/ m_axi.aw /\ ~(ram.aw /\ open.aw)
                      \/ state_reg = "WRITE" /\ axi_addr_valid,
               r  |-> /\ isRead /\ state_reg \in {"DECODE", "READ"}
                      /\ REarly(open) /\ ~RInput(open).last,
               b  |-> ends \/ (state_reg = "WRITE_RESP" /\ ~BFires)]

\* Whether the output register is loaded, from the input or from temp.
Loads(skid, outValid, outReady) == outReady \/ (skid.ready /\ ~outValid)

Skid(skid, outValid, outReady, input) ==
    LET loads == Loads(skid, outValid, outReady)
    IN  [ready |-> ReadyEarly(skid, outValid, outReady, input),
         out   |-> IF ~loads THEN skid.out ELSE IF skid.ready THEN input ELSE skid.temp,
         temp  |-> CASE skid.ready /\ ~loads -> input
                     [] ~skid.ready /\ loads -> NoBeat
                     [] OTHER                -> skid.temp]

ReadSkid(open) ==
    LET valid == s_select \in r_valid
        next  == Skid(r_skid, valid, SReady(open), RInput(open))
    IN  /\ r_skid' = next
        /\ r_valid' = IF ~Loads(r_skid, valid, SReady(open)) THEN r_valid
                      ELSE IF next.out # NoBeat THEN r_valid \cup {s_select}
                      ELSE r_valid \ {s_select}

WriteSkid(open) == w_skid' = Skid(w_skid, w_skid.out # NoBeat, MWReady(open), WInput)

CountsShort(fsm, taken, fires) ==
    IF ~fsm.busy
    THEN IF taken THEN [busy |-> TRUE, of |-> axi.of, count |-> axi.len, n |-> 0] ELSE fsm
    ELSE IF ~fires THEN fsm
    ELSE IF fsm.count > 1 THEN [fsm EXCEPT !.count = @ - 1, !.n = @ + 1]
    ELSE IdleRam

\* The RAM counts the beats of a burst down from AxLEN.
Counts(fsm, taken, fires) ==
    IF ~fsm.busy
    THEN IF taken THEN [busy |-> TRUE, of |-> axi.of, count |-> axi.len, n |-> 0] ELSE fsm
    ELSE IF ~fires THEN fsm
    ELSE IF fsm.count > 0 THEN [fsm EXCEPT !.count = @ - 1, !.n = @ + 1]
    ELSE IdleRam

\* READ_STATE_BURST reads a word whenever its output register is free.
Reads(open) == read.busy /\ ((m_axi.r /\ open.r) \/ ram.r = NoBeat)
RamDone(open) == write.busy /\ RamWrites(open) /\ write.count = 0

Ram(open) ==
    /\ read' = Counts(read, ArFires(open), Reads(open))
    /\ write' = Counts(write, AwFires(open), RamWrites(open))
    /\ ram' = [ar |-> ~read'.busy,
               aw |-> ~write'.busy,
               w  |-> write'.busy,
               b  |-> RamDone(open) \/ (ram.b /\ ~m_axi.b),
               r  |-> IF Reads(open) THEN [of |-> read.of, n |-> read.n, last |-> read.count = 0]
                      ELSE IF m_axi.r /\ open.r THEN NoBeat ELSE ram.r]

\* A master asks, holds its request until it is taken, and moves its beats;
\* WLAST is the beat that completes the length, RLAST ends a read.
Moved(m, last) == IF last THEN Idle ELSE [m EXCEPT !.n = @ + 1]

MasterNext(n, open, ask) ==
    LET m == master[n]
    IN  CASE m.state = "idle"  -> ask[n]
          [] m.state = "asks" /\ n \in ready.ar -> [m EXCEPT !.state = "reads"]
          [] m.state = "asks" /\ n \in ready.aw -> [m EXCEPT !.state = "sends"]
          [] m.state = "reads" /\ n \in r_valid /\ open.s -> Moved(m, r_skid.out.last)
          [] m.state = "sends" /\ n \in ready.w -> Moved(m, m.n = m.len)
          [] OTHER -> m

Asks(wr, len) == [state |-> "asks", wr |-> wr, len |-> len, n |-> 0]
InstAsks == {Idle} \cup {Asks(FALSE, len) : len \in {0, LineLen}}
DataAsks == InstAsks \cup {Asks(TRUE, len) : len \in {0, LineLen}}
Asking == {ask \in [Masters -> DataAsks] : ask[Inst] \in InstAsks}

Openings == [ar : BOOLEAN, aw : BOOLEAN, r : BOOLEAN, w : BOOLEAN, s : BOOLEAN]

Clock(open, ask) ==
    /\ master' = [n \in Masters |-> MasterNext(n, open, ask)]
    /\ Arbiter(open)
    /\ BusState(open)
    /\ BusRegisters(open)
    /\ ReadSkid(open)
    /\ WriteSkid(open)
    /\ Ram(open)

Next == \E open \in Openings, ask \in Asking : Clock(open, ask)

\* The masks come from a shift register that reaches every pattern
\* (pseudo_random.v:17-41), and a master that waits for a beat becomes ready
\* for it: cycles in which everything is open come again and again.
AllOpen  == [ar |-> TRUE, aw |-> TRUE, r |-> TRUE, w |-> TRUE, s |-> TRUE]
AllOpenCycle == \E ask \in Asking : Clock(AllOpen, ask)
Fairness == WF_vars(AllOpenCycle)

Spec     == Init /\ [][Next]_vars
FairSpec == Spec /\ Fairness

-----------------------------------------------------------------------------
(***************************************************************************)
(* Properties                                                              *)
(***************************************************************************)

\* InOrder: of the registers that a word passes one after another, each is
\* empty or holds the next beat of master n's burst, the oldest being "from".
Beat(n, i, len) == [of |-> n, n |-> i, last |-> (i = len)]
Full(beat)      == IF beat = NoBeat THEN 0 ELSE 1
InOrder(oldest, next, newest, n, from, len) ==
    /\ oldest \in {NoBeat, Beat(n, from, len)}
    /\ next   \in {NoBeat, Beat(n, from + Full(oldest), len)}
    /\ newest \in {NoBeat, Beat(n, from + Full(oldest) + Full(next), len)}

\* The words between the RAM and the master that reads, and those between
\* the master that writes and the RAM.
Offered      == IF s_select \in r_valid THEN r_skid.out ELSE NoBeat
ReadBeats    == Full(Offered) + Full(r_skid.temp) + Full(ram.r)
WrittenBeats == Full(w_skid.out) + Full(w_skid.temp)

Reading == granted /\ isRead /\ master[s_select].state = "reads"

\* ReadBeatsInOrder: the three registers that a word of a line passes (the
\* RAM's output, the skid buffer's temp and output) never lose, repeat or
\* reorder one, whatever the masks and the reading master stop; only the
\* last carries RLAST, no word is left when the port is given to another,
\* and none is offered to a master that does not read.
ReadBeatsInOrder ==
    /\ ReadBeats # 0 => Reading
    /\ r_valid \subseteq {s_select}
    /\ Reading => LET m == master[s_select]
                  IN  /\ InOrder(Offered, r_skid.temp, ram.r, s_select, m.n, m.len)
                      /\ read.busy => /\ read.of = s_select
                                      /\ read.n = m.n + ReadBeats
                                      /\ read.n + read.count = m.len

\* WriteBeatsInOrder: the words of a line that is written reach the RAM each
\* once and in order, although the master sends them through a skid buffer
\* before the RAM has taken the address and may ask for its next transaction
\* before they are written; the RAM, which counts the length of AW down and
\* ignores WLAST, is done with the beat that carries it, and no answer waits
\* on B while a burst runs (so its WRITE_STATE_RESP is never entered).
WriteBeatsInOrder ==
    /\ WrittenBeats # 0 =>
          /\ granted /\ ~isRead /\ ~ram.b
          /\ write.busy \/ axi_addr_valid \/ m_axi.aw
          /\ InOrder(w_skid.out, w_skid.temp, NoBeat, s_select, write.n, axi.len)
    /\ write.busy =>
          /\ write.of = s_select /\ ~ram.b
          /\ write.n + write.count = axi.len
          /\ \/ write.n + WrittenBeats = axi.len + 1
             \/ /\ master[s_select].state = "sends"
                /\ master[s_select].n = write.n + WrittenBeats

\* RequestServed: a master that asks is granted the interconnect and its
\* burst completes, although the data port may follow each transaction by
\* another without a pause (the round robin of arbiter.v).
RequestServed == \A n \in Masters : master[n].state = "asks" ~> master[n].state = "idle"

=============================================================================
