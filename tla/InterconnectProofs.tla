------------------------- MODULE InterconnectProofs -------------------------
(***************************************************************************)
(* The words of a burst pass the interconnect each once and in order, and  *)
(* a port that asks is overtaken once at most by each other port, for      *)
(* every length of a line and whatever the masks hold back.                *)
(***************************************************************************)
EXTENDS MCInterconnect, TLAPS

Beats == {NoBeat} \cup [of : Masters, n : Nat, last : BOOLEAN]
Skids == [ready : BOOLEAN, out : Beats, temp : Beats]
Rams  == [busy : BOOLEAN, of : Masters, count : Nat, n : Nat]

TypeOK ==
    /\ master \in [Masters -> [state : {"idle", "asks", "reads", "sends"}, wr : BOOLEAN,
                               len : Nat, n : Nat]]
    /\ grant \in Ports \cup {NoPort} /\ mask \in SUBSET Ports
    /\ state_reg \in {"IDLE", "DECODE", "READ", "WRITE", "WRITE_RESP", "WAIT_IDLE"}
    /\ axi \in [of : Masters, len : Nat] /\ axi_addr_valid \in BOOLEAN
    /\ ready \in [ar : SUBSET Masters, aw : SUBSET Masters, w : SUBSET Masters]
    /\ b_valid \in SUBSET Masters /\ r_valid \in SUBSET Masters
    /\ m_axi \in [ar : BOOLEAN, aw : BOOLEAN, r : BOOLEAN, b : BOOLEAN]
    /\ r_skid \in Skids /\ w_skid \in Skids
    /\ read \in Rams /\ write \in Rams
    /\ ram \in [ar : BOOLEAN, aw : BOOLEAN, w : BOOLEAN, b : BOOLEAN, r : Beats]

Serves  == master[s_select]
ReadIs  == isRead /\ state_reg \in {"READ", "WAIT_IDLE"}
Only(p) == IF p THEN {s_select} ELSE {}

\* The state of the interconnect says which master is served and how far it
\* is: a master that reads or sends is the granted one.
GrantInv ==
    /\ state_reg # "IDLE" => granted /\ axi.of = s_select
    /\ state_reg = "READ" => isRead
    /\ state_reg \in {"WRITE", "WRITE_RESP"} => ~isRead
    /\ granted /\ state_reg \in {"IDLE", "DECODE"} =>
          Serves.state = "asks" /\ (Serves.wr <=> ~isRead)
    /\ \A n \in Masters :
          /\ master[n].state = "reads" <=> n = s_select /\ ReadIs
          /\ master[n].state = "sends" <=> n = s_select /\ state_reg = "WRITE"
          /\ master[n].n <= master[n].len
          /\ master[n].state = "asks" => master[n].n = 0
    /\ state_reg \in {"DECODE", "READ", "WRITE"} \/ ReadIs => Serves.len = axi.len

\* The handshake registers follow from the state.
SignalInv ==
    /\ ready.ar = Only(state_reg = "DECODE" /\ isRead)
    /\ ready.aw = Only(state_reg = "DECODE" /\ ~isRead)
    /\ ready.w # {} => ready.w = {s_select} /\ state_reg = "WRITE" /\ w_skid.ready
    /\ b_valid = Only(state_reg = "WAIT_IDLE" /\ ~isRead)
    /\ axi_addr_valid => state_reg \in {"DECODE", "READ", "WRITE"}
    /\ state_reg = "DECODE" => axi_addr_valid
    /\ m_axi.ar => state_reg = "READ" /\ ~axi_addr_valid
    /\ m_axi.aw => state_reg \in {"WRITE", "WRITE_RESP"} /\ ~axi_addr_valid
    /\ m_axi.r => state_reg = "READ" /\ r_skid.ready
    /\ m_axi.b <=> state_reg = "WRITE_RESP"
    /\ ram.ar => ~read.busy
    /\ ram.w <=> write.busy

\* A skid buffer says it is ready only while its temp register is free.
SkidInv ==
    /\ r_valid = Only(r_skid.out # NoBeat)
    /\ r_skid.ready => r_skid.temp = NoBeat
    /\ w_skid.ready => w_skid.temp = NoBeat

\* A read is asked of the RAM, then read from it, then on its way.
ReadInv ==
    IF ReadIs
    THEN /\ InOrder(r_skid.out, r_skid.temp, ram.r, s_select, Serves.n, Serves.len)
         /\ axi_addr_valid \/ m_axi.ar =>
               ~read.busy /\ Serves.n = 0
               /\ r_skid.out = NoBeat /\ r_skid.temp = NoBeat /\ ram.r = NoBeat
         /\ read.busy =>
               /\ state_reg = "READ" /\ read.of = s_select
               /\ read.n = Serves.n + Full(r_skid.out) + Full(r_skid.temp) + Full(ram.r)
               /\ read.n + read.count = Serves.len
         /\ ~(axi_addr_valid \/ m_axi.ar) /\ ~read.busy =>
               /\ Serves.n + Full(r_skid.out) + Full(r_skid.temp) + Full(ram.r)
                    = Serves.len + 1
               /\ state_reg = "READ" <=> ram.r # NoBeat
    ELSE /\ r_skid.out = NoBeat /\ r_skid.temp = NoBeat /\ ram.r = NoBeat
         /\ ~read.busy

\* A write likewise; its words may be on their way before its address.
Sent == IF state_reg = "WRITE" THEN Serves.n ELSE axi.len + 1
WriteInv ==
    /\ ~write.busy => write.n = 0
    /\ IF state_reg \in {"WRITE", "WRITE_RESP"}
       THEN /\ InOrder(w_skid.out, w_skid.temp, NoBeat, s_select, write.n, axi.len)
            /\ axi_addr_valid \/ m_axi.aw =>
                  ~write.busy /\ ~ram.b /\ Sent = Full(w_skid.out) + Full(w_skid.temp)
            /\ write.busy =>
                  /\ write.of = s_select /\ ~ram.b
                  /\ write.n + write.count = axi.len
                  /\ Sent = write.n + Full(w_skid.out) + Full(w_skid.temp)
            /\ ~(axi_addr_valid \/ m_axi.aw) /\ ~write.busy =>
                  /\ state_reg = "WRITE_RESP" /\ ram.b
                  /\ w_skid.out = NoBeat /\ w_skid.temp = NoBeat
       ELSE /\ w_skid.out = NoBeat /\ w_skid.temp = NoBeat
            /\ ~write.busy /\ ~ram.b

IInv == TypeOK /\ GrantInv /\ SignalInv /\ SkidInv /\ ReadInv /\ WriteInv

-----------------------------------------------------------------------------
LEMMA SelectFacts ==
    ASSUME TypeOK
    PROVE  /\ s_select \in Masters /\ isRead \in BOOLEAN
           /\ granted <=> grant \in Ports
           /\ ~granted => ~isRead /\ s_select = 0
BY DEF TypeOK, s_select, isRead, encoded, granted, Masters, Inst, Data, Ports, NoPort

LEMMA BeatFacts ==
    ASSUME NEW n \in Masters, NEW i \in Nat, NEW len \in Nat
    PROVE  /\ Beat(n, i, len) \in Beats /\ Beat(n, i, len) # NoBeat
           /\ Beat(n, i, len).last <=> i = len
           /\ Full(Beat(n, i, len)) = 1 /\ Full(NoBeat) = 0
<1>1. Beat(n, i, len) \in Beats
  BY DEF Beat, Beats
<1>2. Beat(n, i, len).of = n /\ NoBeat.of = -1 /\ n # -1
  BY DEF Beat, NoBeat, Masters, Inst, Data
<1>3. Beat(n, i, len) # NoBeat
  BY <1>2
<1>4. Beat(n, i, len).last <=> i = len
  BY DEF Beat
<1> QED
  BY <1>1, <1>3, <1>4 DEF Full

LEMMA FullIs == \A beat : Full(beat) \in {0, 1} /\ (Full(beat) = 0 <=> beat = NoBeat)
BY DEF Full

\* One cycle of a skid buffer: what is in it stays in order before what comes
\* in, which never finds temp occupied.
LEMMA SkidCycle ==
    ASSUME NEW skid \in Skids, skid.ready => skid.temp = NoBeat,
           NEW outReady \in BOOLEAN, NEW input \in Beats, input # NoBeat => skid.ready,
           NEW next, next = Skid(skid, skid.out # NoBeat, outReady, input)
    PROVE  /\ next \in Skids
           /\ next.ready => next.temp = NoBeat
           /\ outReady =>
                 /\ next.out = IF skid.temp # NoBeat THEN skid.temp ELSE input
                 /\ next.temp = NoBeat
           /\ ~outReady /\ skid.out # NoBeat =>
                 /\ next.out = skid.out
                 /\ next.temp = IF input # NoBeat THEN input ELSE skid.temp
           /\ ~outReady /\ skid.out = NoBeat =>
                 IF skid.ready THEN next.out = input /\ next.temp = NoBeat
                 ELSE next.out = NoBeat /\ next.temp = skid.temp
           /\ Loads(skid, skid.out # NoBeat, outReady)
                 <=> outReady \/ (skid.ready /\ skid.out = NoBeat)
<1> DEFINE loads == Loads(skid, skid.out # NoBeat, outReady)
<1>1. loads <=> outReady \/ (skid.ready /\ skid.out = NoBeat)
  BY DEF Loads
<1>2. /\ next.ready = ReadyEarly(skid, skid.out # NoBeat, outReady, input)
      /\ next.out = IF ~loads THEN skid.out ELSE IF skid.ready THEN input ELSE skid.temp
      /\ next.temp = CASE skid.ready /\ ~loads -> input
                       [] ~skid.ready /\ loads -> NoBeat
                       [] OTHER                -> skid.temp
      /\ next = [ready |-> next.ready, out |-> next.out, temp |-> next.temp]
  BY DEF Skid
<1>3. next.ready \in BOOLEAN
  BY <1>2 DEF ReadyEarly
<1>4. skid.ready \in BOOLEAN /\ skid.out \in Beats /\ skid.temp \in Beats /\ NoBeat \in Beats
  BY DEF Skids, Beats
<1>5. next.temp = IF skid.ready /\ ~loads THEN input
                  ELSE IF ~skid.ready /\ loads THEN NoBeat ELSE skid.temp
  BY <1>2
<1>6. next.ready <=> outReady \/ (skid.temp = NoBeat /\ (skid.out = NoBeat \/ input = NoBeat))
  BY <1>2 DEF ReadyEarly
<1> HIDE DEF loads
<1>7. next \in Skids
  BY <1>2, <1>3, <1>4, <1>5 DEF Skids
<1>8. CASE outReady
  BY <1>1, <1>2, <1>4, <1>5, <1>6, <1>7, <1>8 DEF loads
<1>9. CASE ~outReady /\ skid.out # NoBeat
  BY <1>1, <1>2, <1>4, <1>5, <1>6, <1>7, <1>9 DEF loads
<1>10. CASE ~outReady /\ skid.out = NoBeat
  BY <1>1, <1>2, <1>4, <1>5, <1>6, <1>7, <1>10 DEF loads
<1> QED
  BY <1>8, <1>9, <1>10

LEMMA BurstCycle ==
    ASSUME NEW skid \in Skids, skid.ready => skid.temp = NoBeat,
           NEW outReady \in BOOLEAN, NEW input \in Beats, input # NoBeat => skid.ready,
           NEW n \in Masters, NEW from \in Nat, NEW len \in Nat,
           InOrder(skid.out, skid.temp, input, n, from, len),
           NEW next, next = Skid(skid, skid.out # NoBeat, outReady, input),
           NEW moved, moved = IF outReady /\ skid.out # NoBeat THEN 1 ELSE 0
    PROVE  /\ InOrder(next.out, next.temp, NoBeat, n, from + moved, len)
           /\ moved + Full(next.out) + Full(next.temp)
                = Full(skid.out) + Full(skid.temp) + Full(input)
<1>1. /\ outReady =>
            /\ next.out = IF skid.temp # NoBeat THEN skid.temp ELSE input
            /\ next.temp = NoBeat
      /\ ~outReady /\ skid.out # NoBeat =>
            /\ next.out = skid.out
            /\ next.temp = IF input # NoBeat THEN input ELSE skid.temp
      /\ ~outReady /\ skid.out = NoBeat =>
            IF skid.ready THEN next.out = input /\ next.temp = NoBeat
            ELSE next.out = NoBeat /\ next.temp = skid.temp
  BY SkidCycle
<1>2. \A b : (b = NoBeat => Full(b) = 0) /\ (b # NoBeat => Full(b) = 1)
  BY DEF Full
<1>3. /\ skid.out \in {NoBeat, Beat(n, from, len)}
      /\ skid.temp \in {NoBeat, Beat(n, from + Full(skid.out), len)}
      /\ input \in {NoBeat, Beat(n, from + Full(skid.out) + Full(skid.temp), len)}
  BY DEF InOrder
<1>4. skid.temp # NoBeat => input = NoBeat
  OBVIOUS
<1>5. CASE outReady /\ skid.out # NoBeat
  <2>1. moved = 1 /\ Full(skid.out) = 1 /\ next.temp = NoBeat
    BY <1>1, <1>2, <1>5
  <2>2. CASE skid.temp # NoBeat
    BY <1>1, <1>2, <1>3, <1>4, <1>5, <2>1, <2>2 DEF InOrder
  <2>3. CASE skid.temp = NoBeat
    <3>0. next.out = input /\ Full(skid.temp) = 0 /\ Full(NoBeat) = 0
      BY <1>1, <1>2, <1>5, <2>3, Zenon
    <3>1. /\ next.out = input /\ Full(skid.temp) = 0 /\ Full(NoBeat) = 0
          /\ from + Full(skid.out) + Full(skid.temp) = from + moved
      BY <2>1, <3>0
    <3>2. InOrder(next.out, next.temp, NoBeat, n, from + moved, len)
      BY <1>3, <2>1, <3>1 DEF InOrder
    <3> QED
      BY <1>2, <2>1, <3>1, <3>2
  <2> QED
    BY <2>2, <2>3
<1>6. CASE outReady /\ skid.out = NoBeat
  <2>1. moved = 0 /\ Full(skid.out) = 0 /\ next.temp = NoBeat
    BY <1>1, <1>2, <1>6
  <2>2. CASE skid.temp # NoBeat
    BY <1>1, <1>2, <1>3, <1>4, <1>6, <2>1, <2>2 DEF InOrder
  <2>3. CASE skid.temp = NoBeat
    <3>0. next.out = input /\ Full(skid.temp) = 0 /\ Full(NoBeat) = 0
      BY <1>1, <1>2, <1>6, <2>3, Zenon
    <3>1. /\ next.out = input /\ Full(skid.temp) = 0 /\ Full(NoBeat) = 0
          /\ from + Full(skid.out) + Full(skid.temp) = from + moved
      BY <2>1, <3>0
    <3>2. InOrder(next.out, next.temp, NoBeat, n, from + moved, len)
      BY <1>3, <2>1, <3>1 DEF InOrder
    <3> QED
      BY <1>2, <2>1, <3>1, <3>2
  <2> QED
    BY <2>2, <2>3
<1>7. CASE ~outReady /\ skid.out # NoBeat
  <2>1. moved = 0 /\ Full(skid.out) = 1 /\ next.out = skid.out
    BY <1>1, <1>2, <1>7
  <2>2. CASE input # NoBeat
    BY <1>1, <1>2, <1>3, <1>4, <1>7, <2>1, <2>2 DEF InOrder
  <2>3. CASE input = NoBeat
    BY <1>1, <1>2, <1>3, <1>7, <2>1, <2>3 DEF InOrder
  <2> QED
    BY <2>2, <2>3
<1>8. CASE ~outReady /\ skid.out = NoBeat
  <2>1. moved = 0 /\ Full(skid.out) = 0
    BY <1>2, <1>8
  <2>2. CASE skid.ready
    BY <1>1, <1>2, <1>3, <1>8, <2>1, <2>2 DEF InOrder
  <2>3. CASE ~skid.ready
    BY <1>1, <1>2, <1>3, <1>8, <2>1, <2>3 DEF InOrder
  <2> QED
    BY <2>2, <2>3
<1> QED
  BY <1>5, <1>6, <1>7, <1>8

\* What the counters of the RAM do.
LEMMA CountsCycle ==
    ASSUME NEW fsm \in Rams, NEW taken \in BOOLEAN, NEW fires \in BOOLEAN,
           axi \in [of : Masters, len : Nat],
           NEW next, next = Counts(fsm, taken, fires)
    PROVE  /\ next \in Rams
           /\ ~fsm.busy /\ taken =>
                 next.busy /\ next.of = axi.of /\ next.count = axi.len /\ next.n = 0
           /\ ~fsm.busy /\ ~taken => next = fsm
           /\ fsm.busy /\ ~fires => next = fsm
           /\ fsm.busy /\ fires /\ fsm.count > 0 =>
                 next.busy /\ next.of = fsm.of /\ next.count = fsm.count - 1
                 /\ next.n = fsm.n + 1
           /\ fsm.busy /\ fires /\ fsm.count = 0 => ~next.busy /\ next.n = 0
<1>1. IdleRam \in Rams /\ ~IdleRam.busy /\ IdleRam.n = 0
  BY DEF IdleRam, Rams, Masters, Inst, Data
<1>2. /\ fsm.busy \in BOOLEAN /\ fsm.of \in Masters /\ fsm.count \in Nat /\ fsm.n \in Nat
      /\ axi.of \in Masters /\ axi.len \in Nat
  BY DEF Rams
<1>3. CASE ~fsm.busy
  BY <1>2, <1>3 DEF Counts, Rams
<1>4. CASE fsm.busy /\ ~fires
  BY <1>2, <1>4 DEF Counts
<1>5. CASE fsm.busy /\ fires /\ fsm.count > 0
  <2>1. next
          = [busy |-> fsm.busy, of |-> fsm.of, count |-> fsm.count - 1, n |-> fsm.n + 1]
    BY <1>2, <1>5 DEF Counts, Rams
  <2>2. fsm.count - 1 \in Nat /\ fsm.n + 1 \in Nat
    BY <1>2, <1>5
  <2>3. next \in Rams
    BY <1>2, <2>1, <2>2 DEF Rams
  <2>4. next.busy = fsm.busy /\ next.of = fsm.of /\ next.count = fsm.count - 1 /\ next.n = fsm.n + 1
    BY <2>1
  <2>5. fsm.busy /\ fires /\ fsm.count # 0
    BY <1>2, <1>5
  <2> QED
    BY <2>3, <2>4, <2>5, Zenon
<1>6. CASE fsm.busy /\ fires /\ fsm.count = 0
  <2>1. next = IdleRam
    BY <1>2, <1>6 DEF Counts
  <2>2. fsm.busy /\ fires /\ fsm.count = 0 /\ ~(fsm.count > 0)
    BY <1>6
  <2>3. next \in Rams /\ ~next.busy /\ next.n = 0
    BY <1>1, <2>1
  <2> QED
    BY <2>2, <2>3, Zenon
<1> QED
  BY <1>2, <1>3, <1>4, <1>5, <1>6

-----------------------------------------------------------------------------
(***************************************************************************)
(* One cycle, part by part                                                 *)
(***************************************************************************)

\* The arbiter grants a port that asks.
LEMMA RequestFacts ==
    ASSUME TypeOK, NEW p \in request
    PROVE  /\ p \in Ports /\ p \div 2 \in Masters
           /\ master[p \div 2].state = "asks"
           /\ master[p \div 2].wr <=> p % 2 # 1
<1>1. PICK n \in Masters : master[n].state = "asks" /\ p = 2 * n + (IF master[n].wr THEN 0 ELSE 1)
  BY DEF request
<1>2. master[n].wr \in BOOLEAN
  BY DEF TypeOK
<1>3. CASE n = 0
  BY <1>1, <1>2, <1>3 DEF Ports, Masters, Inst, Data
<1>4. CASE n = 1
  BY <1>1, <1>2, <1>4 DEF Ports, Masters, Inst, Data
<1> QED
  BY <1>3, <1>4 DEF Masters, Inst, Data

LEMMA LowestIsIn ==
    ASSUME NEW S \in SUBSET Ports, S # {}
    PROVE  Min(S) \in S /\ \A x \in S : Min(S) <= x
<1>1. \E x \in S : \A y \in S : x <= y
  <2>1. CASE 0 \in S
    BY <2>1 DEF Ports
  <2>2. CASE 0 \notin S /\ 1 \in S
    BY <2>2 DEF Ports
  <2>3. CASE 0 \notin S /\ 1 \notin S /\ 2 \in S
    BY <2>3 DEF Ports
  <2>4. CASE 0 \notin S /\ 1 \notin S /\ 2 \notin S
    <3>1. \A x \in S : x = 3
      BY <2>4 DEF Ports
    <3> QED
      BY <3>1
  <2> QED
    BY <2>1, <2>2, <2>3, <2>4
<1> QED
  BY <1>1 DEF Min

LEMMA WinnerAsks ==
    ASSUME TypeOK, request # {}
    PROVE  Winner \in request
<1>1. request \subseteq Ports
  BY RequestFacts
<1>2. request \cap mask # {} => Min(request \cap mask) \in request
  BY <1>1, LowestIsIn
<1>3. Min(request) \in request
  BY <1>1, LowestIsIn
<1> QED
  BY <1>2, <1>3 DEF Winner

LEMMA AskFacts ==
    ASSUME NEW ask \in Asking, NEW n \in Masters
    PROVE  /\ ask[n] \in [state : {"idle", "asks", "reads", "sends"}, wr : BOOLEAN,
                          len : Nat, n : Nat]
           /\ ask[n].state \in {"idle", "asks"} /\ ask[n].n = 0
<1>1. ask[n] = Idle \/ \E wr \in BOOLEAN, len \in {0, LineLen} : ask[n] = Asks(wr, len)
  BY DEF Asking, DataAsks, InstAsks
<1>2. 0 \in Nat /\ LineLen \in Nat
  BY LineLenAssumption
<1>3. CASE ask[n] = Idle
  BY <1>3 DEF Idle
<1>4. ASSUME NEW wr \in BOOLEAN, NEW len \in {0, LineLen}, ask[n] = Asks(wr, len)
      PROVE  /\ ask[n] \in [state : {"idle", "asks", "reads", "sends"}, wr : BOOLEAN,
                             len : Nat, n : Nat]
             /\ ask[n].state \in {"idle", "asks"} /\ ask[n].n = 0
  BY <1>2, <1>4 DEF Asks
<1> QED
  BY <1>1, <1>3, <1>4

LEMMA MasterStep ==
    ASSUME TypeOK, SignalInv, NEW open \in Openings, NEW ask \in Asking, Clock(open, ask),
           NEW n \in Masters
    PROVE  /\ master[n].state = "idle" => master'[n] = ask[n]
           /\ master[n].state = "asks" /\ n \in ready.ar =>
                 master'[n] = [master[n] EXCEPT !.state = "reads"]
           /\ master[n].state = "asks" /\ n \in ready.aw =>
                 master'[n] = [master[n] EXCEPT !.state = "sends"]
           /\ master[n].state = "asks" /\ n \notin ready.ar /\ n \notin ready.aw =>
                 master'[n] = master[n]
           /\ master[n].state = "reads" =>
                 master'[n] = IF n \in r_valid /\ open.s
                              THEN Moved(master[n], r_skid.out.last) ELSE master[n]
           /\ master[n].state = "sends" =>
                 master'[n] = IF n \in ready.w
                              THEN Moved(master[n], master[n].n = master[n].len) ELSE master[n]
<1>1. master'[n] = MasterNext(n, open, ask)
  BY DEF Clock
<1>2. ~(n \in ready.ar /\ n \in ready.aw)
  BY DEF SignalInv, Only
<1> QED
  BY <1>1, <1>2 DEF MasterNext

\* A master that is not served begins, or goes on asking.
LEMMA Bystander ==
    ASSUME TypeOK, SignalInv, NEW open \in Openings, NEW ask \in Asking, Clock(open, ask),
           NEW n \in Masters, master[n].state \in {"idle", "asks"},
           n \notin ready.ar, n \notin ready.aw,
           master[n].n <= master[n].len, master[n].state = "asks" => master[n].n = 0
    PROVE  /\ master'[n].state \in {"idle", "asks"}
           /\ master'[n].n <= master'[n].len
           /\ master'[n].state = "asks" => master'[n].n = 0
           /\ master[n].state = "asks" => master'[n] = master[n]
<1>1. ask[n].state \in {"idle", "asks"} /\ ask[n].n = 0 /\ ask[n].len \in Nat
  BY AskFacts
<1>2. CASE master[n].state = "idle"
  <2>1. master'[n] = ask[n]
    BY <1>2, MasterStep
  <2> QED
    BY <1>1, <1>2, <2>1
<1>3. CASE master[n].state = "asks"
  <2>1. master'[n] = master[n]
    BY <1>3, MasterStep
  <2> QED
    BY <1>3, <2>1
<1> QED
  BY <1>2, <1>3

LEMMA GrantStep ==
    ASSUME TypeOK, NEW open \in Openings, NEW ask \in Asking, Clock(open, ask)
    PROVE  /\ granted /\ ~Acknowledge(open) =>
                 /\ grant' = grant
                 /\ granted' /\ s_select' = s_select /\ (isRead' <=> isRead)
           /\ ~granted \/ Acknowledge(open) =>
                 \/ grant' = NoPort /\ ~granted'
                 \/ /\ granted' /\ s_select' \in Masters /\ isRead' \in BOOLEAN
                    /\ master[s_select'].state = "asks"
                    /\ master[s_select'].wr <=> ~isRead'
<1>1. CASE granted /\ ~Acknowledge(open)
  BY <1>1 DEF Clock, Arbiter, granted, s_select, isRead, encoded
<1>2. CASE ~(granted /\ ~Acknowledge(open)) /\ request = {}
  BY <1>2 DEF Clock, Arbiter, granted
<1>3. CASE ~(granted /\ ~Acknowledge(open)) /\ request # {}
  <2>1. grant' = Winner /\ Winner \in request
    BY <1>3, WinnerAsks DEF Clock, Arbiter
  <2>2. /\ Winner \in Ports /\ Winner \div 2 \in Masters
        /\ master[Winner \div 2].state = "asks"
        /\ master[Winner \div 2].wr <=> Winner % 2 # 1
    BY <2>1, RequestFacts
  <2>3. granted' /\ encoded' = grant'
    BY <2>1, <2>2 DEF granted, encoded, Ports, NoPort
  <2>4. s_select' = Winner \div 2 /\ (isRead' <=> Winner % 2 = 1)
    BY <2>1, <2>3 DEF s_select, isRead
  <2> QED
    BY <1>3, <2>2, <2>3, <2>4
<1> QED
  BY <1>1, <1>2, <1>3

\* The port is given up only when the burst has ended.
LEMMA AckFacts ==
    ASSUME IInv, NEW open \in Openings, Acknowledge(open)
    PROVE  /\ state_reg = "WAIT_IDLE" /\ granted
           /\ isRead => /\ Serves.state = "reads" /\ open.s
                        /\ s_select \in r_valid /\ r_skid.out # NoBeat /\ r_skid.out.last
                        /\ r_skid.temp = NoBeat /\ ram.r = NoBeat
<1> DEFINE n == Serves.n  len == Serves.len
<1>0. s_select \in Masters /\ n \in Nat /\ len \in Nat /\ granted
  BY SelectFacts DEF IInv, TypeOK, Acknowledge, Serves
<1>1. CASE ~isRead
  BY <1>0, <1>1 DEF Acknowledge, IInv, SignalInv, Only
<1>2. CASE isRead
  <2>1. s_select \in r_valid /\ SReady(open) /\ r_skid.out.last
    BY <1>2 DEF Acknowledge
  <2>2. r_skid.out # NoBeat /\ Serves.state = "reads" /\ open.s
    BY <2>1 DEF IInv, SkidInv, Only, SReady, Serves
  <2>3. ReadIs
    BY <2>2, <1>0 DEF IInv, GrantInv, Serves
  <2>4. /\ r_skid.out = Beat(s_select, n, len)
        /\ ~(axi_addr_valid \/ m_axi.ar)
    BY <2>2, <2>3 DEF IInv, ReadInv, InOrder
  <2>5. n = len /\ Full(r_skid.out) = 1
    BY <1>0, <2>1, <2>2, <2>4, BeatFacts
  <2>6. \A beat : Full(beat) \in {0, 1} /\ (Full(beat) = 0 <=> beat = NoBeat)
    BY FullIs
  <2>7. ~read.busy
    <3> SUFFICES ASSUME read.busy PROVE FALSE
      OBVIOUS
    <3>1. /\ read.n = n + Full(r_skid.out) + Full(r_skid.temp) + Full(ram.r)
          /\ read.n + read.count = len
          /\ read.count \in Nat
      BY <2>3 DEF IInv, ReadInv, TypeOK, Rams
    <3>2. Full(r_skid.temp) \in {0, 1} /\ Full(ram.r) \in {0, 1}
      BY <2>6
    <3> QED
      BY <1>0, <2>5, <3>1, <3>2
  <2>8. /\ n + Full(r_skid.out) + Full(r_skid.temp) + Full(ram.r) = len + 1
        /\ state_reg = "READ" <=> ram.r # NoBeat
    BY <2>3, <2>4, <2>7 DEF IInv, ReadInv
  <2>9. Full(r_skid.temp) = 0 /\ Full(ram.r) = 0
    <3>1. Full(r_skid.temp) \in {0, 1} /\ Full(ram.r) \in {0, 1}
      BY <2>6
    <3> QED
      BY <1>0, <2>5, <2>8, <3>1
  <2>10. r_skid.temp = NoBeat /\ ram.r = NoBeat
    BY <2>6, <2>9
  <2> QED
    BY <1>0, <2>1, <2>2, <2>3, <2>8, <2>10 DEF ReadIs
<1> QED
  BY <1>1, <1>2, SelectFacts DEF IInv

LEMMA Wires ==
    ASSUME TypeOK, NEW open \in Openings
    PROVE  /\ SReady(open) \in BOOLEAN /\ MWReady(open) \in BOOLEAN
           /\ RFires(open) \in BOOLEAN /\ WFires \in BOOLEAN
           /\ ArFires(open) \in BOOLEAN /\ AwFires(open) \in BOOLEAN
           /\ Reads(open) \in BOOLEAN /\ RamWrites(open) \in BOOLEAN
           /\ open.s \in BOOLEAN /\ open.r \in BOOLEAN
           /\ RInput(open) \in Beats /\ WInput \in Beats
<1>1. /\ open.s \in BOOLEAN /\ open.r \in BOOLEAN /\ open.w \in BOOLEAN
      /\ open.ar \in BOOLEAN /\ open.aw \in BOOLEAN
  BY DEF Openings
<1>2. NoBeat \in Beats
  BY DEF Beats
<1>3. s_select \in Masters /\ master[s_select].n \in Nat
  BY SelectFacts DEF TypeOK
<1>4. RInput(open) \in Beats /\ WInput \in Beats
  BY <1>2, <1>3 DEF RInput, WInput, TypeOK, Beats
<1> QED
  BY <1>1, <1>4 DEF SReady, MWReady, RFires, WFires, ArFires, AwFires, Reads, RamWrites,
                    TypeOK, Rams

\* The read channel: what moves on it in a cycle.
LEMMA ReadSide ==
    ASSUME TypeOK, SignalInv, SkidInv, NEW open \in Openings, NEW ask \in Asking, Clock(open, ask)
    PROVE  /\ RInput(open) # NoBeat => r_skid.ready /\ state_reg = "READ" /\ RInput(open) = ram.r
           /\ r_skid' = Skid(r_skid, r_skid.out # NoBeat, SReady(open), RInput(open))
           /\ r_skid' \in Skids /\ (r_skid'.ready => r_skid'.temp = NoBeat)
           /\ r_valid' = IF r_skid'.out # NoBeat THEN {s_select} ELSE {}
<1>1. RInput(open) # NoBeat => r_skid.ready /\ state_reg = "READ" /\ RInput(open) = ram.r
  BY DEF RInput, RFires, SignalInv
<1>2. (s_select \in r_valid) <=> (r_skid.out # NoBeat)
  BY DEF SkidInv, Only
<1>3. r_skid' = Skid(r_skid, r_skid.out # NoBeat, SReady(open), RInput(open))
  BY <1>2 DEF Clock, ReadSkid
<1>4. r_valid' = IF ~Loads(r_skid, r_skid.out # NoBeat, SReady(open)) THEN r_valid
                 ELSE IF r_skid'.out # NoBeat THEN r_valid \cup {s_select}
                 ELSE r_valid \ {s_select}
  BY <1>2, <1>3 DEF Clock, ReadSkid
<1>5. /\ r_skid \in Skids /\ SReady(open) \in BOOLEAN /\ RInput(open) \in Beats
      /\ r_skid.ready => r_skid.temp = NoBeat
      /\ r_skid.ready \in BOOLEAN
  BY Wires DEF TypeOK, SkidInv, Skids
<1>6. /\ r_skid' \in Skids /\ (r_skid'.ready => r_skid'.temp = NoBeat)
      /\ ~SReady(open) /\ r_skid.out # NoBeat => r_skid'.out = r_skid.out
      /\ ~SReady(open) /\ r_skid.out = NoBeat /\ ~r_skid.ready => r_skid'.out = NoBeat
      /\ Loads(r_skid, r_skid.out # NoBeat, SReady(open))
           <=> SReady(open) \/ (r_skid.ready /\ r_skid.out = NoBeat)
  BY <1>1, <1>3, <1>5, SkidCycle
<1>7. r_valid = IF r_skid.out # NoBeat THEN {s_select} ELSE {}
  BY DEF SkidInv, Only
<1>8. r_valid' = IF r_skid'.out # NoBeat THEN {s_select} ELSE {}
  <2>1. CASE Loads(r_skid, r_skid.out # NoBeat, SReady(open))
    BY <1>4, <1>7, <2>1
  <2>2. CASE ~Loads(r_skid, r_skid.out # NoBeat, SReady(open))
    BY <1>4, <1>6, <1>7, <2>2
  <2> QED
    BY <2>1, <2>2
<1> QED
  BY <1>1, <1>3, <1>6, <1>8

\* The write channel.
LEMMA WriteSide ==
    ASSUME TypeOK, SignalInv, SkidInv, NEW open \in Openings, NEW ask \in Asking, Clock(open, ask)
    PROVE  /\ WInput # NoBeat => w_skid.ready /\ state_reg = "WRITE" /\ s_select \in ready.w
           /\ w_skid' = Skid(w_skid, w_skid.out # NoBeat, MWReady(open), WInput)
           /\ w_skid' \in Skids /\ (w_skid'.ready => w_skid'.temp = NoBeat)
<1>1. WInput # NoBeat => w_skid.ready /\ state_reg = "WRITE" /\ s_select \in ready.w
  BY DEF WInput, WFires, SignalInv
<1>2. w_skid' = Skid(w_skid, w_skid.out # NoBeat, MWReady(open), WInput)
  BY DEF Clock, WriteSkid
<1>3. /\ w_skid \in Skids /\ MWReady(open) \in BOOLEAN /\ WInput \in Beats
      /\ w_skid.ready => w_skid.temp = NoBeat
  BY Wires DEF TypeOK, SkidInv
<1> QED
  BY <1>1, <1>2, <1>3, SkidCycle

\* The state machines of the RAM.
LEMMA RamSide ==
    ASSUME TypeOK, NEW open \in Openings, NEW ask \in Asking, Clock(open, ask)
    PROVE  /\ read' = Counts(read, ArFires(open), Reads(open)) /\ read' \in Rams
           /\ write' = Counts(write, AwFires(open), RamWrites(open)) /\ write' \in Rams
           /\ ram'.ar <=> ~read'.busy
           /\ ram'.w <=> write'.busy
           /\ ram'.b <=> RamDone(open) \/ (ram.b /\ ~m_axi.b)
           /\ ram'.r = (IF Reads(open)
                        THEN [of |-> read.of, n |-> read.n, last |-> read.count = 0]
                        ELSE IF m_axi.r /\ open.r THEN NoBeat ELSE ram.r)
           /\ ram' \in [ar : BOOLEAN, aw : BOOLEAN, w : BOOLEAN, b : BOOLEAN, r : Beats]
<1> DEFINE word == IF Reads(open)
                   THEN [of |-> read.of, n |-> read.n, last |-> read.count = 0]
                   ELSE IF m_axi.r /\ open.r THEN NoBeat ELSE ram.r
           done == RamDone(open) \/ (ram.b /\ ~m_axi.b)
<1>1. /\ read' = Counts(read, ArFires(open), Reads(open))
      /\ write' = Counts(write, AwFires(open), RamWrites(open))
      /\ ram' = [ar |-> ~read'.busy, aw |-> ~write'.busy, w |-> write'.busy,
                 b |-> done, r |-> word]
  BY DEF Clock, Ram
<1>2. /\ read \in Rams /\ write \in Rams /\ axi \in [of : Masters, len : Nat]
      /\ ArFires(open) \in BOOLEAN /\ AwFires(open) \in BOOLEAN
      /\ Reads(open) \in BOOLEAN /\ RamWrites(open) \in BOOLEAN
  BY Wires DEF TypeOK
<1>3. read' \in Rams /\ write' \in Rams
  BY <1>1, <1>2, CountsCycle
<1>4. word \in Beats
  <2>1. [of |-> read.of, n |-> read.n, last |-> read.count = 0] \in Beats
    BY <1>2 DEF Rams, Beats
  <2> QED
    BY <2>1 DEF TypeOK, Beats
<1>5. read'.busy \in BOOLEAN /\ write'.busy \in BOOLEAN /\ done \in BOOLEAN
  BY <1>3 DEF Rams
<1> HIDE DEF word, done
<1>6. ram' \in [ar : BOOLEAN, aw : BOOLEAN, w : BOOLEAN, b : BOOLEAN, r : Beats]
  BY <1>1, <1>4, <1>5
<1>7. ram'.r = word
  BY <1>1
<1>8. (ram'.ar <=> ~read'.busy) /\ (ram'.w <=> write'.busy) /\ (ram'.b <=> done)
  BY <1>1, <1>5
<1> QED
  BY <1>1, <1>3, <1>6, <1>7, <1>8 DEF word, done

MasterStates == [state : {"idle", "asks", "reads", "sends"}, wr : BOOLEAN, len : Nat, n : Nat]

LEMMA MovedType ==
    ASSUME NEW m \in MasterStates, NEW last
    PROVE  Moved(m, last) \in MasterStates
<1>1. Idle \in MasterStates
  BY DEF Idle, MasterStates
<1>2. m.n + 1 \in Nat
  BY DEF MasterStates
<1>3. [m EXCEPT !.n = @ + 1] \in MasterStates
  BY <1>2 DEF MasterStates
<1> QED
  BY <1>1, <1>3 DEF Moved

LEMMA TypeInit == Init => TypeOK
<1>1. NoBeat \in Beats /\ Idle \in MasterStates /\ Inst \in Masters
  BY DEF Beats, Idle, MasterStates, Masters
<1>2. EmptySkid \in Skids /\ IdleRam \in Rams
  BY <1>1 DEF EmptySkid, Skids, IdleRam, Rams
<1> SUFFICES ASSUME Init PROVE TypeOK
  OBVIOUS
<1>3. /\ master \in [Masters -> MasterStates] /\ r_skid \in Skids /\ w_skid \in Skids
      /\ read \in Rams /\ write \in Rams
  BY <1>1, <1>2 DEF Init
<1>4. /\ axi \in [of : Masters, len : Nat]
      /\ ready \in [ar : SUBSET Masters, aw : SUBSET Masters, w : SUBSET Masters]
      /\ m_axi \in [ar : BOOLEAN, aw : BOOLEAN, r : BOOLEAN, b : BOOLEAN]
  BY <1>1 DEF Init
<1>5. ram \in [ar : BOOLEAN, aw : BOOLEAN, w : BOOLEAN, b : BOOLEAN, r : Beats]
  BY <1>1 DEF Init
<1>6. /\ grant \in Ports \cup {NoPort} /\ mask \in SUBSET Ports /\ axi_addr_valid \in BOOLEAN
      /\ state_reg = "IDLE" /\ b_valid = {} /\ r_valid = {}
  BY DEF Init
<1> QED
  BY <1>3, <1>4, <1>5, <1>6 DEF TypeOK, MasterStates

LEMMA TypeNext ==
    ASSUME TypeOK, SignalInv, SkidInv, NEW open \in Openings, NEW ask \in Asking, Clock(open, ask)
    PROVE  TypeOK'
<1>0. s_select \in Masters
  BY SelectFacts
<1>1. master' \in [Masters -> MasterStates]
  <2>1. master' = [n \in Masters |-> MasterNext(n, open, ask)]
    BY DEF Clock
  <2>2. ASSUME NEW n \in Masters PROVE MasterNext(n, open, ask) \in MasterStates
    <3>1. master[n] \in MasterStates /\ ask[n] \in MasterStates
      BY AskFacts DEF TypeOK, MasterStates
    <3>2. \A last : Moved(master[n], last) \in MasterStates
      BY <3>1, MovedType
    <3>3. /\ [master[n] EXCEPT !.state = "reads"] \in MasterStates
          /\ [master[n] EXCEPT !.state = "sends"] \in MasterStates
      BY <3>1 DEF MasterStates
    <3> QED
      BY <3>1, <3>2, <3>3 DEF MasterNext
  <2> QED
    BY <2>1, <2>2
<1>2. grant' \in Ports \cup {NoPort} /\ mask' \in SUBSET Ports
  <2>1. request # {} => Winner \in Ports
    BY WinnerAsks, RequestFacts
  <2> QED
    BY <2>1 DEF Clock, Arbiter, TypeOK, After
<1>3. state_reg' \in {"IDLE", "DECODE", "READ", "WRITE", "WRITE_RESP", "WAIT_IDLE"}
  BY DEF Clock, BusState, TypeOK
<1>4. axi' \in [of : Masters, len : Nat] /\ axi_addr_valid' \in BOOLEAN
  BY <1>0 DEF Clock, BusRegisters, TypeOK
<1>5. /\ ready' \in [ar : SUBSET Masters, aw : SUBSET Masters, w : SUBSET Masters]
      /\ b_valid' \in SUBSET Masters
  BY <1>0 DEF Clock, BusRegisters
<1>6. m_axi' \in [ar : BOOLEAN, aw : BOOLEAN, r : BOOLEAN, b : BOOLEAN]
  BY Wires DEF Clock, BusRegisters, TypeOK
<1>7. r_skid' \in Skids /\ r_valid' \in SUBSET Masters
  BY <1>0, ReadSide
<1>8. w_skid' \in Skids
  BY WriteSide
<1>9. read' \in Rams /\ write' \in Rams
      /\ ram' \in [ar : BOOLEAN, aw : BOOLEAN, w : BOOLEAN, b : BOOLEAN, r : Beats]
  BY RamSide
<1> QED
  BY <1>1, <1>2, <1>3, <1>4, <1>5, <1>6, <1>7, <1>8, <1>9 DEF TypeOK, MasterStates

-----------------------------------------------------------------------------
(***************************************************************************)
(* The channels while no burst of theirs runs                              *)
(***************************************************************************)

LEMMA NoBeatIsNotLast == NoBeat.last = FALSE
BY DEF NoBeat

LEMMA ReadQuiet ==
    ASSUME TypeOK, SignalInv, SkidInv, NEW open \in Openings, NEW ask \in Asking,
           Clock(open, ask), state_reg # "READ", ~read.busy, ram.r = NoBeat,
           r_skid.temp = NoBeat, r_skid.out = NoBeat \/ SReady(open)
    PROVE  /\ r_skid'.out = NoBeat /\ r_skid'.temp = NoBeat /\ r_valid' = {}
           /\ r_skid'.ready => r_skid'.temp = NoBeat
           /\ ram'.r = NoBeat /\ ~read'.busy
           /\ RInput(open) = NoBeat
<1>1. RInput(open) = NoBeat
  BY ReadSide
<1>2. ~ArFires(open) /\ ~Reads(open)
  BY DEF ArFires, SignalInv, Reads
<1>3. read' = read
  BY <1>2, RamSide DEF Counts
<1>4. ram'.r = NoBeat
  BY <1>2, RamSide
<1>5. /\ r_skid \in Skids /\ SReady(open) \in BOOLEAN /\ NoBeat \in Beats
      /\ r_skid.ready => r_skid.temp = NoBeat
      /\ r_skid' = Skid(r_skid, r_skid.out # NoBeat, SReady(open), NoBeat)
  BY <1>1, ReadSide, Wires DEF TypeOK, SkidInv
<1>6. r_skid'.out = NoBeat /\ r_skid'.temp = NoBeat
  BY <1>5, SkidCycle
<1> QED
  BY <1>1, <1>3, <1>4, <1>6, ReadSide

LEMMA WriteQuiet ==
    ASSUME TypeOK, SignalInv, SkidInv, NEW open \in Openings, NEW ask \in Asking,
           Clock(open, ask), state_reg \notin {"WRITE", "WRITE_RESP"}, ~write.busy,
           w_skid.out = NoBeat, w_skid.temp = NoBeat, ~ram.b, write.n = 0
    PROVE  /\ w_skid'.out = NoBeat /\ w_skid'.temp = NoBeat
           /\ ~write'.busy /\ ~ram'.b /\ write'.n = 0
           /\ WInput = NoBeat
<1>1. WInput = NoBeat
  BY WriteSide
<1>2. ~AwFires(open) /\ ~RamWrites(open) /\ ~RamDone(open)
  BY DEF AwFires, RamWrites, MWReady, RamDone, SignalInv
<1>3. write' = write
  BY <1>2, RamSide DEF Counts
<1>4. ~ram'.b
  BY <1>2, RamSide
<1>5. /\ w_skid \in Skids /\ MWReady(open) \in BOOLEAN /\ NoBeat \in Beats
      /\ w_skid.ready => w_skid.temp = NoBeat
      /\ w_skid' = Skid(w_skid, w_skid.out # NoBeat, MWReady(open), NoBeat)
  BY <1>1, WriteSide, Wires DEF TypeOK, SkidInv, Beats
<1>6. w_skid'.out = NoBeat /\ w_skid'.temp = NoBeat
  BY <1>5, SkidCycle
<1> QED
  BY <1>1, <1>3, <1>4, <1>6

-----------------------------------------------------------------------------
(***************************************************************************)
(* Each state of the interconnect keeps the invariant                      *)
(***************************************************************************)

Flow == GrantInv /\ SignalInv /\ SkidInv /\ ReadInv /\ WriteInv

LEMMA InitFlow == Init => Flow
<1> SUFFICES ASSUME Init PROVE Flow
  OBVIOUS
<1>1. ~granted /\ state_reg = "IDLE"
  BY DEF Init, granted
<1>2. GrantInv
  BY <1>1 DEF Init, GrantInv, Idle, ReadIs
<1>3. SignalInv
  BY <1>1 DEF Init, SignalInv, Only, IdleRam
<1>4. SkidInv /\ ReadInv /\ WriteInv
  BY <1>1 DEF Init, SkidInv, ReadInv, WriteInv, ReadIs, EmptySkid, IdleRam, Only
<1> QED
  BY <1>2, <1>3, <1>4 DEF Flow

\* What the registers of the interconnect do outside of the two bursts.
LEMMA QuietRegisters ==
    ASSUME TypeOK, SignalInv, NEW open \in Openings, NEW ask \in Asking, Clock(open, ask),
           state_reg \notin {"READ", "WRITE", "WRITE_RESP"},
           RInput(open) = NoBeat, WInput = NoBeat
    PROVE  /\ axi' = (IF state_reg = "IDLE" /\ granted
                      THEN [of |-> s_select, len |-> Serves.len] ELSE axi)
           /\ axi_addr_valid' <=> (state_reg = "IDLE" /\ granted) \/ state_reg = "DECODE"
           /\ ready'.ar = Only(state_reg = "IDLE" /\ granted /\ isRead)
           /\ ready'.aw = Only(state_reg = "IDLE" /\ granted /\ ~isRead)
           /\ ready'.w = Only(state_reg = "DECODE" /\ ~isRead /\ WEarly(open))
           /\ b_valid' = {}
           /\ ~m_axi'.ar /\ ~m_axi'.aw /\ ~m_axi'.b
           /\ m_axi'.r <=> state_reg = "DECODE" /\ isRead /\ REarly(open)
<1>1. WInput.last = FALSE /\ RInput(open).last = FALSE
  BY NoBeatIsNotLast
<1>2. ~m_axi.ar /\ ~m_axi.aw
  BY DEF SignalInv
<1>3. axi_addr_valid => state_reg = "DECODE"
  BY DEF SignalInv
<1>4. axi_addr_valid \in BOOLEAN /\ state_reg = "DECODE" => axi_addr_valid
  BY DEF SignalInv, TypeOK
<1>5. /\ axi' = (IF state_reg = "IDLE" /\ granted
                 THEN [of |-> s_select, len |-> Serves.len] ELSE axi)
      /\ axi_addr_valid' <=> (state_reg = "IDLE" /\ granted) \/ state_reg = "DECODE"
  BY <1>3, <1>4 DEF Clock, BusRegisters, Serves, SignalInv, TypeOK
<1>6. /\ ready'.ar = Only(state_reg = "IDLE" /\ granted /\ isRead)
      /\ ready'.aw = Only(state_reg = "IDLE" /\ granted /\ ~isRead)
  BY DEF Clock, BusRegisters, Only
<1>7. ready'.w = Only(state_reg = "DECODE" /\ ~isRead /\ WEarly(open))
  BY <1>1 DEF Clock, BusRegisters, Only
<1>8. b_valid' = {}
  BY DEF Clock, BusRegisters
<1>9. m_axi' = [ar |-> FALSE, aw |-> FALSE,
                r |-> state_reg = "DECODE" /\ isRead /\ REarly(open), b |-> FALSE]
  BY <1>1, <1>2 DEF Clock, BusRegisters
<1>10. /\ ~m_axi'.ar /\ ~m_axi'.aw /\ ~m_axi'.b
       /\ m_axi'.r <=> state_reg = "DECODE" /\ isRead /\ REarly(open)
  BY <1>9
<1> QED
  BY <1>5, <1>6, <1>7, <1>8, <1>10

LEMMA ToIdle ==
    ASSUME IInv, NEW open \in Openings, NEW ask \in Asking, Clock(open, ask),
           \/ state_reg = "IDLE" /\ ~granted
           \/ state_reg = "WAIT_IDLE" /\ Acknowledge(open)
    PROVE  Flow'
<1> USE DEF IInv
<1>0. state_reg \in {"IDLE", "WAIT_IDLE"}
  OBVIOUS
<1>1. /\ ~read.busy /\ ram.r = NoBeat /\ r_skid.temp = NoBeat
      /\ r_skid.out = NoBeat \/ SReady(open)
  <2>1. CASE ReadIs
    BY <1>0, <2>1, AckFacts DEF ReadInv, ReadIs, SReady, Serves
  <2>2. CASE ~ReadIs
    BY <2>2 DEF ReadInv
  <2> QED
    BY <2>1, <2>2
<1>2. /\ ~write.busy /\ w_skid.out = NoBeat /\ w_skid.temp = NoBeat /\ ~ram.b /\ write.n = 0
  BY <1>0 DEF WriteInv
<1>3. /\ r_skid'.out = NoBeat /\ r_skid'.temp = NoBeat /\ r_valid' = {}
      /\ ram'.r = NoBeat /\ ~read'.busy /\ RInput(open) = NoBeat
  BY <1>0, <1>1, ReadQuiet
<1>4. /\ w_skid'.out = NoBeat /\ w_skid'.temp = NoBeat
      /\ ~write'.busy /\ ~ram'.b /\ write'.n = 0 /\ WInput = NoBeat
  BY <1>0, <1>2, WriteQuiet
<1>5. state_reg' = "IDLE"
  BY <1>0 DEF Clock, BusState
<1>6. /\ axi_addr_valid' = FALSE
      /\ ready'.ar = {} /\ ready'.aw = {} /\ ready'.w = {} /\ b_valid' = {}
      /\ ~m_axi'.ar /\ ~m_axi'.aw /\ ~m_axi'.b /\ ~m_axi'.r
  <2>1. axi_addr_valid' \in BOOLEAN
    BY TypeNext DEF TypeOK
  <2> QED
    BY <1>0, <1>3, <1>4, <2>1, QuietRegisters DEF Only
<1>7. ~granted \/ Acknowledge(open)
  OBVIOUS
<1>8. \A n \in Masters :
        /\ master'[n].state \in {"idle", "asks"} /\ master'[n].n <= master'[n].len
        /\ master'[n].state = "asks" => master'[n].n = 0
        /\ master[n].state = "asks" => master'[n] = master[n]
  <2> TAKE n \in Masters
  <2>1. ready.ar = {} /\ ready.aw = {}
    BY <1>0 DEF SignalInv, Only
  <2>2. /\ master[n].state \in {"idle", "asks", "reads", "sends"}
        /\ master[n].n <= master[n].len /\ (master[n].state = "asks" => master[n].n = 0)
        /\ master[n].state # "sends"
        /\ master[n].state = "reads" => n = s_select /\ ReadIs
    BY <1>0 DEF GrantInv, TypeOK
  <2>3. CASE master[n].state = "reads"
    <3>1. n \in r_valid /\ open.s /\ r_skid.out.last
      BY <1>0, <2>2, <2>3, AckFacts DEF ReadIs
    <3>2. master'[n] = Idle
      BY <2>3, <3>1, MasterStep DEF Moved
    <3> QED
      BY <2>3, <3>2 DEF Idle
  <2>4. CASE master[n].state \in {"idle", "asks"}
    BY <2>1, <2>2, <2>4, Bystander
  <2> QED
    BY <2>2, <2>3, <2>4
<1>9. granted' => /\ s_select' \in Masters /\ isRead' \in BOOLEAN
                  /\ master'[s_select'].state = "asks"
                  /\ master'[s_select'].wr <=> ~isRead'
  BY <1>7, <1>8, GrantStep
<1>10. GrantInv'
  BY <1>5, <1>8, <1>9 DEF GrantInv, ReadIs, Serves
<1>11. SignalInv'
  BY <1>3, <1>4, <1>5, <1>6, RamSide DEF SignalInv, Only
<1>12. SkidInv'
  BY <1>3, <1>4, ReadSide, WriteSide DEF SkidInv, Only
<1>13. ReadInv' /\ WriteInv'
  BY <1>3, <1>4, <1>5 DEF ReadInv, WriteInv, ReadIs
<1> QED
  BY <1>10, <1>11, <1>12, <1>13 DEF Flow

\* STATE_IDLE: the granted port's request is registered.
LEMMA ToDecode ==
    ASSUME IInv, NEW open \in Openings, NEW ask \in Asking, Clock(open, ask),
           state_reg = "IDLE", granted
    PROVE  Flow'
<1> USE DEF IInv
<1>1. ~ReadIs
  BY DEF ReadIs
<1>2. /\ r_skid'.out = NoBeat /\ r_skid'.temp = NoBeat /\ r_valid' = {}
      /\ ram'.r = NoBeat /\ ~read'.busy /\ RInput(open) = NoBeat
  BY <1>1, ReadQuiet DEF ReadInv
<1>3. /\ w_skid'.out = NoBeat /\ w_skid'.temp = NoBeat
      /\ ~write'.busy /\ ~ram'.b /\ write'.n = 0 /\ WInput = NoBeat
  BY WriteQuiet DEF WriteInv
<1>4. state_reg' = "DECODE"
  BY DEF Clock, BusState
<1>5. /\ axi'.of = s_select /\ axi'.len = Serves.len
      /\ axi_addr_valid' = TRUE
      /\ ready'.ar = Only(isRead) /\ ready'.aw = Only(~isRead) /\ ready'.w = {} /\ b_valid' = {}
      /\ ~m_axi'.ar /\ ~m_axi'.aw /\ ~m_axi'.b /\ ~m_axi'.r
  <2>1. axi_addr_valid' \in BOOLEAN
    BY TypeNext DEF TypeOK
  <2> QED
    BY <1>2, <1>3, <2>1, QuietRegisters DEF Only
<1>6. ~Acknowledge(open)
  BY AckFacts
<1>7. granted' /\ s_select' = s_select /\ (isRead' <=> isRead) /\ s_select \in Masters
  BY <1>6, GrantStep, SelectFacts
<1>8. \A n \in Masters :
        /\ master'[n].state \in {"idle", "asks"} /\ master'[n].n <= master'[n].len
        /\ master'[n].state = "asks" => master'[n].n = 0
        /\ master[n].state = "asks" => master'[n] = master[n]
  <2> TAKE n \in Masters
  <2>1. /\ ready.ar = {} /\ ready.aw = {}
        /\ master[n].state \in {"idle", "asks"} /\ master[n].n <= master[n].len
        /\ master[n].state = "asks" => master[n].n = 0
    BY <1>1 DEF SignalInv, Only, GrantInv, TypeOK
  <2> QED
    BY <2>1, Bystander
<1>9. Serves.state = "asks" /\ (Serves.wr <=> ~isRead)
  BY DEF GrantInv
<1>10. Serves' = Serves
  BY <1>7, <1>8, <1>9 DEF Serves
<1>11. GrantInv'
  BY <1>4, <1>5, <1>7, <1>8, <1>9, <1>10 DEF GrantInv, ReadIs
<1>12. SignalInv'
  BY <1>2, <1>3, <1>4, <1>5, <1>7, RamSide DEF SignalInv, Only
<1>13. SkidInv'
  BY <1>2, <1>3, ReadSide, WriteSide DEF SkidInv, Only
<1>14. ReadInv' /\ WriteInv'
  BY <1>2, <1>3, <1>4 DEF ReadInv, WriteInv, ReadIs
<1> QED
  BY <1>11, <1>12, <1>13, <1>14 DEF Flow

\* STATE_DECODE: the request is taken, and the burst begins.
LEMMA ToBurst ==
    ASSUME IInv, NEW open \in Openings, NEW ask \in Asking, Clock(open, ask),
           state_reg = "DECODE"
    PROVE  Flow'
<1> USE DEF IInv
<1>1. ~ReadIs /\ granted /\ s_select \in Masters
  BY SelectFacts DEF ReadIs, GrantInv
<1>2. /\ r_skid'.out = NoBeat /\ r_skid'.temp = NoBeat /\ r_valid' = {}
      /\ ram'.r = NoBeat /\ ~read'.busy /\ RInput(open) = NoBeat
  BY <1>1, ReadQuiet DEF ReadInv
<1>3. /\ w_skid'.out = NoBeat /\ w_skid'.temp = NoBeat
      /\ ~write'.busy /\ ~ram'.b /\ write'.n = 0 /\ WInput = NoBeat
  BY WriteQuiet DEF WriteInv
<1>4. state_reg' = IF isRead THEN "READ" ELSE "WRITE"
  BY DEF Clock, BusState
<1>5. /\ axi' = axi /\ axi_addr_valid' = TRUE
      /\ ready'.ar = {} /\ ready'.aw = {} /\ b_valid' = {}
      /\ ready'.w # {} => ready'.w = {s_select} /\ ~isRead /\ WEarly(open)
      /\ ~m_axi'.ar /\ ~m_axi'.aw /\ ~m_axi'.b
      /\ m_axi'.r => isRead /\ REarly(open)
  <2>1. axi_addr_valid' \in BOOLEAN
    BY TypeNext DEF TypeOK
  <2> QED
    BY <1>2, <1>3, <2>1, QuietRegisters DEF Only
<1>6. ~Acknowledge(open)
  BY AckFacts
<1>7. granted' /\ s_select' = s_select /\ (isRead' <=> isRead)
  BY <1>1, <1>6, GrantStep
<1>8. /\ Serves.state = "asks" /\ Serves.n = 0 /\ Serves.len = axi.len /\ axi.of = s_select
      /\ axi.len \in Nat
  BY <1>1 DEF GrantInv, Serves, TypeOK
<1>9. /\ isRead  => s_select \in ready.ar
      /\ ~isRead => s_select \in ready.aw
      /\ \A n \in Masters \ {s_select} : n \notin ready.ar /\ n \notin ready.aw
  BY DEF SignalInv, Only
<1>10. master'[s_select] = [master[s_select] EXCEPT !.state = IF isRead THEN "reads" ELSE "sends"]
  BY <1>1, <1>8, <1>9, MasterStep DEF Serves
<1>11. /\ Serves'.state = IF isRead THEN "reads" ELSE "sends"
       /\ Serves'.n = 0 /\ Serves'.len = axi.len
  BY <1>1, <1>7, <1>8, <1>10 DEF Serves, TypeOK
<1>12. \A n \in Masters \ {s_select} :
         /\ master'[n].state \in {"idle", "asks"} /\ master'[n].n <= master'[n].len
         /\ master'[n].state = "asks" => master'[n].n = 0
  <2> TAKE n \in Masters \ {s_select}
  <2>1. /\ master[n].state \in {"idle", "asks"} /\ master[n].n <= master[n].len
        /\ master[n].state = "asks" => master[n].n = 0
    BY DEF GrantInv, TypeOK
  <2> QED
    BY <1>9, <2>1, Bystander
<1>13. GrantInv'
  <2>1. \A n \in Masters :
          /\ master'[n].state = "reads" <=> n = s_select' /\ ReadIs'
          /\ master'[n].state = "sends" <=> n = s_select' /\ state_reg' = "WRITE"
          /\ master'[n].n <= master'[n].len
          /\ master'[n].state = "asks" => master'[n].n = 0
    BY <1>4, <1>7, <1>8, <1>11, <1>12 DEF Serves, ReadIs
  <2> QED
    BY <1>4, <1>5, <1>7, <1>8, <1>11, <2>1 DEF GrantInv
<1>14. SignalInv'
  <2>1. WEarly(open) => w_skid'.ready
    BY WriteSide DEF WEarly, Skid
  <2>2. REarly(open) => r_skid'.ready
    <3>1. (s_select \in r_valid) <=> r_skid.out # NoBeat
      BY DEF SkidInv, Only
    <3> QED
      BY <3>1, ReadSide DEF REarly, Skid
  <2> QED
    BY <1>3, <1>4, <1>5, <1>7, <2>1, <2>2, RamSide DEF SignalInv, Only
<1>15. SkidInv'
  BY <1>2, <1>3, ReadSide, WriteSide DEF SkidInv, Only
<1>16. ReadInv'
  BY <1>2, <1>4, <1>5, <1>7, <1>11 DEF ReadInv, ReadIs, InOrder
<1>17. WriteInv'
  <2>1. state_reg' = "WRITE" => Sent' = 0
    BY <1>4, <1>11 DEF Sent
  <2>2. Full(w_skid'.out) = 0 /\ Full(w_skid'.temp) = 0
    BY <1>3, FullIs
  <2> QED
    BY <1>3, <1>4, <1>5, <1>7, <2>1, <2>2 DEF WriteInv, InOrder
<1> QED
  BY <1>13, <1>14, <1>15, <1>16, <1>17 DEF Flow

\* STATE_READ, and STATE_WAIT_IDLE until the last word has been taken.
LEMMA ReadGoesOn ==
    ASSUME IInv, NEW open \in Openings, NEW ask \in Asking, Clock(open, ask),
           ReadIs, ~Acknowledge(open)
    PROVE  Flow'
<1> USE DEF IInv
<1> DEFINE n     == Serves.n
           len   == Serves.len
           input == RInput(open)
           takes == m_axi.r /\ open.r
           moved == IF SReady(open) /\ r_skid.out # NoBeat THEN 1 ELSE 0
<1>1. /\ granted /\ isRead /\ s_select \in Masters /\ state_reg \in {"READ", "WAIT_IDLE"}
      /\ Serves.state = "reads" /\ len = axi.len /\ axi.of = s_select
      /\ n \in Nat /\ len \in Nat /\ n <= len
  BY SelectFacts DEF ReadIs, GrantInv, Serves, TypeOK
<1>2. granted' /\ s_select' = s_select /\ (isRead' <=> isRead)
  BY <1>1, GrantStep
<1>3. /\ InOrder(r_skid.out, r_skid.temp, ram.r, s_select, n, len)
      /\ r_skid.out \in {NoBeat, Beat(s_select, n, len)}
      /\ ram.r \in {NoBeat, Beat(s_select, n + Full(r_skid.out) + Full(r_skid.temp), len)}
  BY DEF ReadInv, InOrder
<1>4. SReady(open) <=> open.s
  BY <1>1 DEF SReady, Serves
<1>5. \A beat : Full(beat) \in {0, 1} /\ (Full(beat) = 0 <=> beat = NoBeat)
  BY FullIs
<1>6. r_skid.out # NoBeat => (s_select \in r_valid) /\ (r_skid.out.last <=> n = len)
  BY <1>1, <1>3, BeatFacts DEF SkidInv, Only
<1>7. moved = 1 => ~r_skid.out.last /\ n # len
  BY <1>1, <1>4, <1>6 DEF Acknowledge
<1>8. moved \in {0, 1} /\ n + moved \in Nat /\ n + moved <= len
  BY <1>1, <1>7
<1>9. Serves'.state = "reads" /\ Serves'.n = n + moved /\ Serves'.len = len
  <2>1. master'[s_select] = IF s_select \in r_valid /\ open.s
                            THEN Moved(master[s_select], r_skid.out.last) ELSE master[s_select]
    BY <1>1, MasterStep DEF Serves
  <2>2. CASE moved = 1
    <3>1. s_select \in r_valid /\ open.s /\ ~r_skid.out.last
      BY <1>4, <1>6, <1>7, <2>2
    <3>2. master'[s_select] = [master[s_select] EXCEPT !.n = @ + 1]
      BY <2>1, <3>1 DEF Moved
    <3> QED
      BY <1>1, <1>2, <2>2, <3>2 DEF Serves, TypeOK
  <2>3. CASE moved = 0
    <3>1. ~(s_select \in r_valid /\ open.s)
      BY <1>4, <2>3 DEF SkidInv, Only
    <3> QED
      BY <1>1, <1>2, <2>1, <2>3, <3>1 DEF Serves
  <2> QED
    BY <1>8, <2>2, <2>3
<1>10. \A k \in Masters \ {s_select} :
         /\ master'[k].state \in {"idle", "asks"} /\ master'[k].n <= master'[k].len
         /\ master'[k].state = "asks" => master'[k].n = 0
  <2> TAKE k \in Masters \ {s_select}
  <2>1. /\ master[k].state \in {"idle", "asks"} /\ master[k].n <= master[k].len
        /\ master[k].state = "asks" => master[k].n = 0
        /\ ready.ar = {} /\ ready.aw = {}
    BY <1>1 DEF GrantInv, TypeOK, SignalInv, Only
  <2> QED
    BY <2>1, Bystander
<1>11. /\ w_skid'.out = NoBeat /\ w_skid'.temp = NoBeat
       /\ ~write'.busy /\ ~ram'.b /\ write'.n = 0 /\ WInput = NoBeat
  BY <1>1, WriteQuiet DEF WriteInv
<1>12. /\ state_reg' = (IF state_reg = "READ" /\ ~input.last THEN "READ" ELSE "WAIT_IDLE")
       /\ axi' = axi /\ axi_addr_valid' = FALSE
       /\ ready'.ar = {} /\ ready'.aw = {} /\ ready'.w = {} /\ b_valid' = {}
       /\ m_axi'.ar <=> (m_axi.ar /\ ~ArFires(open)) \/ axi_addr_valid
       /\ ~m_axi'.aw /\ ~m_axi'.b
       /\ m_axi'.r => state_reg = "READ" /\ REarly(open) /\ ~input.last
  <2>1. WInput.last = FALSE
    BY <1>11, NoBeatIsNotLast
  <2>2. /\ ~m_axi.aw /\ ~m_axi.b /\ (axi_addr_valid => state_reg = "READ")
        /\ m_axi.ar \in BOOLEAN /\ axi_addr_valid \in BOOLEAN
    BY <1>1 DEF SignalInv, TypeOK
  <2>3. state_reg' = (IF state_reg = "READ" /\ ~input.last THEN "READ" ELSE "WAIT_IDLE")
    BY <1>1 DEF Clock, BusState
  <2>4. /\ axi' = axi /\ axi_addr_valid' = FALSE
        /\ ready' = [ar |-> {}, aw |-> {}, w |-> {}] /\ b_valid' = {}
    BY <1>1, <2>2 DEF Clock, BusRegisters
  <2>5. m_axi' = [ar |-> (m_axi.ar /\ ~ArFires(open)) \/ axi_addr_valid, aw |-> FALSE,
                  r |-> state_reg = "READ" /\ REarly(open) /\ ~input.last, b |-> FALSE]
    BY <1>1, <2>1, <2>2 DEF Clock, BusRegisters, ArFires
  <2> QED
    BY <2>2, <2>3, <2>4, <2>5
<1>13. /\ input = (IF takes THEN ram.r ELSE NoBeat)
       /\ takes => state_reg = "READ"
       /\ takes \in BOOLEAN
  BY Wires DEF RInput, RFires, SignalInv, TypeOK
<1>14. /\ InOrder(r_skid'.out, r_skid'.temp, NoBeat, s_select, n + moved, len)
       /\ moved + Full(r_skid'.out) + Full(r_skid'.temp)
            = Full(r_skid.out) + Full(r_skid.temp) + Full(input)
  <2>1. InOrder(r_skid.out, r_skid.temp, input, s_select, n, len)
    BY <1>3, <1>13 DEF InOrder
  <2>2. /\ r_skid \in Skids /\ (r_skid.ready => r_skid.temp = NoBeat)
        /\ SReady(open) \in BOOLEAN /\ input \in Beats /\ (input # NoBeat => r_skid.ready)
        /\ r_skid' = Skid(r_skid, r_skid.out # NoBeat, SReady(open), input)
    BY ReadSide, Wires DEF SkidInv, TypeOK
  <2> HIDE DEF input, n, len, moved
  <2> QED
    BY <1>1, <2>1, <2>2, BurstCycle DEF moved
<1>15. /\ read' = Counts(read, ArFires(open), Reads(open))
       /\ ram'.r = (IF Reads(open)
                    THEN [of |-> read.of, n |-> read.n, last |-> read.count = 0]
                    ELSE IF takes THEN NoBeat ELSE ram.r)
       /\ Reads(open) <=> read.busy /\ (takes \/ ram.r = NoBeat)
  BY RamSide DEF Reads
<1> DEFINE before == n + Full(r_skid.out) + Full(r_skid.temp)
           after  == Serves'.n + Full(r_skid'.out) + Full(r_skid'.temp)
<1>16. /\ after = before + Full(input) /\ before \in Nat /\ after \in Nat
       /\ ram.r \in {NoBeat, Beat(s_select, before, len)}
  <2>1. /\ Full(r_skid.out) \in {0, 1} /\ Full(r_skid.temp) \in {0, 1}
        /\ Full(r_skid'.out) \in {0, 1} /\ Full(r_skid'.temp) \in {0, 1}
        /\ Full(input) \in {0, 1}
    BY <1>5
  <2> QED
    BY <1>1, <1>3, <1>8, <1>9, <1>14, <2>1
<1>17. ram.r # NoBeat => (ram.r.last <=> before = len)
  BY <1>1, <1>16, BeatFacts
<1>18. input.last <=> (input # NoBeat /\ before = len)
  BY <1>13, <1>17, NoBeatIsNotLast
<1> HIDE DEF n, len, input, takes, moved, before, after
<1>19. /\ axi_addr_valid \/ m_axi.ar =>
            ~read.busy /\ state_reg = "READ" /\ before = 0 /\ ram.r = NoBeat
       /\ read.busy =>
            /\ state_reg = "READ" /\ read.of = s_select /\ read.n = before + Full(ram.r)
            /\ read.n + read.count = len
       /\ ~(axi_addr_valid \/ m_axi.ar) /\ ~read.busy =>
            /\ before + Full(ram.r) = len + 1
            /\ state_reg = "READ" <=> ram.r # NoBeat
  <2>1. Full(NoBeat) = 0
    BY <1>5
  <2>2. axi_addr_valid \/ m_axi.ar => state_reg = "READ"
    BY <1>1 DEF SignalInv
  <2> QED
    BY <1>1, <2>1, <2>2 DEF ReadInv, n, len, before
<1>20. /\ read \in Rams /\ axi \in [of : Masters, len : Nat]
       /\ ArFires(open) \in BOOLEAN /\ Reads(open) \in BOOLEAN
       /\ read.n \in Nat /\ read.count \in Nat
       /\ ArFires(open) => m_axi.ar /\ ~axi_addr_valid
  BY Wires DEF TypeOK, Rams, ArFires, SignalInv
<1>21. after = 0 => Serves'.n = 0 /\ r_skid'.out = NoBeat /\ r_skid'.temp = NoBeat
  <2>1. /\ Full(r_skid'.out) \in {0, 1} /\ (Full(r_skid'.out) = 0 <=> r_skid'.out = NoBeat)
        /\ Full(r_skid'.temp) \in {0, 1} /\ (Full(r_skid'.temp) = 0 <=> r_skid'.temp = NoBeat)
    BY <1>5
  <2>2. Serves'.n \in Nat
    BY <1>8, <1>9
  <2> QED
    BY <2>1, <2>2 DEF after
<1> DEFINE burst ==
      /\ ram'.r \in {NoBeat, Beat(s_select, after, len)}
      /\ m_axi'.ar => ~read'.busy /\ after = 0 /\ ram'.r = NoBeat
      /\ read'.busy =>
            /\ state_reg' = "READ" /\ read'.of = s_select
            /\ read'.n = after + Full(ram'.r) /\ read'.n + read'.count = len
      /\ ~m_axi'.ar /\ ~read'.busy =>
            /\ after + Full(ram'.r) = len + 1
            /\ state_reg' = "READ" <=> ram'.r # NoBeat
<1>22. burst
  <2>1. CASE axi_addr_valid \/ m_axi.ar
    <3>1. input = NoBeat /\ ~Reads(open) /\ ram'.r = NoBeat
      BY <1>13, <1>15, <1>19, <2>1
    <3>2. after = 0 /\ state_reg' = "READ" /\ Full(ram'.r) = 0
      BY <1>5, <1>12, <1>16, <1>18, <1>19, <2>1, <3>1
    <3>3. CASE ~ArFires(open)
      <4>1. read' = read
        BY <1>15, <1>19, <1>20, <2>1, <3>1, <3>3, CountsCycle
      <4>2. m_axi'.ar
        BY <1>12, <2>1, <3>3
      <4> QED
        BY <1>19, <2>1, <3>1, <3>2, <4>1, <4>2
    <3>4. CASE ArFires(open)
      <4>0. ~read.busy /\ read' = Counts(read, ArFires(open), Reads(open))
        BY <1>15, <1>19, <2>1
      <4>1. read'.busy /\ read'.of = axi.of /\ read'.count = axi.len /\ read'.n = 0
        BY <3>4, <4>0 DEF Counts
      <4>2. ~m_axi'.ar
        BY <1>12, <1>20, <3>4
      <4> QED
        BY <1>1, <3>1, <3>2, <4>1, <4>2 DEF len
    <3> QED
      BY <1>20, <3>3, <3>4
  <2>2. CASE read.busy /\ ~Reads(open)
    <3>1. input = NoBeat /\ ~takes /\ ram'.r = ram.r
      BY <1>13, <1>15, <2>2
    <3>2. after = before /\ state_reg' = "READ"
      BY <1>5, <1>12, <1>16, <1>18, <1>19, <2>2, <3>1
    <3>3. read' = read
      BY <1>15, <1>20, <2>2, CountsCycle
    <3>4. ~m_axi'.ar
      BY <1>12, <1>19, <2>2
    <3> QED
      BY <1>16, <1>19, <2>2, <3>1, <3>2, <3>3, <3>4
  <2>3. CASE read.busy /\ Reads(open)
    <3>1. input = ram.r
      BY <1>13, <1>15, <2>3
    <3>2. after = read.n /\ ~m_axi'.ar
      BY <1>12, <1>16, <1>19, <2>3, <3>1
    <3>3. read.count = 0 <=> read.n = len
      BY <1>1, <1>19, <1>20, <2>3 DEF len
    <3>4. ram'.r = Beat(s_select, after, len)
      BY <1>15, <1>19, <2>3, <3>2, <3>3 DEF Beat
    <3>5. ram'.r # NoBeat /\ Full(ram'.r) = 1
      BY <1>1, <1>16, <3>4, BeatFacts DEF len
    <3>6. ~input.last
      <4> SUFFICES ASSUME input.last PROVE FALSE
        OBVIOUS
      <4>1. Full(ram.r) = 1 /\ before = len
        BY <1>5, <1>18, <3>1
      <4> QED
        BY <1>1, <1>19, <1>20, <2>3, <4>1 DEF len
    <3>7. state_reg' = "READ"
      BY <1>12, <1>19, <2>3, <3>6
    <3>8. CASE read.count > 0
      <4>1. /\ read'.busy /\ read'.of = read.of /\ read'.count = read.count - 1
            /\ read'.n = read.n + 1
        BY <1>15, <1>20, <2>3, <3>8, CountsCycle
      <4>2. read'.n + read'.count = len
        BY <1>19, <1>20, <2>3, <4>1
      <4> QED
        BY <1>19, <2>3, <3>2, <3>4, <3>5, <3>7, <4>1, <4>2
    <3>9. CASE read.count = 0
      <4>1. ~read'.busy
        BY <1>15, <1>20, <2>3, <3>9, CountsCycle
      <4> QED
        BY <3>2, <3>3, <3>4, <3>5, <3>7, <3>9, <4>1
    <3> QED
      BY <1>20, <3>8, <3>9
  <2>4. CASE ~(axi_addr_valid \/ m_axi.ar) /\ ~read.busy
    <3>1. ~Reads(open) /\ ~ArFires(open) /\ read' = read /\ ~m_axi'.ar
      <4>1. ~Reads(open) /\ ~ArFires(open) /\ ~m_axi'.ar
        BY <1>12, <1>15, <1>20, <2>4
      <4> QED
        BY <1>15, <1>20, <2>4, <4>1, CountsCycle
    <3>2. CASE takes
      <4>1. ram.r # NoBeat /\ input = ram.r /\ Full(input) = 1
        BY <1>5, <1>13, <1>19, <2>4, <3>2
      <4>2. before = len
        BY <1>1, <1>16, <1>19, <2>4, <4>1 DEF len
      <4>3. state_reg' = "WAIT_IDLE" /\ ram'.r = NoBeat /\ Full(ram'.r) = 0 /\ after = len + 1
        BY <1>5, <1>12, <1>15, <1>16, <1>18, <3>1, <3>2, <4>1, <4>2
      <4> QED
        BY <1>1, <2>4, <3>1, <4>3 DEF len
    <3>3. CASE ~takes
      <4>1. input = NoBeat /\ ram'.r = ram.r /\ ~input.last
        BY <1>13, <1>15, <1>18, <3>1, <3>3
      <4>2. after = before /\ (state_reg' = "READ" <=> state_reg = "READ")
        BY <1>5, <1>12, <1>16, <4>1
      <4> QED
        BY <1>16, <1>19, <2>4, <3>1, <4>1, <4>2
    <3> QED
      BY <1>13, <3>2, <3>3
  <2> QED
    BY <1>19, <1>20, <2>1, <2>2, <2>3, <2>4
<1> HIDE DEF burst
<1>23. isRead' /\ state_reg' \in {"READ", "WAIT_IDLE"} /\ ReadIs'
  BY <1>1, <1>2, <1>12 DEF ReadIs
<1>24. GrantInv'
  <2>1. \A k \in Masters :
          /\ master'[k].state = "reads" <=> k = s_select' /\ ReadIs'
          /\ master'[k].state = "sends" <=> k = s_select' /\ state_reg' = "WRITE"
          /\ master'[k].n <= master'[k].len
          /\ master'[k].state = "asks" => master'[k].n = 0
    BY <1>2, <1>8, <1>9, <1>10, <1>23 DEF Serves
  <2> QED
    BY <1>1, <1>2, <1>9, <1>12, <1>23, <2>1 DEF GrantInv
<1>25. SignalInv'
  <2>1. REarly(open) => r_skid'.ready
    <3>1. (s_select \in r_valid) <=> r_skid.out # NoBeat
      BY DEF SkidInv, Only
    <3> QED
      BY <3>1, ReadSide DEF REarly, Skid
  <2>2. m_axi'.r => state_reg' = "READ" /\ r_skid'.ready
    BY <1>12, <2>1
  <2>3. m_axi'.ar => state_reg' = "READ"
    BY <1>12, <1>18, <1>19, <1>13
  <2> QED
    BY <1>2, <1>12, <1>23, <2>2, <2>3, RamSide DEF SignalInv, Only
<1>26. SkidInv'
  BY <1>2, <1>11, ReadSide, WriteSide DEF SkidInv, Only
<1>27. ReadInv'
  <2>1. InOrder(r_skid'.out, r_skid'.temp, ram'.r, s_select, Serves'.n, len)
    <3>1. n + moved = Serves'.n
      BY <1>9 DEF n
    <3>2. InOrder(r_skid'.out, r_skid'.temp, NoBeat, s_select, Serves'.n, len)
      BY <1>14, <3>1
    <3> QED
      BY <1>22, <3>2 DEF burst, InOrder, after
  <2>2. m_axi'.ar => ~read'.busy /\ Serves'.n = 0
                     /\ r_skid'.out = NoBeat /\ r_skid'.temp = NoBeat /\ ram'.r = NoBeat
    BY <1>21, <1>22 DEF burst
  <2>3. ~axi_addr_valid' /\ Serves'.len = len
    BY <1>9, <1>12 DEF len
  <2> QED
    BY <1>2, <1>22, <1>23, <2>1, <2>2, <2>3 DEF ReadInv, burst, after
<1>28. WriteInv'
  BY <1>11, <1>23 DEF WriteInv
<1> QED
  BY <1>24, <1>25, <1>26, <1>27, <1>28 DEF Flow

\* STATE_WRITE, and STATE_WRITE_RESP until the answer on B.
LEMMA WriteGoesOn ==
    ASSUME IInv, NEW open \in Openings, NEW ask \in Asking, Clock(open, ask),
           state_reg \in {"WRITE", "WRITE_RESP"}
    PROVE  Flow'
<1> USE DEF IInv
<1> DEFINE len   == axi.len
           input == WInput
           moved == IF MWReady(open) /\ w_skid.out # NoBeat THEN 1 ELSE 0
<1>1. /\ granted /\ ~isRead /\ s_select \in Masters /\ axi.of = s_select /\ len \in Nat
      /\ ~Acknowledge(open) /\ ~ReadIs
  BY SelectFacts, AckFacts DEF ReadIs, GrantInv, TypeOK
<1>2. granted' /\ s_select' = s_select /\ (isRead' <=> isRead)
  BY <1>1, GrantStep
<1>3. state_reg = "WRITE" =>
         Serves.state = "sends" /\ Serves.len = len /\ Serves.n \in Nat /\ Serves.n <= len
  BY <1>1 DEF GrantInv, Serves, TypeOK
<1>4. \A beat : Full(beat) \in {0, 1} /\ (Full(beat) = 0 <=> beat = NoBeat)
  BY FullIs
<1>5. /\ input # NoBeat <=> state_reg = "WRITE" /\ s_select \in ready.w
      /\ input \in {NoBeat, Beat(s_select, Serves.n, len)}
      /\ input.last <=> input # NoBeat /\ Serves.n = len
  <2>1. CASE state_reg = "WRITE" /\ s_select \in ready.w
    <3>1. input = Beat(s_select, Serves.n, len)
      BY <1>3, <2>1 DEF WInput, WFires, Serves, Beat
    <3> QED
      BY <1>1, <1>3, <2>1, <3>1, BeatFacts
  <2>2. CASE ~(state_reg = "WRITE" /\ s_select \in ready.w)
    BY <2>2, NoBeatIsNotLast DEF WInput, WFires
  <2> QED
    BY <2>1, <2>2
<1> HIDE DEF input
<1>6. /\ r_skid'.out = NoBeat /\ r_skid'.temp = NoBeat /\ r_valid' = {}
      /\ ram'.r = NoBeat /\ ~read'.busy /\ RInput(open) = NoBeat
  BY <1>1, ReadQuiet DEF ReadInv
<1>7. BFires <=> state_reg = "WRITE_RESP" /\ ram.b
  BY DEF BFires, SignalInv, TypeOK
<1>8. /\ state_reg' = CASE state_reg = "WRITE" -> IF input.last THEN "WRITE_RESP" ELSE "WRITE"
                        [] OTHER -> IF ram.b THEN "WAIT_IDLE" ELSE "WRITE_RESP"
      /\ axi' = axi /\ axi_addr_valid' = FALSE
      /\ ready'.ar = {} /\ ready'.aw = {}
      /\ ready'.w # {} => ready'.w = {s_select} /\ state_reg = "WRITE" /\ ~input.last
                          /\ WEarly(open)
      /\ b_valid' = Only(state_reg = "WRITE_RESP" /\ ram.b)
      /\ ~m_axi'.ar /\ ~m_axi'.r
      /\ m_axi'.aw <=> (m_axi.aw /\ ~AwFires(open)) \/ axi_addr_valid
      /\ m_axi'.b <=> input.last \/ (state_reg = "WRITE_RESP" /\ ~ram.b)
  <2>1. /\ ~m_axi.ar /\ (axi_addr_valid => state_reg = "WRITE") /\ (m_axi.aw => ~axi_addr_valid)
        /\ m_axi.aw \in BOOLEAN /\ axi_addr_valid \in BOOLEAN /\ ram.b \in BOOLEAN
    BY DEF SignalInv, TypeOK
  <2>2. state_reg' = CASE state_reg = "WRITE" -> IF input.last THEN "WRITE_RESP" ELSE "WRITE"
                        [] OTHER -> IF ram.b THEN "WAIT_IDLE" ELSE "WRITE_RESP"
    BY <1>7 DEF Clock, BusState, input
  <2>3. /\ axi' = axi /\ axi_addr_valid' = FALSE
        /\ ready' = [ar |-> {}, aw |-> {},
                     w |-> IF ~input.last /\ WEarly(open) /\ state_reg = "WRITE"
                           THEN {s_select} ELSE {}]
        /\ b_valid' = Only(state_reg = "WRITE_RESP" /\ ram.b)
    BY <1>1, <1>7, <2>1 DEF Clock, BusRegisters, Only, input
  <2>4. m_axi' = [ar |-> FALSE, aw |-> (m_axi.aw /\ ~AwFires(open)) \/ axi_addr_valid,
                  r |-> FALSE, b |-> input.last \/ (state_reg = "WRITE_RESP" /\ ~ram.b)]
    BY <1>1, <1>7, <2>1 DEF Clock, BusRegisters, AwFires, input
  <2> QED
    BY <2>1, <2>2, <2>3, <2>4
<1>9. \A k \in Masters :
        \/ /\ master'[k].state \in {"idle", "asks"} /\ master'[k].n <= master'[k].len
           /\ master'[k].state = "asks" => master'[k].n = 0
           /\ k = s_select => state_reg' # "WRITE"
        \/ /\ k = s_select /\ state_reg' = "WRITE" /\ state_reg = "WRITE"
           /\ master'[k].state = "sends" /\ master'[k].len = len
           /\ master'[k].n = Serves.n + Full(input) /\ master'[k].n <= len
  <2> TAKE k \in Masters
  <2>1. CASE k = s_select /\ state_reg = "WRITE"
    <3>1. master'[k] = IF k \in ready.w THEN Moved(master[k], master[k].n = master[k].len)
                       ELSE master[k]
      BY <1>3, <2>1, MasterStep DEF Serves
    <3>2. CASE k \notin ready.w
      <4>1. input = NoBeat /\ Full(input) = 0 /\ state_reg' = "WRITE"
        BY <1>4, <1>5, <1>8, <2>1, <3>2
      <4> QED
        BY <1>3, <2>1, <3>1, <3>2, <4>1 DEF Serves
    <3>3. CASE k \in ready.w /\ Serves.n # len
      <4>1. Full(input) = 1 /\ state_reg' = "WRITE"
        BY <1>4, <1>5, <1>8, <2>1, <3>3
      <4>2. master'[k] = [master[k] EXCEPT !.n = @ + 1]
        BY <1>3, <2>1, <3>1, <3>3 DEF Serves, Moved
      <4>3. master'[k].n = Serves.n + 1 /\ master'[k].len = len /\ master'[k].state = "sends"
        BY <1>3, <2>1, <4>2 DEF Serves, TypeOK
      <4>4. Serves.n + 1 <= len
        BY <1>1, <1>3, <2>1, <3>3
      <4> QED
        BY <2>1, <4>1, <4>3, <4>4
    <3>4. CASE k \in ready.w /\ Serves.n = len
      <4>1. master'[k] = Idle
        BY <1>3, <2>1, <3>1, <3>4 DEF Serves, Moved
      <4>2. state_reg' = "WRITE_RESP"
        BY <1>5, <1>8, <2>1, <3>4
      <4> QED
        BY <4>1, <4>2 DEF Idle
    <3> QED
      BY <3>2, <3>3, <3>4
  <2>2. CASE ~(k = s_select /\ state_reg = "WRITE")
    <3>1. /\ master[k].state \in {"idle", "asks"} /\ master[k].n <= master[k].len
          /\ master[k].state = "asks" => master[k].n = 0
          /\ ready.ar = {} /\ ready.aw = {}
      BY <1>1, <2>2 DEF GrantInv, TypeOK, SignalInv, Only
    <3>2. state_reg = "WRITE_RESP" => state_reg' # "WRITE"
      BY <1>8
    <3> QED
      BY <2>2, <3>1, <3>2, Bystander
  <2> QED
    BY <2>1, <2>2
<1>10. GrantInv'
  <2>1. state_reg' \in {"WRITE", "WRITE_RESP", "WAIT_IDLE"} /\ ~ReadIs'
    BY <1>1, <1>2, <1>8 DEF ReadIs
  <2>2. \A k \in Masters :
          /\ master'[k].state = "reads" <=> k = s_select' /\ ReadIs'
          /\ master'[k].state = "sends" <=> k = s_select' /\ state_reg' = "WRITE"
          /\ master'[k].n <= master'[k].len
          /\ master'[k].state = "asks" => master'[k].n = 0
    BY <1>2, <1>9, <2>1
  <2>3. state_reg' = "WRITE" => Serves'.len = axi'.len
    BY <1>1, <1>2, <1>8, <1>9 DEF Serves
  <2> QED
    BY <1>1, <1>2, <1>8, <2>1, <2>2, <2>3 DEF GrantInv
<1> DEFINE held   == Full(w_skid.out) + Full(w_skid.temp)
           heldNx == Full(w_skid'.out) + Full(w_skid'.temp)
           sent   == IF state_reg = "WRITE" THEN Serves.n ELSE len + 1
           sentNx == IF state_reg' = "WRITE" THEN Serves'.n ELSE len + 1
<1>11. /\ axi_addr_valid \/ m_axi.aw => ~write.busy /\ ~ram.b /\ sent = held
       /\ write.busy => /\ write.of = s_select /\ ~ram.b
                        /\ write.n + write.count = len /\ sent = write.n + held
       /\ ~(axi_addr_valid \/ m_axi.aw) /\ ~write.busy =>
             state_reg = "WRITE_RESP" /\ ram.b /\ w_skid.out = NoBeat /\ w_skid.temp = NoBeat
       /\ ~write.busy => write.n = 0
       /\ InOrder(w_skid.out, w_skid.temp, NoBeat, s_select, write.n, len)
       /\ held \in Nat /\ write.n \in Nat /\ write.count \in Nat
  <2>1. Full(w_skid.out) \in {0, 1} /\ Full(w_skid.temp) \in {0, 1}
    BY <1>4
  <2>2. write.n \in Nat /\ write.count \in Nat
    BY DEF TypeOK, Rams
  <2>3. sent = Sent
    BY DEF Sent
  <2> HIDE DEF sent
  <2> QED
    BY <2>1, <2>2, <2>3 DEF WriteInv
<1>12. /\ state_reg' \in {"WRITE", "WRITE_RESP"} => sentNx = sent + Full(input)
       /\ sentNx = Sent'
       /\ sent \in Nat
  <2>1. CASE state_reg = "WRITE"
    <3>1. CASE input.last
      <4>1. Full(input) = 1 /\ Serves.n = len /\ state_reg' = "WRITE_RESP"
        BY <1>4, <1>5, <1>8, <2>1, <3>1
      <4> QED
        BY <1>3, <1>8, <2>1, <4>1 DEF Sent
    <3>2. CASE ~input.last
      <4>1. state_reg' = "WRITE"
        BY <1>8, <2>1, <3>2
      <4>2. Serves'.n = Serves.n + Full(input)
        BY <1>1, <1>2, <1>9, <4>1 DEF Serves
      <4> QED
        BY <1>3, <1>8, <2>1, <4>1, <4>2 DEF Sent
    <3> QED
      BY <3>1, <3>2
  <2>2. CASE state_reg = "WRITE_RESP"
    <3>1. state_reg' # "WRITE" /\ Full(input) = 0
      BY <1>4, <1>5, <1>8, <2>2
    <3> QED
      BY <1>1, <1>8, <2>2, <3>1 DEF Sent
  <2> QED
    BY <2>1, <2>2
<1>13. /\ InOrder(w_skid'.out, w_skid'.temp, NoBeat, s_select, write.n + moved, len)
       /\ moved + heldNx = held + Full(input)
  <2>1. state_reg = "WRITE" => Serves.n = write.n + Full(w_skid.out) + Full(w_skid.temp)
    <3>1. Full(w_skid.out) \in {0, 1} /\ Full(w_skid.temp) \in {0, 1}
      BY <1>4
    <3> QED
      BY <1>3, <1>11, <3>1
  <2>2. InOrder(w_skid.out, w_skid.temp, input, s_select, write.n, len)
    BY <1>5, <1>11, <2>1 DEF InOrder
  <2>3. /\ w_skid \in Skids /\ (w_skid.ready => w_skid.temp = NoBeat)
        /\ MWReady(open) \in BOOLEAN /\ input \in Beats /\ (input # NoBeat => w_skid.ready)
        /\ w_skid' = Skid(w_skid, w_skid.out # NoBeat, MWReady(open), input)
    BY WriteSide, Wires DEF SkidInv, TypeOK, input
  <2>4. write.n \in Nat
    BY <1>11
  <2> HIDE DEF moved, len
  <2>5. /\ InOrder(w_skid'.out, w_skid'.temp, NoBeat, s_select, write.n + moved, len)
        /\ moved + Full(w_skid'.out) + Full(w_skid'.temp)
             = Full(w_skid.out) + Full(w_skid.temp) + Full(input)
    BY <1>1, <2>2, <2>3, <2>4, BurstCycle DEF moved, len
  <2>6. /\ Full(w_skid.out) \in {0, 1} /\ Full(w_skid.temp) \in {0, 1}
        /\ Full(w_skid'.out) \in {0, 1} /\ Full(w_skid'.temp) \in {0, 1}
        /\ Full(input) \in {0, 1} /\ moved \in {0, 1}
    BY <1>4 DEF moved
  <2> QED
    BY <2>5, <2>6
<1>14. /\ heldNx \in {0, 1, 2}
       /\ heldNx = 0 => w_skid'.out = NoBeat /\ w_skid'.temp = NoBeat
       /\ Full(input) \in {0, 1} /\ moved \in {0, 1}
       /\ moved = 1 => held > 0
  <2>1. /\ Full(w_skid'.out) \in {0, 1} /\ (Full(w_skid'.out) = 0 <=> w_skid'.out = NoBeat)
        /\ Full(w_skid'.temp) \in {0, 1} /\ (Full(w_skid'.temp) = 0 <=> w_skid'.temp = NoBeat)
        /\ Full(w_skid.temp) \in {0, 1} /\ Full(input) \in {0, 1}
        /\ w_skid.out # NoBeat => Full(w_skid.out) = 1
    BY <1>4
  <2>2. moved = 1 => Full(w_skid.out) = 1
    BY <2>1
  <2> QED
    BY <2>1, <2>2
<1>15. /\ write' = Counts(write, AwFires(open), RamWrites(open)) /\ write \in Rams
       /\ axi \in [of : Masters, len : Nat]
       /\ AwFires(open) \in BOOLEAN /\ RamWrites(open) \in BOOLEAN
       /\ AwFires(open) => m_axi.aw /\ ~axi_addr_valid
       /\ RamWrites(open) <=> moved = 1
       /\ moved = 1 => write.busy
       /\ RamDone(open) <=> moved = 1 /\ write.count = 0
       /\ ram'.b <=> RamDone(open) \/ (ram.b /\ state_reg # "WRITE_RESP")
       /\ state_reg = "WRITE" => ~ram.b
  <2>1. state_reg = "WRITE" => ~ram.b
    BY <1>11
  <2>2. moved = 1 => write.busy
    BY DEF MWReady, SignalInv
  <2>3. RamWrites(open) <=> moved = 1
    BY DEF RamWrites
  <2> QED
    BY <2>1, <2>2, <2>3, RamSide, Wires DEF TypeOK, AwFires, SignalInv, RamDone
<1> HIDE DEF len, moved, held, heldNx, sent, sentNx
<1> DEFINE burst ==
      /\ ~write'.busy => write'.n = 0
      /\ IF state_reg' \in {"WRITE", "WRITE_RESP"}
         THEN /\ InOrder(w_skid'.out, w_skid'.temp, NoBeat, s_select, write'.n, len)
              /\ m_axi'.aw => ~write'.busy /\ ~ram'.b /\ sentNx = heldNx
              /\ write'.busy =>
                    /\ write'.of = s_select /\ ~ram'.b
                    /\ write'.n + write'.count = len /\ sentNx = write'.n + heldNx
              /\ ~m_axi'.aw /\ ~write'.busy =>
                    /\ state_reg' = "WRITE_RESP" /\ ram'.b
                    /\ w_skid'.out = NoBeat /\ w_skid'.temp = NoBeat
         ELSE /\ w_skid'.out = NoBeat /\ w_skid'.temp = NoBeat
              /\ ~write'.busy /\ ~ram'.b
<1>16. burst /\ (m_axi'.aw => state_reg' \in {"WRITE", "WRITE_RESP"})
  <2>1. CASE axi_addr_valid \/ m_axi.aw
    <3>1. ~write.busy /\ write.n = 0 /\ ~ram.b /\ sent = held /\ moved = 0
      BY <1>11, <1>14, <1>15, <2>1
    <3>2. state_reg' \in {"WRITE", "WRITE_RESP"} /\ ~ram'.b
      BY <1>8, <1>15, <3>1
    <3>3. sentNx = heldNx
      BY <1>11, <1>12, <1>13, <1>14, <3>1, <3>2
    <3>4. write.n + moved = 0
      BY <3>1
    <3>5. InOrder(w_skid'.out, w_skid'.temp, NoBeat, s_select, 0, len)
      BY <1>13, <3>4
    <3>6. CASE ~AwFires(open)
      <4>1. write' = write
        BY <1>15, <3>1, <3>6, CountsCycle
      <4>2. m_axi'.aw
        BY <1>8, <2>1, <3>6
      <4> QED
        BY <3>1, <3>2, <3>3, <3>5, <4>1, <4>2
    <3>7. CASE AwFires(open)
      <4>1. write'.busy /\ write'.of = axi.of /\ write'.count = axi.len /\ write'.n = 0
        BY <1>15, <3>1, <3>7 DEF Counts
      <4>2. ~m_axi'.aw
        BY <1>8, <1>15, <3>7
      <4>3. write'.n + heldNx = heldNx /\ write'.n + write'.count = len
        BY <1>1, <1>14, <4>1 DEF len
      <4> QED
        BY <1>1, <3>2, <3>3, <3>5, <4>1, <4>2, <4>3
    <3> QED
      BY <1>15, <3>6, <3>7
  <2>2. CASE write.busy
    <3>1. /\ ~axi_addr_valid /\ ~m_axi.aw /\ ~m_axi'.aw /\ ~ram.b /\ ~AwFires(open)
          /\ sent = write.n + held /\ write.of = s_select /\ write.n + write.count = len
      BY <1>8, <1>11, <1>15, <2>2
    <3>2. state_reg' \in {"WRITE", "WRITE_RESP"}
      BY <1>8, <3>1
    <3>3. sentNx = write.n + moved + heldNx
      BY <1>11, <1>12, <1>13, <1>14, <3>1, <3>2
    <3>4. CASE moved = 0
      <4>1. write' = write
        BY <1>15, <2>2, <3>4, CountsCycle
      <4>2. write'.n = write.n + moved
        BY <1>11, <3>4, <4>1
      <4>3. ~ram'.b
        BY <1>15, <3>1, <3>4
      <4> QED
        BY <1>13, <2>2, <3>1, <3>2, <3>3, <4>1, <4>2, <4>3
    <3>5. CASE moved = 1 /\ write.count > 0
      <4>0. write' = [write EXCEPT !.count = @ - 1, !.n = @ + 1]
        BY <1>15, <2>2, <3>5 DEF Counts
      <4>1. /\ write'.busy /\ write'.of = write.of /\ write'.count = write.count - 1
            /\ write'.n = write.n + 1
        BY <1>15, <2>2, <4>0 DEF Rams
      <4>2. write'.n = write.n + moved /\ write'.n + write'.count = len
        BY <1>11, <3>1, <3>5, <4>1
      <4>3. ~ram'.b
        BY <1>15, <3>1, <3>5
      <4> QED
        BY <1>13, <3>1, <3>2, <3>3, <4>1, <4>2, <4>3
    <3>6. CASE moved = 1 /\ write.count = 0
      <4>1. ~write'.busy /\ write'.n = 0
        BY <1>15, <2>2, <3>6, CountsCycle
      <4>2. write.n = len /\ held > 0 /\ sent = len + held
        BY <1>11, <1>14, <3>1, <3>6
      <4>3. state_reg = "WRITE_RESP"
        <5> SUFFICES ASSUME state_reg = "WRITE" PROVE FALSE
          OBVIOUS
        <5>1. sent = Serves.n /\ Serves.n <= len /\ Serves.n \in Nat /\ len \in Nat
          BY <1>1, <1>3 DEF sent, len
        <5> QED
          BY <1>11, <4>2, <5>1
      <4>4. sent = len + 1 /\ len \in Nat /\ Full(input) = 0
        BY <1>1, <1>4, <1>5, <4>3 DEF sent, len
      <4>5. heldNx = 0
        BY <1>11, <1>13, <1>14, <3>6, <4>2, <4>4
      <4>6. w_skid'.out = NoBeat /\ w_skid'.temp = NoBeat
        BY <1>14, <4>5
      <4>7. ram'.b /\ state_reg' = "WRITE_RESP"
        BY <1>8, <1>15, <3>1, <3>6, <4>3
      <4> QED
        BY <3>1, <4>1, <4>6, <4>7 DEF InOrder
    <3> QED
      BY <1>11, <1>14, <3>4, <3>5, <3>6
  <2>3. CASE ~(axi_addr_valid \/ m_axi.aw) /\ ~write.busy
    <3>1. /\ state_reg = "WRITE_RESP" /\ ram.b /\ w_skid.out = NoBeat /\ w_skid.temp = NoBeat
          /\ write.n = 0 /\ moved = 0 /\ ~AwFires(open)
      BY <1>11, <1>14, <1>15, <2>3
    <3>2. write' = write
      BY <1>15, <2>3, <3>1, CountsCycle
    <3>3. state_reg' = "WAIT_IDLE" /\ ~ram'.b /\ ~m_axi'.aw
      BY <1>8, <1>15, <2>3, <3>1
    <3>4. held = 0 /\ Full(input) = 0
      BY <1>4, <1>5, <3>1 DEF held
    <3>5. w_skid'.out = NoBeat /\ w_skid'.temp = NoBeat
      BY <1>13, <1>14, <3>1, <3>4
    <3> QED
      BY <2>3, <3>1, <3>2, <3>3, <3>5
  <2> QED
    BY <2>1, <2>2, <2>3
<1> HIDE DEF burst
<1>17. SignalInv'
  <2>1. WEarly(open) => w_skid'.ready
    BY WriteSide DEF WEarly, Skid
  <2>2. state_reg' \in {"WRITE", "WRITE_RESP", "WAIT_IDLE"}
    BY <1>8
  <2>3. ready'.w # {} => ready'.w = {s_select'} /\ state_reg' = "WRITE" /\ w_skid'.ready
    BY <1>2, <1>8, <2>1
  <2>4. b_valid' = IF state_reg' = "WAIT_IDLE" /\ ~isRead' THEN {s_select'} ELSE {}
    BY <1>1, <1>2, <1>8 DEF Only
  <2>5. m_axi'.b <=> state_reg' = "WRITE_RESP"
    BY <1>5, <1>8
  <2> QED
    BY <1>2, <1>8, <1>16, <2>2, <2>3, <2>4, <2>5, RamSide DEF SignalInv, Only
<1>18. SkidInv'
  BY <1>2, <1>6, ReadSide, WriteSide DEF SkidInv, Only
<1>19. ReadInv'
  BY <1>1, <1>2, <1>6 DEF ReadInv, ReadIs
<1>20. WriteInv'
  <2>1. /\ axi' = axi /\ ~axi_addr_valid' /\ s_select' = s_select
        /\ sentNx = Sent'
    BY <1>2, <1>8, <1>12
  <2>2. CASE state_reg' \in {"WRITE", "WRITE_RESP"}
    <3>1. /\ InOrder(w_skid'.out, w_skid'.temp, NoBeat, s_select', write'.n, axi'.len)
          /\ m_axi'.aw => ~write'.busy /\ ~ram'.b
                          /\ Sent' = Full(w_skid'.out) + Full(w_skid'.temp)
          /\ write'.busy =>
                /\ write'.of = s_select' /\ ~ram'.b
                /\ write'.n + write'.count = axi'.len
                /\ Sent' = write'.n + heldNx
          /\ ~m_axi'.aw /\ ~write'.busy =>
                /\ state_reg' = "WRITE_RESP" /\ ram'.b
                /\ w_skid'.out = NoBeat /\ w_skid'.temp = NoBeat
          /\ ~write'.busy => write'.n = 0
      BY <1>16, <2>1, <2>2 DEF burst, heldNx, len
    <3>2. write'.n + heldNx = write'.n + Full(w_skid'.out) + Full(w_skid'.temp)
      <4>1. Full(w_skid'.out) \in {0, 1} /\ Full(w_skid'.temp) \in {0, 1} /\ write'.n \in Nat
        BY <1>4, RamSide DEF Rams
      <4> QED
        BY <4>1 DEF heldNx
    <3> QED
      BY <2>1, <2>2, <3>1, <3>2 DEF WriteInv
  <2>3. CASE state_reg' \notin {"WRITE", "WRITE_RESP"}
    BY <1>16, <2>3 DEF WriteInv, burst
  <2> QED
    BY <2>2, <2>3
<1> QED
  BY <1>10, <1>17, <1>18, <1>19, <1>20 DEF Flow

-----------------------------------------------------------------------------
(***************************************************************************)
(* The inductive invariant, and what it says of the beats                  *)
(***************************************************************************)

LEMMA FlowNext ==
    ASSUME IInv, NEW open \in Openings, NEW ask \in Asking, Clock(open, ask)
    PROVE  IInv'
<1>1. TypeOK'
  BY TypeNext DEF IInv
<1>2. Flow'
  <2>1. CASE state_reg = "IDLE" /\ granted
    BY <2>1, ToDecode
  <2>2. CASE state_reg = "IDLE" /\ ~granted
    BY <2>2, ToIdle
  <2>3. CASE state_reg = "DECODE"
    BY <2>3, ToBurst
  <2>4. CASE state_reg = "READ"
    <3>1. ReadIs /\ ~Acknowledge(open)
      BY <2>4, AckFacts DEF IInv, GrantInv, ReadIs
    <3> QED
      BY <3>1, ReadGoesOn
  <2>5. CASE state_reg \in {"WRITE", "WRITE_RESP"}
    BY <2>5, WriteGoesOn
  <2>6. CASE state_reg = "WAIT_IDLE"
    <3>1. CASE Acknowledge(open)
      BY <2>6, <3>1, ToIdle
    <3>2. CASE ~Acknowledge(open)
      <4>1. granted
        BY <2>6 DEF IInv, GrantInv
      <4>2. isRead
        BY <2>6, <3>2, <4>1 DEF IInv, SignalInv, Only, Acknowledge
      <4> QED
        BY <2>6, <3>2, <4>2, ReadGoesOn DEF ReadIs
    <3> QED
      BY <3>1, <3>2
  <2> QED
    BY <2>1, <2>2, <2>3, <2>4, <2>5, <2>6 DEF IInv, TypeOK
<1> QED
  BY <1>1, <1>2 DEF IInv, Flow

\* Invariance: the invariant of the interconnect holds in every cycle.
THEOREM Invariance == Spec => []IInv
<1>1. Init => IInv
  BY TypeInit, InitFlow DEF IInv, Flow
<1>2. IInv /\ [Next]_vars => IInv'
  <2> SUFFICES ASSUME IInv, [Next]_vars PROVE IInv'
    OBVIOUS
  <2>1. CASE Next
    BY <2>1, FlowNext DEF Next
  <2>2. CASE UNCHANGED vars
    BY <2>2 DEF vars, busVars, IInv, TypeOK, GrantInv, SignalInv, SkidInv, ReadInv, WriteInv,
                ReadIs, Serves, Only, Sent, s_select, isRead, encoded, granted
  <2> QED
    BY <2>1, <2>2
<1> QED
  BY <1>1, <1>2, PTL DEF Spec

\* ReadInOrder: the words of a line that is read pass the RAM's output and the
\* skid buffer each once and in order, for every length of a line, whatever
\* the masks hold back and whenever the master is ready.
THEOREM ReadInOrder == Spec => []ReadBeatsInOrder
<1>1. IInv => ReadBeatsInOrder
  <2> SUFFICES ASSUME IInv PROVE ReadBeatsInOrder
    OBVIOUS
  <2>1. s_select \in Masters
    BY SelectFacts DEF IInv
  <2>2. /\ Offered = r_skid.out /\ r_valid \subseteq {s_select}
        /\ Serves.state = "reads" <=> ReadIs
        /\ ReadIs => granted /\ isRead
    BY <2>1, SelectFacts DEF IInv, SkidInv, Only, Offered, GrantInv, Serves, ReadIs
  <2>3. Reading <=> ReadIs
    BY <2>2 DEF Reading, Serves
  <2>4. ~ReadIs => ReadBeats = 0
    BY <2>2, FullIs DEF IInv, ReadInv, ReadBeats
  <2>5. /\ Full(r_skid.out) \in {0, 1} /\ Full(r_skid.temp) \in {0, 1} /\ Full(ram.r) \in {0, 1}
        /\ Serves.n \in Nat
    BY <2>1, FullIs DEF IInv, TypeOK, Serves
  <2>6. Serves.n + ReadBeats = Serves.n + Full(r_skid.out) + Full(r_skid.temp) + Full(ram.r)
    BY <2>2, <2>5 DEF ReadBeats
  <2>7. ReadIs =>
          /\ InOrder(Offered, r_skid.temp, ram.r, s_select, Serves.n, Serves.len)
          /\ read.busy => /\ read.of = s_select
                          /\ read.n = Serves.n + ReadBeats
                          /\ read.n + read.count = Serves.len
    BY <2>2, <2>6 DEF IInv, ReadInv
  <2> QED
    BY <2>2, <2>3, <2>4, <2>7 DEF ReadBeatsInOrder, Serves
<1> QED
  BY <1>1, Invariance, PTL

\* WriteInOrder: the words of a line that is written reach the RAM each once
\* and in order, and the RAM ends the burst with the beat that carries WLAST.
THEOREM WriteInOrder == Spec => []WriteBeatsInOrder
<1>1. IInv => WriteBeatsInOrder
  <2> SUFFICES ASSUME IInv PROVE WriteBeatsInOrder
    OBVIOUS
  <2>1. s_select \in Masters /\ axi.len \in Nat /\ write.n \in Nat
    BY SelectFacts DEF IInv, TypeOK, Rams
  <2>2. /\ Full(w_skid.out) \in {0, 1} /\ (Full(w_skid.out) = 0 <=> w_skid.out = NoBeat)
        /\ Full(w_skid.temp) \in {0, 1} /\ (Full(w_skid.temp) = 0 <=> w_skid.temp = NoBeat)
    BY FullIs
  <2>3. write.n + WrittenBeats = write.n + Full(w_skid.out) + Full(w_skid.temp)
    BY <2>1, <2>2 DEF WrittenBeats
  <2>4. WrittenBeats # 0 => ~(w_skid.out = NoBeat /\ w_skid.temp = NoBeat)
    BY <2>2 DEF WrittenBeats
  <2>5. WrittenBeats # 0 \/ write.busy => state_reg \in {"WRITE", "WRITE_RESP"}
    BY <2>4 DEF IInv, WriteInv
  <2>6. state_reg \in {"WRITE", "WRITE_RESP"} => granted /\ ~isRead
    BY DEF IInv, GrantInv
  <2>7. ASSUME WrittenBeats # 0
        PROVE  /\ granted /\ ~isRead /\ ~ram.b
               /\ write.busy \/ axi_addr_valid \/ m_axi.aw
               /\ InOrder(w_skid.out, w_skid.temp, NoBeat, s_select, write.n, axi.len)
    BY <2>4, <2>5, <2>6, <2>7 DEF IInv, WriteInv
  <2>8. ASSUME write.busy
        PROVE  /\ write.of = s_select /\ ~ram.b
               /\ write.n + write.count = axi.len
               /\ \/ write.n + WrittenBeats = axi.len + 1
                  \/ /\ master[s_select].state = "sends"
                     /\ master[s_select].n = write.n + WrittenBeats
    <3>1. /\ write.of = s_select /\ ~ram.b
          /\ write.n + write.count = axi.len
          /\ Sent = write.n + WrittenBeats
      BY <2>3, <2>5, <2>8 DEF IInv, WriteInv
    <3>2. state_reg = "WRITE" => master[s_select].state = "sends"
      BY <2>1 DEF IInv, GrantInv
    <3> QED
      BY <3>1, <3>2 DEF Sent, Serves
  <2> QED
    BY <2>7, <2>8 DEF WriteBeatsInOrder
<1> QED
  BY <1>1, Invariance, PTL

-----------------------------------------------------------------------------
(***************************************************************************)
(* The order of the arbiter.  The mask After(p) means that p was granted   *)
(* last; the ports that are served before "port" are those between the     *)
(* two, going round.                                                       *)
(***************************************************************************)

Between(m, port) ==
    {p \in Ports \ {port} :
        IF port \in m THEN p \in m /\ p < port ELSE p \in m \/ p < port}

\* A port that went before a waiting one is not served before it again.
RoundRobin ==
    /\ \E p \in Ports : mask = After(p)
    /\ granted => mask = After(grant)
    /\ \A port \in request \ {grant} :
          /\ passed[port] \cap Between(mask, port) = {}
          /\ Starts => grant \notin passed[port]

\* The winner is one of the ports before the waiting one, and leaves fewer.
LEMMA WinnerIsBetween ==
    ASSUME TypeOK, NEW l \in Ports, mask = After(l), NEW port \in request, Winner # port
    PROVE  /\ Winner \in Between(mask, port)
           /\ Between(After(Winner), port) \subseteq Between(mask, port)
<1>1. request \subseteq Ports /\ port \in Ports /\ Winner \in Ports
  BY RequestFacts, WinnerAsks
<1>2. CASE request \cap mask # {}
  <2>1. Winner \in mask /\ \A p \in request \cap mask : Winner <= p
    BY <1>1, <1>2, LowestIsIn DEF Winner
  <2>2. Winner > l /\ (port > l => Winner < port)
    BY <1>1, <2>1 DEF After, Ports
  <2> QED
    BY <1>1, <2>2 DEF Between, After, Ports
<1>3. CASE request \cap mask = {}
  <2>1. \A p \in request : Winner <= p
    BY <1>1, <1>3, LowestIsIn DEF Winner
  <2>2. port <= l /\ Winner < port
    BY <1>1, <1>3, <2>1 DEF After, Ports
  <2> QED
    BY <1>1, <2>2 DEF Between, After, Ports
<1> QED
  BY <1>2, <1>3

LEMMA RequestPorts == TypeOK => request \subseteq Ports
BY RequestFacts

LEMMA RequestPortsNext == TypeOK' => (request \subseteq Ports)'
BY RequestPorts, PTL

LEMMA RoundRobinStep ==
    ASSUME IInv, RoundRobin, NEW open \in Openings, NEW ask \in Asking, Clock(open, ask),
           passed' = Passed
    PROVE  RoundRobin'
<1> USE DEF RoundRobin
<1>0. TypeOK /\ TypeOK' /\ request \subseteq Ports /\ request' \subseteq Ports
  <2>1. TypeOK /\ TypeOK'
    BY FlowNext DEF IInv
  <2> QED
    BY <2>1, RequestPorts, RequestPortsNext
<1>1. PICK l \in Ports : mask = After(l)
  OBVIOUS
<1>2. Acknowledge(open) => ~Starts
  BY AckFacts DEF Starts
<1>3. ASSUME NEW port \in Ports
      PROVE  passed'[port] = IF port \notin request \/ grant = port THEN {}
                             ELSE IF Starts THEN passed[port] \cup {grant} ELSE passed[port]
  BY DEF Passed
<1>4. CASE granted /\ ~Acknowledge(open)
  <2>1. grant' = grant /\ mask' = mask /\ granted'
    BY <1>4 DEF Clock, Arbiter, granted
  <2>2. state_reg' # "IDLE"
    BY <1>4 DEF Clock, BusState
  <2>3. ~Starts'
    BY <2>2 DEF Starts
  <2>4. ASSUME NEW port \in request' \ {grant'}
        PROVE  passed'[port] \cap Between(mask, port) = {}
    <3>1. CASE port \notin request
      BY <1>0, <1>3, <3>1
    <3>2. CASE port \in request
      <4>1. grant \notin Between(mask, port)
        BY <1>0, <1>4, SelectFacts DEF Between, After, Ports
      <4> QED
        BY <1>0, <1>3, <2>1, <2>4, <3>2, <4>1
    <3> QED
      BY <3>1, <3>2
  <2> QED
    BY <1>4, <2>1, <2>3, <2>4
<1>5. CASE ~(granted /\ ~Acknowledge(open)) /\ request = {}
  <2>1. grant' = NoPort /\ ~granted' /\ mask' = mask
    BY <1>5 DEF Clock, Arbiter, granted
  <2>2. \A port \in Ports : passed'[port] = {}
    BY <1>3, <1>5
  <2> QED
    BY <1>0, <2>1, <2>2 DEF Starts
<1>6. CASE ~(granted /\ ~Acknowledge(open)) /\ request # {}
  <2>1. grant' = Winner /\ mask' = After(Winner) /\ Winner \in Ports
    BY <1>0, <1>6, WinnerAsks DEF Clock, Arbiter
  <2>2. ~Starts
    BY <1>2, <1>6 DEF Starts
  <2>3. ASSUME NEW port \in request' \ {grant'}
        PROVE  /\ passed'[port] \cap Between(mask', port) = {}
               /\ grant' \notin passed'[port]
    <3>1. CASE port \notin request \/ grant = port
      BY <1>0, <1>3, <3>1
    <3>2. CASE port \in request /\ grant # port
      <4>1. passed'[port] = passed[port] /\ passed[port] \cap Between(mask, port) = {}
        BY <1>0, <1>3, <2>2, <3>2
      <4>2. /\ Winner \in Between(mask, port)
            /\ Between(After(Winner), port) \subseteq Between(mask, port)
        BY <1>0, <1>1, <2>1, <2>3, <3>2, WinnerIsBetween
      <4> QED
        BY <2>1, <4>1, <4>2
    <3> QED
      BY <3>1, <3>2
  <2> QED
    BY <2>1, <2>3
<1> QED
  BY <1>4, <1>5, <1>6

\* OvertakenAtMostOnce: between two bursts of one port, every other port that
\* was asking all along has been served (the mask of arbiter.v), although the
\* data port may ask again before its last transaction has ended.
THEOREM OvertakenAtMostOnce == MCSpec => []OvertakenOnce
<1>1. MCInit => RoundRobin
  <2> SUFFICES ASSUME MCInit PROVE RoundRobin
    OBVIOUS
  <2>1. ~granted /\ mask = {} /\ request = {}
    BY DEF MCInit, Init, granted, request, Idle
  <2>2. After(3) = {} /\ 3 \in Ports
    BY DEF After, Ports
  <2> QED
    BY <2>1, <2>2 DEF RoundRobin
<1>2. IInv /\ RoundRobin /\ [MCNext]_MCvars => RoundRobin'
  <2> SUFFICES ASSUME IInv, RoundRobin, [MCNext]_MCvars PROVE RoundRobin'
    OBVIOUS
  <2>1. CASE MCNext
    BY <2>1, RoundRobinStep DEF MCNext, Next
  <2>2. CASE UNCHANGED MCvars
    BY <2>2 DEF MCvars, vars, busVars, RoundRobin, granted, request, Starts
  <2> QED
    BY <2>1, <2>2
<1>3. RoundRobin => OvertakenOnce
  BY DEF RoundRobin, OvertakenOnce
<1>4. MCInit => Init
  BY DEF MCInit
<1>5. [MCNext]_MCvars => [Next]_vars
  BY DEF MCNext, MCvars
<1> QED
  BY <1>1, <1>2, <1>3, <1>4, <1>5, Invariance, PTL DEF MCSpec, Spec

=============================================================================
