----------------------------- MODULE AxiMemory -----------------------------
(***************************************************************************)
(* The memory side of one bus master: the AXI interconnect, which carries  *)
(* one transaction at a time from its grant to RLAST or to the B response  *)
(* (axi_interconnect.v, arbiter.v), the RAM behind it (axi_ram.v), and the *)
(* devices that write the same RAM or answer at I/O addresses.             *)
(*                                                                         *)
(* A transaction moves "moved" beats through the port of the RAM; "beats"  *)
(* is the queue of the beats that are between the RAM and the master, in   *)
(* the output registers and skid buffers of the interconnect.  The queue   *)
(* is as long as the burst allows, which is at least what those registers  *)
(* hold.  Waiting for the arbiter, and the random masks that the           *)
(* simulation puts on every handshake (axi_ram_wrap.v), are stuttering.    *)
(***************************************************************************)
EXTENDS MemoryTypes, Sequences

VARIABLES
    mem,      \* the words of the RAM and of the I/O registers
    phase,    \* state_reg of the interconnect
    txn,      \* line, first word and AxLEN of the current transaction
    moved,    \* beats of the transaction the RAM has read or written
    beats     \* beats in flight between the RAM and the master

axiVars == <<mem, phase, txn, moved, beats>>

Phases == {"IDLE", "READ", "WRITE", "WRITE_RESP"}
Beats  == [data : Words, strb : SUBSET Bytes, last : BOOLEAN]
Txns   == [line : Lines, word : Offsets, len : Offsets]

AxiTypeOK ==
    /\ mem \in [Lines -> Blocks]
    /\ phase \in Phases
    /\ txn \in Txns
    /\ moved \in 0 .. BlockWords
    /\ beats \in Seq(Beats)

AxiInit ==
    /\ mem \in [Lines -> Blocks]
    /\ phase = "IDLE"
    /\ txn \in Txns
    /\ moved = 0
    /\ beats = <<>>

\* The AR and AW handshakes: the interconnect takes a request only when it
\* is idle, and keeps its address and length.
AxiReadReq(line, word, len) ==
    /\ phase = "IDLE"
    /\ phase' = "READ"
    /\ txn' = [line |-> line, word |-> word, len |-> len]
    /\ moved' = 0
    /\ UNCHANGED <<mem, beats>>

AxiWriteReq(line, word, len) ==
    /\ phase = "IDLE"
    /\ phase' = "WRITE"
    /\ txn' = [line |-> line, word |-> word, len |-> len]
    /\ moved' = 0
    /\ UNCHANGED <<mem, beats>>

\* READ_STATE_BURST: the RAM reads the next word; RLAST goes with the word
\* at which its down-counter is 0.
RamRead ==
    /\ phase = "READ"
    /\ moved <= txn.len
    /\ beats' = Append(beats, [data |-> mem[txn.line][txn.word + moved],
                               strb |-> {}, last |-> moved = txn.len])
    /\ moved' = moved + 1
    /\ UNCHANGED <<mem, phase, txn>>

\* The R handshake with the master, for the oldest beat in flight; RLAST
\* ends the transaction.
AxiReadBeat ==
    /\ phase = "READ"
    /\ beats # <<>>
    /\ beats' = Tail(beats)
    /\ phase' = IF Head(beats).last THEN "IDLE" ELSE "READ"
    /\ UNCHANGED <<mem, txn, moved>>

\* The W handshake with the master; WLAST ends the data phase.
AxiWriteBeat(data, strb, last) ==
    /\ phase = "WRITE"
    /\ beats' = Append(beats, [data |-> data, strb |-> strb, last |-> last])
    /\ phase' = IF last THEN "WRITE_RESP" ELSE "WRITE"
    /\ UNCHANGED <<mem, txn, moved>>

\* WRITE_STATE_BURST: the RAM takes the oldest beat in flight and writes its
\* strobed bytes.
RamWrite ==
    /\ phase \in {"WRITE", "WRITE_RESP"}
    /\ beats # <<>>
    /\ moved <= txn.len
    /\ mem' = [mem EXCEPT ![txn.line] =
                   MergeBlock(@, txn.word + moved, Head(beats).data, Head(beats).strb)]
    /\ beats' = Tail(beats)
    /\ moved' = moved + 1
    /\ UNCHANGED <<phase, txn>>

\* The RAM answers on B when its own count of the beats is complete; the
\* master always takes the answer (dcache_wrapper.v:118).
AxiWriteResp ==
    /\ phase = "WRITE_RESP"
    /\ moved = txn.len + 1
    /\ phase' = "IDLE"
    /\ UNCHANGED <<mem, txn, moved, beats>>

\* A device (the DNN accelerator, the UART, the host) changes a word of a
\* line that is not cacheable.
DeviceWrite ==
    /\ \E l \in BypassLines, o \in Offsets, d \in Words :
          mem' = [mem EXCEPT ![l] = MergeBlock(@, o, d, Bytes)]
    /\ UNCHANGED <<phase, txn, moved, beats>>

AxiInternal == RamRead \/ RamWrite \/ AxiWriteResp

=============================================================================
