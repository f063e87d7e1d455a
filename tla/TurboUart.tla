----------------------------- MODULE TurboUart -----------------------------
(***************************************************************************)
(* The simulated UART of turbo/cpu_test_top.v, behind the bypass path of   *)
(* the data cache, as puts of printf.c drives it: poll the status until    *)
(* the FIFO has room, store one character, until the string is sent.       *)
(*                                                                         *)
(* A character is only counted; the accesses of puts to the string itself  *)
(* and to the stack do not leave the cache and are left out.               *)
(***************************************************************************)
EXTENDS Naturals

CONSTANTS Length,   \* characters of the string
          Depth,    \* places of sim_fifo
          Period    \* cycles between two pops of uart_sim (2^7)

VARIABLES phase, sent, room,                       \* puts
          state, req_wr,                           \* dcache_top
          uart_req_r, uart_write_fifo_r,           \* cpu_test_top
          read_ok_r, fill, counter                 \* uart_sim, sim_fifo

puts  == <<phase, sent, room>>
cache == <<state, req_wr>>
top   == <<uart_req_r, uart_write_fifo_r>>
uart  == <<read_ok_r, fill, counter>>
vars  == <<puts, cache, top, uart>>

------------------------------------------------------------------------------
(* The wires of one cycle *)

MemRead  == phase = "poll"
MemWrite == phase = "send"

\* The address stays on the port while a load waits for its data, and leaves
\* it when the store is accepted.
uart_req        == phase \in {"poll", "await", "send"}
uart_read_state == MemRead /\ uart_req
uart_write_fifo == MemWrite /\ uart_req
full            == fill = Depth

Mem_Req_Ready == state = "D_WAIT"

\* No other master is pending, so the interconnect takes what reaches it.
\* It raises ready only for a request that uart_req does not mask.
arready_memwp == (state = "D_BPR" /\ ~uart_req) \/ uart_read_state
awready_memwp == (state = "D_BPW" /\ ~uart_req) \/ uart_write_fifo
wready_memwp  == (state = "D_BPWD" /\ ~uart_req) \/ uart_write_fifo

\* The cache gets the R channel of the interconnect as it is, without
\* uart_read_ok, and the interconnect answers the reads that it has taken,
\* with whatever memory holds at the address of the status.
cpu_mem_rvalid  == state = "D_BPRD"
Read_data_Valid == state = "D_RESP"

------------------------------------------------------------------------------
Init ==
    /\ phase = "code" /\ sent = 0 /\ room = FALSE
    /\ state = "D_WAIT" /\ req_wr = FALSE
    /\ uart_req_r = FALSE /\ uart_write_fifo_r = FALSE
    /\ read_ok_r = FALSE /\ fill = 0 /\ counter = 0

AfterCode ==
    IF sent = Length THEN "done" ELSE IF room THEN "send" ELSE "poll"

PutsStep ==
    \/ /\ phase = "code"
       /\ phase' = AfterCode
       /\ UNCHANGED <<sent, room>>
    \/ /\ phase = "poll"
       /\ phase' = IF Mem_Req_Ready THEN "await" ELSE "poll"
       /\ UNCHANGED <<sent, room>>
    \/ /\ phase = "await"
       /\ phase' = IF Read_data_Valid THEN "code" ELSE "await"
       /\ room' \in IF Read_data_Valid THEN BOOLEAN ELSE {room}
       /\ UNCHANGED sent
    \/ /\ phase = "send"
       /\ phase' = IF Mem_Req_Ready THEN "code" ELSE "send"
       /\ room' = (room /\ ~Mem_Req_Ready)
       /\ sent' = IF Mem_Req_Ready THEN sent + 1 ELSE sent
    \/ /\ phase = "done"
       /\ UNCHANGED puts

CacheArm(from, holds, to) ==
    state = from /\ state' = (IF holds THEN to ELSE from)

CacheStep ==
    /\ \/ CacheArm("D_WAIT", MemRead \/ MemWrite, "D_TAG")
       \/ CacheArm("D_TAG", TRUE, IF req_wr THEN "D_BPW" ELSE "D_BPR")
       \/ CacheArm("D_BPR", arready_memwp, "D_BPRD")
       \/ CacheArm("D_BPRD", cpu_mem_rvalid, "D_RESP")
       \/ CacheArm("D_RESP", phase = "await", "D_WAIT")
       \/ CacheArm("D_BPW", awready_memwp, "D_BPWD")
       \/ CacheArm("D_BPWD", wready_memwp, "D_WAIT")
    /\ req_wr' = IF state = "D_WAIT" THEN MemWrite ELSE req_wr

TopStep ==
    /\ uart_req_r' = IF MemRead /\ uart_req THEN TRUE
                     ELSE uart_req_r /\ ~read_ok_r
    /\ uart_write_fifo_r' = (uart_write_fifo /\ Mem_Req_Ready)

Pushed == IF uart_write_fifo_r /\ ~full THEN 1 ELSE 0
Popped == IF fill > 0 /\ counter = Period - 1 THEN 1 ELSE 0

UartStep ==
    /\ counter' = (counter + 1) % Period
    /\ read_ok_r' = uart_read_state
    /\ fill' = fill + Pushed - Popped

Clock == PutsStep /\ CacheStep /\ TopStep /\ UartStep

Spec == Init /\ [][Clock]_vars /\ WF_vars(Clock)

------------------------------------------------------------------------------
\* puts returns, as the comment on it says, with "the actual string length
\* that has been sent out" (printf.c:247): its loop ends.
PutsReturns == <>(phase = "done")

=============================================================================
