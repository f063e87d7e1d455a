--------------------------- MODULE DCacheInvariant ---------------------------
(***************************************************************************)
(* The inductive invariant of the data cache system: the state of the      *)
(* cache, the transaction it runs and the words on the way, related to     *)
(* each other.                                                             *)
(***************************************************************************)
EXTENDS DCacheRefinement

MissStates   == {"D_WB", "D_WBD", "D_MREQ", "D_RECV", "D_REFILL"}
BypassStates == {"D_BPR", "D_BPRD", "D_BPW", "D_BPWD"}

LineBurst(line) == [line |-> line, word |-> 0, len |-> BlockWords - 1]
SingleBeat      == [line |-> LineOf(req), word |-> req.woff, len |-> 0]
VictimLine      == <<tags[idx][victim], idx>>

\* A burst stays inside its line, and the RAM inside the burst.
BurstFits ==
    phase # "IDLE" => txn.word + txn.len \in Offsets /\ moved <= txn.len + 1

\* Which transaction is running in which state, and how far it is.
BusFollowsState ==
    /\ state = "D_WBD" =>
          /\ phase = "WRITE" /\ txn = LineBurst(<<wb_tag, idx>>)
          /\ moved + Len(beats) = wb_cnt
    /\ state = "D_RECV" =>
          /\ phase = "READ" /\ txn = LineBurst(LineOf(req))
          /\ moved = recv_cnt + Len(beats)
    /\ state = "D_BPRD" =>
          /\ phase = "READ" /\ txn = SingleBeat
          /\ moved = Len(beats)
    /\ state = "D_BPWD" =>
          /\ phase = "WRITE" /\ txn = SingleBeat
          /\ moved = 0 /\ beats = <<>>
    /\ state = "D_REFILL" => phase = "IDLE"

StateFollowsBus ==
    /\ phase = "READ" => state \in {"D_RECV", "D_BPRD"}
    /\ phase = "WRITE" => state \in {"D_WBD", "D_BPWD"}
    /\ phase = "IDLE" => beats = <<>>
    /\ phase = "WRITE_RESP" => moved + Len(beats) = txn.len + 1

\* What D_TAG decided is still so in the states that act on it.
DecisionHolds ==
    /\ state = "D_WHIT" =>
          /\ ~bypass /\ req.wr
          /\ HitWay(acc_way) /\ acc_block = data[idx][acc_way]
    /\ state \in MissStates => ~bypass /\ ~Hit /\ ~resp_is_bypass
    /\ state \in {"D_WB", "D_WBD", "D_MREQ"} => recv_cnt = 0
    /\ state \in {"D_WB", "D_WBD"} =>
          /\ valid[idx][victim] /\ dirty[idx][victim]
          /\ acc_block = data[idx][victim] /\ wb_tag = tags[idx][victim]
    /\ state \in BypassStates => bypass /\ (req.wr <=> state \in {"D_BPW", "D_BPWD"})
    /\ state = "D_RESP" => ~req.wr

\* A write-back is running: its line, and what is left of it.
WritingBack == phase \in {"WRITE", "WRITE_RESP"} /\ txn.line \notin BypassLines

WriteBackHolds ==
    WritingBack =>
        /\ state \in {"D_WBD", "D_MREQ"}
        /\ txn = LineBurst(VictimLine)
        /\ valid[idx][victim] /\ dirty[idx][victim]
        /\ \A i \in 1 .. Len(beats) :
              /\ beats[i].data = data[idx][victim][moved + i - 1]
              /\ beats[i].strb = Bytes
        /\ \A j \in Offsets : j < moved =>
              mem[VictimLine][j] = data[idx][victim][j]

\* Once no write-back is running, memory has the victim.
VictimSafe ==
    \/ state = "D_MREQ" /\ ~WritingBack
    \/ state \in {"D_RECV", "D_REFILL"}

VictimHolds == VictimSafe /\ valid[idx][victim] => data[idx][victim] = mem[VictimLine]

\* The words received so far, and those on the way, are those of memory.
FillHolds ==
    /\ state = "D_RECV" =>
          /\ \A j \in Offsets : j < recv_cnt => refill_buf[j] = mem[LineOf(req)][j]
          /\ \A i \in 1 .. Len(beats) :
                /\ beats[i].data = mem[LineOf(req)][recv_cnt + i - 1]
                /\ beats[i].last <=> recv_cnt + i - 1 = BlockWords - 1
    /\ FillIsMemory

\* The only beat of an uncached load is the last one.
SingleIsLast == state = "D_BPRD" => \A i \in 1 .. Len(beats) : beats[i].last

CoherenceInv ==
    /\ TypeOK
    /\ OneCopy /\ BypassNotCached /\ CleanIsMemory
    /\ BurstFits /\ BusFollowsState /\ StateFollowsBus
    /\ DecisionHolds /\ WriteBackHolds /\ VictimHolds
    /\ FillHolds /\ SingleIsLast /\ LastMatchesLen

=============================================================================
