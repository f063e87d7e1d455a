---------------------------- MODULE DCacheProofs ----------------------------
(***************************************************************************)
(* Proofs about the data cache and the memory behind it, for any number of *)
(* tags, sets, ways, words and byte lanes: what the cache and the memory   *)
(* hold, that together they are the coherent memory the CPU is promised,   *)
(* and the order in which lines are replaced.                              *)
(***************************************************************************)
EXTENDS DCacheReplacement, SequenceTheorems, TLAPS

USE BlockWordsAssumption, ValuesAssumption, BypassAssumption, WayCountAssumption

LEMMA RequestFields ==
    ASSUME NEW r \in Requests
    PROVE  /\ r.tag \in Tags /\ r.idx \in Sets /\ r.woff \in Offsets
           /\ r.wr \in BOOLEAN /\ r.wdata \in Words /\ r.wstrb \in SUBSET Bytes
           /\ LineOf(r) \in Lines
BY DEF Requests, LineOf, Lines

LEMMA MergeTyped ==
    ASSUME NEW block \in Blocks, NEW o \in Offsets,
           NEW d \in Words, NEW s \in SUBSET Bytes
    PROVE  MergeBlock(block, o, d, s) \in Blocks
BY DEF MergeBlock, MergeWord, Blocks, Words

LEMMA OffsetsWrap ==
    ASSUME NEW n \in Offsets
    PROVE  /\ NextOffset(n) \in Offsets
           /\ n # BlockWords - 1 => NextOffset(n) = n + 1
BY DEF NextOffset, Offsets

LEMMA TypeInit == Init => TypeOK /\ BurstFits
<1> SUFFICES ASSUME Init PROVE TypeOK /\ BurstFits
  OBVIOUS
<1>0. 0 \in Ways /\ 0 \in Offsets
  BY DEF Ways, Offsets
<1>a. valid \in [Sets -> [Ways -> BOOLEAN]] /\ dirty \in [Sets -> [Ways -> BOOLEAN]]
  BY DEF Init, CacheInit
<1>b. rr_ptr \in [Sets -> Ways]
  BY <1>0 DEF Init, CacheInit
<1>1. CacheTypeOK
  BY <1>0, <1>a, <1>b DEF Init, CacheInit, CacheTypeOK, States
<1>2. AxiTypeOK
  BY DEF Init, AxiInit, AxiTypeOK, Phases
<1>3. BurstFits
  BY DEF Init, AxiInit, BurstFits
<1> QED
  BY <1>1, <1>2, <1>3 DEF TypeOK

-----------------------------------------------------------------------------
(***************************************************************************)
(* Types.  The index of the word the RAM reads is in range only because a  *)
(* burst fits its line, so the two facts are proved together.              *)
(***************************************************************************)

LEMMA CacheTypeStep ==
    ASSUME CacheTypeOK,
           \/ \E r \in Requests : Wait(r)
           \/ TagBypass
           \/ \E w \in Ways : TagHit(w)
           \/ \E v \in Ways : TagMiss(v)
           \/ WriteHit \/ WbReq \/ WbBeat \/ MemReq
           \/ \E word \in Words, last \in BOOLEAN : Recv(word, last)
           \/ Refill \/ Resp \/ BypassReadReq
           \/ \E word \in Words : BypassRead(word)
           \/ BypassWriteReq \/ BypassWrite
    PROVE  CacheTypeOK'
<1> USE DEF arrays, latches, counters, respFlags
<1>0. /\ 0 \in Offsets
      /\ req.tag \in Tags /\ req.idx \in Sets /\ req.woff \in Offsets
      /\ req.wr \in BOOLEAN /\ req.wdata \in Words /\ req.wstrb \in SUBSET Bytes
  BY RequestFields DEF CacheTypeOK, Offsets
<1>1. CASE \E r \in Requests : Wait(r)
  BY <1>1 DEF Wait, CacheTypeOK, States
<1>2. CASE TagBypass
  BY <1>2 DEF TagBypass, CacheTypeOK, States
<1>a. \A w \in Ways : data[idx][w] \in Blocks /\ tags[idx][w] \in Tags
  BY <1>0 DEF CacheTypeOK, idx
<1>3. CASE \E w \in Ways : TagHit(w)
  <2> PICK w \in Ways : TagHit(w)
    BY <1>3
  <2>1. /\ state' \in States /\ resp_from_buf' \in BOOLEAN
        /\ acc_way' \in Ways /\ acc_block' \in Blocks
    BY <1>a DEF TagHit, CacheTypeOK, States
  <2> QED
    BY <2>1 DEF TagHit, CacheTypeOK
<1>4. CASE \E v \in Ways : TagMiss(v)
  <2> PICK v \in Ways : TagMiss(v)
    BY <1>4
  <2>1. /\ state' \in States /\ recv_cnt' \in Offsets /\ victim' \in Ways
        /\ acc_block' \in Blocks /\ wb_tag' \in Tags
    BY <1>0, <1>a DEF TagMiss, States
  <2> QED
    BY <2>1 DEF TagMiss, CacheTypeOK
<1>5. CASE WriteHit
  <2>1. Merged(acc_block) \in Blocks
    BY <1>0, MergeTyped DEF Merged, CacheTypeOK
  <2> QED
    BY <1>0, <1>5, <2>1 DEF WriteHit, CacheTypeOK, States, idx
<1>6. CASE WbReq \/ WbBeat
  BY <1>0, <1>6, OffsetsWrap DEF WbReq, WbBeat, CacheTypeOK, States
<1>7. CASE MemReq \/ Resp \/ BypassReadReq \/ BypassWriteReq \/ BypassWrite
  BY <1>7 DEF MemReq, Resp, BypassReadReq, BypassWriteReq, BypassWrite, CacheTypeOK, States
<1>8. CASE \E word \in Words, last \in BOOLEAN : Recv(word, last)
  <2>1. refill_buf' \in Blocks
    BY <1>8 DEF Recv, CacheTypeOK, Blocks
  <2> QED
    BY <1>8, <2>1, OffsetsWrap DEF Recv, CacheTypeOK, States
<1>9. CASE Refill
  <2>1. Merged(refill_buf) \in Blocks
    BY <1>0, MergeTyped DEF Merged, CacheTypeOK
  <2>2. \A w \in Ways : NextWay(w) \in Ways
    BY DEF NextWay, Ways
  <2>3. rr_ptr' \in [Sets -> Ways]
    BY <1>0, <1>9, <2>2 DEF Refill, NextPointer, CacheTypeOK, idx
  <2>4. /\ valid' \in [Sets -> [Ways -> BOOLEAN]] /\ dirty' \in [Sets -> [Ways -> BOOLEAN]]
        /\ tags' \in [Sets -> [Ways -> Tags]] /\ data' \in [Sets -> [Ways -> Blocks]]
    BY <1>0, <1>9, <2>1 DEF Refill, FillDirty, CacheTypeOK, idx
  <2> QED
    BY <1>0, <1>9, <2>3, <2>4 DEF Refill, CacheTypeOK, States
<1>10. CASE \E word \in Words : BypassRead(word)
  <2>1. refill_buf' \in Blocks
    BY <1>10, <1>0 DEF BypassRead, CacheTypeOK, Blocks
  <2> QED
    BY <1>10, <2>1 DEF BypassRead, CacheTypeOK, States
<1> QED
  BY <1>1, <1>2, <1>3, <1>4, <1>5, <1>6, <1>7, <1>8, <1>9, <1>10

LEMMA AxiTypeStep ==
    ASSUME AxiTypeOK, BurstFits,
           \/ \E line \in Lines, word \in Offsets, len \in Offsets :
                 word + len \in Offsets /\ (AxiReadReq(line, word, len) \/ AxiWriteReq(line, word, len))
           \/ RamRead \/ AxiReadBeat
           \/ \E d \in Words, s \in SUBSET Bytes, last \in BOOLEAN : AxiWriteBeat(d, s, last)
           \/ RamWrite \/ AxiWriteResp \/ DeviceWrite
    PROVE  AxiTypeOK' /\ BurstFits'
<1>0. /\ txn \in Txns /\ txn.line \in Lines /\ txn.word \in Int /\ txn.len \in Offsets
      /\ moved \in Int /\ beats \in Seq(Beats)
  BY DEF AxiTypeOK, Txns, Offsets
<1>1. CASE \E line \in Lines, word \in Offsets, len \in Offsets :
             word + len \in Offsets /\ (AxiReadReq(line, word, len) \/ AxiWriteReq(line, word, len))
  <2> PICK line \in Lines, word \in Offsets, len \in Offsets :
             word + len \in Offsets /\ (AxiReadReq(line, word, len) \/ AxiWriteReq(line, word, len))
    BY <1>1
  <2>1. txn' = [line |-> line, word |-> word, len |-> len] /\ moved' = 0
    BY DEF AxiReadReq, AxiWriteReq
  <2>2. AxiTypeOK'
    BY <2>1 DEF AxiReadReq, AxiWriteReq, AxiTypeOK, Txns, Phases
  <2>3. BurstFits'
    BY <2>1 DEF BurstFits, Offsets
  <2> QED
    BY <2>2, <2>3
<1>2. CASE RamRead
  <2>1. txn.word + moved \in Offsets
    BY <1>0, <1>2 DEF RamRead, AxiTypeOK, BurstFits, Txns, Offsets
  <2>2. mem[txn.line][txn.word + moved] \in Words
    BY <1>0, <2>1 DEF AxiTypeOK, Blocks
  <2>3. beats' \in Seq(Beats)
    BY <1>0, <1>2, <2>2 DEF RamRead, Beats
  <2>4. moved' \in 0 .. BlockWords
    BY <1>0, <1>2 DEF RamRead, AxiTypeOK, Offsets
  <2>5. BurstFits'
    BY <1>0, <1>2 DEF RamRead, BurstFits, Offsets
  <2> QED
    BY <1>2, <2>3, <2>4, <2>5 DEF RamRead, AxiTypeOK
<1>3. CASE AxiReadBeat
  BY <1>0, <1>3 DEF AxiReadBeat, AxiTypeOK, BurstFits, Phases
<1>4. CASE \E d \in Words, s \in SUBSET Bytes, last \in BOOLEAN : AxiWriteBeat(d, s, last)
  <2>1. beats' \in Seq(Beats)
    BY <1>0, <1>4 DEF AxiWriteBeat, Beats
  <2> QED
    BY <1>4, <2>1 DEF AxiWriteBeat, AxiTypeOK, BurstFits, Phases
<1>5. CASE RamWrite
  <2>1. txn.word + moved \in Offsets
    BY <1>0, <1>5 DEF RamWrite, AxiTypeOK, BurstFits, Txns, Offsets
  <2>2. Head(beats) \in Beats /\ Tail(beats) \in Seq(Beats)
    BY <1>0, <1>5 DEF RamWrite
  <2>3. MergeBlock(mem[txn.line], txn.word + moved, Head(beats).data, Head(beats).strb) \in Blocks
    BY <1>0, <2>1, <2>2, MergeTyped DEF AxiTypeOK, Beats
  <2>4. mem' \in [Lines -> Blocks]
    BY <1>0, <1>5, <2>3 DEF RamWrite, AxiTypeOK
  <2>5. moved' \in 0 .. BlockWords
    BY <1>0, <1>5 DEF RamWrite, AxiTypeOK, Offsets
  <2>6. BurstFits'
    BY <1>0, <1>5 DEF RamWrite, BurstFits, Offsets
  <2> QED
    BY <1>5, <2>2, <2>4, <2>5, <2>6 DEF RamWrite, AxiTypeOK
<1>6. CASE AxiWriteResp
  BY <1>6 DEF AxiWriteResp, AxiTypeOK, BurstFits, Phases
<1>7. CASE DeviceWrite
  <2>1. mem' \in [Lines -> Blocks]
    <3> PICK l \in BypassLines, o \in Offsets, d \in Words :
               mem' = [mem EXCEPT ![l] = MergeBlock(@, o, d, Bytes)]
      BY <1>7 DEF DeviceWrite
    <3>1. mem[l] \in Blocks
      BY DEF AxiTypeOK
    <3>2. MergeBlock(mem[l], o, d, Bytes) \in Blocks
      BY <3>1, MergeTyped
    <3> QED
      BY <3>2 DEF AxiTypeOK
  <2> QED
    BY <1>7, <2>1 DEF DeviceWrite, AxiTypeOK, BurstFits
<1> QED
  BY <1>1, <1>2, <1>3, <1>4, <1>5, <1>6, <1>7

LEMMA TypeStep == TypeOK /\ BurstFits /\ [Next]_vars => TypeOK' /\ BurstFits'
<1> SUFFICES ASSUME TypeOK, BurstFits, [Next]_vars PROVE TypeOK' /\ BurstFits'
  OBVIOUS
<1>0. CacheTypeOK /\ AxiTypeOK
  BY DEF TypeOK
<1>t. /\ req.woff \in Offsets /\ LineOf(req) \in Lines /\ <<wb_tag, idx>> \in Lines
      /\ req.wdata \in Words /\ req.wstrb \in SUBSET Bytes /\ WbWord \in Words
      /\ 0 \in Offsets /\ BlockWords - 1 \in Offsets
  BY <1>0, RequestFields DEF CacheTypeOK, Lines, idx, Offsets, WbWord, Blocks
<1>1. CASE UNCHANGED axiVars /\ (CpuRequest \/ LookupBypass \/ LookupHit \/ LookupMiss
                                    \/ StoreHit \/ FillLine \/ CpuResponse)
  <2>1. CacheTypeOK'
    BY <1>0, <1>1, CacheTypeStep
       DEF CpuRequest, LookupBypass, LookupHit, LookupMiss, StoreHit, FillLine, CpuResponse
  <2> QED
    BY <1>0, <1>1, <2>1 DEF TypeOK, AxiTypeOK, axiVars, BurstFits
<1>2. CASE WriteBackReq \/ LineReadReq \/ UncachedReadReq \/ UncachedWriteReq
  <2>1. CacheTypeOK'
    BY <1>0, <1>2, CacheTypeStep
       DEF WriteBackReq, LineReadReq, UncachedReadReq, UncachedWriteReq
  <2>2. \E line \in Lines, word \in Offsets, len \in Offsets :
           word + len \in Offsets /\ (AxiReadReq(line, word, len) \/ AxiWriteReq(line, word, len))
    <3>1. /\ 0 + (BlockWords - 1) \in Offsets
          /\ req.woff + 0 \in Offsets
      BY <1>t DEF Offsets
    <3> QED
      BY <1>2, <1>t, <3>1 DEF WriteBackReq, LineReadReq, UncachedReadReq, UncachedWriteReq
  <2> QED
    BY <1>0, <2>1, <2>2, AxiTypeStep DEF TypeOK
<1>3. CASE WriteBackBeat \/ UncachedWriteBeat
  <2>1. CacheTypeOK'
    BY <1>0, <1>3, CacheTypeStep DEF WriteBackBeat, UncachedWriteBeat
  <2>2. \E d \in Words, s \in SUBSET Bytes, last \in BOOLEAN : AxiWriteBeat(d, s, last)
    BY <1>t, <1>3 DEF WriteBackBeat, UncachedWriteBeat, WbLast
  <2> QED
    BY <1>0, <2>1, <2>2, AxiTypeStep DEF TypeOK
<1>4. CASE LineReadBeat \/ UncachedReadBeat
  <2>1. Head(beats).data \in Words /\ Head(beats).last \in BOOLEAN
    <3>1. Head(beats) \in Beats
      BY <1>0, <1>4 DEF LineReadBeat, UncachedReadBeat, AxiTypeOK
    <3> QED
      BY <3>1 DEF Beats
  <2>2. CacheTypeOK'
    BY <1>0, <1>4, <2>1, CacheTypeStep DEF LineReadBeat, UncachedReadBeat
  <2> QED
    BY <1>0, <1>4, <2>2, AxiTypeStep DEF TypeOK, LineReadBeat, UncachedReadBeat
<1>5. CASE MemoryStep \/ DeviceStep
  <2>1. CacheTypeOK'
    BY <1>0, <1>5 DEF MemoryStep, DeviceStep, CacheTypeOK,
                      cacheVars, arrays, latches, counters, respFlags
  <2> QED
    BY <1>0, <1>5, <2>1, AxiTypeStep DEF TypeOK, MemoryStep, DeviceStep, AxiInternal
<1>6. CASE UNCHANGED vars
  BY <1>0, <1>6 DEF TypeOK, CacheTypeOK, AxiTypeOK, BurstFits, vars,
                    axiVars, cacheVars, arrays, latches, counters, respFlags
<1> QED
  BY <1>1, <1>2, <1>3, <1>4, <1>5, <1>6
     DEF Next, CacheStep, CpuRequest, CpuResponse, LookupBypass, LookupHit, LookupMiss,
         StoreHit, FillLine

\* Every variable keeps its type in every behaviour, and no burst leaves its
\* line: in particular the indices of arrays and blocks stay in range.
THEOREM TypeCorrect == Spec => []TypeOK
<1>1. TypeOK /\ BurstFits /\ [Next]_vars => (TypeOK /\ BurstFits)'
  BY TypeStep
<1> QED
  BY TypeInit, <1>1, PTL DEF Spec

-----------------------------------------------------------------------------
(***************************************************************************)
(* Coherence.  One lemma per group of steps; TypeOK and BurstFits of the   *)
(* next state come from TypeStep.                                          *)
(***************************************************************************)

Coupling ==
    /\ BusFollowsState /\ StateFollowsBus
    /\ DecisionHolds /\ WriteBackHolds /\ VictimHolds
    /\ FillHolds /\ SingleIsLast /\ LastMatchesLen

Stored == OneCopy /\ BypassNotCached /\ CleanIsMemory

LEMMA InitCoherent == Init => Stored /\ Coupling
<1> SUFFICES ASSUME Init PROVE Stored /\ Coupling
  OBVIOUS
<1>1. /\ state = "D_WAIT" /\ phase = "IDLE" /\ beats = <<>>
      /\ valid = [s \in Sets |-> [w \in Ways |-> FALSE]]
  BY DEF Init, CacheInit, AxiInit
<1>2. Stored
  BY <1>1 DEF Stored, OneCopy, BypassNotCached, CleanIsMemory
<1>3. Coupling
  BY <1>1 DEF Coupling, BusFollowsState, StateFollowsBus, DecisionHolds, WriteBackHolds,
              VictimHolds, FillHolds, SingleIsLast, LastMatchesLen, WritingBack, VictimSafe,
              MissStates, BypassStates, FillIsMemory
<1> QED
  BY <1>2, <1>3

\* What is stored changes only when the arrays or the memory change.
LEMMA StoredKept ==
    ASSUME Stored, UNCHANGED <<valid, dirty, tags, data, mem>>
    PROVE  Stored'
BY DEF Stored, OneCopy, BypassNotCached, CleanIsMemory

\* In D_WAIT, D_TAG and D_RESP no transaction needs the cache.
LEMMA CouplingAtRest ==
    ASSUME Coupling, state' \in {"D_WAIT", "D_TAG", "D_RESP"},
           state' = "D_RESP" => ~req.wr /\ UNCHANGED req,
           ~WritingBack, phase \notin {"READ", "WRITE"}, UNCHANGED <<phase, txn, moved, beats>>
    PROVE  Coupling'
BY DEF Coupling, BusFollowsState, StateFollowsBus, DecisionHolds, WriteBackHolds,
       VictimHolds, FillHolds, SingleIsLast, LastMatchesLen, WritingBack, VictimSafe,
       MissStates, BypassStates, FillIsMemory

LEMMA RequestStep == ASSUME CoherenceInv, CpuRequest PROVE Stored' /\ Coupling'
<1> USE DEF CoherenceInv, CpuRequest, Wait, arrays, axiVars
<1>1. Stored'
  BY StoredKept DEF Stored
<1>2. ~WritingBack /\ phase \notin {"READ", "WRITE"}
  BY DEF WriteBackHolds, StateFollowsBus
<1>3. Coupling'
  BY <1>2, CouplingAtRest DEF Coupling
<1> QED
  BY <1>1, <1>3

LEMMA ResponseStep == ASSUME CoherenceInv, CpuResponse PROVE Stored' /\ Coupling'
<1> USE DEF CoherenceInv, CpuResponse, Resp, arrays, axiVars
<1>1. Stored'
  BY StoredKept DEF Stored
<1>2. ~WritingBack /\ phase \notin {"READ", "WRITE"}
  BY DEF WriteBackHolds, StateFollowsBus
<1>3. Coupling'
  BY <1>2, CouplingAtRest DEF Coupling
<1> QED
  BY <1>1, <1>3

LEMMA LookupBypassStep == ASSUME CoherenceInv, LookupBypass PROVE Stored' /\ Coupling'
<1> USE DEF CoherenceInv, LookupBypass, TagBypass, arrays, latches, counters, axiVars
<1>1. Stored'
  BY StoredKept DEF Stored
<1>2. ~WritingBack /\ phase \notin {"READ", "WRITE"}
  BY DEF WriteBackHolds, StateFollowsBus
<1>3. req.wr \in BOOLEAN
  BY RequestFields DEF TypeOK, CacheTypeOK
<1>4. Coupling'
  BY <1>2, <1>3 DEF Coupling, BusFollowsState, StateFollowsBus, DecisionHolds, WriteBackHolds,
       VictimHolds, FillHolds, SingleIsLast, LastMatchesLen, WritingBack, VictimSafe,
       MissStates, BypassStates, FillIsMemory, bypass
<1> QED
  BY <1>1, <1>4

LEMMA LookupHitStep == ASSUME CoherenceInv, LookupHit PROVE Stored' /\ Coupling'
<1> USE DEF CoherenceInv, LookupHit, arrays, counters, axiVars
<1> PICK w \in Ways : TagHit(w) /\ UNCHANGED axiVars
  OBVIOUS
<1> USE DEF TagHit
<1>1. Stored'
  BY StoredKept DEF Stored
<1>2. ~WritingBack /\ phase \notin {"READ", "WRITE"}
  BY DEF WriteBackHolds, StateFollowsBus
<1>3. CASE req.wr
  <2>1. DecisionHolds'
    BY <1>3 DEF DecisionHolds, MissStates, BypassStates, bypass, HitWay, HitSel, idx
  <2>2. state' = "D_WHIT"
    BY <1>3
  <2> QED
    BY <1>1, <1>2, <2>1, <2>2 DEF Coupling, BusFollowsState, StateFollowsBus, WriteBackHolds,
       VictimHolds, FillHolds, SingleIsLast, LastMatchesLen, WritingBack, VictimSafe, FillIsMemory
<1>4. CASE ~req.wr
  BY <1>1, <1>2, <1>4, CouplingAtRest DEF Coupling
<1> QED
  BY <1>3, <1>4

LEMMA LookupMissStep == ASSUME CoherenceInv, LookupMiss PROVE Stored' /\ Coupling'
<1> USE DEF CoherenceInv, LookupMiss, arrays, counters, axiVars
<1> PICK v \in Ways : TagMiss(v) /\ UNCHANGED axiVars
  OBVIOUS
<1> USE DEF TagMiss, NeedsWriteBack
<1>1. Stored'
  BY StoredKept DEF Stored
<1>2. ~WritingBack /\ phase \notin {"READ", "WRITE"}
  BY DEF WriteBackHolds, StateFollowsBus
<1>3. ~WritingBack'
  BY <1>2 DEF WritingBack
<1>4. DecisionHolds'
  BY DEF DecisionHolds, MissStates, BypassStates, bypass, Hit, HitWay, idx
<1>5. VictimHolds'
  <2> SUFFICES ASSUME VictimSafe', (valid[idx][victim])'
               PROVE  (data[idx][victim] = mem[VictimLine])'
    BY DEF VictimHolds
  <2>1. valid[idx][v] /\ ~dirty[idx][v]
    BY DEF VictimSafe, idx
  <2>2. data[idx][v] = mem[<<tags[idx][v], idx>>]
    BY <2>1, RequestFields DEF CleanIsMemory, TypeOK, CacheTypeOK, idx
  <2> QED
    BY <2>2 DEF VictimLine, idx
<1> QED
  BY <1>1, <1>2, <1>3, <1>4, <1>5 DEF Coupling, BusFollowsState, StateFollowsBus, WriteBackHolds,
       FillHolds, SingleIsLast, LastMatchesLen, FillIsMemory

LEMMA StoreHitStep == ASSUME CoherenceInv, StoreHit PROVE Stored' /\ Coupling'
<1> USE DEF CoherenceInv, StoreHit, WriteHit, latches, counters, respFlags, axiVars
<1>0. /\ idx \in Sets /\ acc_way \in Ways
      /\ valid[idx][acc_way] /\ ~bypass
  BY RequestFields DEF TypeOK, CacheTypeOK, DecisionHolds, HitWay, idx
<1>1. \A s \in Sets, w \in Ways : ~dirty'[s][w] => ~dirty[s][w] /\ ~(s = idx /\ w = acc_way)
  BY <1>0 DEF TypeOK, CacheTypeOK
<1>2. \A s \in Sets, w \in Ways :
         ~(s = idx /\ w = acc_way) => data'[s][w] = data[s][w]
  BY <1>0 DEF TypeOK, CacheTypeOK
<1>3. Stored'
  <2>1. OneCopy' /\ BypassNotCached'
    BY DEF OneCopy, BypassNotCached
  <2>2. CleanIsMemory'
    <3> SUFFICES ASSUME NEW s \in Sets, NEW w \in Ways, valid[s][w], ~dirty'[s][w]
                 PROVE  data'[s][w] = mem[<<tags[s][w], s>>]
      BY DEF CleanIsMemory
    <3> QED
      BY <1>1, <1>2 DEF CleanIsMemory
  <2> QED
    BY <2>1, <2>2 DEF Stored
<1>4. ~WritingBack /\ phase \notin {"READ", "WRITE"}
  BY DEF WriteBackHolds, StateFollowsBus
<1>5. Coupling'
  BY <1>4, CouplingAtRest DEF Coupling
<1> QED
  BY <1>3, <1>5

LEMMA FillLineStep == ASSUME CoherenceInv, FillLine PROVE Stored' /\ Coupling'
<1> USE DEF CoherenceInv, FillLine, Refill, FillDirty, latches, counters, axiVars
<1>0. /\ idx \in Sets /\ victim \in Ways /\ req.tag \in Tags
      /\ ~bypass /\ ~Hit /\ phase = "IDLE" /\ refill_buf = mem[LineOf(req)]
  BY RequestFields DEF TypeOK, CacheTypeOK, DecisionHolds, MissStates, BusFollowsState,
                       FillHolds, FillIsMemory, idx
<1>1. \A s \in Sets, w \in Ways :
         IF s = idx /\ w = victim
         THEN /\ tags'[s][w] = req.tag
              /\ ~dirty'[s][w] => data'[s][w] = refill_buf
         ELSE /\ valid'[s][w] <=> valid[s][w]
              /\ dirty'[s][w] <=> dirty[s][w]
              /\ tags'[s][w] = tags[s][w] /\ data'[s][w] = data[s][w]
  BY <1>0 DEF TypeOK, CacheTypeOK
<1>2. OneCopy'
  <2> SUFFICES ASSUME NEW s \in Sets, NEW u \in Ways, NEW w \in Ways,
                      valid'[s][u], valid'[s][w], tags'[s][u] = tags'[s][w]
               PROVE  u = w
    BY DEF OneCopy
  <2>1. CASE s = idx
    BY <1>0, <1>1, <2>1 DEF OneCopy, Hit, HitWay
  <2>2. CASE s # idx
    BY <1>1, <2>2 DEF OneCopy
  <2> QED
    BY <2>1, <2>2
<1>3. BypassNotCached'
  BY <1>0, <1>1 DEF BypassNotCached, bypass, LineOf, idx
<1>4. CleanIsMemory'
  <2> SUFFICES ASSUME NEW s \in Sets, NEW w \in Ways, valid'[s][w], ~dirty'[s][w]
               PROVE  data'[s][w] = mem[<<tags'[s][w], s>>]
    BY DEF CleanIsMemory
  <2>1. CASE s = idx /\ w = victim
    BY <1>0, <1>1, <2>1 DEF LineOf, idx
  <2>2. CASE ~(s = idx /\ w = victim)
    BY <1>1, <2>2 DEF CleanIsMemory
  <2> QED
    BY <2>1, <2>2
<1>5. Coupling'
  BY <1>0, CouplingAtRest DEF Coupling, WritingBack
<1> QED
  BY <1>2, <1>3, <1>4, <1>5 DEF Stored

LEMMA WriteBackReqStep == ASSUME CoherenceInv, WriteBackReq PROVE Stored' /\ Coupling'
<1> USE DEF CoherenceInv, WriteBackReq, WbReq, AxiWriteReq, arrays, latches, respFlags
<1>1. Stored'
  BY StoredKept DEF Stored
<1>2. beats = <<>> /\ beats' = <<>>
  BY DEF StateFollowsBus
<1>3. BusFollowsState' /\ StateFollowsBus'
  BY <1>2 DEF BusFollowsState, StateFollowsBus, LineBurst, idx
<1>4. DecisionHolds'
  BY DEF DecisionHolds, MissStates, BypassStates, bypass, Hit, HitWay, idx
<1>5. WriteBackHolds'
  BY <1>2 DEF WriteBackHolds, WritingBack, DecisionHolds, LineBurst, VictimLine, idx, Offsets
<1>6. VictimHolds' /\ FillHolds' /\ SingleIsLast' /\ LastMatchesLen'
  BY <1>2 DEF VictimHolds, VictimSafe, FillHolds, FillIsMemory, SingleIsLast, LastMatchesLen
<1> QED
  BY <1>1, <1>3, <1>4, <1>5, <1>6 DEF Coupling

LEMMA LineReadReqStep == ASSUME CoherenceInv, LineReadReq PROVE Stored' /\ Coupling'
<1> USE DEF CoherenceInv, LineReadReq, MemReq, AxiReadReq, arrays, latches, counters, respFlags
<1>1. Stored'
  BY StoredKept DEF Stored
<1>2. beats = <<>> /\ beats' = <<>>
  BY DEF StateFollowsBus
<1>3. BusFollowsState' /\ StateFollowsBus'
  BY <1>2 DEF BusFollowsState, StateFollowsBus, DecisionHolds, LineBurst, idx, LineOf
<1>4. DecisionHolds' /\ SingleIsLast'
  BY <1>2 DEF DecisionHolds, SingleIsLast, MissStates, BypassStates, bypass, Hit, HitWay, idx
<1>5. ~WritingBack /\ WriteBackHolds'
  BY DEF WriteBackHolds, WritingBack
<1>6. VictimHolds'
  BY <1>5 DEF VictimHolds, VictimSafe, VictimLine, idx
<1>7. FillHolds' /\ LastMatchesLen'
  BY <1>2 DEF FillHolds, FillIsMemory, LastMatchesLen, DecisionHolds, Offsets
<1> QED
  BY <1>1, <1>3, <1>4, <1>5, <1>6, <1>7 DEF Coupling

LEMMA UncachedReadReqStep == ASSUME CoherenceInv, UncachedReadReq PROVE Stored' /\ Coupling'
<1> USE DEF CoherenceInv, UncachedReadReq, BypassReadReq, AxiReadReq,
            arrays, latches, counters, respFlags
<1>1. Stored'
  BY StoredKept DEF Stored
<1>2. beats = <<>> /\ beats' = <<>>
  BY DEF StateFollowsBus
<1>3. BusFollowsState' /\ StateFollowsBus'
  BY <1>2 DEF BusFollowsState, StateFollowsBus, SingleBeat, LineOf
<1>4. DecisionHolds' /\ SingleIsLast'
  BY <1>2 DEF DecisionHolds, SingleIsLast, MissStates, BypassStates, bypass
<1>5. WriteBackHolds' /\ VictimHolds'
  BY DEF WriteBackHolds, WritingBack, VictimHolds, VictimSafe
<1>6. FillHolds' /\ LastMatchesLen'
  BY <1>2 DEF FillHolds, FillIsMemory, LastMatchesLen
<1> QED
  BY <1>1, <1>3, <1>4, <1>5, <1>6 DEF Coupling

LEMMA UncachedWriteReqStep == ASSUME CoherenceInv, UncachedWriteReq PROVE Stored' /\ Coupling'
<1> USE DEF CoherenceInv, UncachedWriteReq, BypassWriteReq, AxiWriteReq,
            arrays, latches, counters, respFlags
<1>1. Stored'
  BY StoredKept DEF Stored
<1>2. beats = <<>> /\ beats' = <<>>
  BY DEF StateFollowsBus
<1>3. BusFollowsState' /\ StateFollowsBus'
  BY <1>2 DEF BusFollowsState, StateFollowsBus, SingleBeat, LineOf
<1>4. DecisionHolds' /\ SingleIsLast'
  BY <1>2 DEF DecisionHolds, SingleIsLast, MissStates, BypassStates, bypass
<1>5. WriteBackHolds' /\ VictimHolds'
  BY DEF WriteBackHolds, WritingBack, VictimHolds, VictimSafe, DecisionHolds, BypassStates, bypass
<1>6. FillHolds' /\ LastMatchesLen'
  BY <1>2 DEF FillHolds, FillIsMemory, LastMatchesLen
<1> QED
  BY <1>1, <1>3, <1>4, <1>5, <1>6 DEF Coupling

LEMMA UncachedWriteBeatStep == ASSUME CoherenceInv, UncachedWriteBeat PROVE Stored' /\ Coupling'
<1> USE DEF CoherenceInv, UncachedWriteBeat, BypassWrite, AxiWriteBeat,
            arrays, latches, counters, respFlags
<1>1. Stored'
  BY StoredKept DEF Stored
<1>2. /\ beats = <<>> /\ moved = 0 /\ txn = SingleBeat /\ phase' = "WRITE_RESP"
      /\ LineOf(req) \in BypassLines
  BY DEF BusFollowsState, DecisionHolds, BypassStates, bypass
<1>3. Len(beats') = 1 /\ beats'[1].last
  BY <1>2
<1>4. BusFollowsState' /\ StateFollowsBus' /\ LastMatchesLen'
  BY <1>2, <1>3 DEF BusFollowsState, StateFollowsBus, LastMatchesLen, SingleBeat
<1>5. DecisionHolds' /\ SingleIsLast' /\ WriteBackHolds' /\ VictimHolds' /\ FillHolds'
  BY <1>2 DEF DecisionHolds, SingleIsLast, WriteBackHolds, WritingBack, VictimHolds, VictimSafe,
              FillHolds, FillIsMemory, MissStates, BypassStates, SingleBeat
<1> QED
  BY <1>1, <1>4, <1>5 DEF Coupling

LEMMA UncachedReadBeatStep == ASSUME CoherenceInv, UncachedReadBeat PROVE Stored' /\ Coupling'
<1> USE DEF CoherenceInv, UncachedReadBeat, BypassRead, AxiReadBeat,
            arrays, latches
<1>1. Stored'
  BY StoredKept DEF Stored
<1>2. /\ phase = "READ" /\ txn = SingleBeat /\ moved = Len(beats) /\ ~req.wr
  BY DEF BusFollowsState, DecisionHolds, BypassStates
<1>3. beats \in Seq(Beats) /\ moved \in Int
  BY DEF TypeOK, AxiTypeOK
<1>4. phase' = "IDLE" /\ beats' = <<>>
  <2>1. Head(beats).last
    BY <1>3 DEF SingleIsLast
  <2>2. Len(beats) = 1
    BY <1>2, <1>3 DEF SingleBeat, BurstFits
  <2> QED
    BY <1>3, <2>1, <2>2
<1>5. Coupling'
  BY <1>2, <1>4 DEF Coupling, BusFollowsState, StateFollowsBus, DecisionHolds, WriteBackHolds,
       VictimHolds, FillHolds, SingleIsLast, LastMatchesLen, WritingBack, VictimSafe,
       MissStates, BypassStates, FillIsMemory
<1> QED
  BY <1>1, <1>5

LEMMA WriteBackBeatStep == ASSUME CoherenceInv, WriteBackBeat PROVE Stored' /\ Coupling'
<1> USE DEF CoherenceInv, arrays, latches, respFlags
<1>0. /\ state = "D_WBD" /\ phase = "WRITE" /\ txn = LineBurst(VictimLine)
      /\ moved + Len(beats) = wb_cnt /\ wb_cnt \in Offsets /\ moved \in Nat
      /\ beats \in Seq(Beats)
      /\ ~bypass /\ ~Hit /\ ~resp_is_bypass /\ recv_cnt = 0
      /\ valid[idx][victim] /\ dirty[idx][victim]
      /\ acc_block = data[idx][victim]
      /\ VictimLine \notin BypassLines
  <2>1. state = "D_WBD"
    BY DEF WriteBackBeat, WbBeat
  <2>2. idx \in Sets /\ victim \in Ways
    BY RequestFields DEF TypeOK, CacheTypeOK, idx
  <2>3. /\ valid[idx][victim] /\ dirty[idx][victim]
        /\ acc_block = data[idx][victim] /\ wb_tag = tags[idx][victim]
        /\ ~bypass /\ ~Hit /\ ~resp_is_bypass /\ recv_cnt = 0
    BY <2>1 DEF DecisionHolds, MissStates
  <2>4. VictimLine \notin BypassLines
    BY <2>2, <2>3 DEF BypassNotCached, VictimLine
  <2> QED
    BY <2>1, <2>3, <2>4 DEF BusFollowsState, TypeOK, CacheTypeOK, AxiTypeOK, VictimLine
<1>1. /\ UNCHANGED <<req, arrays, latches, refill_buf, recv_cnt, respFlags, mem, txn, moved>>
      /\ beats' = Append(beats, [data |-> acc_block[wb_cnt], strb |-> Bytes,
                                 last |-> wb_cnt = BlockWords - 1])
      /\ wb_cnt' = NextOffset(wb_cnt)
      /\ IF wb_cnt = BlockWords - 1
         THEN state' = "D_MREQ" /\ phase' = "WRITE_RESP"
         ELSE state' = "D_WBD" /\ phase' = "WRITE"
  BY DEF WriteBackBeat, WbBeat, AxiWriteBeat, WbWord, WbLast
<1>2. Stored'
  BY <1>1, StoredKept DEF Stored
<1>3. Len(beats') = Len(beats) + 1
  BY <1>0, <1>1
<1>4. \A i \in 1 .. Len(beats') :
         /\ i <= Len(beats) => beats'[i] = beats[i]
         /\ i = Len(beats) + 1 => /\ beats'[i].data = acc_block[wb_cnt]
                                  /\ beats'[i].strb = Bytes
                                  /\ beats'[i].last <=> wb_cnt = BlockWords - 1
  <2> DEFINE beat == [data |-> acc_block[wb_cnt], strb |-> Bytes, last |-> wb_cnt = BlockWords - 1]
  <2>0. beats' = Append(beats, beat)
    BY <1>1
  <2>1. \A i \in 1 .. Len(beats') : /\ i <= Len(beats) => beats'[i] = beats[i]
                                    /\ i = Len(beats) + 1 => beats'[i] = beat
    <3> HIDE DEF beat
    <3> QED
      BY <1>0, <2>0
  <2>2. /\ beat.data = acc_block[wb_cnt] /\ beat.strb = Bytes
        /\ beat.last <=> wb_cnt = BlockWords - 1
    OBVIOUS
  <2> HIDE DEF beat
  <2> QED
    BY <2>1, <2>2
<1>5. txn.len = BlockWords - 1 /\ txn' = LineBurst(VictimLine)' /\ VictimLine' = VictimLine
  BY <1>0, <1>1 DEF LineBurst, VictimLine, idx
<1>6. BusFollowsState' /\ StateFollowsBus'
  <2>1. wb_tag = tags[idx][victim]
    BY <1>0 DEF DecisionHolds
  <2>2. state' = "D_WBD" => moved + Len(beats') = wb_cnt'
    BY <1>0, <1>1, <1>3 DEF NextOffset
  <2>3. state' = "D_MREQ" => moved + Len(beats') = txn.len + 1
    BY <1>0, <1>1, <1>3, <1>5
  <2> QED
    BY <1>0, <1>1, <1>3, <1>5, <2>1, <2>2, <2>3
       DEF BusFollowsState, StateFollowsBus, VictimLine, idx
<1>7. DecisionHolds'
  BY <1>0, <1>1 DEF DecisionHolds, MissStates, BypassStates, bypass, Hit, HitWay, idx
<1>8. WritingBack /\ WritingBack'
  BY <1>0, <1>1 DEF WritingBack, LineBurst
<1>9. WriteBackHolds'
  <2>1. \A i \in 1 .. Len(beats') :
           /\ beats'[i].data = data[idx][victim][moved + i - 1]
           /\ beats'[i].strb = Bytes
    <3> SUFFICES ASSUME NEW i \in 1 .. Len(beats')
                 PROVE  /\ beats'[i].data = data[idx][victim][moved + i - 1]
                        /\ beats'[i].strb = Bytes
      OBVIOUS
    <3>1. CASE i <= Len(beats)
      BY <1>0, <1>4, <1>8, <3>1 DEF WriteBackHolds
    <3>2. CASE i = Len(beats) + 1
      <4>1. moved + i - 1 = wb_cnt
        BY <1>0, <3>2
      <4> QED
        BY <1>0, <1>4, <3>2, <4>1
    <3> QED
      BY <1>0, <1>3, <3>1, <3>2
  <2>2. \A j \in Offsets : j < moved => mem[VictimLine][j] = data[idx][victim][j]
    BY <1>8 DEF WriteBackHolds
  <2> QED
    BY <1>0, <1>1, <1>5, <2>1, <2>2 DEF WriteBackHolds, idx
<1>10. LastMatchesLen'
  <2> SUFFICES ASSUME NEW i \in 1 .. Len(beats')
               PROVE  beats'[i].last <=> moved + i - 1 = txn.len
    BY <1>1 DEF LastMatchesLen
  <2>1. CASE i <= Len(beats)
    BY <1>0, <1>4, <2>1 DEF LastMatchesLen
  <2>2. CASE i = Len(beats) + 1
    <3>1. moved + i - 1 = txn.len <=> wb_cnt = BlockWords - 1
      BY <1>0, <1>5, <2>2
    <3>2. beats'[i].last <=> wb_cnt = BlockWords - 1
      BY <1>4, <2>2
    <3> QED
      BY <3>1, <3>2
  <2> QED
    BY <1>0, <1>3, <2>1, <2>2
<1>11. VictimHolds' /\ FillHolds' /\ SingleIsLast'
  BY <1>1, <1>8 DEF VictimHolds, VictimSafe, FillHolds, FillIsMemory, SingleIsLast
<1> QED
  BY <1>2, <1>6, <1>7, <1>9, <1>10, <1>11 DEF Coupling

LEMMA LineReadBeatStep == ASSUME CoherenceInv, LineReadBeat PROVE Stored' /\ Coupling'
<1> USE DEF CoherenceInv, arrays, latches, respFlags
<1>0. /\ state = "D_RECV" /\ phase = "READ" /\ txn = LineBurst(LineOf(req))
      /\ beats # <<>> /\ beats \in Seq(Beats)
      /\ moved = recv_cnt + Len(beats) /\ moved <= BlockWords
      /\ recv_cnt \in Offsets /\ refill_buf \in Blocks /\ mem[LineOf(req)] \in Blocks
      /\ ~bypass /\ ~Hit /\ ~resp_is_bypass
  <2>1. state = "D_RECV" /\ beats # <<>>
    BY DEF LineReadBeat, Recv
  <2>2. phase = "READ" /\ txn = LineBurst(LineOf(req)) /\ moved = recv_cnt + Len(beats)
    BY <2>1 DEF BusFollowsState
  <2>3. /\ beats \in Seq(Beats) /\ recv_cnt \in Offsets /\ refill_buf \in Blocks
        /\ mem[LineOf(req)] \in Blocks
    BY RequestFields DEF TypeOK, CacheTypeOK, AxiTypeOK
  <2>4. moved <= BlockWords
    BY <2>2, <2>3 DEF BurstFits, LineBurst, Offsets
  <2>5. ~bypass /\ ~Hit /\ ~resp_is_bypass
    BY <2>1 DEF DecisionHolds, MissStates
  <2> QED
    BY <2>1, <2>2, <2>3, <2>4, <2>5
<1>1. /\ UNCHANGED <<req, arrays, latches, wb_cnt, respFlags, mem, txn, moved>>
      /\ beats' = Tail(beats)
      /\ refill_buf' = [refill_buf EXCEPT ![recv_cnt] = beats[1].data]
      /\ recv_cnt' = NextOffset(recv_cnt)
      /\ IF beats[1].last
         THEN state' = "D_REFILL" /\ phase' = "IDLE"
         ELSE state' = "D_RECV" /\ phase' = "READ"
  <2>1. Head(beats) = beats[1]
    BY <1>0
  <2> QED
    BY <2>1 DEF LineReadBeat, Recv, AxiReadBeat
<1>2. Stored'
  BY <1>1, StoredKept DEF Stored
<1>3. /\ Len(beats) >= 1 /\ Len(beats') = Len(beats) - 1
      /\ \A i \in 1 .. Len(beats') : beats'[i] = beats[i + 1]
  BY <1>0, <1>1
<1>4. /\ beats[1].data = mem[LineOf(req)][recv_cnt]
      /\ beats[1].last <=> recv_cnt = BlockWords - 1
  <2>1. 1 \in 1 .. Len(beats) /\ recv_cnt + 1 - 1 = recv_cnt
    BY <1>0, <1>3 DEF Offsets
  <2> QED
    BY <1>0, <2>1 DEF FillHolds
<1>5. \A j \in Offsets : j <= recv_cnt => refill_buf'[j] = mem[LineOf(req)][j]
  <2>1. \A j \in Offsets : j < recv_cnt => refill_buf[j] = mem[LineOf(req)][j]
    BY <1>0 DEF FillHolds
  <2> QED
    BY <1>0, <1>1, <1>4, <2>1 DEF Offsets, Blocks
<1>6. CASE recv_cnt = BlockWords - 1
  <2>1. /\ state' = "D_REFILL" /\ phase' = "IDLE" /\ beats' = <<>>
    <3>1. Len(beats') = 0
      BY <1>0, <1>3, <1>6
    <3>2. beats' \in Seq(Beats)
      BY <1>0, <1>1
    <3> QED
      BY <1>1, <1>4, <1>6, <3>1, <3>2
  <2>2. FillIsMemory'
    <3>1. refill_buf' \in Blocks
      BY <1>0, <1>1, <1>4 DEF Blocks
    <3>2. \A j \in Offsets : refill_buf'[j] = mem[LineOf(req)][j]
      BY <1>5, <1>6 DEF Offsets
    <3>3. refill_buf' = mem[LineOf(req)]
      BY <1>0, <3>1, <3>2 DEF Blocks
    <3> QED
      BY <1>1, <3>3 DEF FillIsMemory, LineOf
  <2>3. VictimHolds'
    BY <1>0, <1>1 DEF VictimHolds, VictimSafe, VictimLine, idx
  <2>4. DecisionHolds'
    BY <1>0, <1>1, <2>1 DEF DecisionHolds, MissStates, BypassStates, bypass, Hit, HitWay, idx
  <2> QED
    BY <1>2, <2>1, <2>2, <2>3, <2>4 DEF Coupling, BusFollowsState, StateFollowsBus,
       WriteBackHolds, WritingBack, FillHolds, SingleIsLast, LastMatchesLen
<1>7. CASE recv_cnt # BlockWords - 1
  <2>1. /\ state' = "D_RECV" /\ phase' = "READ" /\ recv_cnt' = recv_cnt + 1
    BY <1>0, <1>1, <1>4, <1>7, OffsetsWrap
  <2>2. FillHolds'
    <3>1. \A j \in Offsets : j < recv_cnt' => refill_buf'[j] = mem[LineOf(req)][j]
      BY <1>0, <1>5, <2>1 DEF Offsets
    <3>2. \A i \in 1 .. Len(beats') :
             /\ beats'[i].data = mem[LineOf(req)][recv_cnt' + i - 1]
             /\ beats'[i].last <=> recv_cnt' + i - 1 = BlockWords - 1
      <4> SUFFICES ASSUME NEW i \in 1 .. Len(beats')
                   PROVE  /\ beats'[i].data = mem[LineOf(req)][recv_cnt' + i - 1]
                          /\ beats'[i].last <=> recv_cnt' + i - 1 = BlockWords - 1
        OBVIOUS
      <4>1. i + 1 \in 1 .. Len(beats) /\ recv_cnt' + i - 1 = recv_cnt + (i + 1) - 1
        BY <1>0, <1>3, <2>1 DEF Offsets
      <4>2. /\ beats[i + 1].data = mem[LineOf(req)][recv_cnt + (i + 1) - 1]
            /\ beats[i + 1].last <=> recv_cnt + (i + 1) - 1 = BlockWords - 1
        BY <1>0, <4>1 DEF FillHolds
      <4>3. beats'[i] = beats[i + 1]
        BY <1>3
      <4> QED
        BY <4>1, <4>2, <4>3
    <3> QED
      BY <1>1, <2>1, <3>1, <3>2 DEF FillHolds, FillIsMemory, LineOf
  <2>3. VictimHolds'
    BY <1>0, <1>1 DEF VictimHolds, VictimSafe, VictimLine, idx
  <2>4. DecisionHolds'
    BY <1>0, <1>1, <2>1 DEF DecisionHolds, MissStates, BypassStates, bypass, Hit, HitWay, idx
  <2>5. BusFollowsState'
    <3>1. moved' = recv_cnt' + Len(beats')
      BY <1>0, <1>1, <1>3, <2>1 DEF Offsets
    <3> QED
      BY <1>0, <1>1, <2>1, <3>1 DEF BusFollowsState, LineBurst, LineOf
  <2> QED
    BY <1>2, <2>1, <2>2, <2>3, <2>4, <2>5 DEF Coupling, StateFollowsBus,
       WriteBackHolds, WritingBack, SingleIsLast, LastMatchesLen
<1> QED
  BY <1>6, <1>7

LEMMA RamReadStep ==
    ASSUME CoherenceInv, RamRead, UNCHANGED cacheVars PROVE Stored' /\ Coupling'
<1> USE DEF CoherenceInv, arrays, latches, counters, respFlags, cacheVars
<1>0. /\ phase = "READ" /\ moved <= txn.len /\ state \in {"D_RECV", "D_BPRD"}
      /\ beats \in Seq(Beats) /\ moved \in Nat /\ recv_cnt \in Nat
      /\ ~WritingBack
  BY DEF RamRead, StateFollowsBus, TypeOK, AxiTypeOK, CacheTypeOK, Offsets, WritingBack
<1> DEFINE beat == [data |-> mem[txn.line][txn.word + moved], strb |-> {}, last |-> moved = txn.len]
<1>1. /\ UNCHANGED <<mem, phase, txn>> /\ moved' = moved + 1 /\ beats' = Append(beats, beat)
  BY DEF RamRead
<1>2. /\ beat.data = mem[txn.line][txn.word + moved]
      /\ beat.last <=> moved = txn.len
  OBVIOUS
<1> HIDE DEF beat
<1>3. /\ Len(beats') = Len(beats) + 1
      /\ \A i \in 1 .. Len(beats) : beats'[i] = beats[i]
      /\ beats'[Len(beats) + 1] = beat
  BY <1>0, <1>1
<1>4. Stored'
  BY <1>1, StoredKept DEF Stored
<1>5. DecisionHolds' /\ VictimHolds'
  BY <1>0, <1>1 DEF DecisionHolds, MissStates, BypassStates, bypass, Hit, HitWay, idx,
                    VictimHolds, VictimSafe, VictimLine
<1>6. WriteBackHolds' /\ LastMatchesLen'
  BY <1>0, <1>1 DEF WriteBackHolds, WritingBack, LastMatchesLen
<1>7. BusFollowsState' /\ StateFollowsBus'
  <2>1. state = "D_RECV" => moved' = recv_cnt + Len(beats')
    BY <1>0, <1>1, <1>3 DEF BusFollowsState
  <2>2. state = "D_BPRD" => moved' = Len(beats')
    BY <1>0, <1>1, <1>3 DEF BusFollowsState
  <2> QED
    BY <1>0, <1>1, <2>1, <2>2 DEF BusFollowsState, StateFollowsBus, SingleBeat, LineBurst
<1>8. CASE state = "D_RECV"
  <2>1. txn = LineBurst(LineOf(req)) /\ moved = recv_cnt + Len(beats)
    BY <1>8 DEF BusFollowsState
  <2>2. /\ beat.data = mem[LineOf(req)][recv_cnt + (Len(beats) + 1) - 1]
        /\ beat.last <=> recv_cnt + (Len(beats) + 1) - 1 = BlockWords - 1
    <3>1. /\ txn.word + moved = recv_cnt + (Len(beats) + 1) - 1 /\ txn.line = LineOf(req)
          /\ moved = recv_cnt + (Len(beats) + 1) - 1 /\ txn.len = BlockWords - 1
      BY <1>0, <2>1 DEF LineBurst
    <3> QED
      BY <1>2, <3>1
  <2>3. \A i \in 1 .. Len(beats') :
           /\ beats'[i].data = mem[LineOf(req)][recv_cnt + i - 1]
           /\ beats'[i].last <=> recv_cnt + i - 1 = BlockWords - 1
    <3> SUFFICES ASSUME NEW i \in 1 .. Len(beats')
                 PROVE  /\ beats'[i].data = mem[LineOf(req)][recv_cnt + i - 1]
                        /\ beats'[i].last <=> recv_cnt + i - 1 = BlockWords - 1
      OBVIOUS
    <3>1. CASE i \in 1 .. Len(beats)
      BY <1>3, <1>8, <3>1 DEF FillHolds
    <3>2. CASE i = Len(beats) + 1
      BY <1>3, <2>2, <3>2
    <3> QED
      BY <1>0, <1>3, <3>1, <3>2
  <2>4. FillHolds'
    BY <1>1, <1>8, <2>3 DEF FillHolds, FillIsMemory
  <2> QED
    BY <1>4, <1>5, <1>6, <1>7, <1>8, <2>4 DEF Coupling, SingleIsLast
<1>9. CASE state = "D_BPRD"
  <2>1. txn.len = 0 /\ moved = Len(beats)
    BY <1>9 DEF BusFollowsState, SingleBeat
  <2>2. Len(beats) = 0 /\ beat.last
    BY <1>0, <1>2, <2>1
  <2>3. SingleIsLast'
    BY <1>3, <2>2 DEF SingleIsLast
  <2>4. FillHolds'
    BY <1>9 DEF FillHolds, FillIsMemory
  <2> QED
    BY <1>4, <1>5, <1>6, <1>7, <2>3, <2>4 DEF Coupling
<1> QED
  BY <1>0, <1>8, <1>9

\* A memory write to a line that no way holds clean keeps what is stored.
LEMMA StoredWhenWritten ==
    ASSUME Stored, UNCHANGED <<valid, dirty, tags, data>>, NEW l \in Lines,
           \A s \in Sets, w \in Ways :
              valid[s][w] /\ ~dirty[s][w] => <<tags[s][w], s>> # l,
           \A k \in Lines : k # l => mem'[k] = mem[k],
           TypeOK
    PROVE  Stored'
<1>1. OneCopy' /\ BypassNotCached'
  BY DEF Stored, OneCopy, BypassNotCached
<1>2. CleanIsMemory'
  <2> SUFFICES ASSUME NEW s \in Sets, NEW w \in Ways, valid[s][w], ~dirty[s][w]
               PROVE  data[s][w] = mem'[<<tags[s][w], s>>]
    BY DEF CleanIsMemory
  <2>1. <<tags[s][w], s>> \in Lines
    BY DEF TypeOK, CacheTypeOK, Lines
  <2> QED
    BY <2>1 DEF Stored, CleanIsMemory
<1> QED
  BY <1>1, <1>2 DEF Stored

LEMMA RamWriteStep ==
    ASSUME CoherenceInv, RamWrite, UNCHANGED cacheVars PROVE Stored' /\ Coupling'
<1> USE DEF CoherenceInv, arrays, latches, counters, respFlags, cacheVars
<1>0. /\ phase \in {"WRITE", "WRITE_RESP"} /\ beats # <<>> /\ moved <= txn.len
      /\ beats \in Seq(Beats) /\ moved \in Nat /\ txn \in Txns /\ txn.line \in Lines
      /\ mem \in [Lines -> Blocks] /\ txn.word + moved \in Offsets
      /\ idx \in Sets /\ victim \in Ways
  BY RequestFields DEF RamWrite, TypeOK, AxiTypeOK, CacheTypeOK, Txns, BurstFits, Offsets, idx
<1>1. /\ UNCHANGED <<phase, txn>> /\ moved' = moved + 1
      /\ Len(beats) >= 1 /\ Len(beats') = Len(beats) - 1
      /\ \A i \in 1 .. Len(beats') : beats'[i] = beats[i + 1]
      /\ Head(beats) = beats[1]
  BY <1>0 DEF RamWrite
<1>2. \A k \in Lines : k # txn.line => mem'[k] = mem[k]
  BY <1>0 DEF RamWrite
<1>3. mem'[txn.line] = MergeBlock(mem[txn.line], txn.word + moved, beats[1].data, beats[1].strb)
  BY <1>0, <1>1 DEF RamWrite
<1>4. Stored'
  <2>1. \A s \in Sets, w \in Ways :
           valid[s][w] /\ ~dirty[s][w] => <<tags[s][w], s>> # txn.line
    <3> SUFFICES ASSUME NEW s \in Sets, NEW w \in Ways, valid[s][w], ~dirty[s][w],
                        <<tags[s][w], s>> = txn.line
                 PROVE  FALSE
      OBVIOUS
    <3>1. WritingBack
      BY <1>0 DEF WritingBack, BypassNotCached
    <3>2. s = idx /\ tags[s][w] = tags[idx][victim] /\ valid[idx][victim] /\ dirty[idx][victim]
      BY <3>1 DEF WriteBackHolds, LineBurst, VictimLine
    <3> QED
      BY <1>0, <3>2 DEF OneCopy
  <2> QED
    BY <1>0, <1>2, <2>1, StoredWhenWritten DEF Stored
<1>5. DecisionHolds' /\ SingleIsLast'
  BY <1>0, <1>1 DEF DecisionHolds, MissStates, BypassStates, bypass, Hit, HitWay, idx,
                    SingleIsLast, BusFollowsState
<1>6. BusFollowsState' /\ StateFollowsBus'
  <2>1. moved' + Len(beats') = moved + Len(beats)
    BY <1>0, <1>1
  <2>2. state \notin {"D_RECV", "D_BPRD", "D_BPWD", "D_REFILL"}
    BY <1>0 DEF BusFollowsState
  <2> QED
    BY <1>0, <1>1, <2>1, <2>2 DEF BusFollowsState, StateFollowsBus, LineBurst, idx
<1>7. LastMatchesLen'
  <2> SUFFICES ASSUME NEW i \in 1 .. Len(beats')
               PROVE  beats'[i].last <=> moved' + i - 1 = txn.len
    BY <1>1 DEF LastMatchesLen
  <2>1. i + 1 \in 1 .. Len(beats) /\ moved' + i - 1 = moved + (i + 1) - 1
    BY <1>0, <1>1
  <2>2. beats[i + 1].last <=> moved + (i + 1) - 1 = txn.len
    BY <1>0, <2>1 DEF LastMatchesLen
  <2>3. beats'[i] = beats[i + 1]
    BY <1>1
  <2> QED
    BY <2>1, <2>2, <2>3
<1>8. FillHolds'
  BY <1>0 DEF FillHolds, FillIsMemory, BusFollowsState
<1>9. VictimHolds'
  <2> SUFFICES ASSUME VictimSafe', valid[idx][victim]
               PROVE  data[idx][victim] = mem'[VictimLine]
    BY DEF VictimHolds, VictimLine, idx
  <2>1. VictimSafe /\ ~WritingBack
    BY <1>0, <1>1 DEF VictimSafe, WritingBack, BusFollowsState
  <2>2. txn.line \in BypassLines
    BY <1>0, <2>1 DEF WritingBack
  <2>3. VictimLine \in Lines /\ VictimLine # txn.line
    BY <1>0, <2>2 DEF BypassNotCached, VictimLine, Lines, TypeOK, CacheTypeOK
  <2> QED
    BY <1>2, <2>1, <2>3 DEF VictimHolds
<1>10. WriteBackHolds'
  <2> SUFFICES ASSUME WritingBack' PROVE WriteBackHolds'
    BY DEF WriteBackHolds
  <2>1. WritingBack /\ VictimLine = txn.line /\ txn.word = 0
    BY <1>1 DEF WritingBack, WriteBackHolds, LineBurst
  <2>2. /\ beats[1].data = data[idx][victim][moved] /\ beats[1].strb = Bytes
    <3>1. 1 \in 1 .. Len(beats) /\ moved + 1 - 1 = moved
      BY <1>0, <1>1
    <3> QED
      BY <2>1, <3>1 DEF WriteBackHolds
  <2>3. \A i \in 1 .. Len(beats') :
           /\ beats'[i].data = data[idx][victim][moved' + i - 1]
           /\ beats'[i].strb = Bytes
    <3> SUFFICES ASSUME NEW i \in 1 .. Len(beats')
                 PROVE  /\ beats'[i].data = data[idx][victim][moved' + i - 1]
                        /\ beats'[i].strb = Bytes
      OBVIOUS
    <3>1. i + 1 \in 1 .. Len(beats) /\ moved' + i - 1 = moved + (i + 1) - 1
      BY <1>0, <1>1
    <3> QED
      BY <1>1, <2>1, <3>1 DEF WriteBackHolds
  <2>4. \A j \in Offsets : j < moved' => mem'[txn.line][j] = data[idx][victim][j]
    <3> SUFFICES ASSUME NEW j \in Offsets, j < moved'
                 PROVE  mem'[txn.line][j] = data[idx][victim][j]
      OBVIOUS
    <3>1. mem[txn.line] \in Blocks /\ data[idx][victim] \in Blocks /\ moved \in Offsets
      BY <1>0, <2>1 DEF TypeOK, CacheTypeOK, Offsets
    <3>2. CASE j = moved
      <4>1. mem'[txn.line][moved] = MergeWord(mem[txn.line][moved], beats[1].data, beats[1].strb)
        BY <1>0, <1>3, <2>1, <3>1 DEF MergeBlock, Blocks
      <4>2. beats[1].data \in Words
        BY <2>2, <3>1 DEF Blocks
      <4>3. MergeWord(mem[txn.line][moved], beats[1].data, Bytes) = beats[1].data
        BY <4>2 DEF MergeWord, Words
      <4> QED
        BY <2>2, <3>2, <4>1, <4>3
    <3>3. CASE j # moved
      <4>1. mem'[txn.line][j] = mem[txn.line][j]
        BY <1>0, <1>3, <2>1, <3>1, <3>3 DEF MergeBlock, Blocks
      <4>2. j < moved
        BY <1>0, <1>1, <3>3 DEF Offsets
      <4> QED
        BY <2>1, <4>1, <4>2 DEF WriteBackHolds
    <3> QED
      BY <3>2, <3>3
  <2> QED
    BY <1>1, <2>1, <2>3, <2>4 DEF WriteBackHolds, VictimLine, LineBurst, idx
<1> QED
  BY <1>4, <1>5, <1>6, <1>7, <1>8, <1>9, <1>10 DEF Coupling

LEMMA WriteRespStep ==
    ASSUME CoherenceInv, AxiWriteResp, UNCHANGED cacheVars PROVE Stored' /\ Coupling'
<1> USE DEF CoherenceInv, AxiWriteResp, arrays, latches, counters, respFlags, cacheVars
<1>1. Stored'
  BY StoredKept DEF Stored
<1>2. beats = <<>> /\ beats' = <<>>
  <2>1. beats \in Seq(Beats) /\ moved \in Nat /\ txn.len \in Nat
    BY DEF TypeOK, AxiTypeOK, Txns, Offsets
  <2>2. Len(beats) = 0
    BY <2>1 DEF StateFollowsBus
  <2> QED
    BY <2>1, <2>2
<1>3. DecisionHolds' /\ FillHolds' /\ SingleIsLast' /\ LastMatchesLen'
  BY DEF DecisionHolds, FillHolds, FillIsMemory, SingleIsLast, LastMatchesLen,
         MissStates, BypassStates, bypass, Hit, HitWay, idx
<1>4. BusFollowsState' /\ StateFollowsBus' /\ WriteBackHolds'
  BY <1>2 DEF BusFollowsState, StateFollowsBus, WriteBackHolds, WritingBack
<1>5. VictimHolds'
  <2> SUFFICES ASSUME VictimSafe', valid[idx][victim]
               PROVE  data[idx][victim] = mem[VictimLine]
    BY DEF VictimHolds, VictimLine, idx
  <2>1. CASE VictimSafe
    BY <2>1 DEF VictimHolds
  <2>2. CASE ~VictimSafe
    <3>1. WritingBack
      BY <2>2 DEF VictimSafe, WritingBack
    <3>2. moved = BlockWords
      BY <3>1 DEF WriteBackHolds, LineBurst
    <3>3. \A j \in Offsets : mem[VictimLine][j] = data[idx][victim][j]
      BY <3>1, <3>2 DEF WriteBackHolds, Offsets
    <3>4. VictimLine \in Lines /\ data[idx][victim] \in Blocks
      BY RequestFields DEF TypeOK, CacheTypeOK, VictimLine, Lines, idx
    <3>5. mem[VictimLine] \in Blocks
      BY <3>4 DEF TypeOK, AxiTypeOK
    <3> QED
      BY <3>3, <3>4, <3>5 DEF Blocks
  <2> QED
    BY <2>1, <2>2
<1> QED
  BY <1>1, <1>3, <1>4, <1>5 DEF Coupling

LEMMA DeviceWriteStep ==
    ASSUME CoherenceInv, DeviceStep PROVE Stored' /\ Coupling'
<1> USE DEF CoherenceInv, arrays, latches, counters, respFlags, cacheVars
<1> PICK l \in BypassLines, o \in Offsets, d \in Words :
             mem' = [mem EXCEPT ![l] = MergeBlock(@, o, d, Bytes)]
  BY DEF DeviceStep, DeviceWrite
<1>0. UNCHANGED <<cacheVars, phase, txn, moved, beats>>
  BY DEF DeviceStep, DeviceWrite
<1>1. \A k \in Lines : k \notin BypassLines => mem'[k] = mem[k]
  BY DEF TypeOK, AxiTypeOK
<1>2. idx \in Sets /\ victim \in Ways /\ LineOf(req) \in Lines
  BY RequestFields DEF TypeOK, CacheTypeOK, idx
<1>3. \A s \in Sets, w \in Ways : valid[s][w] =>
          <<tags[s][w], s>> \in Lines /\ <<tags[s][w], s>> \notin BypassLines
  BY DEF BypassNotCached, TypeOK, CacheTypeOK, Lines
<1>4. Stored'
  BY <1>0, <1>1, <1>3, StoredWhenWritten DEF Stored
<1>5. valid[idx][victim] => mem'[VictimLine] = mem[VictimLine]
  BY <1>1, <1>2, <1>3 DEF VictimLine
<1>6. VictimHolds' /\ WriteBackHolds'
  BY <1>0, <1>5 DEF VictimHolds, VictimSafe, WriteBackHolds, WritingBack, VictimLine, idx
<1>7. ~bypass => mem'[LineOf(req)] = mem[LineOf(req)]
  BY <1>1, <1>2 DEF bypass
<1>8. state \in {"D_RECV", "D_REFILL"} => ~bypass
  BY DEF DecisionHolds, MissStates
<1>9. FillHolds'
  BY <1>0, <1>7, <1>8 DEF FillHolds, FillIsMemory, LineOf
<1>10. /\ BusFollowsState' /\ StateFollowsBus' /\ DecisionHolds'
       /\ SingleIsLast' /\ LastMatchesLen'
  BY <1>0 DEF BusFollowsState, StateFollowsBus, DecisionHolds, SingleIsLast, LastMatchesLen,
              MissStates, BypassStates, bypass, Hit, HitWay, idx, LineBurst, SingleBeat
<1> QED
  BY <1>4, <1>6, <1>9, <1>10 DEF Coupling

LEMMA StutterStep ==
    ASSUME CoherenceInv, UNCHANGED vars PROVE Stored' /\ Coupling'
<1> USE DEF CoherenceInv, arrays, latches, counters, respFlags, cacheVars, axiVars, vars
<1>1. Stored'
  BY StoredKept DEF Stored
<1>2. /\ BusFollowsState' /\ StateFollowsBus' /\ DecisionHolds'
      /\ SingleIsLast' /\ LastMatchesLen'
  BY DEF BusFollowsState, StateFollowsBus, DecisionHolds, SingleIsLast, LastMatchesLen,
         MissStates, BypassStates, bypass, Hit, HitWay, idx, LineBurst, SingleBeat
<1>3. VictimHolds' /\ WriteBackHolds' /\ FillHolds'
  BY DEF VictimHolds, VictimSafe, WriteBackHolds, WritingBack, VictimLine, idx,
         FillHolds, FillIsMemory, LineOf
<1> QED
  BY <1>1, <1>2, <1>3 DEF Coupling

LEMMA CoherenceStep == CoherenceInv /\ [Next]_vars => CoherenceInv'
<1> SUFFICES ASSUME CoherenceInv, [Next]_vars PROVE CoherenceInv'
  OBVIOUS
<1>1. TypeOK' /\ BurstFits'
  BY TypeStep DEF CoherenceInv
<1>2. Stored' /\ Coupling'
  <2>1. CASE CpuRequest \/ CpuResponse
    BY <2>1, RequestStep, ResponseStep
  <2>2. CASE LookupBypass \/ LookupHit \/ LookupMiss
    BY <2>2, LookupBypassStep, LookupHitStep, LookupMissStep
  <2>3. CASE StoreHit \/ FillLine
    BY <2>3, StoreHitStep, FillLineStep
  <2>4. CASE WriteBackReq \/ WriteBackBeat
    BY <2>4, WriteBackReqStep, WriteBackBeatStep
  <2>5. CASE LineReadReq \/ LineReadBeat
    BY <2>5, LineReadReqStep, LineReadBeatStep
  <2>6. CASE UncachedReadReq \/ UncachedReadBeat
    BY <2>6, UncachedReadReqStep, UncachedReadBeatStep
  <2>7. CASE UncachedWriteReq \/ UncachedWriteBeat
    BY <2>7, UncachedWriteReqStep, UncachedWriteBeatStep
  <2>8. CASE MemoryStep
    BY <2>8, RamReadStep, RamWriteStep, WriteRespStep DEF MemoryStep, AxiInternal
  <2>9. CASE DeviceStep
    BY <2>9, DeviceWriteStep
  <2>10. CASE UNCHANGED vars
    BY <2>10, StutterStep
  <2> QED
    BY <2>1, <2>2, <2>3, <2>4, <2>5, <2>6, <2>7, <2>8, <2>9, <2>10 DEF Next, CacheStep
<1> QED
  BY <1>1, <1>2 DEF CoherenceInv, Stored, Coupling

\* The invariant that carries the proofs holds in every behaviour.
THEOREM CoherenceInvariant == Spec => []CoherenceInv
<1>1. Init => CoherenceInv
  BY TypeInit, InitCoherent DEF CoherenceInv, Stored, Coupling
<1>2. CoherenceInv /\ [Next]_vars => CoherenceInv'
  BY CoherenceStep
<1> QED
  BY <1>1, <1>2, PTL DEF Spec

\* No line is twice in the cache, no bypass line is in it, and a clean line
\* is equal to memory.
THEOREM CacheIsCoherent == Spec => [](OneCopy /\ BypassNotCached /\ CleanIsMemory)
<1>1. CoherenceInv => OneCopy /\ BypassNotCached /\ CleanIsMemory
  BY DEF CoherenceInv
<1> QED
  BY CoherenceInvariant, <1>1, PTL

\* A clean line equals memory: an eviction may drop it (D_TAG, a miss).
THEOREM CleanLinesAreMemory == Spec => []CleanIsMemory
<1>1. CoherenceInv => CleanIsMemory
  BY DEF CoherenceInv
<1> QED
  BY CoherenceInvariant, <1>1, PTL

\* What devices write is never read from the cache (the bypass ranges).
THEOREM BypassIsNeverCached == Spec => []BypassNotCached
<1>1. CoherenceInv => BypassNotCached
  BY DEF CoherenceInv
<1> QED
  BY CoherenceInvariant, <1>1, PTL

\* The cache writes to cacheable memory only the words of a dirty line that
\* it still holds (D_WB, D_WBD).
THEOREM WritesAreAlwaysOwed == Spec => []WritesAreOwed
<1>1. CoherenceInv => WritesAreOwed
  <2> SUFFICES ASSUME CoherenceInv, WritingBack
               PROVE  \E w \in Ways : LET s == txn.line[2] IN
                        /\ Holds(s, w, txn.line[1]) /\ dirty[s][w]
                        /\ \A i \in 1 .. Len(beats) :
                              /\ beats[i].data = data[s][w][moved + i - 1]
                              /\ beats[i].strb = Bytes
    BY DEF WritesAreOwed, WritingBack
  <2>1. /\ txn.line[1] = tags[idx][victim] /\ txn.line[2] = idx
        /\ victim \in Ways
    BY DEF CoherenceInv, WriteBackHolds, LineBurst, VictimLine, TypeOK, CacheTypeOK
  <2> QED
    BY <2>1 DEF CoherenceInv, WriteBackHolds, Holds
<1> QED
  BY CoherenceInvariant, <1>1, PTL

\* Memory has the victim before the refill overwrites it, although the cache
\* reads the new line without waiting for the answer to its write.
THEOREM VictimIsAlwaysSaved == Spec => []VictimIsSaved
<1>1. CoherenceInv => VictimIsSaved
  BY DEF CoherenceInv, VictimHolds, VictimSafe, VictimIsSaved, VictimLine
<1> QED
  BY CoherenceInvariant, <1>1, PTL

\* WLAST and AWLEN agree: the interconnect and the RAM end a burst together.
THEOREM LastAlwaysMatches == Spec => []LastMatchesLen
<1>1. CoherenceInv => LastMatchesLen
  BY DEF CoherenceInv
<1> QED
  BY CoherenceInvariant, <1>1, PTL

-----------------------------------------------------------------------------
(***************************************************************************)
(* The data cache and the memory behind it implement the coherent memory:  *)
(* every step of the cache is a step of the promise or leaves what the CPU *)
(* sees as it was.                                                         *)
(***************************************************************************)

\* An uncached write is one beat: the cache asks for no burst in D_BPW.
UncachedIsSingle ==
    phase \in {"WRITE", "WRITE_RESP"} /\ txn.line \in BypassLines => txn.len = 0

IInv == CoherenceInv /\ UncachedIsSingle

LEMMA VictimCacheable ==
    ASSUME CoherenceInv, state \in {"D_WB", "D_WBD"} PROVE <<wb_tag, idx>> \notin BypassLines
<1>1. /\ valid[idx][victim] /\ wb_tag = tags[idx][victim] /\ idx \in Sets /\ victim \in Ways
  BY RequestFields DEF CoherenceInv, DecisionHolds, TypeOK, CacheTypeOK, idx
<1> QED
  BY <1>1 DEF CoherenceInv, BypassNotCached

LEMMA UncachedIsSingleStep ==
    ASSUME CoherenceInv, UncachedIsSingle, [Next]_vars PROVE UncachedIsSingle'
<1> USE DEF UncachedIsSingle
<1>1. CASE WriteBackReq
  BY <1>1, VictimCacheable DEF WriteBackReq, WbReq, AxiWriteReq
<1>2. CASE UncachedWriteReq
  BY <1>2 DEF UncachedWriteReq, AxiWriteReq
<1>3. CASE LineReadReq \/ UncachedReadReq
  BY <1>3 DEF LineReadReq, UncachedReadReq, AxiReadReq
<1>4. CASE LineReadBeat \/ UncachedReadBeat
  BY <1>4 DEF LineReadBeat, UncachedReadBeat, AxiReadBeat
<1>5. CASE WriteBackBeat \/ UncachedWriteBeat
  BY <1>5 DEF WriteBackBeat, UncachedWriteBeat, AxiWriteBeat
<1>6. CASE MemoryStep
  BY <1>6 DEF MemoryStep, AxiInternal, RamRead, RamWrite, AxiWriteResp
<1>7. CASE UNCHANGED <<phase, txn>>
  BY <1>7
<1> QED
  BY <1>1, <1>2, <1>3, <1>4, <1>5, <1>6, <1>7
     DEF Next, CacheStep, CpuRequest, CpuResponse, LookupBypass, LookupHit, LookupMiss,
         StoreHit, FillLine, DeviceStep, DeviceWrite, axiVars, vars

LEMMA Invariance == Spec => []IInv
<1>1. Init => UncachedIsSingle
  BY DEF Init, AxiInit, UncachedIsSingle
<1>2. CoherenceInv /\ UncachedIsSingle /\ [Next]_vars => UncachedIsSingle'
  BY UncachedIsSingleStep
<1> QED
  BY CoherenceInvariant, <1>1, <1>2, PTL DEF Spec, IInv

-----------------------------------------------------------------------------
(***************************************************************************)
(* The memory the CPU sees.                                                *)
(***************************************************************************)

CachedIsSeen ==
    \A s \in Sets, t \in Tags, w \in Ways :
        Holds(s, w, t) => SeenMemory[<<t, s>>] = data[s][w]

MemoryIsSeen ==
    \A s \in Sets, t \in Tags :
        (\A w \in Ways : ~Holds(s, w, t)) => SeenMemory[<<t, s>>] = mem[<<t, s>>]

LEMMA SeenFacts == OneCopy => CachedIsSeen /\ MemoryIsSeen
<1> SUFFICES ASSUME OneCopy, NEW s \in Sets, NEW t \in Tags
             PROVE  /\ \A w \in Ways : Holds(s, w, t) => SeenMemory[<<t, s>>] = data[s][w]
                    /\ (\A w \in Ways : ~Holds(s, w, t)) => SeenMemory[<<t, s>>] = mem[<<t, s>>]
  BY DEF CachedIsSeen, MemoryIsSeen
<1> DEFINE l == <<t, s>>
           hits == {u \in Ways : Holds(l[2], u, l[1])}
<1>1. l \in Lines /\ l[1] = t /\ l[2] = s
  BY DEF Lines
<1>2. SeenMemory[l] = IF hits = {} THEN mem[l] ELSE data[l[2]][CHOOSE u \in hits : TRUE]
  BY <1>1 DEF SeenMemory, SeenBy
<1>3. ASSUME NEW w \in Ways, Holds(s, w, t) PROVE SeenMemory[l] = data[s][w]
  <2>1. hits = {w}
    BY <1>1, <1>3 DEF OneCopy, Holds
  <2>2. (CHOOSE u \in hits : TRUE) = w
    BY <2>1
  <2> QED
    BY <1>1, <1>2, <2>1, <2>2
<1>4. ASSUME \A w \in Ways : ~Holds(s, w, t) PROVE SeenMemory[l] = mem[l]
  <2>1. hits = {}
    BY <1>1, <1>4
  <2> QED
    BY <1>2, <2>1
<1> QED
  BY <1>3, <1>4

\* The same facts in the next state.
LEMMA SeenFactsNext == OneCopy' => CachedIsSeen' /\ MemoryIsSeen'
BY SeenFacts, PTL

\* Two functions on the lines that agree are equal: how the steps below
\* compare the memory before and after.
LEMMA SeenShape ==
    /\ SeenMemory = [l \in Lines |-> SeenMemory[l]]
    /\ \A l \in Lines : l = <<l[1], l[2]>> /\ l[1] \in Tags /\ l[2] \in Sets
<1>1. SeenMemory = [l \in Lines |-> SeenMemory[l]]
  BY DEF SeenMemory
<1> QED
  BY <1>1 DEF Lines

LEMMA SeenKept ==
    ASSUME UNCHANGED <<valid, tags, data, mem>> PROVE SeenMemory' = SeenMemory
<1>1. \A l \in Lines : SeenBy(l)' = SeenBy(l)
  BY DEF SeenBy, Holds
<1> QED
  BY <1>1 DEF SeenMemory

\* A store that merges into a line the CPU sees changes that line only.
LEMMA SeenStored ==
    ASSUME NEW r \in Requests,
           SeenMemory'[LineOf(r)] =
               MergeBlock(SeenMemory[LineOf(r)], r.woff, r.wdata, r.wstrb),
           \A l \in Lines : l # LineOf(r) => SeenMemory'[l] = SeenMemory[l]
    PROVE  SeenMemory' = [SeenMemory EXCEPT ![LineOf(r)] =
                              MergeBlock(@, r.woff, r.wdata, r.wstrb)]
<1>1. /\ SeenMemory = [l \in Lines |-> SeenMemory[l]]
      /\ SeenMemory' = [l \in Lines |-> SeenMemory'[l]]
  BY SeenShape DEF SeenMemory
<1> QED
  BY <1>1, RequestFields

-----------------------------------------------------------------------------
(***************************************************************************)
(* Steps that the CPU does not see, or that only ask, answer or post.      *)
(***************************************************************************)

seen == <<SeenMemory, req, SeenStage, SeenAnswer, SeenPosted>>

\* Nothing is posted unless an uncached word is on its way.
LEMMA NothingPosted ==
    ASSUME phase \notin {"WRITE", "WRITE_RESP"} \/ txn.line \notin BypassLines \/ beats = <<>>
    PROVE  SeenPosted = <<>>
BY DEF SeenPosted

\* The promise is about the same words, lines and requests.
LEMMA SameTypes ==
    /\ Promise!ZeroWord = ZeroWord /\ Promise!Requests = Requests
    /\ Promise!Lines = Lines /\ Promise!Blocks = Blocks
    /\ Promise!Offsets = Offsets /\ Promise!Words = Words
    /\ \A r \in Requests : Promise!LineOf(r) = LineOf(r) /\ (Promise!IsBypass(r) <=> LineOf(r) \in BypassLines)
    /\ \A block, o, d, s : Promise!MergeBlock(block, o, d, s) = MergeBlock(block, o, d, s)
<1> USE DEF ZeroWord, Promise!ZeroWord, Lines, Promise!Lines, Offsets, Promise!Offsets,
            Words, Promise!Words, Blocks, Promise!Blocks, LineOf, Promise!LineOf
<1>1. Promise!Requests = Requests
  BY DEF Requests, Promise!Requests
<1>2. \A block, o, d, s : Promise!MergeBlock(block, o, d, s) = MergeBlock(block, o, d, s)
  BY DEF MergeBlock, Promise!MergeBlock, MergeWord, Promise!MergeWord
<1> QED
  BY <1>1, <1>2 DEF Promise!IsBypass

LEMMA AskStep == ASSUME IInv, CpuRequest PROVE Promise!Ask
<1> USE DEF CpuRequest, Wait, axiVars
<1>1. SeenMemory' = SeenMemory /\ SeenPosted' = SeenPosted
  BY SeenKept DEF arrays, SeenPosted
<1>2. SeenStage = "free" /\ SeenStage' = "asked"
  BY DEF SeenStage, WordIsRead
<1>3. SeenAnswer' = SeenAnswer
  BY DEF SeenAnswer, WordIsRead
<1> QED
  BY <1>1, <1>2, <1>3, SameTypes DEF Promise!Ask

LEMMA TakeStep == ASSUME IInv, CpuResponse PROVE Promise!Take
<1> USE DEF CpuResponse, Resp, axiVars
<1>1. SeenMemory' = SeenMemory /\ SeenPosted' = SeenPosted
  BY SeenKept DEF arrays, SeenPosted
<1>2. SeenStage = "answered" /\ SeenStage' = "free"
  BY DEF SeenStage, WordIsRead
<1>3. SeenAnswer' = ZeroWord
  BY DEF SeenAnswer, WordIsRead
<1> QED
  BY <1>1, <1>2, <1>3, SameTypes DEF Promise!Take

LEMMA QuietLookup ==
    ASSUME IInv, LookupBypass \/ LookupMiss \/ (LookupHit /\ req.wr) PROVE UNCHANGED seen
<1>1. /\ state = "D_TAG" /\ UNCHANGED <<valid, tags, data, req, mem, phase, txn, beats>>
      /\ state' \in {"D_BPW", "D_BPR", "D_WB", "D_MREQ", "D_WHIT"}
  <2>1. CASE LookupBypass
    BY <2>1 DEF LookupBypass, TagBypass, arrays, axiVars
  <2>2. CASE LookupMiss
    BY <2>2 DEF LookupMiss, TagMiss, arrays, axiVars
  <2>3. CASE LookupHit /\ req.wr
    BY <2>3 DEF LookupHit, TagHit, arrays, axiVars
  <2> QED
    BY <2>1, <2>2, <2>3
<1>2. SeenMemory' = SeenMemory /\ SeenPosted' = SeenPosted
  BY <1>1, SeenKept DEF SeenPosted
<1>3. SeenStage' = SeenStage /\ SeenAnswer' = SeenAnswer
  BY <1>1 DEF SeenStage, SeenAnswer, WordIsRead
<1> QED
  BY <1>1, <1>2, <1>3 DEF seen

LEMMA QuietBus ==
    ASSUME IInv,
           \/ WriteBackReq \/ WriteBackBeat \/ LineReadReq \/ LineReadBeat
           \/ UncachedReadReq \/ UncachedWriteReq
    PROVE  UNCHANGED seen
<1> USE DEF IInv, CoherenceInv, arrays
<1>1. UNCHANGED <<valid, tags, data, mem, req>>
  BY DEF WriteBackReq, WbReq, WriteBackBeat, WbBeat, LineReadReq, MemReq, LineReadBeat, Recv,
         UncachedReadReq, BypassReadReq, UncachedWriteReq, BypassWriteReq,
         AxiReadReq, AxiWriteReq, AxiReadBeat, AxiWriteBeat
<1>2. /\ state \in {"D_WB", "D_WBD", "D_MREQ", "D_RECV", "D_BPR", "D_BPW"}
      /\ state' \in {"D_WBD", "D_MREQ", "D_RECV", "D_REFILL", "D_BPRD", "D_BPWD"}
      /\ state' = "D_BPRD" => beats' = <<>>
  BY DEF WriteBackReq, WbReq, WriteBackBeat, WbBeat, LineReadReq, MemReq, LineReadBeat, Recv,
         UncachedReadReq, BypassReadReq, UncachedWriteReq, BypassWriteReq,
         AxiReadReq, StateFollowsBus
<1>3. SeenStage' = SeenStage /\ SeenAnswer' = SeenAnswer
  BY <1>2 DEF SeenStage, SeenAnswer, WordIsRead
<1>4. SeenPosted = <<>> /\ SeenPosted' = <<>>
  <2>1. CASE WriteBackReq \/ LineReadReq \/ UncachedReadReq \/ UncachedWriteReq
    <3>1. phase = "IDLE" /\ beats = <<>> /\ beats' = <<>>
      BY <2>1 DEF WriteBackReq, LineReadReq, UncachedReadReq, UncachedWriteReq,
                  AxiReadReq, AxiWriteReq, StateFollowsBus
    <3> QED
      BY <3>1 DEF SeenPosted
  <2>2. CASE WriteBackBeat
    <3>1. phase = "WRITE" /\ txn = LineBurst(<<wb_tag, idx>>) /\ txn' = txn
      BY <2>2 DEF WriteBackBeat, WbBeat, AxiWriteBeat, BusFollowsState
    <3>2. <<wb_tag, idx>> \notin BypassLines
      BY <2>2, VictimCacheable DEF WriteBackBeat, WbBeat
    <3> QED
      BY <3>1, <3>2 DEF SeenPosted, LineBurst
  <2>3. CASE LineReadBeat
    BY <2>3 DEF LineReadBeat, AxiReadBeat, SeenPosted
  <2> QED
    BY <2>1, <2>2, <2>3
<1> QED
  BY <1>1, <1>3, <1>4, SeenKept DEF seen

\* The word of an uncached load was read from memory when the RAM read it;
\* the beat only brings it.
LEMMA QuietBeat == ASSUME IInv, UncachedReadBeat PROVE UNCHANGED seen
<1> USE DEF IInv, CoherenceInv
<1>1. /\ state = "D_BPRD" /\ beats # <<>> /\ phase = "READ" /\ state' = "D_RESP"
      /\ resp_is_bypass' = TRUE /\ refill_buf' = [refill_buf EXCEPT ![0] = Head(beats).data]
      /\ UNCHANGED <<valid, tags, data, mem, req>> /\ phase' \in {"READ", "IDLE"}
  BY DEF UncachedReadBeat, BypassRead, AxiReadBeat, arrays
<1>2. SeenStage = "answered" /\ SeenStage' = "answered"
  BY <1>1 DEF SeenStage, WordIsRead
<1>3. refill_buf \in Blocks /\ 0 \in Offsets
  BY BlockWordsAssumption DEF TypeOK, CacheTypeOK, Offsets
<1>4. SeenAnswer = Head(beats).data
  BY <1>1 DEF SeenAnswer, WordIsRead
<1>5. SeenAnswer' = Head(beats).data
  <2>1. CpuRspData' = refill_buf'[0]
    BY <1>1 DEF CpuRspData
  <2>2. refill_buf'[0] = Head(beats).data
    BY <1>1, <1>3 DEF Blocks
  <2> QED
    BY <1>1, <2>1, <2>2 DEF SeenAnswer, WordIsRead
<1>6. SeenPosted' = SeenPosted
  BY <1>1 DEF SeenPosted
<1> QED
  BY <1>1, <1>2, <1>4, <1>5, <1>6, SeenKept DEF seen

\* A load that hits is answered with the word the CPU sees.
LEMMA HitLoads == ASSUME IInv, LookupHit, ~req.wr PROVE Promise!Load
<1> USE DEF IInv, CoherenceInv
<1> PICK w \in Ways : TagHit(w) /\ UNCHANGED axiVars
  BY DEF LookupHit
<1>0. /\ req \in Requests /\ idx \in Sets /\ req.tag \in Tags /\ req.woff \in Offsets
      /\ LineOf(req) = <<req.tag, idx>>
  BY RequestFields DEF TypeOK, CacheTypeOK, idx, LineOf
<1>1. /\ state = "D_TAG" /\ state' = "D_RESP" /\ LineOf(req) \notin BypassLines
      /\ acc_block' = data[idx][w] /\ resp_from_buf' = FALSE /\ resp_is_bypass' = FALSE
      /\ Holds(idx, w, req.tag)
      /\ UNCHANGED <<valid, tags, data, mem, req>>
  BY DEF TagHit, HitSel, HitWay, Holds, bypass, arrays, axiVars
<1>2. SeenMemory[LineOf(req)] = data[idx][w]
  BY <1>0, <1>1, SeenFacts DEF CachedIsSeen
<1>3. SeenAnswer' = SeenMemory[LineOf(req)][req.woff]
  BY <1>1, <1>2 DEF SeenAnswer, WordIsRead, CpuRspData, RespBlock
<1>4. SeenStage = "asked" /\ SeenStage' = "answered"
  BY <1>1 DEF SeenStage, WordIsRead
<1>5. SeenPosted' = SeenPosted
  BY DEF SeenPosted, axiVars
<1> QED
  BY <1>0, <1>1, <1>3, <1>4, <1>5, SeenKept, SameTypes DEF Promise!Load

\* A store that hits is done when the merged block is written back to the
\* way: acc_block is still the block of the line.
LEMMA HitStores == ASSUME IInv, IInv', StoreHit PROVE Promise!StoreCached
<1> USE DEF IInv, CoherenceInv
<1>0. /\ req \in Requests /\ idx \in Sets /\ req.tag \in Tags /\ acc_way \in Ways
      /\ LineOf(req) = <<req.tag, idx>>
  BY RequestFields DEF TypeOK, CacheTypeOK, idx, LineOf
<1>1. /\ state = "D_WHIT" /\ state' = "D_WAIT" /\ req.wr /\ LineOf(req) \notin BypassLines
      /\ Holds(idx, acc_way, req.tag) /\ acc_block = data[idx][acc_way]
      /\ data' = [data EXCEPT ![idx][acc_way] = Merged(acc_block)]
      /\ UNCHANGED <<valid, tags, mem, req, phase, txn, beats>>
  BY DEF StoreHit, WriteHit, DecisionHolds, HitWay, Holds, bypass, axiVars
<1>2. \A s \in Sets, w \in Ways, t \in Tags : valid'[s][w] /\ tags'[s][w] = t <=> Holds(s, w, t)
  BY <1>1 DEF Holds
<1>3. /\ data'[idx][acc_way] = Merged(acc_block)
      /\ \A s \in Sets, w \in Ways : ~(s = idx /\ w = acc_way) => data'[s][w] = data[s][w]
  BY <1>0, <1>1 DEF TypeOK, CacheTypeOK
<1>4. CachedIsSeen /\ MemoryIsSeen /\ CachedIsSeen' /\ MemoryIsSeen'
  BY SeenFacts, SeenFactsNext
<1>5. SeenMemory[LineOf(req)] = acc_block /\ SeenMemory'[LineOf(req)] = Merged(acc_block)
  BY <1>0, <1>1, <1>2, <1>3, <1>4 DEF CachedIsSeen, Holds
<1>6. ASSUME NEW l \in Lines, l # LineOf(req) PROVE SeenMemory'[l] = SeenMemory[l]
  <2>1. l = <<l[1], l[2]>> /\ l[1] \in Tags /\ l[2] \in Sets
    BY SeenShape
  <2>2. CASE \A w \in Ways : ~Holds(l[2], w, l[1])
    BY <1>1, <1>2, <1>4, <2>1, <2>2 DEF MemoryIsSeen, Holds
  <2>3. ASSUME NEW w \in Ways, Holds(l[2], w, l[1]) PROVE SeenMemory'[l] = SeenMemory[l]
    <3>1. ~(l[2] = idx /\ w = acc_way)
      BY <1>0, <1>1, <1>6, <2>1, <2>3 DEF Holds
    <3> QED
      BY <1>2, <1>3, <1>4, <2>1, <2>3, <3>1 DEF CachedIsSeen, Holds
  <2> QED
    BY <2>2, <2>3
<1>7. SeenMemory' = [SeenMemory EXCEPT ![LineOf(req)] =
                         MergeBlock(@, req.woff, req.wdata, req.wstrb)]
  BY <1>0, <1>5, <1>6, SeenStored DEF Merged
<1>8. /\ SeenStage = "asked" /\ SeenStage' = "free"
      /\ SeenAnswer' = SeenAnswer /\ SeenPosted' = SeenPosted
  BY <1>1 DEF SeenStage, SeenAnswer, SeenPosted, WordIsRead
<1> QED
  BY <1>0, <1>1, <1>7, <1>8, SameTypes DEF Promise!StoreCached

-----------------------------------------------------------------------------
(***************************************************************************)
(* The refill: the line appears in the cache, its victim leaves it, and    *)
(* the CPU sees no more than its own load or store.                        *)
(***************************************************************************)

LEMMA FillSeen ==
    ASSUME IInv, IInv', FillLine
    PROVE  /\ SeenMemory[LineOf(req)] = refill_buf
           /\ SeenMemory'[LineOf(req)] = IF req.wr THEN Merged(refill_buf) ELSE refill_buf
           /\ \A l \in Lines : l # LineOf(req) => SeenMemory'[l] = SeenMemory[l]
<1> USE DEF IInv, CoherenceInv
<1> DEFINE filled == IF req.wr THEN Merged(refill_buf) ELSE refill_buf
<1>0. /\ idx \in Sets /\ req.tag \in Tags /\ victim \in Ways
      /\ LineOf(req) = <<req.tag, idx>>
  BY RequestFields DEF TypeOK, CacheTypeOK, idx, LineOf
<1>1. state = "D_REFILL" /\ ~Hit /\ refill_buf = mem[LineOf(req)] /\ mem' = mem
  BY DEF FillLine, Refill, DecisionHolds, MissStates, FillHolds, FillIsMemory, axiVars
<1>2. /\ valid'[idx][victim] /\ tags'[idx][victim] = req.tag /\ data'[idx][victim] = filled
      /\ \A s \in Sets, w \in Ways : ~(s = idx /\ w = victim) =>
            /\ valid'[s][w] = valid[s][w] /\ tags'[s][w] = tags[s][w]
            /\ data'[s][w] = data[s][w]
  <2>1. /\ valid \in [Sets -> [Ways -> BOOLEAN]] /\ tags \in [Sets -> [Ways -> Tags]]
        /\ data \in [Sets -> [Ways -> Blocks]]
    BY DEF TypeOK, CacheTypeOK
  <2>2. /\ valid' = [valid EXCEPT ![idx][victim] = TRUE]
        /\ tags' = [tags EXCEPT ![idx][victim] = req.tag]
        /\ data' = [data EXCEPT ![idx][victim] = filled]
    BY DEF FillLine, Refill
  <2> HIDE DEF filled, IInv
  <2> QED
    BY <1>0, <2>1, <2>2
<1>3. CachedIsSeen /\ MemoryIsSeen /\ CachedIsSeen' /\ MemoryIsSeen'
  BY SeenFacts, SeenFactsNext
<1>4. SeenMemory[LineOf(req)] = refill_buf
  BY <1>0, <1>1, <1>3 DEF MemoryIsSeen, Holds, Hit, HitWay
<1>5. SeenMemory'[LineOf(req)] = filled
  BY <1>0, <1>2, <1>3 DEF CachedIsSeen, Holds
<1>6. ASSUME NEW l \in Lines, l # LineOf(req) PROVE SeenMemory'[l] = SeenMemory[l]
  <2>1. l = <<l[1], l[2]>> /\ l[1] \in Tags /\ l[2] \in Sets
    BY SeenShape
  <2>2. ASSUME NEW w \in Ways, Holds(l[2], w, l[1]), ~(l[2] = idx /\ w = victim)
        PROVE  SeenMemory'[l] = SeenMemory[l]
    BY <1>2, <1>3, <2>1, <2>2 DEF CachedIsSeen, Holds
  <2>3. ASSUME \A w \in Ways : Holds(l[2], w, l[1]) => l[2] = idx /\ w = victim
        PROVE  SeenMemory'[l] = mem[l]
    <3>1. \A w \in Ways : ~(valid'[l[2]][w] /\ tags'[l[2]][w] = l[1])
      BY <1>0, <1>2, <1>6, <2>1, <2>3 DEF Holds
    <3> QED
      BY <1>1, <1>3, <2>1, <3>1 DEF MemoryIsSeen, Holds
  <2>4. ASSUME \A w \in Ways : Holds(l[2], w, l[1]) => l[2] = idx /\ w = victim
        PROVE  SeenMemory[l] = mem[l]
    <3>1. CASE l[2] = idx /\ Holds(l[2], victim, l[1])
      <4>1. valid[idx][victim] /\ l = VictimLine
        BY <2>1, <3>1 DEF Holds, VictimLine
      <4>2. data[idx][victim] = mem[l]
        BY <1>1, <4>1 DEF VictimHolds, VictimSafe
      <4> QED
        BY <1>0, <1>3, <2>1, <3>1, <4>2 DEF CachedIsSeen
    <3>2. CASE ~(l[2] = idx /\ Holds(l[2], victim, l[1]))
      BY <1>3, <2>1, <2>4, <3>2 DEF MemoryIsSeen
    <3> QED
      BY <3>1, <3>2
  <2> QED
    BY <2>2, <2>3, <2>4
<1> QED
  BY <1>4, <1>5, <1>6

LEMMA FillStep ==
    ASSUME IInv, IInv', FillLine PROVE Promise!Load \/ Promise!StoreCached
<1> USE DEF IInv, CoherenceInv
<1>0. req \in Requests /\ req.woff \in Offsets /\ req.wr \in BOOLEAN
  BY RequestFields DEF TypeOK, CacheTypeOK
<1>1. /\ state = "D_REFILL" /\ LineOf(req) \notin BypassLines /\ ~resp_is_bypass
      /\ state' = (IF req.wr THEN "D_WAIT" ELSE "D_RESP")
      /\ ~req.wr => resp_from_buf' = TRUE
      /\ UNCHANGED <<req, refill_buf, resp_is_bypass, phase, txn, beats>>
  BY DEF FillLine, Refill, DecisionHolds, MissStates, bypass, axiVars, counters
<1>2. SeenPosted' = SeenPosted /\ SeenStage = "asked"
  BY <1>1 DEF SeenPosted, SeenStage, WordIsRead
<1>3. CASE req.wr
  <2>1. SeenMemory' = [SeenMemory EXCEPT ![LineOf(req)] =
                           MergeBlock(@, req.woff, req.wdata, req.wstrb)]
    BY <1>0, <1>3, FillSeen, SeenStored DEF Merged
  <2>2. SeenStage' = "free" /\ SeenAnswer' = SeenAnswer
    BY <1>1, <1>3 DEF SeenStage, SeenAnswer, WordIsRead
  <2> QED
    BY <1>0, <1>1, <1>2, <1>3, <2>1, <2>2, SameTypes DEF Promise!StoreCached
<1>4. CASE ~req.wr
  <2>1. \A l \in Lines : SeenMemory'[l] = SeenMemory[l]
    BY <1>4, FillSeen
  <2>2. SeenMemory' = [l \in Lines |-> SeenMemory'[l]]
    BY DEF SeenMemory
  <2>3. SeenMemory' = SeenMemory
    BY <2>1, <2>2, SeenShape
  <2>4. SeenAnswer' = refill_buf[req.woff]
    BY <1>1, <1>4 DEF SeenAnswer, WordIsRead, CpuRspData, RespBlock
  <2>5. SeenStage' = "answered"
    BY <1>1, <1>4 DEF SeenStage, WordIsRead
  <2> QED
    BY <1>0, <1>1, <1>2, <1>4, <2>3, <2>4, <2>5, FillSeen, SameTypes DEF Promise!Load
<1> QED
  BY <1>0, <1>3, <1>4

\* The W handshake of an uncached store posts it; the CPU went on before.
LEMMA PostStep == ASSUME IInv, UncachedWriteBeat PROVE Promise!Post
<1> USE DEF IInv, CoherenceInv
<1>0. req \in Requests /\ LineOf(req) \in Lines
  BY RequestFields DEF TypeOK, CacheTypeOK
<1>1. /\ state = "D_BPWD" /\ state' = "D_WAIT" /\ phase' = "WRITE_RESP"
      /\ beats = <<>> /\ txn = SingleBeat /\ txn' = txn
      /\ req.wr /\ LineOf(req) \in BypassLines
      /\ UNCHANGED <<valid, tags, data, mem, req>>
  BY DEF UncachedWriteBeat, BypassWrite, AxiWriteBeat, BusFollowsState, DecisionHolds,
         BypassStates, bypass, arrays
<1>2. beats' = <<[data |-> req.wdata, strb |-> req.wstrb, last |-> TRUE]>>
  BY <1>1 DEF UncachedWriteBeat, AxiWriteBeat
<1>3. SeenPosted = <<>>
  BY <1>1 DEF SeenPosted
<1>4. SeenPosted' = <<[line |-> LineOf(req), woff |-> req.woff,
                       data |-> req.wdata, strb |-> req.wstrb]>>
  <2>1. /\ beats' # <<>> /\ Head(beats').data = req.wdata /\ Head(beats').strb = req.wstrb
        /\ txn'.line = LineOf(req) /\ txn'.word = req.woff
    BY <1>1, <1>2 DEF SingleBeat
  <2> QED
    BY <1>1, <2>1 DEF SeenPosted
<1>5. /\ SeenStage = "asked" /\ SeenStage' = "free" /\ SeenAnswer' = SeenAnswer
  BY <1>1 DEF SeenStage, SeenAnswer, WordIsRead
<1> QED
  BY <1>0, <1>1, <1>3, <1>4, <1>5, SeenKept, SameTypes DEF Promise!Post

-----------------------------------------------------------------------------
(***************************************************************************)
(* Steps of the memory.                                                    *)
(***************************************************************************)

\* What the cache holds does not change, and neither does what the CPU sees
\* of the lines whose memory is unchanged.
LEMMA SeenElsewhere ==
    ASSUME OneCopy, OneCopy', UNCHANGED <<valid, tags, data>>,
           NEW l \in Lines, mem'[l] = mem[l] \/ \E w \in Ways : Holds(l[2], w, l[1])
    PROVE  SeenMemory'[l] = SeenMemory[l]
<1>1. CachedIsSeen /\ MemoryIsSeen /\ CachedIsSeen' /\ MemoryIsSeen'
  BY SeenFacts, SeenFactsNext
<1>2. l = <<l[1], l[2]>> /\ l[1] \in Tags /\ l[2] \in Sets
  BY SeenShape
<1>3. ASSUME NEW w \in Ways, Holds(l[2], w, l[1]) PROVE SeenMemory'[l] = SeenMemory[l]
  BY <1>1, <1>2, <1>3 DEF CachedIsSeen, Holds
<1>4. CASE \A w \in Ways : ~Holds(l[2], w, l[1])
  BY <1>1, <1>2, <1>4 DEF MemoryIsSeen, Holds
<1> QED
  BY <1>3, <1>4

\* A bypass line is seen in memory.
LEMMA SeenBypass ==
    ASSUME OneCopy, BypassNotCached, NEW l \in BypassLines
    PROVE  l \in Lines /\ SeenMemory[l] = mem[l]
<1>1. l \in Lines
  BY BypassAssumption
<1>2. l = <<l[1], l[2]>> /\ l[1] \in Tags /\ l[2] \in Sets
  BY <1>1, SeenShape
<1>3. \A w \in Ways : ~Holds(l[2], w, l[1])
  BY <1>2 DEF BypassNotCached, Holds
<1> QED
  BY <1>1, <1>2, <1>3, SeenFacts DEF MemoryIsSeen

\* A word of a bypass line is changed in memory and in nothing else.
LEMMA SeenWritten ==
    ASSUME IInv, IInv', UNCHANGED <<valid, tags, data>>,
           NEW l \in BypassLines, NEW block, mem' = [mem EXCEPT ![l] = block]
    PROVE  SeenMemory' = [SeenMemory EXCEPT ![l] = block]
<1>1. OneCopy /\ OneCopy' /\ BypassNotCached /\ BypassNotCached' /\ mem \in [Lines -> Blocks]
  BY DEF IInv, CoherenceInv, TypeOK, AxiTypeOK
<1>2. l \in Lines /\ l = <<l[1], l[2]>> /\ l[1] \in Tags /\ l[2] \in Sets
  BY BypassAssumption, SeenShape
<1>3. SeenMemory'[l] = block
  <2>1. \A w \in Ways : ~(valid'[l[2]][w] /\ tags'[l[2]][w] = l[1])
    BY <1>1, <1>2 DEF BypassNotCached
  <2>2. SeenMemory'[l] = mem'[l]
    BY <1>1, <1>2, <2>1, SeenFactsNext DEF MemoryIsSeen, Holds
  <2> QED
    BY <1>1, <1>2, <2>2
<1>4. \A k \in Lines : k # l => SeenMemory'[k] = SeenMemory[k]
  BY <1>1, SeenElsewhere
<1>5. /\ SeenMemory = [k \in Lines |-> SeenMemory[k]]
      /\ SeenMemory' = [k \in Lines |-> SeenMemory'[k]]
  BY SeenShape DEF SeenMemory
<1> QED
  BY <1>2, <1>3, <1>4, <1>5

LEMMA DeviceImplements == ASSUME IInv, IInv', DeviceStep PROVE Promise!Device
<1>1. PICK l \in BypassLines, o \in Offsets, d \in Words :
          mem' = [mem EXCEPT ![l] = MergeBlock(@, o, d, Bytes)]
  BY DEF DeviceStep, DeviceWrite
<1>2. UNCHANGED <<phase, txn, moved, beats>> /\ UNCHANGED cacheVars
  BY DEF DeviceStep, DeviceWrite
<1>3. SeenMemory' = [SeenMemory EXCEPT ![l] = MergeBlock(@, o, d, Bytes)]
  <2>1. SeenMemory[l] = mem[l]
    BY SeenBypass DEF IInv, CoherenceInv
  <2>2. mem' = [mem EXCEPT ![l] = MergeBlock(mem[l], o, d, Bytes)]
    BY <1>1
  <2>3. SeenMemory' = [SeenMemory EXCEPT ![l] = MergeBlock(mem[l], o, d, Bytes)]
    BY <1>2, <2>2, SeenWritten DEF cacheVars, arrays
  <2> QED
    BY <2>1, <2>3
<1>4. /\ SeenStage' = SeenStage /\ SeenAnswer' = SeenAnswer /\ SeenPosted' = SeenPosted
      /\ req' = req
  BY <1>2 DEF SeenStage, SeenAnswer, SeenPosted, WordIsRead, CpuRspData, RespBlock,
              cacheVars, latches, counters, respFlags
<1> QED
  BY <1>3, <1>4, SameTypes DEF Promise!Device

\* The RAM answers an uncached load when it reads the word; the words of a
\* refill are not seen before the line is in the cache.
LEMMA ReadImplements ==
    ASSUME IInv, RamRead, UNCHANGED cacheVars PROVE Promise!Load \/ UNCHANGED seen
<1> USE DEF IInv, CoherenceInv
<1>0. req \in Requests /\ req.woff \in Offsets /\ beats \in Seq(Beats) /\ moved \in Int
  BY RequestFields DEF TypeOK, CacheTypeOK, AxiTypeOK
<1>1. /\ phase = "READ" /\ moved <= txn.len /\ state \in {"D_RECV", "D_BPRD"}
      /\ beats' = Append(beats, [data |-> mem[txn.line][txn.word + moved],
                                 strb |-> {}, last |-> moved = txn.len])
      /\ UNCHANGED <<state, req, valid, tags, data, mem, phase, txn>>
  BY DEF RamRead, StateFollowsBus, cacheVars, arrays
<1>2. SeenPosted = <<>> /\ SeenPosted' = <<>>
  BY <1>1 DEF SeenPosted
<1>3. CASE state = "D_RECV"
  <2>1. SeenStage' = SeenStage /\ SeenAnswer' = SeenAnswer
    BY <1>1, <1>3 DEF SeenStage, SeenAnswer, WordIsRead
  <2> QED
    BY <1>1, <1>2, <2>1, SeenKept DEF seen
<1>4. CASE state = "D_BPRD"
  <2>1. txn = SingleBeat /\ moved = Len(beats) /\ LineOf(req) \in BypassLines /\ ~req.wr
    BY <1>4 DEF BusFollowsState, DecisionHolds, BypassStates, bypass
  <2>2. beats = <<>> /\ moved = 0
    BY <1>0, <1>1, <2>1, EmptySeq DEF SingleBeat
  <2>3. mem[txn.line][txn.word + moved] = mem[LineOf(req)][req.woff]
    <3>1. txn.line = LineOf(req) /\ txn.word = req.woff
      BY <2>1 DEF SingleBeat
    <3> QED
      BY <1>0, <2>2, <3>1, BlockWordsAssumption DEF Offsets
  <2>4. beats' # <<>> /\ Head(beats').data = mem[LineOf(req)][req.woff]
    <3> DEFINE beat == [data |-> mem[txn.line][txn.word + moved],
                        strb |-> {}, last |-> moved = txn.len]
    <3>1. beats' = Append(<<>>, beat) /\ beat.data = mem[LineOf(req)][req.woff]
      BY <1>1, <2>2, <2>3
    <3> HIDE DEF beat
    <3> QED
      BY <3>1
  <2>5. SeenStage = "asked" /\ SeenStage' = "answered"
    BY <1>1, <1>4, <2>2, <2>4 DEF SeenStage, WordIsRead
  <2>6. SeenAnswer' = SeenMemory[LineOf(req)][req.woff]
    <3>1. SeenMemory[LineOf(req)] = mem[LineOf(req)]
      BY <2>1, SeenBypass
    <3> QED
      BY <1>1, <1>4, <2>4, <3>1 DEF SeenAnswer, WordIsRead
  <2> QED
    BY <1>0, <1>1, <1>2, <2>1, <2>5, <2>6, SeenKept, SameTypes DEF Promise!Load
<1> QED
  BY <1>1, <1>3, <1>4

\* The words of a write-back are already seen in the cache; the word of an
\* uncached store was posted.
LEMMA WriteImplements ==
    ASSUME IInv, IInv', RamWrite, UNCHANGED cacheVars
    PROVE  Promise!DoPosted \/ UNCHANGED seen
<1> USE DEF IInv, CoherenceInv
<1> DEFINE block == MergeBlock(mem[txn.line], txn.word + moved, Head(beats).data, Head(beats).strb)
<1>0. /\ beats \in Seq(Beats) /\ moved \in 0 .. BlockWords /\ txn.line \in Lines /\ txn.word \in Int
  BY DEF TypeOK, AxiTypeOK, Txns, Offsets
<1>1. /\ phase \in {"WRITE", "WRITE_RESP"} /\ beats # <<>> /\ moved <= txn.len
      /\ mem' = [mem EXCEPT ![txn.line] = block] /\ beats' = Tail(beats)
      /\ UNCHANGED <<state, req, valid, tags, data, phase, txn>>
  BY DEF RamWrite, cacheVars, arrays
<1>2. SeenStage' = SeenStage /\ SeenAnswer' = SeenAnswer
  <2>1. state # "D_BPRD"
    BY <1>1 DEF BusFollowsState
  <2> QED
    BY <1>1, <2>1 DEF SeenStage, SeenAnswer, WordIsRead, CpuRspData, RespBlock,
                      cacheVars, latches, counters, respFlags
<1>3. CASE txn.line \notin BypassLines
  <2>1. SeenPosted = <<>> /\ SeenPosted' = <<>>
    BY <1>1, <1>3 DEF SeenPosted
  <2>2. Holds(txn.line[2], victim, txn.line[1]) /\ victim \in Ways
    BY <1>1, <1>3 DEF WriteBackHolds, WritingBack, LineBurst, VictimLine, Holds,
                      TypeOK, CacheTypeOK
  <2>3. \A l \in Lines : mem'[l] = mem[l] \/ \E w \in Ways : Holds(l[2], w, l[1])
    BY <1>1, <2>2 DEF TypeOK, AxiTypeOK
  <2>4. \A l \in Lines : SeenMemory'[l] = SeenMemory[l]
    BY <1>1, <2>3, SeenElsewhere
  <2>5. SeenMemory' = [l \in Lines |-> SeenMemory'[l]]
    BY DEF SeenMemory
  <2>6. SeenMemory' = SeenMemory
    BY <2>4, <2>5, SeenShape
  <2> QED
    BY <1>1, <1>2, <2>1, <2>6 DEF seen
<1>4. CASE txn.line \in BypassLines
  <2>1. moved = 0 /\ txn.len = 0 /\ Len(beats) = 1
    <3>1. txn.len = 0 /\ moved = 0
      BY <1>0, <1>1, <1>4 DEF UncachedIsSingle
    <3>2. phase = "WRITE_RESP"
      <4>1. CASE state = "D_WBD"
        BY <1>4, <4>1, VictimCacheable DEF BusFollowsState, LineBurst
      <4>2. CASE state = "D_BPWD"
        BY <1>1, <4>2 DEF BusFollowsState
      <4> QED
        BY <1>1, <4>1, <4>2 DEF StateFollowsBus
    <3> QED
      BY <1>0, <3>1, <3>2, LenProperties DEF StateFollowsBus
  <2>2. beats' = <<>>
    BY <1>0, <1>1, <2>1, EmptySeq, HeadTailProperties
  <2>3. SeenPosted' = <<>>
    BY <2>2 DEF SeenPosted
  <2>4. SeenPosted = <<[line |-> txn.line, woff |-> txn.word,
                        data |-> Head(beats).data, strb |-> Head(beats).strb]>>
    BY <1>1, <1>4 DEF SeenPosted
  <2>5. SeenMemory' = [SeenMemory EXCEPT ![txn.line] =
                           MergeBlock(@, txn.word, Head(beats).data, Head(beats).strb)]
    <3>1. SeenMemory[txn.line] = mem[txn.line]
      BY <1>4, SeenBypass
    <3>2. SeenMemory' = [SeenMemory EXCEPT ![txn.line] = block]
      BY <1>1, <1>4, SeenWritten
    <3>3. block = MergeBlock(SeenMemory[txn.line], txn.word, Head(beats).data, Head(beats).strb)
      BY <1>0, <2>1, <3>1
    <3> QED
      BY <3>2, <3>3
  <2>6. Promise!DoPosted
    <3> DEFINE p == [line |-> txn.line, woff |-> txn.word,
                     data |-> Head(beats).data, strb |-> Head(beats).strb]
    <3>1. /\ SeenPosted # <<>> /\ Head(SeenPosted) = p
          /\ p.line = txn.line /\ p.woff = txn.word
          /\ p.data = Head(beats).data /\ p.strb = Head(beats).strb
      BY <2>4
    <3> HIDE DEF p
    <3> QED
      BY <1>1, <1>2, <2>3, <2>5, <3>1, SameTypes DEF Promise!DoPosted
  <2> QED
    BY <2>6
<1> QED
  BY <1>3, <1>4

LEMMA MemoryImplements ==
    ASSUME IInv, IInv', MemoryStep PROVE Promise!Load \/ Promise!DoPosted \/ UNCHANGED seen
<1>1. CASE RamRead \/ RamWrite
  BY <1>1, ReadImplements, WriteImplements DEF MemoryStep
<1>2. CASE AxiWriteResp
  <2>1. /\ phase = "WRITE_RESP" /\ moved = txn.len + 1
        /\ UNCHANGED <<mem, txn, beats>> /\ UNCHANGED cacheVars
    BY <1>2 DEF MemoryStep, AxiWriteResp
  <2>2. beats = <<>>
    <3>1. Len(beats) = 0 /\ beats \in Seq(Beats)
      BY <2>1 DEF IInv, CoherenceInv, StateFollowsBus, TypeOK, AxiTypeOK, Txns, Offsets
    <3> QED
      BY <3>1, EmptySeq
  <2>3. SeenPosted' = SeenPosted
    BY <2>1, <2>2 DEF SeenPosted
  <2>4. SeenStage' = SeenStage /\ SeenAnswer' = SeenAnswer
    BY <2>1 DEF SeenStage, SeenAnswer, WordIsRead, CpuRspData, RespBlock,
                cacheVars, latches, counters, respFlags
  <2> QED
    BY <2>1, <2>3, <2>4, SeenKept DEF seen, cacheVars, arrays
<1> QED
  BY <1>1, <1>2 DEF MemoryStep, AxiInternal

LEMMA StepImplements ==
    ASSUME IInv, IInv', [Next]_vars PROVE [Promise!Next]_seen
<1>1. CASE CpuRequest \/ CpuResponse
  BY <1>1, AskStep, TakeStep DEF Promise!Next
<1>2. CASE LookupBypass \/ LookupMiss \/ LookupHit
  BY <1>2, QuietLookup, HitLoads DEF Promise!Next
<1>3. CASE StoreHit \/ FillLine
  BY <1>3, HitStores, FillStep DEF Promise!Next
<1>4. CASE \/ WriteBackReq \/ WriteBackBeat \/ LineReadReq \/ LineReadBeat
           \/ UncachedReadReq \/ UncachedWriteReq
  BY <1>4, QuietBus
<1>5. CASE UncachedReadBeat \/ UncachedWriteBeat
  BY <1>5, QuietBeat, PostStep DEF Promise!Next
<1>6. CASE MemoryStep \/ DeviceStep
  BY <1>6, MemoryImplements, DeviceImplements DEF Promise!Next
<1>7. CASE UNCHANGED vars
  <2>1. UNCHANGED <<mem, phase, txn, beats, cacheVars>>
    BY <1>7 DEF vars, axiVars
  <2> QED
    BY <2>1, SeenKept DEF seen, SeenStage, SeenAnswer, SeenPosted, WordIsRead, CpuRspData,
                          RespBlock, cacheVars, arrays, latches, counters, respFlags
<1> QED
  BY <1>1, <1>2, <1>3, <1>4, <1>5, <1>6, <1>7 DEF Next, CacheStep

LEMMA InitImplements == Init => Promise!Init
<1> SUFFICES ASSUME Init PROVE Promise!Init
  OBVIOUS
<1>1. /\ state = "D_WAIT" /\ phase = "IDLE" /\ req \in Requests /\ mem \in [Lines -> Blocks]
      /\ valid = [s \in Sets |-> [w \in Ways |-> FALSE]]
  BY DEF Init, CacheInit, AxiInit
<1>2. \A l \in Lines : SeenMemory[l] = mem[l]
  <2>1. \A s \in Sets, t \in Tags, w \in Ways : ~Holds(s, w, t)
    BY <1>1 DEF Holds
  <2>2. OneCopy
    BY <1>1 DEF OneCopy
  <2> QED
    BY <2>1, <2>2, SeenFacts, SeenShape DEF MemoryIsSeen
<1>3. SeenMemory \in [Lines -> Blocks]
  BY <1>1, <1>2, SeenShape
<1>4. SeenStage = "free" /\ SeenAnswer = ZeroWord /\ SeenPosted = <<>>
  BY <1>1 DEF SeenStage, SeenAnswer, SeenPosted, WordIsRead
<1> QED
  BY <1>1, <1>3, <1>4, SameTypes DEF Promise!Init

\* The CPU cannot tell the write-back cache, its write-backs that are still
\* on their way and its posted stores (dcache_top.v) from a memory without a
\* cache: every load returns a value that such a memory gives.
THEOREM CacheImplementsMemory == Spec => ImplementsCoherentMemory
<1>1. IInv /\ IInv' /\ [Next]_vars => [Promise!Next]_seen
  BY StepImplements
<1>2. [Promise!Next]_seen <=> [Promise!Next]_Promise!avars
  BY DEF seen, Promise!avars
<1> QED
  BY InitImplements, <1>1, <1>2, Invariance, PTL DEF Spec, ImplementsCoherentMemory, Promise!Spec

-----------------------------------------------------------------------------
(***************************************************************************)
(* The replacement order.  Going round from the pointer, the ways of a set *)
(* come in the order in which they were filled; until the set is full they *)
(* are filled from way 0 on, and the pointer stands at way 0.              *)
(***************************************************************************)

\* The place of way w, counted from the pointer p.
Rank(p, w) == IF w >= p THEN w - p ELSE w - p + WayCount

FilledFromZero ==
    \A s \in Sets :
        /\ \A u, w \in Ways : u < w /\ valid[s][w] => valid[s][u]
        /\ ~AllValid(s) => rr_ptr[s] = 0

RankIsAge ==
    \A s \in Sets : \A u, w \in Ways :
        valid[s][u] /\ valid[s][w] /\ Rank(rr_ptr[s], u) < Rank(rr_ptr[s], w)
        => <<u, w>> \in older[s]

\* The victim chosen in D_TAG is still the one to give up.
VictimStands == state \in MissStates => VictimSel(victim)

ReplacementInv ==
    /\ DOMAIN older = Sets
    /\ FilledFromZero /\ RankIsAge /\ VictimStands

\* Moving the pointer on makes its way the last and keeps the others in order.
LEMMA RankMoves ==
    ASSUME NEW p \in Ways, NEW u \in Ways, NEW w \in Ways,
           Rank(NextWay(p), u) < Rank(NextWay(p), w)
    PROVE  u # p /\ (w # p => Rank(p, u) < Rank(p, w))
BY DEF Rank, NextWay, Ways

LEMMA PointerIsOldest ==
    ASSUME NEW p \in Ways, NEW w \in Ways, w # p
    PROVE  Rank(p, p) < Rank(p, w)
BY DEF Rank, Ways

LEMMA FillFacts ==
    ASSUME TypeOK, FillLine
    PROVE  /\ idx \in Sets /\ victim \in Ways /\ state = "D_REFILL"
           /\ state' \in {"D_WAIT", "D_RESP"}
           /\ \A s \in Sets, w \in Ways :
                 valid'[s][w] = (valid[s][w] \/ (s = idx /\ w = victim))
           /\ \A s \in Sets :
                 rr_ptr'[s] = IF s = idx THEN NextPointer(rr_ptr[s]) ELSE rr_ptr[s]
<1>1. idx \in Sets /\ victim \in Ways
  BY RequestFields DEF TypeOK, CacheTypeOK, idx
<1>2. /\ valid \in [Sets -> [Ways -> BOOLEAN]] /\ rr_ptr \in [Sets -> Ways]
      /\ valid' = [valid EXCEPT ![idx][victim] = TRUE]
      /\ rr_ptr' = [rr_ptr EXCEPT ![idx] = NextPointer(@)]
  BY DEF TypeOK, CacheTypeOK, FillLine, Refill
<1>3. \A s \in Sets, w \in Ways :
          valid'[s][w] = (valid[s][w] \/ (s = idx /\ w = victim))
  BY <1>1, <1>2
<1>4. \A s \in Sets :
          rr_ptr'[s] = IF s = idx THEN NextPointer(rr_ptr[s]) ELSE rr_ptr[s]
  BY <1>1, <1>2
<1>5. state = "D_REFILL" /\ state' \in {"D_WAIT", "D_RESP"}
  BY DEF FillLine, Refill
<1> QED
  BY <1>1, <1>3, <1>4, <1>5

LEMMA FillKeepsOrder ==
    ASSUME TypeOK, ReplacementInv, FillLine, older' = Filled(idx, victim)
    PROVE  ReplacementInv'
<1>1. /\ idx \in Sets /\ victim \in Ways /\ state = "D_REFILL"
      /\ state' \notin MissStates /\ VictimSel(victim)
  BY FillFacts DEF ReplacementInv, VictimStands, MissStates
<1>2. /\ \A s \in Sets, w \in Ways :
            valid'[s][w] = (valid[s][w] \/ (s = idx /\ w = victim))
      /\ \A s \in Sets :
            rr_ptr'[s] = IF s = idx THEN NextPointer(rr_ptr[s]) ELSE rr_ptr[s]
  BY FillFacts
<1>3. DOMAIN older' = Sets
  BY DEF Filled, ReplacementInv
<1>4. /\ \A s \in Sets : s # idx => older'[s] = older[s]
      /\ \A u, w \in Ways : <<u, w>> \in older[idx] /\ u # victim => <<u, w>> \in older'[idx]
      /\ \A u \in Ways : valid[idx][u] /\ u # victim => <<u, victim>> \in older'[idx]
  BY <1>1 DEF Filled, ReplacementInv
<1>5. \A s \in Sets : rr_ptr[s] \in Ways
  BY DEF TypeOK, CacheTypeOK
<1>6. ASSUME NEW s \in Sets
      PROVE  /\ \A u, w \in Ways : u < w /\ valid'[s][w] => valid'[s][u]
             /\ ~(\A w \in Ways : valid'[s][w]) => rr_ptr'[s] = 0
  <2>1. CASE AllValid(s)
    BY <1>2, <2>1 DEF AllValid
  <2>2. CASE ~AllValid(s)
    <3>1. rr_ptr'[s] = 0
      BY <1>2, <2>2 DEF ReplacementInv, FilledFromZero, NextPointer
    <3>2. s = idx => \A u \in Ways : u < victim => valid[idx][u]
      BY <1>1, <2>2 DEF VictimSel
    <3>3. \A u, w \in Ways : u < w /\ valid[s][w] => valid[s][u]
      BY DEF ReplacementInv, FilledFromZero
    <3> QED
      BY <1>1, <1>2, <3>1, <3>2, <3>3
  <2> QED
    BY <2>1, <2>2
<1>7. ASSUME NEW s \in Sets, NEW u \in Ways, NEW w \in Ways, valid'[s][u], valid'[s][w],
             Rank(rr_ptr'[s], u) < Rank(rr_ptr'[s], w)
      PROVE  <<u, w>> \in older'[s]
  <2>0. \A a, b \in Ways : valid[s][a] /\ valid[s][b] /\ Rank(rr_ptr[s], a) < Rank(rr_ptr[s], b)
                           => <<a, b>> \in older[s]
    BY DEF ReplacementInv, RankIsAge
  <2>1. CASE s # idx
    BY <1>2, <1>4, <1>7, <2>0, <2>1
  <2>2. CASE s = idx /\ AllValid(idx)
    <3>1. victim = rr_ptr[idx] /\ rr_ptr'[idx] = NextWay(rr_ptr[idx])
      BY <1>1, <1>2, <2>2 DEF VictimSel, NextPointer
    <3>2. u # victim /\ (w # victim => Rank(victim, u) < Rank(victim, w))
      BY <1>1, <1>7, <2>2, <3>1, RankMoves
    <3>3. valid[idx][u] /\ valid[idx][w]
      BY <2>2 DEF AllValid
    <3> QED
      BY <1>4, <2>0, <2>2, <3>1, <3>2, <3>3
  <2>3. CASE s = idx /\ ~AllValid(idx)
    <3>1. rr_ptr[idx] = 0 /\ rr_ptr'[idx] = 0
      BY <1>1, <1>2, <2>3 DEF ReplacementInv, FilledFromZero, NextPointer
    <3>2. u < w
      BY <1>7, <2>3, <3>1 DEF Rank, Ways
    <3>3. ~valid[idx][victim] /\ \A a \in Ways : a < victim => valid[idx][a]
      BY <1>1, <2>3 DEF VictimSel
    <3>4. \A a \in Ways : valid[idx][a] => a < victim
      BY <1>1, <3>3 DEF ReplacementInv, FilledFromZero, Ways
    <3>5. w = victim \/ w < victim
      BY <1>2, <1>7, <2>3, <3>4
    <3>6. u < victim
      BY <1>1, <3>2, <3>5 DEF Ways
    <3>7. u # victim /\ valid[idx][u]
      BY <1>1, <3>3, <3>6 DEF Ways
    <3> QED
      BY <1>2, <1>4, <1>7, <2>0, <2>3, <3>1, <3>7
  <2> QED
    BY <2>1, <2>2, <2>3
<1> QED
  BY <1>1, <1>3, <1>6, <1>7 DEF ReplacementInv, FilledFromZero, RankIsAge, VictimStands, AllValid

\* No other step fills a way or moves a pointer.
LEMMA OthersKeepOrder ==
    ASSUME TypeOK, ReplacementInv, UNCHANGED <<older, valid, rr_ptr>>, VictimStands'
    PROVE  ReplacementInv'
BY DEF ReplacementInv, FilledFromZero, RankIsAge, AllValid

LEMMA VictimKept ==
    ASSUME VictimStands, UNCHANGED <<valid, rr_ptr, req, victim>>,
           state' \in MissStates => state \in MissStates
    PROVE  VictimStands'
BY DEF VictimStands, VictimSel, AllValid, idx

LEMMA OrderStep ==
    ASSUME TypeOK, ReplacementInv, [OrderNext]_<<vars, older>> PROVE ReplacementInv'
<1> USE DEF arrays, latches
<1>0. VictimStands
  BY DEF ReplacementInv
<1>1. CASE FillLine /\ OrderNext
  <2>1. Fills
    BY <1>1, FillFacts DEF Fills
  <2> QED
    BY <1>1, <2>1, FillKeepsOrder DEF OrderNext
<1>2. CASE CpuRequest /\ OrderNext
  <2>1. UNCHANGED <<valid, rr_ptr, older>> /\ state' \notin MissStates
    BY <1>2 DEF CpuRequest, Wait, OrderNext, Fills, MissStates
  <2> QED
    BY <2>1, OthersKeepOrder DEF VictimStands
<1>3. CASE LookupMiss /\ OrderNext
  <2>1. UNCHANGED <<valid, rr_ptr, req, older>> /\ VictimSel(victim')
    BY <1>3 DEF LookupMiss, TagMiss, OrderNext, Fills
  <2>2. VictimStands'
    BY <2>1 DEF VictimStands, VictimSel, AllValid, idx
  <2> QED
    BY <2>1, <2>2, OthersKeepOrder
<1>4. CASE ~FillLine /\ ~CpuRequest /\ ~LookupMiss /\ OrderNext
  <2>1. /\ UNCHANGED <<valid, rr_ptr, req, victim, older>>
        /\ state' \in MissStates => state \in MissStates
    BY <1>4
       DEF OrderNext, Fills, Next, CacheStep, CpuResponse, Resp, LookupBypass, TagBypass,
           LookupHit, TagHit, StoreHit, WriteHit, WriteBackReq, WbReq, WriteBackBeat, WbBeat,
           LineReadReq, MemReq, LineReadBeat, Recv, UncachedReadReq, BypassReadReq,
           UncachedReadBeat, BypassRead, UncachedWriteReq, BypassWriteReq,
           UncachedWriteBeat, BypassWrite, MemoryStep, DeviceStep, cacheVars, MissStates
  <2> QED
    BY <1>0, <2>1, VictimKept, OthersKeepOrder
<1>5. CASE UNCHANGED <<vars, older>>
  BY <1>0, <1>5, VictimKept, OthersKeepOrder DEF vars, cacheVars
<1> QED
  BY <1>1, <1>2, <1>3, <1>4, <1>5 DEF OrderNext

\* Round robin is first-in first-out: a miss in a full set gives up the way
\* that was filled longest ago, for any number of ways (dcache_top.v:147-151
\* and 294-295).
THEOREM AlwaysEvictsOldest == OrderSpec => []EvictsOldest
<1>1. Init /\ OrderInit => ReplacementInv
  <2> SUFFICES ASSUME Init, OrderInit PROVE ReplacementInv
    OBVIOUS
  <2>1. \A s \in Sets : rr_ptr[s] = 0 /\ \A w \in Ways : ~valid[s][w]
    BY DEF Init, CacheInit
  <2> QED
    BY <2>1 DEF Init, CacheInit, OrderInit, ReplacementInv, FilledFromZero, RankIsAge,
                VictimStands, MissStates
<1>2. TypeOK /\ ReplacementInv => EvictsOldest
  <2> SUFFICES ASSUME TypeOK, ReplacementInv, state = "D_REFILL", AllValid(idx),
                      NEW w \in Ways \ {victim}
               PROVE  <<victim, w>> \in older[idx]
    BY DEF EvictsOldest
  <2>1. idx \in Sets /\ victim \in Ways /\ victim = rr_ptr[idx]
    BY RequestFields DEF TypeOK, CacheTypeOK, idx, ReplacementInv, VictimStands, MissStates,
                         VictimSel
  <2>2. Rank(victim, victim) < Rank(victim, w)
    BY <2>1, PointerIsOldest
  <2> QED
    BY <2>1, <2>2 DEF ReplacementInv, RankIsAge, AllValid
<1>3. [OrderNext]_<<vars, older>> => [Next]_vars
  BY DEF OrderNext
<1>4. TypeOK /\ ReplacementInv /\ [OrderNext]_<<vars, older>> => ReplacementInv'
  BY OrderStep
<1> QED
  BY <1>1, <1>2, <1>3, <1>4, TypeCorrect, PTL DEF OrderSpec, OrderSteps, Spec

=============================================================================
