---------------------------- MODULE ICacheProofs ----------------------------
(***************************************************************************)
(* The instruction cache holds code as memory has it and answers every     *)
(* fetch with it, for any number of tags, sets, ways, words and lanes.     *)
(***************************************************************************)
EXTENDS ICacheSystem, TLAPS

USE BlockWordsAssumption, BypassAssumption, WayCountAssumption

MissStates == {"I_EVICT", "I_MEM_RD", "I_RECV", "I_REFILL"}
HitStates  == {"I_CACHE_RD", "I_RESP"}

\* The bus carries the refill, and nothing else.
BusInv ==
    /\ phase = (IF state = "I_RECV" THEN "READ" ELSE "IDLE")
    /\ phase = "IDLE" => beats = <<>>
    /\ state \in {"I_EVICT", "I_MEM_RD"} => recv_cnt = 0
    /\ state = "I_RECV" =>
          /\ txn = [line |-> LineOf(req), word |-> 0, len |-> BlockWords - 1]
          /\ moved = recv_cnt + Len(beats)

\* The words received so far, and those on the way, are those of memory.
FillInv ==
    /\ state = "I_RECV" =>
          /\ \A j \in Offsets : j < recv_cnt => refill_buf[j] = mem[LineOf(req)][j]
          /\ \A i \in 1 .. Len(beats) :
                /\ beats[i].data = mem[LineOf(req)][recv_cnt + i - 1]
                /\ beats[i].last <=> recv_cnt + i - 1 = BlockWords - 1
    /\ state = "I_REFILL" => refill_buf = mem[LineOf(req)]

\* What I_TAG_RD decided is still so in the states that act on it.
LookupInv ==
    /\ state # "I_WAIT" => LineOf(req) \in CodeLines
    /\ state \in MissStates => ~Hit
    /\ state \in HitStates =>
          /\ HitWay(resp_way)
          /\ resp_from_buf => refill_buf = data[idx][resp_way]

IInv ==
    /\ TypeOK /\ OneCopy /\ CachedIsCode /\ AnswerIsAwaited
    /\ BusInv /\ FillInv /\ LookupInv

-----------------------------------------------------------------------------
LEMMA Constants ==
    /\ 0 \in Ways /\ 0 \in Offsets /\ BlockWords - 1 \in Offsets
    /\ \A w \in Ways : NextWay(w) \in Ways
    /\ CodeLines \subseteq Lines
BY DEF Ways, Offsets, NextWay, CodeLines

LEMMA OffsetsWrap ==
    ASSUME NEW n \in Offsets
    PROVE  /\ NextOffset(n) \in Offsets
           /\ n # BlockWords - 1 => NextOffset(n) = n + 1
BY DEF NextOffset, Offsets

LEMMA FetchFields ==
    ASSUME NEW f \in Fetches
    PROVE  f.tag \in Tags /\ f.idx \in Sets /\ f.woff \in Offsets /\ LineOf(f) \in Lines
BY DEF Fetches, LineOf, Lines

LEMMA InitIInv == Init => IInv
<1> SUFFICES ASSUME Init PROVE IInv
  OBVIOUS
<1>1. CacheTypeOK
  BY Constants DEF Init, CacheInit, CacheTypeOK, States
<1>2. AxiTypeOK
  BY DEF Init, AxiInit, AxiTypeOK, Phases
<1>3. TypeOK
  BY <1>1, <1>2 DEF TypeOK, Init
<1>4. /\ state = "I_WAIT" /\ phase = "IDLE" /\ beats = <<>> /\ if_state = "IF_REQ"
      /\ valid = [s \in Sets |-> [w \in Ways |-> FALSE]]
  BY DEF Init, CacheInit, AxiInit
<1>5. OneCopy /\ CachedIsCode
  BY <1>4 DEF OneCopy, CachedIsCode
<1>6. AnswerIsAwaited /\ BusInv /\ FillInv /\ LookupInv
  BY <1>4 DEF AnswerIsAwaited, BusInv, FillInv, LookupInv, MissStates, HitStates
<1> QED
  BY <1>3, <1>5, <1>6 DEF IInv

-----------------------------------------------------------------------------
(***************************************************************************)
(* One lemma per step, or group of steps that move nothing but the state.  *)
(***************************************************************************)

Stored == OneCopy /\ CachedIsCode

\* What is stored changes only when the arrays or the memory change.
LEMMA StoredKept ==
    ASSUME Stored, UNCHANGED <<valid, tags, data, mem>>
    PROVE  Stored'
BY DEF Stored, OneCopy, CachedIsCode

LEMMA FetchStep == ASSUME IInv, CpuFetch PROVE IInv'
<1> USE DEF IInv, CpuFetch, arrays, fill, resp, axiVars
<1> PICK f \in Fetches : LineOf(f) \in CodeLines /\ Wait(f)
  OBVIOUS
<1> USE DEF Wait
<1>1. TypeOK'
  BY DEF TypeOK, CacheTypeOK, AxiTypeOK, States
<1>2. Stored'
  BY StoredKept DEF Stored
<1>3. AnswerIsAwaited' /\ BusInv' /\ FillInv' /\ LookupInv'
  BY DEF AnswerIsAwaited, BusInv, FillInv, LookupInv, MissStates, HitStates
<1> QED
  BY <1>1, <1>2, <1>3 DEF Stored

\* The answer is the word that memory has at the address of the fetch.
LEMMA AnswerIsCode ==
    ASSUME IInv, state = "I_RESP"
    PROVE  RespWord = mem[LineOf(req)][req.woff] /\ RespWord \in Words
<1>1. /\ req.tag \in Tags /\ req.idx \in Sets /\ req.woff \in Offsets /\ LineOf(req) \in Lines
      /\ resp_way \in Ways
  BY FetchFields DEF IInv, TypeOK, CacheTypeOK
<1>2. /\ HitWay(resp_way)
      /\ resp_from_buf => refill_buf = data[idx][resp_way]
  BY DEF IInv, LookupInv, HitStates
<1>3. data[idx][resp_way] = mem[LineOf(req)]
  BY <1>1, <1>2 DEF IInv, CachedIsCode, HitWay, idx, LineOf
<1>4. mem[LineOf(req)] \in Blocks
  BY <1>1 DEF IInv, TypeOK, AxiTypeOK
<1> QED
  BY <1>1, <1>2, <1>3, <1>4 DEF RespWord, Blocks

LEMMA ResponseStep == ASSUME IInv, CpuResponse PROVE IInv'
<1> USE DEF CpuResponse, Resp, arrays, fill, resp, axiVars
<1>1. TypeOK'
  <2>1. inst' \in Words
    BY AnswerIsCode DEF IInv, TypeOK
  <2> QED
    BY <2>1 DEF IInv, TypeOK, CacheTypeOK, AxiTypeOK, States
<1>2. Stored'
  BY StoredKept DEF IInv, Stored
<1>3. AnswerIsAwaited' /\ BusInv' /\ FillInv' /\ LookupInv'
  BY DEF IInv, AnswerIsAwaited, BusInv, FillInv, LookupInv, MissStates, HitStates
<1> QED
  BY <1>1, <1>2, <1>3 DEF IInv, Stored

LEMMA LookupHitStep == ASSUME IInv, LookupHit PROVE IInv'
<1> USE DEF IInv, LookupHit, MemWaits, arrays, fill, axiVars
<1> PICK w \in Ways : TagHit(w) /\ MemWaits
  OBVIOUS
<1> USE DEF TagHit
<1>1. TypeOK'
  BY DEF TypeOK, CacheTypeOK, AxiTypeOK, States
<1>2. Stored'
  BY StoredKept DEF Stored
<1>3. AnswerIsAwaited' /\ BusInv' /\ FillInv'
  BY DEF AnswerIsAwaited, BusInv, FillInv
<1>4. LookupInv'
  BY DEF LookupInv, MissStates, HitStates, HitSel, HitWay, idx
<1> QED
  BY <1>1, <1>2, <1>3, <1>4 DEF Stored

LEMMA LookupMissStep == ASSUME IInv, LookupMiss PROVE IInv'
<1> USE DEF IInv, LookupMiss, MemWaits, arrays, resp, axiVars
<1> PICK v \in Ways : TagMiss(v) /\ MemWaits
  OBVIOUS
<1> USE DEF TagMiss
<1>1. TypeOK'
  BY Constants DEF TypeOK, CacheTypeOK, AxiTypeOK, States
<1>2. Stored'
  BY StoredKept DEF Stored
<1>3. AnswerIsAwaited' /\ BusInv' /\ FillInv'
  BY DEF AnswerIsAwaited, BusInv, FillInv
<1>4. LookupInv'
  BY DEF LookupInv, MissStates, HitStates, Hit, HitWay, idx
<1> QED
  BY <1>1, <1>2, <1>3, <1>4 DEF Stored

LEMMA WaitStep == ASSUME IInv, ReadLine \/ EvictLine PROVE IInv'
<1> USE DEF IInv, ReadLine, EvictLine, CacheRead, Evict, MemWaits, arrays, fill, resp, axiVars
<1>1. TypeOK'
  BY DEF TypeOK, CacheTypeOK, AxiTypeOK, States
<1>2. Stored'
  BY StoredKept DEF Stored
<1>3. AnswerIsAwaited' /\ BusInv' /\ FillInv'
  BY DEF AnswerIsAwaited, BusInv, FillInv
<1>4. LookupInv'
  BY DEF LookupInv, MissStates, HitStates, Hit, HitWay, idx
<1> QED
  BY <1>1, <1>2, <1>3, <1>4 DEF Stored

LEMMA ReadReqStep == ASSUME IInv, LineReadReq PROVE IInv'
<1> USE DEF IInv, LineReadReq, MemRead, AxiReadReq, CpuWaits, arrays, fill, resp
<1>0. LineOf(req) \in Lines
  BY FetchFields DEF TypeOK, CacheTypeOK
<1>1. TypeOK'
  <2>1. txn' \in Txns /\ moved' \in 0 .. BlockWords /\ phase' \in Phases
    BY <1>0, Constants DEF Txns, Phases
  <2> QED
    BY <2>1 DEF TypeOK, CacheTypeOK, AxiTypeOK, States
<1>2. Stored'
  BY StoredKept DEF Stored
<1>3. AnswerIsAwaited' /\ BusInv'
  BY DEF AnswerIsAwaited, BusInv
<1>4. FillInv'
  BY DEF FillInv, BusInv, Offsets
<1>5. LookupInv'
  BY DEF LookupInv, MissStates, HitStates, Hit, HitWay, idx
<1> QED
  BY <1>1, <1>2, <1>3, <1>4, <1>5 DEF Stored

LEMMA RamReadStep == ASSUME IInv, MemoryStep PROVE IInv'
<1> USE DEF MemoryStep, RamRead, CpuWaits, cacheVars, arrays, fill, resp
<1>0. /\ state = "I_RECV" /\ LineOf(req) \in Lines /\ recv_cnt \in Nat
      /\ txn = [line |-> LineOf(req), word |-> 0, len |-> BlockWords - 1]
      /\ moved = recv_cnt + Len(beats) /\ moved \in Offsets /\ beats \in Seq(Beats)
  BY FetchFields DEF IInv, BusInv, TypeOK, CacheTypeOK, AxiTypeOK, Offsets
<1> DEFINE beat == [data |-> mem[LineOf(req)][moved], strb |-> {}, last |-> moved = BlockWords - 1]
<1>1. beat \in Beats /\ beats' = Append(beats, beat) /\ moved' = moved + 1
  <2>1. mem[LineOf(req)][moved] \in Words
    BY <1>0 DEF IInv, TypeOK, AxiTypeOK, Blocks
  <2>2. beat \in Beats
    BY <2>1 DEF Beats
  <2>3. txn.line = LineOf(req) /\ txn.word + moved = moved /\ txn.len = BlockWords - 1
    BY <1>0 DEF Offsets
  <2> QED
    BY <2>2, <2>3
<1>a. beat.data = mem[LineOf(req)][moved] /\ (beat.last <=> moved = BlockWords - 1)
  OBVIOUS
<1> HIDE DEF beat
<1>2. TypeOK'
  <2>1. beats' \in Seq(Beats) /\ moved' \in 0 .. BlockWords
    BY <1>0, <1>1 DEF Offsets
  <2> QED
    BY <2>1 DEF IInv, TypeOK, CacheTypeOK, AxiTypeOK
<1>3. Stored'
  BY StoredKept DEF IInv, Stored
<1>4. AnswerIsAwaited' /\ LookupInv'
  BY DEF IInv, AnswerIsAwaited, LookupInv, Hit, HitWay, idx
<1>5. BusInv'
  BY <1>0, <1>1 DEF IInv, BusInv
<1>6. FillInv'
  <2>1. \A i \in 1 .. Len(beats') :
           /\ beats'[i].data = mem[LineOf(req)][recv_cnt + i - 1]
           /\ beats'[i].last <=> recv_cnt + i - 1 = BlockWords - 1
    <3> SUFFICES ASSUME NEW i \in 1 .. Len(beats')
                 PROVE  /\ beats'[i].data = mem[LineOf(req)][recv_cnt + i - 1]
                        /\ beats'[i].last <=> recv_cnt + i - 1 = BlockWords - 1
      OBVIOUS
    <3>1. CASE i \in 1 .. Len(beats)
      <4>1. beats'[i] = beats[i]
        BY <1>0, <1>1, <3>1
      <4> QED
        BY <1>0, <3>1, <4>1 DEF IInv, FillInv
    <3>2. CASE i = Len(beats) + 1
      <4>1. beats'[i] = beat /\ moved = recv_cnt + i - 1
        BY <1>0, <1>1, <3>2
      <4> QED
        BY <1>a, <4>1
    <3>3. Len(beats') = Len(beats) + 1
      BY <1>0, <1>1
    <3> QED
      BY <1>0, <3>1, <3>2, <3>3
  <2> QED
    BY <1>0, <2>1 DEF IInv, FillInv
<1> QED
  BY <1>2, <1>3, <1>4, <1>5, <1>6 DEF IInv, Stored

LEMMA BeatStep == ASSUME IInv, LineReadBeat PROVE IInv'
<1>b. /\ Head(beats).last => state' = "I_REFILL" /\ phase' = "IDLE"
      /\ ~Head(beats).last => state' = "I_RECV" /\ phase' = "READ"
  BY Zenon DEF LineReadBeat, Recv, AxiReadBeat
<1>c. /\ state = "I_RECV" /\ beats # <<>> /\ beats' = Tail(beats)
      /\ recv_cnt' = NextOffset(recv_cnt)
      /\ refill_buf' = [refill_buf EXCEPT ![recv_cnt] = Head(beats).data]
      /\ UNCHANGED <<req, valid, tags, data, rr_ptr, victim, resp_way, resp_from_buf>>
      /\ UNCHANGED <<mem, txn, moved, if_state, inst>>
  BY DEF LineReadBeat, Recv, AxiReadBeat, CpuWaits, arrays, resp
<1>0. /\ state = "I_RECV" /\ LineOf(req) \in Lines /\ recv_cnt \in Offsets /\ recv_cnt \in Nat
      /\ txn = [line |-> LineOf(req), word |-> 0, len |-> BlockWords - 1]
      /\ moved = recv_cnt + Len(beats) /\ moved <= BlockWords
      /\ beats \in Seq(Beats) /\ beats # <<>> /\ Len(beats) \in Nat /\ Len(beats) > 0
  <2>1. beats \in Seq(Beats) /\ beats # <<>>
    BY <1>c DEF IInv, TypeOK, AxiTypeOK
  <2>2. Len(beats) \in Nat /\ Len(beats) > 0
    BY <2>1
  <2> QED
    BY <1>c, <2>1, <2>2, FetchFields DEF IInv, BusInv, TypeOK, CacheTypeOK, AxiTypeOK, Offsets
<1>1. /\ Head(beats) = beats[1] /\ Head(beats) \in Beats
      /\ Head(beats).data = mem[LineOf(req)][recv_cnt]
      /\ Head(beats).last <=> recv_cnt = BlockWords - 1
  <2>1. Head(beats) = beats[1] /\ Head(beats) \in Beats /\ 1 \in 1 .. Len(beats)
    BY <1>0
  <2>2. /\ beats[1].data = mem[LineOf(req)][recv_cnt + 1 - 1]
        /\ beats[1].last <=> recv_cnt + 1 - 1 = BlockWords - 1
    BY <1>0, <2>1 DEF IInv, FillInv
  <2> QED
    BY <1>0, <2>1, <2>2
<1>d. /\ recv_cnt = BlockWords - 1 => state' = "I_REFILL" /\ phase' = "IDLE"
      /\ recv_cnt # BlockWords - 1 => state' = "I_RECV" /\ phase' = "READ"
  BY <1>b, <1>1, Zenon
<1>2. /\ beats' \in Seq(Beats) /\ Len(beats') = Len(beats) - 1
      /\ \A i \in 1 .. Len(beats') : beats'[i] = beats[i + 1]
  BY <1>0, <1>c
<1>3. /\ refill_buf' \in Blocks
      /\ \A j \in Offsets : j <= recv_cnt => refill_buf'[j] = mem[LineOf(req)][j]
  <2>1. refill_buf \in Blocks /\ Head(beats).data \in Words
    BY <1>1 DEF IInv, TypeOK, CacheTypeOK, Beats
  <2>2. \A j \in Offsets : refill_buf'[j] = IF j = recv_cnt THEN Head(beats).data ELSE refill_buf[j]
    BY <1>0, <1>c, <2>1 DEF Blocks
  <2>3. \A j \in Offsets : j <= recv_cnt => j = recv_cnt \/ j < recv_cnt
    BY <1>0 DEF Offsets
  <2>4. \A j \in Offsets : j < recv_cnt => refill_buf[j] = mem[LineOf(req)][j]
    BY <1>0 DEF IInv, FillInv
  <2> QED
    BY <1>1, <1>c, <2>1, <2>2, <2>3, <2>4 DEF Blocks
<1>4. TypeOK'
  <2>1. CacheTypeOK'
    <3>1. state' \in States
      BY <1>d DEF States
    <3>2. recv_cnt' \in Offsets
      BY <1>0, <1>c, OffsetsWrap
    <3> QED
      BY <1>3, <1>c, <3>1, <3>2 DEF IInv, TypeOK, CacheTypeOK
  <2>2. AxiTypeOK'
    BY <1>2, <1>c, <1>d DEF IInv, TypeOK, AxiTypeOK, Phases
  <2> QED
    BY <1>c, <2>1, <2>2 DEF IInv, TypeOK
<1>5. Stored'
  BY <1>c, StoredKept DEF IInv, Stored
<1>6. AnswerIsAwaited' /\ LookupInv'
  BY <1>c, <1>d DEF IInv, AnswerIsAwaited, LookupInv, MissStates, HitStates, Hit, HitWay, idx
<1>7. BusInv' /\ FillInv'
  <2>1. CASE recv_cnt = BlockWords - 1
    <3>1. Len(beats) = 1
      <4>1. recv_cnt + Len(beats) <= BlockWords
        BY <1>0
      <4>2. recv_cnt \in Nat /\ Len(beats) \in Nat /\ Len(beats) > 0
        BY <1>0
      <4>3. \A n, l, b \in Nat : n = b - 1 /\ n + l <= b /\ l > 0 => l = 1
        OBVIOUS
      <4> QED
        BY <2>1, <4>1, <4>2, <4>3
    <3>2. beats' = <<>> /\ state' = "I_REFILL" /\ phase' = "IDLE"
      <4>1. beats' = <<>>
        BY <1>0, <1>c, <3>1
      <4> QED
        BY <1>d, <2>1, <4>1
    <3>3. refill_buf' = mem[LineOf(req)]
      <4>1. \A j \in Offsets : j <= recv_cnt
        BY <2>1 DEF Offsets
      <4>2. mem[LineOf(req)] \in Blocks
        BY <1>0 DEF IInv, TypeOK, AxiTypeOK
      <4> QED
        BY <1>3, <4>1, <4>2 DEF Blocks
    <3> QED
      BY <1>c, <3>2, <3>3 DEF BusInv, FillInv
  <2>2. CASE recv_cnt # BlockWords - 1
    <3>1. recv_cnt' = recv_cnt + 1 /\ state' = "I_RECV" /\ phase' = "READ"
      BY <1>0, <1>c, <1>d, <2>2, OffsetsWrap
    <3>2. BusInv'
      BY <1>0, <1>2, <1>c, <3>1 DEF BusInv
    <3>3. \A j \in Offsets : j < recv_cnt' => refill_buf'[j] = mem[LineOf(req)][j]
      BY <1>0, <1>3, <3>1 DEF Offsets
    <3>4. \A i \in 1 .. Len(beats') :
             /\ beats'[i].data = mem[LineOf(req)][recv_cnt' + i - 1]
             /\ beats'[i].last <=> recv_cnt' + i - 1 = BlockWords - 1
      <4> SUFFICES ASSUME NEW i \in 1 .. Len(beats')
                   PROVE  /\ beats'[i].data = mem[LineOf(req)][recv_cnt' + i - 1]
                          /\ beats'[i].last <=> recv_cnt' + i - 1 = BlockWords - 1
        OBVIOUS
      <4>1. i + 1 \in 1 .. Len(beats) /\ beats'[i] = beats[i + 1]
        BY <1>0, <1>2
      <4>2. recv_cnt + (i + 1) - 1 = recv_cnt' + i - 1
        BY <1>0, <3>1
      <4>3. /\ beats[i + 1].data = mem[LineOf(req)][recv_cnt + (i + 1) - 1]
            /\ beats[i + 1].last <=> recv_cnt + (i + 1) - 1 = BlockWords - 1
        BY <1>0, <4>1 DEF IInv, FillInv
      <4> QED
        BY <4>1, <4>2, <4>3
    <3> QED
      BY <1>c, <3>1, <3>2, <3>3, <3>4 DEF FillInv
  <2> QED
    BY <2>1, <2>2
<1> QED
  BY <1>4, <1>5, <1>6, <1>7 DEF IInv, Stored

LEMMA RefillStep == ASSUME IInv, FillLine PROVE IInv'
<1> USE DEF FillLine, Refill, MemWaits, axiVars, fill
<1>0. /\ req.tag \in Tags /\ req.idx \in Sets /\ req.woff \in Offsets /\ victim \in Ways
      /\ refill_buf \in Blocks /\ refill_buf = mem[LineOf(req)] /\ ~Hit
      /\ LineOf(req) \in CodeLines
  BY FetchFields DEF IInv, TypeOK, CacheTypeOK, FillInv, LookupInv, MissStates
<1>1. /\ valid' \in [Sets -> [Ways -> BOOLEAN]] /\ tags' \in [Sets -> [Ways -> Tags]]
      /\ data' \in [Sets -> [Ways -> Blocks]] /\ rr_ptr' \in [Sets -> Ways]
  BY <1>0, Constants DEF IInv, TypeOK, CacheTypeOK, idx
<1>2. TypeOK'
  BY <1>0, <1>1 DEF IInv, TypeOK, CacheTypeOK, AxiTypeOK, States
<1>3. /\ valid'[idx][victim] /\ tags'[idx][victim] = req.tag
      /\ data'[idx][victim] = refill_buf
  BY <1>0 DEF IInv, TypeOK, CacheTypeOK, idx
<1>4. \A s \in Sets, w \in Ways : ~(s = idx /\ w = victim) =>
         /\ valid'[s][w] = valid[s][w] /\ tags'[s][w] = tags[s][w] /\ data'[s][w] = data[s][w]
  BY <1>0 DEF IInv, TypeOK, CacheTypeOK, idx
<1>5. OneCopy'
  <2> SUFFICES ASSUME NEW s \in Sets, NEW u \in Ways, NEW w \in Ways,
                      valid'[s][u], valid'[s][w], tags'[s][u] = tags'[s][w], u # w
               PROVE  FALSE
    BY DEF OneCopy
  <2>1. CASE s = idx /\ (u = victim \/ w = victim)
    BY <1>0, <1>3, <1>4, <2>1 DEF Hit, HitWay
  <2>2. CASE ~(s = idx /\ (u = victim \/ w = victim))
    BY <1>4, <2>2 DEF IInv, OneCopy
  <2> QED
    BY <2>1, <2>2
<1>6. CachedIsCode'
  <2> SUFFICES ASSUME NEW s \in Sets, NEW w \in Ways, valid'[s][w]
               PROVE  /\ <<tags'[s][w], s>> \in CodeLines
                      /\ data'[s][w] = mem[<<tags'[s][w], s>>]
    BY DEF CachedIsCode
  <2>1. CASE s = idx /\ w = victim
    BY <1>0, <1>3, <2>1 DEF LineOf, idx
  <2>2. CASE ~(s = idx /\ w = victim)
    BY <1>4, <2>2 DEF IInv, CachedIsCode
  <2> QED
    BY <2>1, <2>2
<1>7. AnswerIsAwaited' /\ BusInv' /\ FillInv'
  BY DEF IInv, AnswerIsAwaited, BusInv, FillInv
<1>8. LookupInv'
  BY <1>0, <1>3 DEF LookupInv, MissStates, HitStates, HitWay, idx
<1> QED
  BY <1>2, <1>5, <1>6, <1>7, <1>8 DEF IInv

\* A device writes no code.
LEMMA DeviceKeeps ==
    ASSUME IInv, OtherStep
    PROVE  /\ mem' \in [Lines -> Blocks]
           /\ \A l \in CodeLines : mem'[l] = mem[l]
<1> PICK l \in BypassLines, o \in Offsets, d \in Words :
           mem' = [mem EXCEPT ![l] = MergeBlock(@, o, d, Bytes)]
  BY DEF OtherStep, DeviceWrite
<1>1. mem \in [Lines -> Blocks] /\ l \in Lines
  BY DEF IInv, TypeOK, AxiTypeOK
<1>2. MergeBlock(mem[l], o, d, Bytes) \in Blocks
  BY <1>1 DEF MergeBlock, MergeWord, Blocks, Words
<1> QED
  BY <1>1, <1>2 DEF CodeLines

LEMMA OtherKeeps == ASSUME IInv, OtherStep PROVE IInv'
<1> USE DEF OtherStep, DeviceWrite, CpuWaits, cacheVars, arrays, fill, resp
<1>1. /\ mem' \in [Lines -> Blocks]
      /\ \A l \in CodeLines : mem'[l] = mem[l]
  BY DeviceKeeps
<1>2. TypeOK'
  BY <1>1 DEF IInv, TypeOK, CacheTypeOK, AxiTypeOK
<1>3. OneCopy' /\ CachedIsCode'
  BY <1>1 DEF IInv, OneCopy, CachedIsCode
<1>4. AnswerIsAwaited' /\ LookupInv'
  BY DEF IInv, AnswerIsAwaited, LookupInv, Hit, HitWay, idx
<1>5. BusInv' /\ FillInv'
  BY <1>1 DEF IInv, BusInv, FillInv, LookupInv
<1> QED
  BY <1>2, <1>3, <1>4, <1>5 DEF IInv

LEMMA Invariance == Spec => []IInv
<1>1. IInv /\ [Next]_vars => IInv'
  <2> SUFFICES ASSUME IInv, [Next]_vars PROVE IInv'
    OBVIOUS
  <2>1. CASE Next
    BY <2>1, FetchStep, ResponseStep, LookupHitStep, LookupMissStep, WaitStep, ReadReqStep,
       RamReadStep, BeatStep, RefillStep, OtherKeeps DEF Next, CacheStep
  <2>2. CASE UNCHANGED vars
    BY <2>2 DEF vars, cacheVars, arrays, fill, resp, axiVars, IInv, TypeOK, CacheTypeOK,
       AxiTypeOK, OneCopy, CachedIsCode, AnswerIsAwaited, BusInv, FillInv, LookupInv,
       Hit, HitWay, idx
  <2> QED
    BY <2>1, <2>2
<1> QED
  BY <1>1, InitIInv, PTL DEF Spec

\* The counters of icache_top.v stay in range: a refill writes only the words
\* of its line.
THEOREM TypeCorrect == Spec => []TypeOK
  BY Invariance, PTL DEF IInv

\* A refill never makes a second copy of a line (icache_top.v:108-118).
THEOREM OneCopyOnly == Spec => []OneCopy
  BY Invariance, PTL DEF IInv

\* What the cache holds is what memory has, for as long as nobody writes code.
THEOREM CacheHoldsCode == Spec => []CachedIsCode
  BY Invariance, PTL DEF IInv

\* The early exit of I_RESP (icache_top.v:168) never drops an answer.
THEOREM AnswersAreAwaited == Spec => []AnswerIsAwaited
  BY Invariance, PTL DEF IInv

-----------------------------------------------------------------------------
(***************************************************************************)
(* The refinement                                                          *)
(***************************************************************************)

LEMMA PortInit == Init => Port!Init
<1> SUFFICES ASSUME Init PROVE Port!Init
  OBVIOUS
<1>1. mem \in [Lines -> Blocks] /\ state = "I_WAIT" /\ inst \in Words
  BY DEF Init, CacheInit, AxiInit
<1>2. [l \in CodeLines |-> mem[l]] \in [CodeLines -> Blocks]
  BY <1>1, Constants
<1> QED
  BY <1>1, <1>2 DEF Port!Init, Port!Lines, Port!Blocks, Port!Offsets, Port!Words,
                    CodeLines, Lines, Blocks, Offsets, Words

LEMMA PortTake == ASSUME IInv, CpuFetch PROVE Port!Take
<1> PICK f \in Fetches : LineOf(f) \in CodeLines /\ Wait(f)
  BY DEF CpuFetch
<1>1. /\ state = "I_WAIT" /\ state' = "I_TAG_RD" /\ req' = f
      /\ UNCHANGED <<mem, inst>>
  BY DEF CpuFetch, Wait, axiVars
<1> QED
  BY <1>1 DEF Port!Take, Port!PortFetches, Port!LineOf, Port!Offsets,
              Fetches, LineOf, Offsets, CodeLines

LEMMA PortGive == ASSUME IInv, CpuResponse PROVE Port!Give
<1>1. /\ state = "I_RESP" /\ state' = "I_WAIT" /\ UNCHANGED <<mem, req>>
  BY DEF CpuResponse, Resp, axiVars
<1>2. inst' = RespWord
  BY <1>1 DEF CpuResponse, IInv, AnswerIsAwaited, TypeOK
<1>3. RespWord = mem[LineOf(req)][req.woff] /\ LineOf(req) \in CodeLines
  BY <1>1, AnswerIsCode DEF IInv, LookupInv
<1> QED
  BY <1>1, <1>2, <1>3 DEF Port!Give, Port!LineOf, LineOf

\* A step that neither takes a fetch nor answers one, and writes no code,
\* leaves the port as it is.
LEMMA PortStutters ==
    ASSUME state # "I_WAIT", state' # "I_WAIT", UNCHANGED <<req, inst>>,
           \A l \in CodeLines : mem'[l] = mem[l]
    PROVE  UNCHANGED Port!portVars
<1>1. [l \in CodeLines |-> mem'[l]] = [l \in CodeLines |-> mem[l]]
  OBVIOUS
<1> QED
  BY <1>1 DEF Port!portVars, CodeLines, Lines, Port!Lines

LEMMA StepImplements ==
    ASSUME IInv, [Next]_vars
    PROVE  [Port!Take \/ Port!Give]_Port!portVars
<1>1. CASE CpuFetch
  BY <1>1, PortTake
<1>2. CASE CpuResponse
  BY <1>2, PortGive
<1>3. CASE CacheStep
  <2>1. state # "I_WAIT" /\ state' # "I_WAIT" /\ UNCHANGED <<req, inst, mem>>
    <3>1. CASE LookupHit \/ LookupMiss \/ ReadLine \/ EvictLine \/ FillLine
      BY <3>1 DEF LookupHit, LookupMiss, ReadLine, EvictLine, FillLine, MemWaits, axiVars,
                  TagHit, TagMiss, CacheRead, Evict, Refill
    <3>2. CASE LineReadReq
      BY <3>2 DEF LineReadReq, MemRead, AxiReadReq, CpuWaits
    <3>3. CASE LineReadBeat
      BY <3>3, Zenon DEF LineReadBeat, Recv, AxiReadBeat, CpuWaits
    <3> QED
      BY <1>3, <3>1, <3>2, <3>3 DEF CacheStep
  <2> QED
    BY <2>1, PortStutters
<1>4. CASE MemoryStep
  <2>1. state # "I_WAIT" /\ UNCHANGED <<state, req, inst, mem>>
    BY <1>4 DEF MemoryStep, RamRead, CpuWaits, cacheVars, IInv, BusInv
  <2> QED
    BY <2>1, PortStutters
<1>5. CASE OtherStep
  <2>1. /\ UNCHANGED <<state, req, inst>>
        /\ \A l \in CodeLines : mem'[l] = mem[l]
    BY <1>5, DeviceKeeps DEF OtherStep, CpuWaits, cacheVars
  <2>2. [l \in CodeLines |-> mem'[l]] = [l \in CodeLines |-> mem[l]]
    BY <2>1
  <2> QED
    BY <2>1, <2>2 DEF Port!portVars
<1>6. CASE UNCHANGED vars
  BY <1>6 DEF vars, cacheVars, axiVars, Port!portVars
<1> QED
  BY <1>1, <1>2, <1>3, <1>4, <1>5, <1>6 DEF Next

\* The core gets, for each fetch once, the word that memory has at the
\* address of the handshake: what the pipeline assumes of its port.
THEOREM CacheImplementsPort == Spec => ImplementsInstructionPort
<1>1. Spec => []IInv
  BY Invariance
<1>2. IInv /\ [Next]_vars => [Port!Take \/ Port!Give]_Port!portVars
  BY StepImplements
<1> QED
  BY <1>1, <1>2, PortInit, PTL DEF Spec, ImplementsInstructionPort, Port!Spec

=============================================================================
