------------------------- MODULE MemIfWrapperProofs -------------------------
(***************************************************************************)
(* The data port without a cache, for every memory and every word width:   *)
(* its channels, and the memory that the CPU sees through it.              *)
(***************************************************************************)
EXTENDS MemIfWrapper, SequenceTheorems, TLAPS

-----------------------------------------------------------------------------
(***************************************************************************)
(* The inductive invariant                                                 *)
(***************************************************************************)

\* A tag goes up when its channel is emptied, and down before it is filled.
TagsFollowChannels ==
    /\ aw # <<>> => ~aw_req_ack_tag
    /\ w # <<>> => ~w_req_ack_tag

RequestIsHeld ==
    /\ cpu = "write" => req.wr
    /\ cpu \in {"read", "wait"} => ~req.wr

StoreAddress == [line |-> LineOf(req), word |-> req.woff]
StoreWord    == [data |-> req.wdata, strb |-> req.wstrb]

\* The channels hold the store that the CPU still makes, and the address
\* leaves before the word.
ChannelsHoldStore ==
    /\ aw # <<>> => aw = <<StoreAddress>> /\ w = <<StoreWord>>
    /\ w # <<>> => w = <<StoreWord>> /\ (aw # <<>> \/ aw_req_ack_tag)
    /\ w_req_ack_tag => aw_req_ack_tag
    /\ aw_req_ack_tag /\ ~w_req_ack_tag => w # <<>>

\* The bus waits for the word of a store whose address it has, and reads
\* while the CPU waits; only the answer of a store outlives its request.
BusFollowsPort ==
    /\ phase = "WRITE" <=> aw_req_ack_tag /\ ~w_req_ack_tag
    /\ phase = "READ" <=> cpu = "wait"

\* A transaction is one beat, of the request until the answer of a store.
TxnIsOneBeat ==
    /\ phase = "IDLE" => beats = <<>>
    /\ phase # "IDLE" => txn.len = 0
    /\ phase \in {"READ", "WRITE"} => txn.line = LineOf(req) /\ txn.word = req.woff
    /\ phase = "WRITE" => moved = 0 /\ beats = <<>>
    /\ phase = "READ" => \/ moved = 0 /\ beats = <<>>
                         \/ moved = 1 /\ Len(beats) = 1 /\ Head(beats).last
    /\ phase = "WRITE_RESP" => \/ moved = 0 /\ Len(beats) = 1
                               \/ moved = 1 /\ beats = <<>>

PortInv ==
    /\ TypeOK /\ ChannelsBelongToStore /\ TagsFollowChannels
    /\ RequestIsHeld /\ ChannelsHoldStore /\ BusFollowsPort /\ TxnIsOneBeat

-----------------------------------------------------------------------------
(***************************************************************************)
(* Lemmas about the memory                                                 *)
(***************************************************************************)

LEMMA RequestFields ==
    ASSUME NEW r \in Requests
    PROVE  /\ LineOf(r) \in Lines /\ r.woff \in Offsets /\ r.wr \in BOOLEAN
           /\ r.wdata \in Words /\ r.wstrb \in SUBSET Bytes
BY DEF Requests, LineOf, Lines

LEMMA FirstOffset == 0 \in Offsets /\ 1 \in 0 .. BlockWords
BY BlockWordsAssumption DEF Offsets

LEMMA MergeKeepsMemory ==
    ASSUME mem \in [Lines -> Blocks], NEW l \in Lines, NEW o \in Offsets,
           NEW d \in Words, NEW strb
    PROVE  [mem EXCEPT ![l] = MergeBlock(@, o, d, strb)] \in [Lines -> Blocks]
<1>1. mem[l] \in [Offsets -> Words] /\ mem[l][o] \in [Bytes -> Values]
  BY DEF Blocks, Words
<1>2. MergeWord(mem[l][o], d, strb) \in Words
  BY <1>1 DEF MergeWord, Words
<1>3. MergeBlock(mem[l], o, d, strb) \in Blocks
  BY <1>1, <1>2 DEF MergeBlock, Blocks
<1> QED
  BY <1>3

\* The queue of a transaction of one beat.
LEMMA OneBeat ==
    ASSUME NEW b \in Beats
    PROVE  /\ Append(<<>>, b) = <<b>> /\ <<b>> # <<>>
           /\ <<b>> \in Seq(Beats)
           /\ Len(<<b>>) = 1 /\ Head(<<b>>) = b
BY EmptySeq

LEMMA LastBeat ==
    ASSUME NEW s \in Seq(Beats), Len(s) = 1
    PROVE  s # <<>> /\ Tail(s) = <<>> /\ Head(s) \in Beats
<1>1. s # <<>>
  BY EmptySeq
<1>2. Head(s) \in Beats /\ Tail(s) \in Seq(Beats) /\ Len(Tail(s)) = 0
  BY <1>1, HeadTailProperties
<1> QED
  BY <1>1, <1>2, EmptySeq

-----------------------------------------------------------------------------
(***************************************************************************)
(* Each step keeps the invariant                                           *)
(***************************************************************************)

LEMMA InitPortInv == Init => PortInv
<1> SUFFICES ASSUME Init PROVE PortInv
  OBVIOUS
<1>1. AxiTypeOK
  BY EmptySeq, BlockWordsAssumption DEF Init, AxiInit, AxiTypeOK, Phases
<1>2. TypeOK
  BY <1>1 DEF Init, TypeOK
<1> QED
  BY <1>2 DEF Init, AxiInit, PortInv, ChannelsBelongToStore, TagsFollowChannels,
              RequestIsHeld, ChannelsHoldStore, BusFollowsPort, TxnIsOneBeat

LEMMA RequestKeeps == ASSUME PortInv, CpuRequest PROVE PortInv'
<1> USE DEF CpuRequest, PortInv, axiVars
<1>1. TypeOK'
  BY DEF TypeOK, AxiTypeOK
<1>2. /\ aw = <<>> /\ w = <<>> /\ ~aw_req_ack_tag /\ ~w_req_ack_tag
      /\ phase \notin {"READ", "WRITE"} /\ cpu' \in {"write", "read"}
  BY DEF ChannelsBelongToStore, BusFollowsPort
<1>3. ChannelsBelongToStore' /\ TagsFollowChannels' /\ ChannelsHoldStore'
  BY <1>2 DEF ChannelsBelongToStore, TagsFollowChannels, ChannelsHoldStore
<1>4. RequestIsHeld'
  BY DEF RequestIsHeld
<1>5. BusFollowsPort' /\ TxnIsOneBeat'
  BY <1>2 DEF BusFollowsPort, TxnIsOneBeat
<1> QED
  BY <1>1, <1>3, <1>4, <1>5

LEMMA LatchKeeps == ASSUME PortInv, Latch PROVE PortInv'
<1> USE DEF Latch, MayLatch, PortInv, axiVars
<1>1. TypeOK'
  BY RequestFields DEF TypeOK, AxiTypeOK, WriteAddresses, WriteData
<1>2. ~aw_req_ack_tag /\ ~w_req_ack_tag
  BY DEF WriteReady, ChannelsHoldStore
<1>3. ChannelsBelongToStore' /\ TagsFollowChannels' /\ ChannelsHoldStore' /\ RequestIsHeld'
  BY DEF ChannelsBelongToStore, TagsFollowChannels, ChannelsHoldStore, RequestIsHeld,
         StoreAddress, StoreWord
<1>4. BusFollowsPort' /\ TxnIsOneBeat'
  BY <1>2 DEF BusFollowsPort, TxnIsOneBeat
<1> QED
  BY <1>1, <1>3, <1>4

LEMMA AddressKeeps == ASSUME PortInv, WriteAddress PROVE PortInv'
<1> USE DEF WriteAddress, AddressIsUp, PortInv
<1>1. /\ aw = <<StoreAddress>> /\ w = <<StoreWord>> /\ cpu = "write"
      /\ ~aw_req_ack_tag /\ ~w_req_ack_tag
  BY DEF ChannelsHoldStore, ChannelsBelongToStore, TagsFollowChannels
<1>2. /\ phase = "IDLE" /\ phase' = "WRITE" /\ moved' = 0 /\ beats = <<>>
      /\ txn' = [line |-> LineOf(req), word |-> req.woff, len |-> 0]
      /\ UNCHANGED <<mem, beats, req, cpu, w, w_req_ack_tag>>
  BY <1>1 DEF AxiWriteReq, StoreAddress, TxnIsOneBeat
<1>3. TypeOK'
  <2>1. txn' \in Txns /\ moved' \in 0 .. BlockWords
    BY <1>2, RequestFields, FirstOffset, BlockWordsAssumption DEF TypeOK, Txns
  <2> QED
    BY <1>2, <2>1 DEF TypeOK, AxiTypeOK, Phases
<1>4. /\ ChannelsBelongToStore' /\ TagsFollowChannels' /\ ChannelsHoldStore'
      /\ RequestIsHeld' /\ BusFollowsPort'
  BY <1>1, <1>2 DEF ChannelsBelongToStore, TagsFollowChannels, ChannelsHoldStore,
                    RequestIsHeld, BusFollowsPort, StoreWord
<1>5. TxnIsOneBeat'
  BY <1>2 DEF TxnIsOneBeat
<1> QED
  BY <1>3, <1>4, <1>5

LEMMA WordFacts ==
    ASSUME PortInv, WriteWord
    PROVE  /\ w = <<StoreWord>> /\ aw = <<>> /\ cpu = "write"
           /\ aw_req_ack_tag /\ ~w_req_ack_tag /\ moved = 0 /\ beats = <<>>
           /\ phase = "WRITE" /\ phase' = "WRITE_RESP"
           /\ beats' \in Seq(Beats) /\ Len(beats') = 1 /\ beats' # <<>>
           /\ beats' = <<[data |-> req.wdata, strb |-> req.wstrb, last |-> TRUE]>>
           /\ UNCHANGED <<req, cpu, aw, aw_req_ack_tag, mem, txn, moved>>
<1> USE DEF PortInv
<1>1. /\ w = <<StoreWord>> /\ aw = <<>> /\ cpu = "write" /\ phase = "WRITE"
      /\ aw_req_ack_tag /\ ~w_req_ack_tag
  BY DEF WriteWord, AxiWriteBeat, ChannelsHoldStore, ChannelsBelongToStore,
         TagsFollowChannels, BusFollowsPort
<1>2. moved = 0 /\ beats = <<>>
  BY <1>1 DEF TxnIsOneBeat
<1> DEFINE beat == [data |-> req.wdata, strb |-> req.wstrb, last |-> TRUE]
<1>3. beat \in Beats
  BY RequestFields DEF TypeOK, Beats
<1>4. beats' = Append(<<>>, beat) /\ phase' = "WRITE_RESP"
  <2>1. /\ beats' = Append(beats, [data |-> Head(w).data, strb |-> Head(w).strb, last |-> TRUE])
        /\ phase' = "WRITE_RESP"
    BY DEF WriteWord, AxiWriteBeat
  <2>2. Head(w).data = req.wdata /\ Head(w).strb = req.wstrb
    BY <1>1 DEF StoreWord
  <2> QED
    BY <1>2, <2>1, <2>2
<1> HIDE DEF beat
<1>5. beats' = <<beat>> /\ beats' \in Seq(Beats) /\ Len(beats') = 1 /\ beats' # <<>>
  BY <1>3, <1>4, OneBeat
<1>6. UNCHANGED <<req, cpu, aw, aw_req_ack_tag, mem, txn, moved>>
  BY DEF WriteWord, AxiWriteBeat
<1> QED
  BY <1>1, <1>2, <1>4, <1>5, <1>6 DEF beat

LEMMA WordKeeps == ASSUME PortInv, WriteWord PROVE PortInv'
<1> USE DEF PortInv
<1>1. w' = <<>> /\ w_req_ack_tag' = TRUE
  BY DEF WriteWord
<1>2. TypeOK'
  BY <1>1, WordFacts DEF TypeOK, AxiTypeOK, Phases
<1>3. /\ ChannelsBelongToStore' /\ TagsFollowChannels' /\ ChannelsHoldStore'
      /\ RequestIsHeld' /\ BusFollowsPort'
  BY <1>1, WordFacts DEF ChannelsBelongToStore, TagsFollowChannels, ChannelsHoldStore,
                         RequestIsHeld, BusFollowsPort
<1>4. TxnIsOneBeat'
  BY WordFacts DEF TxnIsOneBeat
<1> QED
  BY <1>2, <1>3, <1>4

LEMMA DoneKeeps == ASSUME PortInv, StoreDone PROVE PortInv'
<1> USE DEF StoreDone, WriteReady, PortInv, axiVars
<1>1. TypeOK'
  BY DEF TypeOK, AxiTypeOK
<1>2. aw = <<>> /\ w = <<>>
  BY DEF TagsFollowChannels
<1> QED
  BY <1>1, <1>2 DEF ChannelsBelongToStore, TagsFollowChannels, ChannelsHoldStore,
                    RequestIsHeld, BusFollowsPort, TxnIsOneBeat

LEMMA ReadAddressKeeps == ASSUME PortInv, ReadAddress PROVE PortInv'
<1> USE DEF ReadAddress, AxiReadReq, PortInv
<1>1. TypeOK'
  <2>1. txn' \in Txns /\ moved' \in 0 .. BlockWords
    BY RequestFields, FirstOffset, BlockWordsAssumption DEF TypeOK, Txns
  <2> QED
    BY <2>1 DEF TypeOK, AxiTypeOK, Phases
<1>2. aw = <<>> /\ w = <<>> /\ ~aw_req_ack_tag /\ ~w_req_ack_tag
  BY DEF ChannelsBelongToStore
<1> QED
  BY <1>1, <1>2 DEF ChannelsBelongToStore, TagsFollowChannels, ChannelsHoldStore,
                    RequestIsHeld, BusFollowsPort, TxnIsOneBeat

LEMMA ReadFacts ==
    ASSUME PortInv, ReadWord
    PROVE  /\ cpu = "wait" /\ cpu' = "none" /\ phase = "READ" /\ phase' = "IDLE"
           /\ beats # <<>> /\ Len(beats) = 1 /\ beats' = <<>>
           /\ UNCHANGED <<req, aw, w, aw_req_ack_tag, w_req_ack_tag, mem, txn, moved>>
BY LastBeat DEF ReadWord, AxiReadBeat, PortInv, TxnIsOneBeat, TypeOK, AxiTypeOK

LEMMA ReadWordKeeps == ASSUME PortInv, ReadWord PROVE PortInv'
<1> USE DEF PortInv
<1>1. TypeOK'
  BY ReadFacts, EmptySeq DEF TypeOK, AxiTypeOK, Phases
<1>2. aw = <<>> /\ w = <<>> /\ ~aw_req_ack_tag /\ ~w_req_ack_tag
  BY ReadFacts DEF ChannelsBelongToStore
<1> QED
  BY <1>1, <1>2, ReadFacts DEF ChannelsBelongToStore, TagsFollowChannels, ChannelsHoldStore,
                    RequestIsHeld, BusFollowsPort, TxnIsOneBeat

LEMMA RamReadFacts ==
    ASSUME PortInv, RamRead
    PROVE  /\ phase = "READ" /\ cpu = "wait" /\ moved = 0 /\ moved' = 1 /\ beats = <<>>
           /\ beats' = <<[data |-> mem[LineOf(req)][req.woff], strb |-> {}, last |-> TRUE]>>
           /\ beats' \in Seq(Beats) /\ Len(beats') = 1 /\ beats' # <<>>
           /\ Head(beats').last /\ Head(beats').data = mem[LineOf(req)][req.woff]
           /\ UNCHANGED <<mem, phase, txn>>
<1> USE DEF PortInv
<1>1. /\ phase = "READ" /\ cpu = "wait" /\ txn.line = LineOf(req)
      /\ txn.word = req.woff /\ txn.len = 0
  BY DEF RamRead, BusFollowsPort, TxnIsOneBeat
<1>2. moved = 0 /\ beats = <<>>
  BY <1>1 DEF RamRead, TxnIsOneBeat
<1>3. req.woff + 0 = req.woff
  BY RequestFields, BlockWordsAssumption DEF TypeOK, Offsets
<1>4. mem[LineOf(req)][req.woff] \in Words
  BY RequestFields DEF TypeOK, AxiTypeOK, Blocks
<1> DEFINE beat == [data |-> mem[LineOf(req)][req.woff], strb |-> {}, last |-> TRUE]
<1>5. beat \in Beats
  BY <1>4 DEF Beats
<1>6. beats' = Append(<<>>, beat) /\ moved' = 1 /\ UNCHANGED <<mem, phase, txn>>
  <2>1. /\ beats' = Append(beats, [data |-> mem[txn.line][txn.word + moved],
                                   strb |-> {}, last |-> moved = txn.len])
        /\ moved' = moved + 1 /\ UNCHANGED <<mem, phase, txn>>
    BY DEF RamRead
  <2>2. txn.word + moved = req.woff /\ (moved = txn.len) = TRUE
    BY <1>1, <1>2, <1>3
  <2>3. [data |-> mem[txn.line][txn.word + moved], strb |-> {}, last |-> moved = txn.len] = beat
    BY <1>1, <2>2, Zenon
  <2>4. moved' = 1
    BY <1>2, <2>1
  <2> QED
    BY <1>2, <2>1, <2>3, <2>4, Zenon
<1>7. beat.last /\ beat.data = mem[LineOf(req)][req.woff]
  OBVIOUS
<1> HIDE DEF beat
<1>8. /\ beats' = <<beat>> /\ beats' \in Seq(Beats) /\ Len(beats') = 1 /\ beats' # <<>>
      /\ Head(beats') = beat
  BY <1>5, <1>6, OneBeat
<1> QED
  BY <1>1, <1>2, <1>6, <1>7, <1>8 DEF beat

LEMMA RamWriteFacts ==
    ASSUME PortInv, RamWrite
    PROVE  /\ phase = "WRITE_RESP" /\ moved = 0 /\ moved' = 1
           /\ Len(beats) = 1 /\ beats # <<>> /\ beats' = <<>>
           /\ Head(beats) \in Beats /\ txn.line \in Lines /\ txn.word \in Offsets
           /\ mem' = [mem EXCEPT ![txn.line] =
                          MergeBlock(@, txn.word, Head(beats).data, Head(beats).strb)]
           /\ UNCHANGED <<phase, txn>>
<1> USE DEF PortInv
<1>1. phase = "WRITE_RESP" /\ moved = 0 /\ Len(beats) = 1
  BY DEF RamWrite, TxnIsOneBeat
<1>2. beats # <<>> /\ Tail(beats) = <<>> /\ Head(beats) \in Beats
  BY <1>1, LastBeat DEF TypeOK, AxiTypeOK
<1>3. txn.line \in Lines /\ txn.word \in Offsets
  BY DEF TypeOK, AxiTypeOK, Txns
<1>4. txn.word + moved = txn.word /\ moved + 1 = 1
  BY <1>1, <1>3, BlockWordsAssumption DEF Offsets
<1>5. /\ mem' = [mem EXCEPT ![txn.line] =
                      MergeBlock(@, txn.word + moved, Head(beats).data, Head(beats).strb)]
      /\ moved' = moved + 1 /\ beats' = Tail(beats) /\ UNCHANGED <<phase, txn>>
  BY DEF RamWrite
<1> QED
  BY <1>1, <1>2, <1>3, <1>4, <1>5

LEMMA MemoryKeeps == ASSUME PortInv, MemoryStep PROVE PortInv'
<1> USE DEF PortInv, MemoryStep, wrapperVars
<1>1. CASE RamRead
  <2>1. TypeOK'
    BY <1>1, RamReadFacts, FirstOffset DEF TypeOK, AxiTypeOK
  <2> QED
    BY <1>1, <2>1, RamReadFacts
       DEF ChannelsBelongToStore, TagsFollowChannels, ChannelsHoldStore, RequestIsHeld,
           BusFollowsPort, TxnIsOneBeat, StoreAddress, StoreWord
<1>2. CASE RamWrite
  <2>1. mem' \in [Lines -> Blocks]
    BY <1>2, RamWriteFacts, MergeKeepsMemory DEF TypeOK, AxiTypeOK, Beats
  <2>2. TypeOK'
    BY <1>2, <2>1, RamWriteFacts, FirstOffset, EmptySeq DEF TypeOK, AxiTypeOK
  <2> QED
    BY <1>2, <2>2, RamWriteFacts
       DEF ChannelsBelongToStore, TagsFollowChannels, ChannelsHoldStore, RequestIsHeld,
           BusFollowsPort, TxnIsOneBeat, StoreAddress, StoreWord
<1>3. CASE AxiWriteResp
  <2>1. /\ phase = "WRITE_RESP" /\ phase' = "IDLE" /\ beats = <<>>
        /\ UNCHANGED <<mem, txn, moved, beats>>
    BY <1>3 DEF AxiWriteResp, TxnIsOneBeat
  <2>2. TypeOK'
    BY <2>1 DEF TypeOK, AxiTypeOK, Phases
  <2> QED
    BY <2>1, <2>2
       DEF ChannelsBelongToStore, TagsFollowChannels, ChannelsHoldStore, RequestIsHeld,
           BusFollowsPort, TxnIsOneBeat, StoreAddress, StoreWord
<1> QED
  BY <1>1, <1>2, <1>3 DEF AxiInternal

LEMMA DeviceKeeps == ASSUME PortInv, DeviceStep PROVE PortInv'
<1> USE DEF PortInv, DeviceStep, DeviceWrite, wrapperVars
<1>1. mem' \in [Lines -> Blocks]
  BY MergeKeepsMemory, BypassAssumption DEF TypeOK, AxiTypeOK
<1>2. TypeOK'
  BY <1>1 DEF TypeOK, AxiTypeOK
<1> QED
  BY <1>2 DEF ChannelsBelongToStore, TagsFollowChannels, ChannelsHoldStore, RequestIsHeld,
              BusFollowsPort, TxnIsOneBeat, StoreAddress, StoreWord

LEMMA StepPortInv == PortInv /\ [Next]_vars => PortInv'
<1> SUFFICES ASSUME PortInv, [Next]_vars PROVE PortInv'
  OBVIOUS
<1>1. CASE UNCHANGED vars
  BY <1>1 DEF vars, wrapperVars, axiVars, PortInv, TypeOK, AxiTypeOK, ChannelsBelongToStore,
         TagsFollowChannels, ChannelsHoldStore, RequestIsHeld, BusFollowsPort, TxnIsOneBeat,
         StoreAddress, StoreWord
<1> QED
  BY <1>1, RequestKeeps, LatchKeeps, AddressKeeps, WordKeeps, DoneKeeps, ReadAddressKeeps,
     ReadWordKeeps, MemoryKeeps, DeviceKeeps DEF Next, PortStep

LEMMA PortInvariance == Spec => []PortInv
BY InitPortInv, StepPortInv, PTL DEF Spec

\* Every variable of the port and the bus keeps its type: a channel holds at
\* most one request, and no more words are moved than a line has.
THEOREM TypesAlwaysOK == Spec => []TypeOK
<1>1. PortInv => TypeOK
  BY DEF PortInv
<1> QED
  BY <1>1, PortInvariance, PTL

\* The CPU is released from a store only when both of its channels are with
\* the memory (mem_if_wrapper.v:151), and no tag is left for the next store.
THEOREM ChannelsAlwaysBelong == Spec => []ChannelsBelongToStore
<1>1. PortInv => ChannelsBelongToStore
  BY DEF PortInv
<1> QED
  BY <1>1, PortInvariance, PTL

-----------------------------------------------------------------------------
(***************************************************************************)
(* The memory the CPU is promised                                          *)
(***************************************************************************)

SeenAnswer == IF WordIsRead THEN Head(beats).data ELSE ZeroWord
seen       == <<mem, req, SeenStage, SeenAnswer, SeenPosted>>

\* The promise is about the same words, lines and requests, and every line
\* is one of those that are written at once.
LEMMA SameTypes ==
    /\ Promise!ZeroWord = ZeroWord /\ Promise!Requests = Requests
    /\ Promise!Lines = Lines /\ Promise!Blocks = Blocks
    /\ Promise!Offsets = Offsets /\ Promise!Words = Words
    /\ \A r \in Requests : Promise!LineOf(r) = LineOf(r) /\ Promise!IsBypass(r)
    /\ \A block, o, d, s : Promise!MergeBlock(block, o, d, s) = MergeBlock(block, o, d, s)
<1> USE DEF ZeroWord, Promise!ZeroWord, Lines, Promise!Lines, Offsets, Promise!Offsets,
            Words, Promise!Words, Blocks, Promise!Blocks, LineOf, Promise!LineOf
<1>1. Promise!Requests = Requests
  BY DEF Requests, Promise!Requests
<1>2. \A block, o, d, s : Promise!MergeBlock(block, o, d, s) = MergeBlock(block, o, d, s)
  BY DEF MergeBlock, Promise!MergeBlock, MergeWord, Promise!MergeWord
<1>3. \A r \in Requests : Promise!IsBypass(r)
  BY RequestFields DEF Promise!IsBypass
<1> QED
  BY <1>1, <1>2, <1>3

LEMMA PromisedInit == Init => Promise!Init
BY SameTypes DEF Init, AxiInit, Promise!Init, SeenStage, SeenPosted, WordIsRead

LEMMA AskStep == ASSUME PortInv, CpuRequest PROVE Promise!Ask
<1> USE DEF CpuRequest, axiVars
<1>1. cpu' \in {"write", "read"} /\ ~w_req_ack_tag
  BY DEF PortInv, ChannelsBelongToStore
<1>2. SeenStage = "free" /\ SeenStage' = "asked" /\ ~WordIsRead /\ ~WordIsRead'
  BY <1>1 DEF SeenStage, WordIsRead
<1>3. SeenPosted' = SeenPosted
  BY DEF SeenPosted
<1> QED
  BY <1>2, <1>3, SameTypes DEF Promise!Ask

\* The word of a store is posted when the W channel is taken; the CPU is
\* told a cycle later.
LEMMA PostStep == ASSUME PortInv, WriteWord PROVE Promise!Post
<1>1. req \in Requests /\ req.wr /\ txn.line = LineOf(req) /\ txn.word = req.woff
  BY WordFacts DEF PortInv, TypeOK, RequestIsHeld, TxnIsOneBeat
<1>2. w_req_ack_tag' = TRUE
  BY DEF WriteWord
<1>3. /\ SeenStage = "asked" /\ SeenStage' = "answered" /\ ~WordIsRead /\ ~WordIsRead'
  BY WordFacts, <1>2 DEF SeenStage, WordIsRead
<1>4. SeenPosted = <<>>
  BY WordFacts DEF SeenPosted
<1>5. SeenPosted' = <<[line |-> LineOf(req), woff |-> req.woff,
                       data |-> req.wdata, strb |-> req.wstrb]>>
  BY WordFacts, <1>1 DEF SeenPosted
<1> QED
  BY WordFacts, <1>1, <1>3, <1>4, <1>5, SameTypes DEF Promise!Post

LEMMA DoPostedStep == ASSUME PortInv, MemoryStep, RamWrite PROVE Promise!DoPosted
<1>1. cpu # "wait" /\ UNCHANGED wrapperVars
  BY RamWriteFacts DEF PortInv, BusFollowsPort, MemoryStep
<1>2. SeenStage' = SeenStage /\ ~WordIsRead /\ ~WordIsRead'
  BY <1>1 DEF SeenStage, WordIsRead, wrapperVars
<1>3. SeenPosted = <<[line |-> txn.line, woff |-> txn.word,
                      data |-> Head(beats).data, strb |-> Head(beats).strb]>>
  BY RamWriteFacts DEF SeenPosted
<1>4. SeenPosted' = <<>>
  BY RamWriteFacts DEF SeenPosted
<1> QED
  BY <1>1, <1>2, <1>3, <1>4, RamWriteFacts, SameTypes DEF Promise!DoPosted, wrapperVars

\* A load reads the memory when the RAM does, which it does only when no
\* store is on its way: the bus carries one transaction at a time.
LEMMA LoadStep == ASSUME PortInv, MemoryStep, RamRead PROVE Promise!Load
<1>1. req \in Requests /\ ~req.wr /\ req' = req /\ cpu' = "wait"
  BY RamReadFacts DEF PortInv, TypeOK, RequestIsHeld, MemoryStep, wrapperVars
<1>2. SeenStage = "asked" /\ SeenStage' = "answered" /\ WordIsRead'
  BY <1>1, RamReadFacts DEF SeenStage, WordIsRead
<1>3. SeenPosted = <<>> /\ SeenPosted' = <<>>
  BY RamReadFacts DEF SeenPosted
<1>4. Head(beats').data = mem[LineOf(req)][req.woff]
  BY RamReadFacts
<1> QED
  BY <1>1, <1>2, <1>3, <1>4, RamReadFacts, SameTypes DEF Promise!Load

LEMMA TakeStep == ASSUME PortInv, StoreDone \/ ReadWord PROVE Promise!Take
<1>1. SeenStage = "answered" /\ SeenStage' = "free" /\ ~WordIsRead' /\ UNCHANGED <<mem, req>>
  BY ReadFacts DEF StoreDone, WriteReady, axiVars, SeenStage, WordIsRead
<1>2. SeenPosted' = SeenPosted
  BY ReadFacts DEF StoreDone, axiVars, SeenPosted
<1> QED
  BY <1>1, <1>2, SameTypes DEF Promise!Take

LEMMA DeviceStepPromised == ASSUME PortInv, DeviceStep PROVE Promise!Device
<1>1. UNCHANGED <<req, SeenStage, SeenPosted, WordIsRead, beats>>
  BY DEF DeviceStep, DeviceWrite, wrapperVars, SeenStage, SeenPosted, WordIsRead
<1>2. \E l \in Lines, o \in Offsets, d \in Words :
          mem' = [mem EXCEPT ![l] = MergeBlock(@, o, d, Bytes)]
  BY BypassAssumption DEF DeviceStep, DeviceWrite
<1> QED
  BY <1>1, <1>2, SameTypes DEF Promise!Device

\* The rest is between the port and the bus.
LEMMA QuietStep ==
    ASSUME PortInv, Latch \/ WriteAddress \/ ReadAddress \/ (MemoryStep /\ AxiWriteResp)
    PROVE  UNCHANGED seen
<1> USE DEF PortInv, seen, SeenAnswer
<1>1. CASE Latch
  <2>1. ~w_req_ack_tag
    BY <1>1 DEF Latch, MayLatch, WriteReady, ChannelsHoldStore
  <2> QED
    BY <1>1, <2>1 DEF Latch, MayLatch, axiVars, SeenStage, SeenPosted, WordIsRead
<1>2. CASE WriteAddress
  <2>1. cpu = "write" /\ ~w_req_ack_tag /\ phase = "IDLE" /\ beats = <<>>
    BY <1>2 DEF WriteAddress, AddressIsUp, AxiWriteReq, ChannelsBelongToStore,
                ChannelsHoldStore, TagsFollowChannels, TxnIsOneBeat
  <2> QED
    BY <1>2, <2>1 DEF WriteAddress, AxiWriteReq, SeenStage, SeenPosted, WordIsRead
<1>3. CASE ReadAddress
  <2>1. cpu = "read" /\ phase = "IDLE" /\ beats = <<>>
    BY <1>3 DEF ReadAddress, AxiReadReq, TxnIsOneBeat
  <2> QED
    BY <1>3, <2>1 DEF ReadAddress, AxiReadReq, SeenStage, SeenPosted, WordIsRead
<1>4. CASE MemoryStep /\ AxiWriteResp
  <2>1. phase = "WRITE_RESP" /\ beats = <<>> /\ beats' = <<>> /\ mem' = mem
    BY <1>4 DEF AxiWriteResp, TxnIsOneBeat
  <2> QED
    BY <1>4, <2>1 DEF MemoryStep, wrapperVars, SeenStage, SeenPosted, WordIsRead
<1> QED
  BY <1>1, <1>2, <1>3, <1>4

LEMMA StepPromised == PortInv /\ [Next]_vars => [Promise!Next]_(Promise!avars)
<1> SUFFICES ASSUME PortInv, [Next]_vars PROVE Promise!Next \/ UNCHANGED seen
  BY DEF Promise!avars, seen, SeenAnswer
<1>1. CASE UNCHANGED vars
  BY <1>1 DEF vars, wrapperVars, axiVars, seen, SeenStage, SeenAnswer, SeenPosted, WordIsRead
<1>2. CASE MemoryStep
  BY <1>2, DoPostedStep, LoadStep, QuietStep DEF MemoryStep, AxiInternal, Promise!Next
<1>3. CASE CpuRequest \/ PortStep \/ DeviceStep
  BY <1>3, AskStep, PostStep, TakeStep, DeviceStepPromised, QuietStep
     DEF PortStep, Promise!Next
<1> QED
  BY <1>1, <1>2, <1>3 DEF Next

\* Without the D-cache the CPU sees a memory of which every word is written
\* once and in program order: a load that follows a store reads what it
\* wrote, although the CPU is released before the store is acknowledged
\* (mem_if_wrapper.v:151), whatever devices write in between.
THEOREM PortImplementsCoherentMemory == Spec => ImplementsCoherentMemory
<1>1. Spec => Promise!Init /\ [][Promise!Next]_(Promise!avars)
  BY PromisedInit, StepPromised, PortInvariance, PTL DEF Spec
<1> QED
  BY <1>1 DEF ImplementsCoherentMemory, Promise!Spec

=============================================================================
