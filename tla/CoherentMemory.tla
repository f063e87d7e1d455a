--------------------------- MODULE CoherentMemory ---------------------------
(***************************************************************************)
(* What the CPU is promised by the data cache and the memory behind it: a  *)
(* memory without a cache, with at most one posted write.                  *)
(*                                                                         *)
(* A load of a cacheable line returns the word memory has at that moment,  *)
(* and a store to one is done when it completes.  A store to a bypass line *)
(* is posted: it completes before it is done.  The loads and stores of     *)
(* bypass lines are done in program order, so a bypass access waits for    *)
(* the posted one.  Devices write bypass lines at any time.                *)
(***************************************************************************)
EXTENDS MemoryTypes, Sequences

VARIABLES
    amem,     \* the memory
    areq,     \* the last request of the CPU
    stage,    \* "free", "asked", or "answered" until the CPU is told
    answer,   \* the word, while stage = "answered"
    posted    \* the posted write, if any, as a sequence

avars == <<amem, areq, stage, answer, posted>>

IsBypass(r) == LineOf(r) \in BypassLines

Init ==
    /\ amem \in [Lines -> Blocks]
    /\ areq \in Requests
    /\ stage = "free"
    /\ answer = ZeroWord
    /\ posted = <<>>

Ask ==
    /\ stage = "free"
    /\ areq' \in Requests
    /\ stage' = "asked"
    /\ UNCHANGED <<amem, answer, posted>>

Load ==
    /\ stage = "asked"
    /\ ~areq.wr
    /\ IsBypass(areq) => posted = <<>>
    /\ answer' = amem[LineOf(areq)][areq.woff]
    /\ stage' = "answered"
    /\ UNCHANGED <<amem, areq, posted>>

Take ==
    /\ stage = "answered"
    /\ stage' = "free"
    /\ answer' = ZeroWord
    /\ UNCHANGED <<amem, areq, posted>>

StoreCached ==
    /\ stage = "asked"
    /\ areq.wr
    /\ ~IsBypass(areq)
    /\ amem' = [amem EXCEPT ![LineOf(areq)] =
                    MergeBlock(@, areq.woff, areq.wdata, areq.wstrb)]
    /\ stage' = "free"
    /\ UNCHANGED <<areq, answer, posted>>

\* The CPU may go on at once, or is told later.
Post ==
    /\ stage = "asked"
    /\ areq.wr
    /\ IsBypass(areq)
    /\ posted = <<>>
    /\ posted' = <<[line |-> LineOf(areq), woff |-> areq.woff,
                    data |-> areq.wdata, strb |-> areq.wstrb]>>
    /\ stage' \in {"free", "answered"}
    /\ UNCHANGED <<amem, areq, answer>>

DoPosted ==
    /\ posted # <<>>
    /\ LET p == Head(posted)
       IN  amem' = [amem EXCEPT ![p.line] = MergeBlock(@, p.woff, p.data, p.strb)]
    /\ posted' = <<>>
    /\ UNCHANGED <<areq, stage, answer>>

Device ==
    /\ \E l \in BypassLines, o \in Offsets, d \in Words :
          amem' = [amem EXCEPT ![l] = MergeBlock(@, o, d, Bytes)]
    /\ UNCHANGED <<areq, stage, answer, posted>>

Next == Ask \/ Load \/ Take \/ StoreCached \/ Post \/ DoPosted \/ Device

Spec == Init /\ [][Next]_avars

=============================================================================
