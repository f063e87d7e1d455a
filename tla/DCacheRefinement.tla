-------------------------- MODULE DCacheRefinement --------------------------
(***************************************************************************)
(* The data cache and the AXI memory implement the coherent memory.        *)
(***************************************************************************)
EXTENDS DCacheSystem

\* The memory the CPU sees: the cached copy of a line, else the line in
\* memory.
SeenBy(l) ==
    LET hits == {w \in Ways : Holds(l[2], w, l[1])}
    IN  IF hits = {} THEN mem[l] ELSE data[l[2]][CHOOSE w \in hits : TRUE]

SeenMemory == [l \in Lines |-> SeenBy(l)]

\* An uncached load has its word when the RAM has read it.
WordIsRead == state = "D_BPRD" /\ beats # <<>>

SeenStage ==
    CASE state = "D_WAIT"                -> "free"
      [] state = "D_RESP" \/ WordIsRead  -> "answered"
      [] OTHER                           -> "asked"

SeenAnswer ==
    CASE state = "D_RESP" -> CpuRspData
      [] WordIsRead       -> Head(beats).data
      [] OTHER            -> ZeroWord

\* An uncached store is posted from its W handshake until the RAM takes it.
SeenPosted ==
    IF phase \in {"WRITE", "WRITE_RESP"} /\ txn.line \in BypassLines /\ beats # <<>>
    THEN <<[line |-> txn.line, woff |-> txn.word,
            data |-> Head(beats).data, strb |-> Head(beats).strb]>>
    ELSE <<>>

Promise == INSTANCE CoherentMemory WITH
    amem <- SeenMemory, areq <- req, stage <- SeenStage,
    answer <- SeenAnswer, posted <- SeenPosted

\* The CPU cannot tell the cached memory from a memory without a cache: all
\* the values of its loads, and the order in which devices see its uncached
\* stores, are ones that such a memory gives.
ImplementsCoherentMemory == Promise!Spec

=============================================================================
