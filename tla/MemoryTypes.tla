---------------------------- MODULE MemoryTypes ----------------------------
(***************************************************************************)
(* The address space that the data cache, the AXI memory and the abstract  *)
(* memory share.  A byte address of the program is                         *)
(*    [31:8] tag | [7:5] set index | [4:2] word offset | [1:0] byte lane   *)
(* (dcache_top.v:82-84).  A line is the 32-byte block <<tag, index>>; a    *)
(* word is a function from its byte lanes to byte values.                  *)
(***************************************************************************)
EXTENDS Integers

CONSTANTS
    Tags,          \* values of the 24 tag bits
    Sets,          \* values of the 3 index bits
    BlockWords,    \* words of a block: 8 in the code
    Bytes,         \* byte lanes of a word: 4 in the code
    Values,        \* values of a byte
    BypassLines    \* the lines that must not be cached

Lines   == Tags \X Sets
Offsets == 0 .. BlockWords - 1
Words   == [Bytes -> Values]
Blocks  == [Offsets -> Words]

ASSUME BlockWordsAssumption == BlockWords \in Nat \ {0}
ASSUME ValuesAssumption     == 0 \in Values
ASSUME BypassAssumption     == BypassLines \subseteq Lines

ZeroWord == [b \in Bytes |-> 0]

\* A request of the CPU.  A load drives no data and no strobe
\* (custom_cpu_prj4.v:627-632); a store may strobe any byte lanes.
Requests ==
    {r \in [tag : Tags, idx : Sets, woff : Offsets, wr : BOOLEAN,
            wdata : Words, wstrb : SUBSET Bytes] :
        ~r.wr => r.wdata = ZeroWord /\ r.wstrb = {}}

LineOf(r) == <<r.tag, r.idx>>

\* The strobed byte lanes of a word are replaced, the others are kept.
MergeWord(old, data, strb) ==
    [b \in Bytes |-> IF b \in strb THEN data[b] ELSE old[b]]

\* merge_word: one word of a block is merged, the others are kept.
MergeBlock(block, woff, data, strb) ==
    [block EXCEPT ![woff] = MergeWord(@, data, strb)]

=============================================================================
