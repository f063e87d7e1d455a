----------------------------- MODULE Predictor -----------------------------
(***************************************************************************)
(* The gshare branch predictor and branch target buffer of the pipeline    *)
(* (custom_cpu_prj4.v:101-118 and 532-574).  It is read in IF and trained  *)
(* in EX.                                                                  *)
(***************************************************************************)
EXTENDS Instructions

CONSTANTS
    Entries,       \* PRED_ENTRIES: 64 in the code
    Hash(_, _)     \* exclusive or of two indices

VARIABLES
    ghr,           \* global history, the newest outcome in the lowest bit
    pht,           \* two-bit counters
    btb            \* what the branch target buffer has at each index

predictorVars == <<ghr, pht, btb>>

ASSUME EntriesAssumption == Entries \in Nat \ {0}
ASSUME HashAssumption ==
    \A i, j \in 0 .. Entries - 1 : Hash(i, j) \in 0 .. Entries - 1

NoEntry  == [valid |-> FALSE, tag |-> 0, target |-> 0]
Indices  == 0 .. Entries - 1
Index(a) == a % Entries
TagOf(a) == a \div Entries

PredictorTypeOK ==
    /\ ghr \in Indices
    /\ pht \in [Indices -> 0 .. 3]
    /\ btb \in [Indices -> [valid : BOOLEAN, tag : Words, target : Words]]

PredictorInit ==
    /\ ghr = 0
    /\ pht = [i \in Indices |-> 1]
    /\ btb = [i \in Indices |-> NoEntry]

BtbHitUntagged(a) == btb[Index(a)].valid
BtbHit(a) == btb[Index(a)].valid /\ btb[Index(a)].tag = TagOf(a)
PredictsTaken(a) == BtbHit(a) /\ pht[Hash(Index(a), ghr)] >= 2
PredictedPc(a) == IF PredictsTaken(a) THEN btb[Index(a)].target ELSE After(a)

CountedFreely(n, taken) == IF taken THEN n + 1 ELSE n - 1
Counted(n, taken) ==
    IF taken THEN IF n = 3 THEN 3 ELSE n + 1
             ELSE IF n = 0 THEN 0 ELSE n - 1

\* A control instruction at address a, fetched under history g, resolves.
Train(a, g, taken, target) ==
    /\ pht' = [pht EXCEPT ![Hash(Index(a), g)] = Counted(@, taken)]
    /\ ghr' = (2 * ghr + (IF taken THEN 1 ELSE 0)) % Entries
    /\ btb' = IF taken
              THEN [btb EXCEPT ![Index(a)] =
                        [valid |-> TRUE, tag |-> TagOf(a), target |-> target]]
              ELSE btb

=============================================================================
