------------------------- MODULE DCacheReplacement -------------------------
(***************************************************************************)
(* The replacement order of the data cache.  A history variable keeps, for *)
(* each set, which way was last filled before which.                       *)
(***************************************************************************)
EXTENDS MCDCache

VARIABLE older

OrderInit == older = [s \in Sets |-> {}]

\* Way w of set s is filled: it is now the youngest of the valid ways.
Filled(s, w) ==
    [older EXCEPT ![s] =
        {pair \in @ : pair[1] # w} \cup {<<u, w>> : u \in {v \in Ways \ {w} : valid[s][v]}}]

Fills == state = "D_REFILL" /\ state' # "D_REFILL"

OrderNext == Next /\ older' = IF Fills THEN Filled(idx, victim) ELSE older

OrderSteps == [][OrderNext]_<<vars, older>>
OrderSpec  == Init /\ OrderInit /\ OrderSteps

\* For TLC.
MCOrderSpec == MCInit /\ OrderInit /\ OrderSteps /\ Fairness

\* Round robin is first-in first-out: a miss in a full set gives up the way
\* that was filled longest ago, although the pointer stands still while the
\* set fills up and is shared by loads and stores (dcache_top.v:147-151 and
\* 294-295).  A pointer that skips a way would leave that way for ever.
EvictsOldest ==
    state = "D_REFILL" /\ AllValid(idx) =>
        \A w \in Ways \ {victim} : <<victim, w>> \in older[idx]

=============================================================================
