--------------------------- MODULE InstructionPort ---------------------------
(***************************************************************************)
(* What a core is promised by its instruction port: it takes one fetch at  *)
(* a time and answers it once, with the word that memory has at the        *)
(* address that the core gave in the cycle of the handshake.  The Pipeline *)
(* module assumes this of its input wires.                                 *)
(***************************************************************************)
EXTENDS MemoryTypes, Sequences

VARIABLES
    code,      \* the memory of the instructions
    asked,     \* the fetch that is taken and not answered, if any
    word       \* the last instruction given to the core

portVars == <<code, asked, word>>

PortFetches == [tag : Tags, idx : Sets, woff : Offsets]

Init ==
    /\ code \in [Lines \ BypassLines -> Blocks]
    /\ asked = <<>>
    /\ word \in Words

Take ==
    /\ asked = <<>>
    /\ \E f \in PortFetches : LineOf(f) \notin BypassLines /\ asked' = <<f>>
    /\ UNCHANGED <<code, word>>

Give ==
    /\ asked # <<>>
    /\ word' = code[LineOf(asked[1])][asked[1].woff]
    /\ asked' = <<>>
    /\ UNCHANGED code

Spec == Init /\ [][Take \/ Give]_portVars

=============================================================================
