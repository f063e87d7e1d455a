--------------------------- MODULE MCInterconnect ---------------------------
(***************************************************************************)
(* The interconnect with the ports that went before each waiting one.  A   *)
(* line of eight words is longer than what the RAM's output register and   *)
(* both registers of a skid buffer hold.                                   *)
(***************************************************************************)
EXTENDS Interconnect

VARIABLE passed      \* by port: the ports whose bursts began since it asks
MCvars == <<vars, passed>>

Starts == state_reg = "IDLE" /\ granted
Passed ==
    [port \in Ports |->
        IF port \notin request \/ grant = port THEN {}
        ELSE IF Starts THEN passed[port] \cup {grant} ELSE passed[port]]

MCInit == Init /\ passed = [port \in Ports |-> {}]
MCNext == Next /\ passed' = Passed
MCFairness == WF_MCvars(AllOpenCycle /\ passed' = Passed)
MCSpec == MCInit /\ [][MCNext]_MCvars /\ MCFairness

\* OvertakenOnce: while a port asks, no other port is given the interconnect
\* twice (the mask of arbiter.v), although the data port may ask again before
\* its last transaction has ended.
OvertakenOnce ==
    Starts => \A port \in request \ {grant} : grant \notin passed[port]
=============================================================================
