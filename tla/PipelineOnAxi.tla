---------------------------- MODULE PipelineOnAxi ----------------------------
(***************************************************************************)
(* The pipeline without the I-cache: inst_if_wrapper.v wires PC and        *)
(* Inst_Req_Valid to the read address channel of the interconnect, which   *)
(* registers the address in one cycle and raises ARREADY in the next       *)
(* (axi_interconnect.v:567-588).                                           *)
(***************************************************************************)
EXTENDS MCPipeline

VARIABLE granted    \* axi_addr_reg while s_axi_arready_reg is high, else None

axiVars == <<pipeVars, granted>>

\* The interconnect is in STATE_IDLE and the grant of the request is valid;
\* how long the arbiter takes is open.
Samples == if_state = "IF_REQ" /\ fetching = None /\ granted = None

Sample ==
    \/ Samples /\ granted' = pc_reg
    \/ granted' = None

\* inst_if_wrapper.v:48-50
ReadyWhenGranted(in) == in.inst_ready <=> granted # None

AxiClock(in) ==
    /\ ReadyWhenGranted(in)
    /\ Core(in) /\ InstPortNext(in, granted) /\ DataPortNext(in)
    /\ Sample

AxiNext == \E in \in Inputs : AxiClock(in)

AxiSpec == MCInit /\ granted = None /\ [][AxiNext]_axiVars

\* The instructions that retire are those of the sequential architecture:
\* custom_cpu_test.v:82 stops the simulation at the first that is not.
RetiresReference == ImplementsIsa

=============================================================================
