-------------------------- MODULE TraceComparator --------------------------
(***************************************************************************)
(* The comparison of a core with a trace file, the same text in            *)
(* turbo/custom_cpu_test.v and multi_cycle/custom_cpu_test.v: each         *)
(* register write that the core retires is compared with the next record   *)
(* of the file that is a register write.                                   *)
(*                                                                         *)
(* A file is the sequence of its records, each ended by a newline, as the  *)
(* recorder and the traces in the repository have it: the end of the file  *)
(* is noticed by the read after the last record, which fails.  The bits of *)
(* a mask are all compared or all ignored.                                 *)
(***************************************************************************)
EXTENDS SimMain, Sequences, FiniteSetsExt

CONSTANT NoFile               \* the trace cannot be opened

VARIABLES
    trace,                    \* the records of the file, or NoFile
    pos, feof,                \* records read, $feof
    rf_bit_cmp_ref,           \* the mask, kept between records
    trace_end

readerVars == <<pos, feof, rf_bit_cmp_ref, trace_end>>

\* inst_retire of a core in one cycle.
NoWrite == [en |-> FALSE, pc |-> 0, waddr |-> 0, wdata |-> 0]
WritesRegister(w) == w.en /\ w.waddr # 0

\* 1: register write, 2: store, 3: jump, 4: jump and link.
IsRegisterWriteAny(r) == r.type \in {1, 4}
IsRegisterWrite(r)    == r.type = 4 \/ (r.type = 1 /\ r.waddr # 0)

OpenTrace(t) ==
    /\ trace = t
    /\ pos = 0 /\ feof = FALSE
    /\ rf_bit_cmp_ref = FALSE
    /\ trace_end = FALSE

-----------------------------------------------------------------------------
\* read_trace, repeated until the record is a register write or the file ends
Upcoming == {j \in pos + 1 .. Len(trace) : IsRegisterWrite(trace[j])}
Stop     == IF Upcoming = {} THEN Len(trace) ELSE Min(Upcoming)

\* Only records of type 1 carry a mask.
MasksRead == {j \in pos + 1 .. Stop : trace[j].type = 1}
maskStale == rf_bit_cmp_ref
maskNow   == IF MasksRead = {} THEN rf_bit_cmp_ref ELSE trace[Max(MasksRead)].mask

Compares(w) ==
    trace # NoFile /\ resetNow = 1 /\ WritesRegister(w) /\ ~feof /\ ~trace_end

Differs(w, r, mask) ==
    w.pc # r.pc \/ w.waddr # r.waddr \/ (mask /\ w.wdata # r.wdata)

\* In an empty file the type of the record keeps its initial value, which is
\* none of the four.
CompareFails(w) ==
    /\ Compares(w)
    /\ \/ trace = <<>>
       \/ Upcoming # {} /\ Differs(w, trace[Stop], maskNow)

Compare(w) ==
    /\ trace_end' = (resetNow = 1 /\ (trace_end \/ feof \/ (Compares(w) /\ Upcoming = {})))
    /\ IF Compares(w)
       THEN pos' = Stop /\ feof' = (Upcoming = {}) /\ rf_bit_cmp_ref' = maskNow
       ELSE UNCHANGED <<pos, feof, rf_bit_cmp_ref>>

=============================================================================
