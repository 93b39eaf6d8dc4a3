------------------------- MODULE MCExecutionRuntime -------------------------
(***************************************************************************)
(* Small instances of ExecutionRuntime: a full and a prescreen plan, model *)
(* payloads under and over the limit, with an internal trace, and one that *)
(* each of the later stages refuses.                                       *)
(***************************************************************************)
EXTENDS ExecutionRuntime, TLC

CONSTANTS full, prescreen, cheap, traced, dear,
          misHashed, lostTrace, unpriced, patchless

MCPlans == {full, prescreen}
MCLimitOf == [p \in MCPlans |-> 1]
MCOutputs == {cheap, traced, dear, misHashed, lostTrace, unpriced, patchless}
MCCostOf == [o \in MCOutputs |-> IF o = dear THEN 2 ELSE 1]
MCTraced == {traced, lostTrace}
MCRefusedAt ==
    [o \in MCOutputs |-> CASE o = misHashed -> "external_trace"
                         [] o = lostTrace -> "internal_trace"
                         [] o = unpriced -> "cost"
                         [] o = patchless -> "native"
                         [] OTHER -> "never"]
OneFullPlan == {full}
FullLimitOf == [p \in OneFullPlan |-> 1]
=============================================================================
