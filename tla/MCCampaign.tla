----------------------------- MODULE MCCampaign -----------------------------
(***************************************************************************)
(* Small instances of Campaign (three plans, an authorization that does    *)
(* not hold all they reserve, costs that fit or overrun), of the execution *)
(* of one plan, ExecutionRuntime, which Campaign takes to be as PlanOutcome*)
(* has it, and of the paid call before a campaign, CandidateProposer (an   *)
(* answer within the reservation, one above it, one with an invalid        *)
(* candidate and one without usable usage).  A behaviour is one of one of  *)
(* them, while the others rest where they start.                           *)
(***************************************************************************)
EXTENDS Campaign, MCExecutionRuntime, CandidateProposer

CONSTANTS p1, p2, p3, a, b, i1, i2, c1, c2

VARIABLE part

ThreePlans == <<p1, p2, p3>>
MCReserveOf == [p \in {p1, p2, p3} |-> [cost_cny |-> 2, model_calls |-> 1]]
MCAuthorized == [cost_cny |-> 5, model_calls |-> 3]

MCAnswers == {[shape |-> TRUE, valid |-> TRUE, cost |-> 1],
              [shape |-> TRUE, valid |-> TRUE, cost |-> 3],
              [shape |-> TRUE, valid |-> FALSE, cost |-> 1],
              [shape |-> FALSE, valid |-> FALSE, cost |-> 0]}

-----------------------------------------------------------------------------
\* What a request says is only compared, so any content may be the first.
PartInit ==
    /\ CampaignInit /\ Init /\ ProposerInit
    /\ content = [id \in RequestIds |-> c1]
    /\ part \in {"campaign", "plan", "proposer"}

InCampaign(A) == part = "campaign" /\ A /\ UNCHANGED <<part, vars, proposerVars>>
InPlan(A) == part = "plan" /\ A /\ UNCHANGED <<part, campaignVars, proposerVars>>
InProposer(A) == part = "proposer" /\ A /\ UNCHANGED <<part, campaignVars, vars>>

PartNext == InCampaign(CampaignNext) \/ InPlan(Next) \/ InProposer(ProposerNext)

partVars == <<part, campaignVars, vars, proposerVars>>

\* The fairness of FairCampaignSpec, FairSpec and FairProposerSpec, for the part that moves.
FairPartSpec ==
    /\ PartInit /\ [][PartNext]_partVars
    /\ WF_partVars(InCampaign(CampaignStep)) /\ WF_partVars(InCampaign(RerunCampaign))
    /\ \A x \in Executors : WF_partVars(InPlan(Step(x))) /\ WF_partVars(InPlan(Rerun(x)))
    /\ \A p \in Procs : WF_partVars(InProposer(ProposerStep(p)))
    /\ \A p \in Procs, id \in RequestIds : SF_partVars(InProposer(ProposeId(p, id)))


\* ExecutionRuntime!RerunEndsThePlan: one command, run again, ends its plan up to the two
\* exceptions named there.
PlanEnds == part = "plan" => RerunEndsThePlan
=============================================================================
