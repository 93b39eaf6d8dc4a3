--------------------------- MODULE EvidenceRules ---------------------------
(***************************************************************************)
(* What a set of receipts shows: the rules by which evolve turns the two   *)
(* arms of a task into a claim, the claims of a candidate into a grade and *)
(* the grade into a decision.  An arm is what its model receipt, its       *)
(* external trace and its native evaluation say; hashes are modelled by    *)
(* whether they agree.                                                     *)
(***************************************************************************)
EXTENDS Naturals, FiniteSets

CONSTANTS
    Candidate,      \* the candidate whose evidence is judged
    NoCandidate

Sources == {"model", "external", "native"}

\* arm: baseline or taught.
\* lineage: the candidate that the model receipt says was consumed.
\* traced: the candidate that the external trace says was consumed.
\* prompt: the projections the prompt bytes hold, "candidate" and "parent".
\* parent: the parent harness each source names, or NoCandidate.
\* predicted: the prediction each source binds.
\* error, resolved: the native outcome.
\* effect: what the trusted trace shows of the predicted internal effect: "shown",
\* "absent" or "unobserved".
ArmNames == {"baseline", "taught"}

Same(f) == \A s, t \in DOMAIN f : f[s] = f[t]

\* The candidate projection never reaches the baseline prompt; a named parent
\* harness does.
BaselinePrompt(arm) ==
    /\ "candidate" \notin arm.prompt
    /\ arm.parent["model"] # NoCandidate => "parent" \in arm.prompt

TaughtPrompt(arm) == "candidate" \in arm.prompt /\ "parent" \notin arm.prompt

\* Mutant: the lineage fields are trusted and the prompt bytes not looked at.
ArmIsCompleteOnPaper(arm) ==
    /\ Same(arm.predicted) /\ Same(arm.parent) /\ arm.traced = arm.lineage
    /\ arm.lineage = IF arm.arm = "baseline" THEN NoCandidate ELSE Candidate

\* One complete chain from model to trace to native outcome.
ArmIsComplete(arm) ==
    /\ Same(arm.predicted) /\ Same(arm.parent)
    /\ arm.traced = arm.lineage
    /\ IF arm.arm = "baseline"
       THEN arm.lineage = NoCandidate /\ BaselinePrompt(arm)
       ELSE arm.lineage = Candidate /\ TaughtPrompt(arm)

\* The native identities agree (task, source, model, evaluator, configuration).
Aligned(baseline, taught) ==
    /\ baseline.arm = "baseline" /\ taught.arm = "taught"
    /\ baseline.identity = taught.identity

\* The arms form a matched counterfactual pair.
Matched(baseline, taught) ==
    /\ Aligned(baseline, taught)
    /\ ArmIsComplete(baseline) /\ ArmIsComplete(taught)
    /\ baseline.parent = taught.parent

EvaluatorFailed(baseline, taught) == baseline.error \/ taught.error

Outcome(baseline, taught) ==
    CASE ~baseline.resolved /\ taught.resolved -> "gain"
      [] baseline.resolved /\ ~taught.resolved -> "regression"
      [] OTHER -> "neutral"

Classify(baseline, taught) ==
    IF EvaluatorFailed(baseline, taught) THEN "infra_failure"
    ELSE Outcome(baseline, taught)

\* A claim is E2 when a counterfactual pair stands behind it, E1 otherwise; none
\* is made when the evaluator answered and the pair does not match.
Claimable(baseline, taught) ==
    /\ Aligned(baseline, taught)
    /\ EvaluatorFailed(baseline, taught) \/ Matched(baseline, taught)

ClaimOf(task, baseline, taught) ==
    [task |-> task, classification |-> Classify(baseline, taught),
     grade |-> IF EvaluatorFailed(baseline, taught) THEN "E1" ELSE "E2"]

-----------------------------------------------------------------------------
(* Grade of a candidate.                                                   *)

With(claims, classification) == {c \in claims : c.classification = classification}
Any(claims, classification) == With(claims, classification) # {}

\* Mutant: the baseline's trace is not required to lack the effect.
PredictsLenient(baseline, taught) ==
    taught.effect = "shown" /\ baseline.effect # "unobserved"

\* The trusted traces of both arms follow the model's own prediction: the effect
\* is there when the candidate is, and absent when it is not.
Predicts(baseline, taught) == taught.effect = "shown" /\ baseline.effect = "absent"

\* projects: those of the claims' tasks; predicted: the tasks whose traces predict.
E3Eligible(claims, projects, predicted) ==
    /\ Cardinality(claims) >= 3 /\ Cardinality(projects) >= 2
    /\ Cardinality(With(claims, "gain")) >= 2
    /\ ~Any(claims, "regression") /\ ~Any(claims, "infra_failure")
    /\ \A c \in claims : c.grade = "E2" /\ c.task \in predicted

Grade(claims, projects, predicted) ==
    IF claims = {} THEN "E0"
    ELSE IF E3Eligible(claims, projects, predicted) THEN "E3"
    ELSE IF ~Any(claims, "infra_failure") /\ (\A c \in claims : c.grade = "E2")
    THEN "E2" ELSE "E1"

-----------------------------------------------------------------------------
(* Decision.                                                               *)

Gate(claims, grade, approval) ==
    IF Any(claims, "infra_failure") THEN "blocked"
    ELSE IF Any(claims, "regression") THEN "rejected"
    ELSE IF Any(claims, "neutral") THEN "no_change"
    ELSE IF approval /\ grade = "E3" THEN "approved" ELSE "human_approval_required"
=============================================================================
