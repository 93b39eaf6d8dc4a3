----------------------------- MODULE Tournament -----------------------------
(***************************************************************************)
(* How a tournament of AgentProgram revisions is judged.  Three pieces of  *)
(* code do it alike: TournamentAuthority.decide for fixture scores, and    *)
(* the strategy's live action and the portfolio's check of it for Claims.  *)
(***************************************************************************)
EXTENDS Integers

Classifications == {"gain", "neutral", "regression", "infra_failure"}

\* Weight of a participant's Claim.
Weight(classification) ==
    CASE classification = "gain" -> 2
      [] classification = "neutral" -> 0
      [] classification = "regression" -> -2
      [] classification = "infra_failure" -> -1

Tied(score) == {r \in DOMAIN score : \A other \in DOMAIN score : score[other] <= score[r]}

\* Revisions are numbers in the order of their identities; Least is min(tied).
Least(revisions) == CHOOSE r \in revisions : \A other \in revisions : r <= other

\* The parent wins every tie it is part of.
Winner(score, parent) == IF parent \in Tied(score) THEN parent ELSE Least(Tied(score))

Advances(score, parent) == Winner(score, parent) # parent
=============================================================================
