---------------------------- MODULE PlanOutcome -----------------------------
(***************************************************************************)
(* What ExecutionRuntime promises about a plan: it ends at most once, and   *)
(* its status and cost are the same for every later caller.  The detailed   *)
(* life of a plan (ExecutionRuntime) implements it; the campaign (Campaign) *)
(* relies on it.                                                            *)
(***************************************************************************)
EXTENDS Naturals

CONSTANTS EndStatuses, NotEnded

VARIABLE outcome

OutcomeInit == outcome = NotEnded

End ==
    /\ outcome = NotEnded
    /\ outcome' \in [status : EndStatuses, cost : Nat]

OutcomeSpec == OutcomeInit /\ [][End]_outcome
=============================================================================
