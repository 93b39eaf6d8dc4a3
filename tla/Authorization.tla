---------------------------- MODULE Authorization ----------------------------
(* What a budget is given: the authorization, and the amounts callers may    *)
(* reserve and results may turn out to cost.                                 *)
EXTENDS Amounts

CONSTANTS Authorized, ReserveAmounts, ChargeAmounts

ASSUME BudgetAssumption ==
    /\ Authorized \in Amount
    /\ ReserveAmounts \subseteq Amount
    /\ ChargeAmounts \subseteq Amount
=============================================================================
