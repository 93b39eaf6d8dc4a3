---------------------------- MODULE MCCostLedger ----------------------------
(* Small instances of CostLedger for TLC.                                   *)
EXTENDS CostLedger, TLC

\* An amount of money and of model calls.
Amt(cost, calls) ==
    [r \in Resource |-> IF r = "cost_cny" THEN cost ELSE calls]

\* A reservation of 1 and one of 2 fit exactly; two reservations of 2 do not.
SmallAuthorization == Amt(3, 2)
SmallReserves == {Amt(1, 1), Amt(2, 1)}
OneReserve == {Amt(2, 1)}
\* A result within every reservation, one that costs more than was reserved but
\* not more than is authorized, and one with more model calls than authorized.
AllCharges == {Amt(1, 1), Amt(3, 1), Amt(1, 3)}

ProcSymmetry == Permutations(Procs)
=============================================================================
