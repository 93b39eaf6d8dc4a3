---------------------------- MODULE BudgetManager ----------------------------
(***************************************************************************)
(* The campaign-wide accounting of kernel/budget_manager.py, class         *)
(* BudgetManager: two pairs of counters, what is reserved for dispatches    *)
(* in flight and what results have really cost.  It is also the abstract    *)
(* specification that the durable ledger of module CostLedger implements.   *)
(***************************************************************************)
EXTENDS Authorization

VARIABLES reserved, spent

bmVars == <<reserved, spent>>

BMTypeOK == reserved \in Amount /\ spent \in Amount

BMInit == reserved = Nothing /\ spent = Nothing

\* reserve: BudgetExceeded unless spent, reserved and the new amount fit.
Reserve(amount) ==
    /\ Within(Plus(Plus(spent, reserved), amount), Authorized)
    /\ reserved' = Plus(reserved, amount)
    /\ spent' = spent

\* record: the reservation must be outstanding, and what was spent together
\* with the actual amount must fit; what others have reserved is not asked.
Record(amount, actual) ==
    /\ Within(amount, reserved)
    /\ Within(Plus(spent, actual), Authorized)
    /\ reserved' = Minus(reserved, amount)
    /\ spent' = Plus(spent, actual)

BMNext ==
    \/ \E amount \in ReserveAmounts : Reserve(amount)
    \/ \E amount \in ReserveAmounts, actual \in ChargeAmounts :
          Record(amount, actual)

BMSpec == BMInit /\ [][BMNext]_bmVars

-----------------------------------------------------------------------------
(* Neither a reservation nor a recorded result ever takes what was spent    *)
(* beyond the campaign's authorization, whatever the results cost and       *)
(* however reservations overlap (reserve and record).                       *)
SpentWithinAuthorized == Within(spent, Authorized)

(* What is spent and reserved together can pass the authorization in one    *)
(* way only: record settles a reservation with a result that cost more than *)
(* was reserved for it.                                                     *)
Committed == Plus(spent, reserved)
OvercommitOnlyByOverrun ==
    [][ Within(Committed, Authorized) /\ ~ Within(Committed', Authorized) =>
          \E amount \in ReserveAmounts, actual \in ChargeAmounts :
             Record(amount, actual) /\ ~ Within(actual, amount) ]_bmVars
=============================================================================
