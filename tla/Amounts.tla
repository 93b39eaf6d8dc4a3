------------------------------- MODULE Amounts -------------------------------
(***************************************************************************)
(* Amounts of the two resources a campaign is authorized to use.  The code  *)
(* keeps cost_cny as a float and model_calls as an int; here both are       *)
(* natural numbers of a smallest unit of account, so rounding is left out.  *)
(***************************************************************************)
EXTENDS Integers

Resource == {"cost_cny", "model_calls"}
Amount == [Resource -> Nat]

Nothing == [r \in Resource |-> 0]
Plus(a, b) == [r \in Resource |-> a[r] + b[r]]
Minus(a, b) == [r \in Resource |-> a[r] - b[r]]
Within(a, b) == \A r \in Resource : a[r] <= b[r]
=============================================================================
