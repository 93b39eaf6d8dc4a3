---------------------------- MODULE PromotionGate ----------------------------
(***************************************************************************)
(* PromotionGate.evaluate: whether a block of matched pairs promotes a     *)
(* ChangeSet.  A pair says which arm resolved the task, how many more      *)
(* regressions the evolved arm had and whether it was safe; the pairs are  *)
(* given by their rounds, as the gate does not look at their order.  The   *)
(* cost check is left out: it passes when the uplift is a tenth, and a     *)
(* margin of Margin wins in a block of Block pairs is at least that much.  *)
(***************************************************************************)
EXTENDS Integers, FiniteSetsExt, Combinatorics

CONSTANTS
    Block,        \* pairs of a promotion block (10 in the code)
    Margin,       \* wins that must exceed the losses (3)
    Significance  \* 1 / the largest p-value admitted (20)

PromotionGateAssumption ==
    /\ Block \in Nat \ {0} /\ Margin \in Nat \ {0} /\ Significance \in Nat \ {0}
    /\ 10 * Margin >= Block    \* what makes the cost check hold

Sum(value(_), set) == MapThenSumSet(value, set)

Wins(pairs) == Cardinality({i \in DOMAIN pairs : ~pairs[i].baseline /\ pairs[i].evolved})
Losses(pairs) == Cardinality({i \in DOMAIN pairs : pairs[i].baseline /\ ~pairs[i].evolved})

\* One-sided exact sign test: the tail of the binomial is at most 1 / Significance.
SignificantWins(pairs) ==
    LET directional == Wins(pairs) + Losses(pairs)
        tail == Sum(LAMBDA n : choose(directional, n), Wins(pairs) .. directional)
    IN directional # 0 /\ tail * Significance <= 2 ^ directional

FamilyNonregression(pairs) ==
    \A family \in {pairs[i].family : i \in DOMAIN pairs} :
        LET own == {i \in DOMAIN pairs : pairs[i].family = family} IN
        Cardinality({i \in own : pairs[i].evolved})
            >= Cardinality({i \in own : pairs[i].baseline})

\* Mutant: families are not looked at one by one.
ApprovesOverall(pairs) ==
    /\ Cardinality(DOMAIN pairs) >= Block
    /\ Wins(pairs) - Losses(pairs) >= Margin
    /\ SignificantWins(pairs)
    /\ Sum(LAMBDA i : pairs[i].regressions, DOMAIN pairs) <= 0
    /\ \A i \in DOMAIN pairs : pairs[i].safe

Approves(pairs) ==
    /\ Cardinality(DOMAIN pairs) >= Block
    /\ Wins(pairs) - Losses(pairs) >= Margin
    /\ SignificantWins(pairs)
    /\ FamilyNonregression(pairs)
    /\ Sum(LAMBDA i : pairs[i].regressions, DOMAIN pairs) <= 0
    /\ \A i \in DOMAIN pairs : pairs[i].safe
=============================================================================
