--------------------------- MODULE MCEngineServices ---------------------------
EXTENDS EngineServices, TLC

CONSTANTS w1, w2
Won  == [family |-> "f1", baseline |-> FALSE, evolved |-> TRUE, regressions |-> 0, safe |-> TRUE]
Lost == [family |-> "f2", baseline |-> TRUE, evolved |-> FALSE, regressions |-> 0, safe |-> TRUE]
Tied == [family |-> "f1", baseline |-> TRUE, evolved |-> TRUE, regressions |-> 1, safe |-> TRUE]
MCPairs == [partition \in {"search", "promotion", "final_sealed"} |->
              IF partition = "promotion" THEN {Won, Lost} ELSE {Tied}]

\* Workers of one contract are interchangeable.
Symmetry == Permutations({w1, w2})
=============================================================================
