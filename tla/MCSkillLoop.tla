----------------------------- MODULE MCSkillLoop -----------------------------
EXTENDS SkillLoop, TLC

CONSTANTS w1, w2, k1, k2

\* Two answers of the parent that can be told apart, one beyond the token budget and one
\* that does not parse.
MCAnswers == {[id |-> 1, parses |-> TRUE, fits |-> TRUE],
              [id |-> 2, parses |-> TRUE, fits |-> TRUE],
              [id |-> 1, parses |-> TRUE, fits |-> FALSE],
              [id |-> 1, parses |-> FALSE, fits |-> TRUE]}

Arm(m, t) == [mechanism |-> m, teaching |-> t]
MCTaskOrder == <<"t1", "t2">>
MCArms == <<Arm("m", "baseline"), Arm("m", "taught"), Arm("n", "baseline"), Arm("n", "taught")>>
\* A plain run, one with a futility gate, one of the taught arm that is cut short, and
\* one of the baseline with a gate.
AllArms == {MCArms[i] : i \in DOMAIN MCArms}
Plain == [arms |-> AllArms, limit |-> 0, window |-> 0, floor |-> 0]
MCOptions == {Plain, [Plain EXCEPT !.window = 2, !.floor = 60],
              [Plain EXCEPT !.arms = {Arm("m", "taught")}, !.limit = 1],
              [Plain EXCEPT !.arms = {Arm("m", "baseline")}, !.window = 2, !.floor = 60]}

\* One feedback task and two of the holdout: a round whose retry gives the evaluator a
\* fresh root; one whose retry does not and whose commands do a cell at a time; rounds with
\* a part of the holdout run on its own; and the complete experiment.
MCFeedback == <<"f">>
MCHoldout == <<"g", "h">>
Tasks(f, g, h) == [f |-> f, g |-> g, h |-> h]
MCSetups ==
    {[program |-> "round", pairs |-> Tasks("distinct", "taught_only", "empty"),
      cached |-> FALSE, freshRoot |-> TRUE, limits |-> {9}],
     [program |-> "round", pairs |-> Tasks("distinct", "distinct", "empty"),
      cached |-> TRUE, freshRoot |-> FALSE, limits |-> {1}],
     [program |-> "parts", pairs |-> Tasks("distinct", "empty", "distinct"),
      cached |-> TRUE, freshRoot |-> FALSE, limits |-> {2}],
     [program |-> "parts", pairs |-> Tasks("distinct", "untreated", "empty"),
      cached |-> FALSE, freshRoot |-> FALSE, limits |-> {1, 9}],
     [program |-> "experiment", pairs |-> Tasks("distinct", "identical", "taught_only"),
      cached |-> FALSE, freshRoot |-> FALSE, limits |-> {1, 9}]}

\* Processes are interchangeable, and so are call ids, whose values also stand for
\* contexts.
Symmetry == Permutations({w1, w2}) \cup Permutations({k1, k2})
=============================================================================
