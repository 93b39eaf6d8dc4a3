--------------------------- MODULE MCParentCalls ---------------------------
(* One program of ParentCalls at a time, started and started again, with the *)
(* answers of MCSkillLoop: two that can be told apart, one beyond the token  *)
(* budget and one that does not parse.                                       *)
EXTENDS ParentCalls

MCAnswers == {[id |-> 1, parses |-> TRUE, fits |-> TRUE],
              [id |-> 2, parses |-> TRUE, fits |-> TRUE],
              [id |-> 1, parses |-> TRUE, fits |-> FALSE],
              [id |-> 1, parses |-> FALSE, fits |-> TRUE]}
=============================================================================
