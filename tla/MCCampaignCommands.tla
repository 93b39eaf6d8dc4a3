-------------------------- MODULE MCCampaignCommands -------------------------
(* Fresh rounds of three tasks of one or of two projects, with one arm of the *)
(* first task that may record what it should not; AgentProgram campaigns of a *)
(* parent between two candidates in the order of identities, with scores      *)
(* below, at and above each other.                                            *)
EXTENDS CampaignCommands, Integers

CONSTANTS t1, t2, t3

MCTaskOrder == <<t1, t2, t3>>
MCProjectOf == [one |-> [t \in {t1, t2, t3} |-> "a"],
                two |-> [t \in {t1, t2, t3} |-> IF t = t3 THEN "b" ELSE "a"]]
Full == [approval |-> TRUE, authority |-> TRUE, issuer |-> TRUE, projects |-> "two"]
MCSetups == {Full, [Full EXCEPT !.approval = FALSE, !.authority = FALSE, !.issuer = FALSE],
             [Full EXCEPT !.authority = FALSE], [Full EXCEPT !.projects = "one"]}
NoAnomaly == [kind |-> "none", plan |-> <<t1, "taught">>]
AllAnomalies ==
    {NoAnomaly} \cup [kind : {"lineage", "prompt", "effect"},
                    plan : {<<t1, "baseline">>, <<t1, "taught">>}]
                \cup [kind : {"identity", "trace", "parent", "prediction"},
                    plan : {<<t1, "taught">>}]
MCAnomalies == [s \in MCSetups |-> IF s = Full THEN AllAnomalies ELSE {NoAnomaly}]

MCScores == {-1, 0, 1}
=============================================================================
