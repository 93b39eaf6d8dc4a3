-------------------------- MODULE CampaignCommands --------------------------
(***************************************************************************)
(* The two commands that run a live campaign into a run directory of their *)
(* own: the fresh feedback round (FreshCampaign) and campaign run          *)
(* --strategy agent-program (AgentCampaign).  They share no state; the     *)
(* operator starts one of them, and the other's directory stays empty.     *)
(***************************************************************************)
EXTENDS FreshCampaign

CONSTANTS Profiles, Parent, Candidates, FixtureScores, MaxAgentFaults

VARIABLES
    command,       \* the command the operator starts
    profile, registered, agentCampaign, native, observed, ended, agentClaims, parents,
    agentResult, agentManifest, agentCut, place, replayed, agentReported, agentFaults

Agent == INSTANCE AgentCampaign WITH
           campaign <- agentCampaign, claims <- agentClaims, result <- agentResult,
           manifest <- agentManifest, cut <- agentCut, pc <- place, reported <- agentReported,
           faults <- agentFaults, MaxFaults <- MaxAgentFaults

ASSUME CommandsAssumption == Agent!AgentCampaignAssumption

agent == <<profile, registered, agentCampaign, native, observed, ended, agentClaims, parents,
           agentResult, agentManifest, agentCut, place, replayed, agentReported,
           agentFaults>>
commands == <<command, vars, agent>>

StartCommand ==
    /\ Init /\ Agent!Init
    /\ \/ command = "fresh" /\ profile = CHOOSE p \in Profiles : TRUE
       \/ /\ command = "agent program"
          /\ setup = CHOOSE s \in Setups : TRUE
          /\ anomaly = CHOOSE a \in Anomalies[setup] : TRUE

FreshGoes == command = "fresh" /\ Step /\ UNCHANGED <<command, agent>>
AgentGoes == command = "agent program" /\ Agent!Step /\ UNCHANGED <<command, vars>>

Stops ==
    \/ command = "fresh" /\ (Kill \/ CutShort) /\ UNCHANGED <<command, agent>>
    \/ /\ command = "agent program" /\ (Agent!Kill \/ Agent!CutShort \/ Agent!Interrupt)
       /\ UNCHANGED <<command, vars>>

Proceed == FreshGoes \/ AgentGoes \/ Stops

\* The operator repeats the command; nothing in it waits.
CommandSpec == StartCommand /\ [][Proceed]_commands /\ WF_commands(FreshGoes \/ AgentGoes)

\* The AgentProgram campaign moves the search parent once, to the winner of one
\* tournament.
SelectionIsEarned == command = "agent program" => Agent!SelectionIsEarned

\* A repeated command goes on answering, with a sealed directory, or refuses for one of
\* the reasons its module lists, however often it is stopped and started again; in
\* particular a fixture campaign recovers from every kill that cuts no append short.
CommandAnswers == []<>(IF command = "fresh" THEN Answered ELSE Agent!Answered)
=============================================================================
