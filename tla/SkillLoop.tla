------------------------------ MODULE SkillLoop ------------------------------
(***************************************************************************)
(* engine/skill_evolution_loop: the programs that call the parent model    *)
(* for a Skill or a feedback, the paired experiment that measures a Skill  *)
(* on its tasks, the local students that answer a cell of it, and the      *)
(* commands that have the cells judged.  They meet in the documents one    *)
(* leaves for the next and share no state while they run.  A behaviour is  *)
(* one of a stage, which is chosen with the initial state; the variables   *)
(* of the others are None.                                                 *)
(***************************************************************************)
EXTENDS Naturals

CONSTANTS None, Torn
CONSTANTS Procs, Dispatchers, CallIds, CallRequests, ParentAnswers, MaxCalls, MaxParentFaults
CONSTANTS TaskOrder, Arms, Contextual, Contexts, Inherited, Options, MaxKills
CONSTANTS Families, Rounds, SharedFlaws, Sizes, MaxRepairs, MaxCandidates, MaxCells,
          MaxModelFaults
CONSTANTS Feedback, Holdout, MinPairs, Setups, MaxJudgeKills

VARIABLES
    stage,      \* what this behaviour looks at
    program, records, raw, output, head, expired, pc, at, answer, found, sent, parentFaults,
    cells, contexts, summary, holder, job, kills,
    setup, place, step, drawn, call, gen, agg, attempts, frozen, modelFaults,
    circumstances, generated, official, notes, natives, sealed, command, judgePc, judgeKills

Parent == INSTANCE ParentCalls WITH
            Requests <- CallRequests, Answers <- ParentAnswers,
            MaxFaults <- MaxParentFaults, faults <- parentFaults
Experiment == INSTANCE PairedExperiment
Student == INSTANCE StudentAttempts WITH
             at <- place, pc <- step, raw <- drawn,
             MaxFaults <- MaxModelFaults, faults <- modelFaults
Judging == INSTANCE NativeJudging WITH
             setup <- circumstances, frozen <- sealed, run <- command, pc <- judgePc,
             MaxKills <- MaxJudgeKills, kills <- judgeKills

ASSUME SkillLoopAssumption ==
    /\ Parent!ParentCallsAssumption
    /\ Experiment!PairedExperimentAssumption
    /\ Student!StudentAttemptsAssumption
    /\ Judging!NativeJudgingAssumption

parent == <<program, records, raw, output, head, expired, pc, at, answer, found, sent,
            parentFaults>>
experiment == <<cells, contexts, summary, holder, job, kills>>
student == <<setup, place, step, drawn, call, gen, agg, attempts, frozen, modelFaults>>
judging == <<circumstances, generated, official, notes, natives, sealed, command, judgePc,
             judgeKills>>
vars == <<stage, parent, experiment, student, judging>>

NoParent ==
    /\ program = None /\ records = None /\ raw = None /\ output = None /\ head = None
    /\ expired = None /\ pc = None /\ at = None /\ answer = None /\ found = None
    /\ sent = None /\ parentFaults = None

NoExperiment ==
    /\ cells = None /\ contexts = None /\ summary = None /\ holder = None
    /\ job = None /\ kills = None

NoStudent ==
    /\ setup = None /\ place = None /\ step = None /\ drawn = None /\ call = None
    /\ gen = None /\ agg = None /\ attempts = None /\ frozen = None /\ modelFaults = None

NoJudging ==
    /\ circumstances = None /\ generated = None /\ official = None /\ notes = None
    /\ natives = None /\ sealed = None /\ command = None /\ judgePc = None
    /\ judgeKills = None

InitParent == Parent!Init /\ NoExperiment /\ NoStudent /\ NoJudging
InitExperiment == Experiment!Init /\ NoParent /\ NoStudent /\ NoJudging
InitStudent == Student!Init /\ NoParent /\ NoExperiment /\ NoJudging
InitJudging == Judging!Init /\ NoParent /\ NoExperiment /\ NoStudent

Init ==
    \/ stage = "parent_calls" /\ InitParent
    \/ stage = "experiment" /\ InitExperiment
    \/ stage = "student" /\ InitStudent
    \/ stage = "judging" /\ InitJudging

Next ==
    /\ UNCHANGED stage
    /\ \/ stage = "parent_calls" /\ Parent!Next /\ UNCHANGED <<experiment, student, judging>>
       \/ stage = "experiment" /\ Experiment!Next /\ UNCHANGED <<parent, student, judging>>
       \/ stage = "student" /\ Student!Next /\ UNCHANGED <<parent, experiment, judging>>
       \/ stage = "judging" /\ Judging!Next /\ UNCHANGED <<parent, experiment, student>>

Spec == Init /\ [][Next]_vars

\* A call of the parent is reserved before it is sent and within the budget of calls; a
\* program that looks first sends only what had no record when it started; and a call is
\* reported as the ledger has it.
CallsAreReserved ==
    stage = "parent_calls" => /\ Parent!CallsAreReserved
                              /\ Parent!DispatchIsFresh
                              /\ Parent!ReportIsRecorded

\* A call that was completed or aborted, a frozen cell, the receipt of an evaluator and a
\* frozen summary stay as they are, whoever ends them again.
KeepsEvidence ==
    CASE stage = "parent_calls" -> Parent!KeepsTerminal
      [] stage = "experiment" -> Experiment!KeepsEvidence
      [] stage = "judging" -> Judging!KeepsEvidence
      [] OTHER -> TRUE
EvidenceIsKept == [][KeepsEvidence]_vars

\* A paired experiment that is started again agrees with its cells and contexts, and its
\* summary is that of an uninterrupted run.
ResumeIsConsistent ==
    stage = "experiment" => /\ Experiment!PairsShareTheirContext
                            /\ Experiment!SummaryIsReproduced

\* What an attempt is counted for was earned.  An attempt that was answered is made of the
\* last answer in the trace that is frozen with it, and is no edit when the critic refused
\* that answer, or when the generator rejected it by a check the adapter repeats; it is
\* judged by what the official evaluator has a receipt for, with the attempt of the other
\* arm; and the holdout is opened, and the capability gate passed, by such verdicts only.
AttemptsAreEarned ==
    /\ stage = "student" => Student!AttemptIsTraced /\ Student!AttemptIsEarned
    /\ stage = "judging" => /\ Judging!CellsAreJudged
                            /\ Judging!HoldoutIsUnlocked
                            /\ Judging!CapabilityIsEarned
=============================================================================
