---------------------------- MODULE NativeJudging ----------------------------
(***************************************************************************)
(* How engine/skill_evolution_loop judges the frozen cells of a paired     *)
(* experiment with the official evaluators of the benchmarks               *)
(* (p1_native.py, round1_native.py, official_patch_evaluator.py), and the  *)
(* gate between the two cohorts (round1_run.py): the tasks of the holdout  *)
(* are opened only by a gain on the feedback tasks.                        *)
(*                                                                         *)
(* Each command is a process that the operator starts, lets finish, cuts   *)
(* short with a limit of cells, or kills, and starts again.  What it       *)
(* leaves are the directories of the evaluator, native cells that are      *)
(* never changed, and summaries, most of which are frozen too.             *)
(***************************************************************************)
EXTENDS Naturals, FiniteSets, SequencesExt

CONSTANTS
    Feedback,   \* the feedback tasks, in the order of the task set
    Holdout,    \* the holdout tasks
    MinPairs,   \* minimum_holdout_safety_qualified_pairs, 3 in the code
    Setups,     \* the circumstances an instance looks at
    None,
    Torn,       \* a file that a kill left incomplete
    MaxKills    \* bound on kills

\* The outcomes of official evaluators that are told apart: P1NativeOutcome of a report.
\* "regressed" is unresolved with a test that fails and should pass.
Outcomes == {"resolved", "unresolved", "regressed", "unapplied"}

\* What an evaluator leaves for a cell: a report, and a receipt beside it, or a failure.  A
\* report that normalize_native_report rejects is "malformed".
Leavings ==
    [state : {"reported", "received", "failed", "torn_receipt", "torn_failure"},
     outcome : Outcomes \cup {"none", "malformed"}]

\* A native cell: an outcome, a failure of the evaluator, or why it was not judged.
NativeCells ==
    [how : {"judged", "failed", "unpaired", "invalid"},
     outcome : Outcomes \cup {"none", "evaluator", "incomplete", "prefetch"}]

NativeJudgingAssumption ==
    /\ Feedback \in Seq(ToSet(Feedback)) /\ Holdout \in Seq(ToSet(Holdout))
    /\ Holdout # << >> /\ ToSet(Feedback) \cap ToSet(Holdout) = {}
    /\ None \notin Leavings \cup NativeCells
    /\ MinPairs \in Nat /\ MaxKills \in Nat
    /\ \A s \in Setups :
          /\ s.program \in {"round", "parts", "experiment"}
          /\ {s.cached, s.freshRoot} \subseteq BOOLEAN
          /\ s.limits \subseteq Nat \ {0}
          /\ s.pairs \in [ToSet(Feedback \o Holdout) ->
                           {"distinct", "identical", "untreated",
                            "baseline_only", "taught_only", "empty"}]

VARIABLES
    setup,      \* attempts of each task, program, limits of cells (max_cells), whether the
                \* transport has a cache and a retry gives the evaluator a fresh root
    generated,  \* cells of the experiment, by task and arm
    official,   \* what the official evaluator left for a cell, in its two output roots
    notes,      \* failures of the evaluator without evidence of its own, by evidence root
    natives,    \* the native cells of each evidence root
    frozen,     \* summaries, by name
    run,        \* the command in progress
    pc, kills

vars == <<setup, generated, official, notes, natives, frozen, run, pc, kills>>

-----------------------------------------------------------------------------
(* Cells and pairs.                                                        *)

ArmNames == <<"baseline", "taught">>
CellsOf(tasks) ==
    [i \in 1 .. 2 * Len(tasks) |->
       [task |-> tasks[(i + 1) \div 2], arm |-> ArmNames[2 - (i % 2)]]]
Planned == CellsOf(Feedback \o Holdout)
AllCells == ToSet(Planned)
FeedbackCells == ToSet(CellsOf(Feedback))
HoldoutCells == ToSet(CellsOf(Holdout))
Of(t, arm) == [task |-> t, arm |-> arm]

StructurallyValid(c) ==
    CASE setup.pairs[c.task] \in {"distinct", "identical", "untreated"} -> TRUE
      [] setup.pairs[c.task] = "baseline_only" -> c.arm = "baseline"
      [] setup.pairs[c.task] = "taught_only" -> c.arm = "taught"
      [] OTHER -> FALSE

\* Mutant: the structure of the other arm is not looked at.
AdmittedAlone(t) == setup.pairs[t] \in {"distinct", "baseline_only", "taught_only"}

\* A pair is judged only when both attempts are valid and differ.
Admitted(t) == setup.pairs[t] = "distinct"

\* The other arm is not there, or both were made by the same prompts.
PairRaises(t) ==
    \/ ~({Of(t, "baseline"), Of(t, "taught")} \subseteq generated)
    \/ setup.pairs[t] = "untreated"

Judged(o) == [how |-> "judged", outcome |-> o]
Failed(why) == [how |-> "failed", outcome |-> why]
NotJudged(c) ==
    [how |-> IF StructurallyValid(c) THEN "unpaired" ELSE "invalid", outcome |-> "none"]

-----------------------------------------------------------------------------
(* What the native cells of some tasks show (summarize_native_cells).      *)

EvaluatorValid(x) == x.how = "judged" /\ x.outcome # "unapplied"
Resolved(x) == x.outcome = "resolved"

Done(cells, t) == \A arm \in ToSet(ArmNames) : cells[Of(t, arm)] # None
Evaluable(cells, t) ==
    Done(cells, t) /\ \A arm \in ToSet(ArmNames) : EvaluatorValid(cells[Of(t, arm)])
Gained(cells, t) ==
    /\ Evaluable(cells, t)
    /\ ~Resolved(cells[Of(t, "baseline")]) /\ Resolved(cells[Of(t, "taught")])
Regressed(cells, t) ==
    /\ Evaluable(cells, t)
    /\ Resolved(cells[Of(t, "baseline")]) /\ ~Resolved(cells[Of(t, "taught")])
\* The taught arm breaks a test that the baseline leaves as it was.
Unsafe(cells, t) ==
    /\ Evaluable(cells, t)
    /\ cells[Of(t, "taught")].outcome = "regressed"
    /\ cells[Of(t, "baseline")].outcome # "regressed"

\* Two attempts that are invalid and without a patch change nothing.
NoOp(cells, t) == Done(cells, t) /\ setup.pairs[t] = "empty"
Qualified(cells, t) == Evaluable(cells, t) \/ NoOp(cells, t)

Some(cells, tasks, P(_, _)) == \E t \in ToSet(tasks) : P(cells, t)
Failures(cells) == {c \in DOMAIN cells : cells[c] # None /\ cells[c].how = "failed"}
Complete(cells) == \A c \in DOMAIN cells : cells[c] # None

FeedbackGate(cells) ==
    Complete(cells) /\ Some(cells, Feedback, Gained) /\ Failures(cells) = {}

\* Mutant: failures of the evaluator are not counted.
CapabilityGateBlind(cells) ==
    /\ Complete(cells)
    /\ Cardinality({t \in ToSet(Holdout) : Qualified(cells, t)}) >= MinPairs
    /\ ~Some(cells, Holdout, Regressed) /\ ~Some(cells, Holdout, Unsafe)

CapabilityGate(cells) ==
    /\ Complete(cells) /\ Failures(cells) = {}
    /\ Cardinality({t \in ToSet(Holdout) : Qualified(cells, t)}) >= MinPairs
    /\ ~Some(cells, Holdout, Regressed) /\ ~Some(cells, Holdout, Unsafe)

\* The gate of the complete experiment asks for no number of pairs.
ExperimentGate(cells) ==
    /\ Some(cells, Feedback, Gained)
    /\ ~Some(cells, Holdout, Regressed) /\ ~Some(cells, Holdout, Unsafe)

-----------------------------------------------------------------------------
(* Commands.                                                               *)

Evidence ==
    CASE run.cmd = "feedback" -> "feedback"
      [] run.cmd = "retry" -> "retry"
      [] run.cmd = "experiment" -> "experiment"
      [] OTHER -> "holdout"
\* The root of the evaluator's output, an option of each command.
Out == IF run.cmd = "retry" /\ setup.freshRoot THEN "fresh" ELSE "main"

Part == <<Holdout[1]>>
Source == natives["holdout"]
Plan ==
    CASE run.cmd = "feedback" -> CellsOf(Feedback)
      [] run.cmd \in {"generate", "judge", "retry"} -> CellsOf(Holdout)
      [] run.cmd \in {"generate_part", "judge_part"} -> CellsOf(Part)
      [] run.cmd = "experiment" -> Planned
      [] run.cmd = "project" -> << >>
Scanning == pc = "scan" /\ run.at <= Len(Plan)
Cell == Plan[run.at]

Frozen(name) == frozen[name] \notin {None, Torn}

\* load_round1_feedback_gain_gate: only the frozen summary of the feedback is read.
Locked == ~(Frozen("feedback") /\ frozen["feedback"].passed)

\* Mutant: the holdout is opened by any complete feedback summary.
MayStartUngated(cmd) == Frozen("feedback")

\* What a command reads before it opens a cell: the gain, the summary of the experiment
\* (of a part, its progress), the complete summary of the first judgement.
MayStart(cmd) ==
    /\ ~Locked
    /\ cmd \in {"judge", "project", "retry"} => Frozen("attempts")
    /\ cmd = "judge_part" =>
          Frozen("attempts_so_far") /\ frozen["attempts_so_far"].cells >= 2 * Len(Part)
    /\ cmd \in {"project", "retry"} =>
          Frozen("holdout") /\ frozen["holdout"].scope = "judge"

\* The commands an operator uses: for the complete experiment, for a round, or for a
\* round of which a part of the holdout is run on its own.
CommandsOf(program) ==
    CASE program = "experiment" -> {"experiment"}
      [] program = "round" -> {"feedback", "generate", "judge", "project", "retry"}
      [] program = "parts" ->
           {"feedback", "generate", "generate_part", "judge", "judge_part"}

Init ==
    /\ setup \in Setups
    /\ generated = IF setup.program = "experiment" THEN AllCells ELSE {}
    /\ official = [r \in {"main", "fresh"} |-> [c \in AllCells |-> None]]
    /\ natives = [r \in {"feedback", "holdout", "retry", "experiment"} |->
                    [c \in AllCells |-> None]]
    /\ notes = natives
    /\ frozen = [n \in {"feedback", "attempts", "attempts_so_far", "holdout", "projection",
                        "retried", "progress", "experiment"} |-> None]
    /\ run = None /\ pc = "idle" /\ kills = 0

\* The command raises.
Raise ==
    /\ run' = None /\ pc' = "idle"
    /\ UNCHANGED <<setup, generated, official, notes, natives, frozen, kills>>

Start ==
    /\ pc = "idle"
    /\ \E cmd \in CommandsOf(setup.program), limit \in setup.limits :
         /\ cmd \in {"feedback", "experiment"} \/ MayStart(cmd)
         /\ cmd = "project" => limit = Min(setup.limits)
         /\ run' = [cmd |-> cmd, left |-> limit, at |-> 1, result |-> None,
                    called |-> FALSE]
    /\ pc' = "scan"
    /\ UNCHANGED <<setup, generated, official, notes, natives, frozen, kills>>

\* PairedExperimentRunner.run on the feedback tasks, which may be cut short.
GenerateFeedback ==
    /\ pc = "idle" /\ setup.program # "experiment"
    /\ \E i \in DOMAIN CellsOf(Feedback) :
         /\ CellsOf(Feedback)[i] \notin generated
         /\ \A j \in 1 .. i - 1 : CellsOf(Feedback)[j] \in generated
         /\ generated' = generated \cup {CellsOf(Feedback)[i]}
    /\ UNCHANGED <<setup, official, notes, natives, frozen, run, pc, kills>>

Generating == run.cmd \in {"generate", "generate_part"}

\* A retry has the cells before it that failed in the source.
Skip(c) ==
    \/ run.left = 0
    \/ Generating /\ c \in generated
    \/ ~Generating /\ natives[Evidence][c] # None
    \/ run.cmd = "feedback" /\ c \notin generated
    \/ run.cmd = "retry" /\ Source[c].how # "failed"

Pass ==
    /\ Scanning /\ Skip(Cell)
    /\ run' = [run EXCEPT !.at = @ + 1]
    /\ UNCHANGED <<setup, generated, official, notes, natives, frozen, pc, kills>>

\* With the cache of the transport, the process counts its calls.
Generate ==
    /\ Scanning /\ ~Skip(Cell) /\ Generating
    /\ generated' = generated \cup {Cell}
    /\ run' = [run EXCEPT !.at = @ + 1, !.left = @ - 1,
                          !.called = setup.cached]
    /\ UNCHANGED <<setup, official, notes, natives, frozen, pc, kills>>

Admit ==
    /\ Scanning /\ ~Skip(Cell) /\ ~Generating
    /\ Cell \in generated /\ ~PairRaises(Cell.task)
    /\ IF StructurallyValid(Cell) /\ Admitted(Cell.task)
       THEN pc' = "look_up" /\ UNCHANGED run
       ELSE pc' = "write" /\ run' = [run EXCEPT !.result = NotJudged(Cell)]
    /\ UNCHANGED <<setup, generated, official, notes, natives, frozen, kills>>

PairRefused ==
    /\ Scanning /\ ~Skip(Cell) /\ ~Generating
    /\ Cell \notin generated \/ PairRaises(Cell.task)
    /\ Raise

-----------------------------------------------------------------------------
(* The official evaluator of one patch.                                    *)

Left(state, outcome) == [state |-> state, outcome |-> outcome]
There == official[Out][Cell]
Result(x) ==
    /\ run' = [run EXCEPT !.result = x]
    /\ pc' = IF x.how = "failed" /\ x.outcome # "evaluator" THEN "note" ELSE "write"
    /\ UNCHANGED <<setup, generated, notes, natives, frozen, kills>>

Run ==
    /\ pc = "look_up" /\ There = None /\ pc' = "harness"
    /\ UNCHANGED <<setup, generated, official, notes, natives, frozen, run, kills>>

\* Mutant: a report without its receipt is taken for a result.
ResumeUnreceipted ==
    /\ pc = "look_up" /\ There # None
    /\ There.state \in {"received", "reported"} /\ pc' = "normalize"
    /\ UNCHANGED <<setup, generated, official, notes, natives, frozen, run, kills>>

Resume ==
    /\ pc = "look_up" /\ There # None
    /\ There.state = "received" /\ pc' = "normalize"
    /\ UNCHANGED <<setup, generated, official, notes, natives, frozen, run, kills>>

\* What is incomplete raises without a record of the evaluator.
ResumeFailure ==
    /\ pc = "look_up" /\ There # None
    /\ There.state \in {"reported", "failed", "torn_failure"}
    /\ Result(Failed(IF There.state = "failed" THEN "evaluator" ELSE "incomplete"))
    /\ UNCHANGED official

\* A torn receipt is not an OfficialEvaluatorError.
ReceiptUnreadable ==
    /\ pc = "look_up" /\ There # None /\ There.state = "torn_receipt"
    /\ Raise

CopyReport ==
    /\ pc = "harness"
    /\ \E o \in Outcomes \cup {"malformed"} :
          official' = [official EXCEPT ![Out][Cell] = Left("reported", o)]
    /\ pc' = "receipt"
    /\ UNCHANGED <<setup, generated, notes, natives, frozen, run, kills>>

\* A timeout, an infrastructure error of the harness, a failed build, a return code.
PersistFailure ==
    /\ pc = "harness"
    /\ official' = [official EXCEPT ![Out][Cell] = Left("failed", "none")]
    /\ Result(Failed("evaluator"))

\* Before the harness runs; leaves no failure that is resumed.
PrefetchFails ==
    /\ pc = "harness" /\ Result(Failed("prefetch")) /\ UNCHANGED official

\* A git clone that takes too long raises TimeoutExpired, which no one catches.
PrefetchTimesOut == pc = "harness" /\ Raise

WriteReceipt ==
    /\ pc = "receipt"
    /\ official' = [official EXCEPT ![Out][Cell].state = "received"]
    /\ pc' = "normalize"
    /\ UNCHANGED <<setup, generated, notes, natives, frozen, run, kills>>

\* normalize_native_report, of the report that has just been received or is resumed.
Normalize ==
    /\ pc = "normalize" /\ There.outcome # "malformed"
    /\ Result(Judged(There.outcome)) /\ UNCHANGED official

\* Its ContractError is not caught, and the receipt stays: every repetition of the command
\* raises again at this cell.
ReportRefused == pc = "normalize" /\ There.outcome = "malformed" /\ Raise

\* _freeze_unreceipted_evaluator_failure: a failure without a record of the evaluator gets
\* one beside the cell, once.
WriteNote ==
    /\ pc = "note" /\ notes[Evidence][Cell] \in {None, run.result.outcome}
    /\ notes' = [notes EXCEPT ![Evidence][Cell] = run.result.outcome] /\ pc' = "write"
    /\ UNCHANGED <<setup, generated, official, natives, frozen, run, kills>>

NoteRefused ==
    /\ pc = "note" /\ notes[Evidence][Cell] \notin {None, run.result.outcome}
    /\ Raise

\* The cell is written beside and renamed.
WriteCell ==
    /\ pc = "write"
    /\ natives' = [natives EXCEPT ![Evidence][Cell] = run.result]
    /\ run' = [run EXCEPT !.at = @ + 1, !.left = @ - 1, !.result = None] /\ pc' = "scan"
    /\ UNCHANGED <<setup, generated, official, notes, frozen, kills>>

-----------------------------------------------------------------------------
(* Summaries.                                                              *)

Overlay ==
    [c \in HoldoutCells |->
       IF natives["retry"][c] # None THEN natives["retry"][c] ELSE Source[c]]

\* What the summary of a command shows, and whether its gate is passed.
Shown(cmd) ==
    CASE cmd = "feedback" -> [c \in FeedbackCells |-> natives["feedback"][c]]
      [] cmd \in {"judge", "project"} -> [c \in HoldoutCells |-> Source[c]]
      [] cmd = "judge_part" -> [c \in ToSet(CellsOf(Part)) |-> Source[c]]
      [] cmd = "retry" -> Overlay
      [] cmd = "experiment" -> natives["experiment"]

Passed(cmd) ==
    CASE cmd = "feedback" -> FeedbackGate(Shown(cmd))
      [] cmd \in {"judge", "project", "retry"} -> CapabilityGate(Shown(cmd))
      [] cmd = "experiment" -> ExperimentGate(Shown(cmd))
      [] OTHER -> FALSE

SummaryOf(cmd) ==
    [scope |-> cmd, called |-> FALSE, passed |-> Passed(cmd), cells |-> Shown(cmd)]

\* What a summary says is a function of the cells, but for the calls of the process that
\* generated the holdout.
Summary ==
    IF Generating
    THEN [scope |-> "generate", called |-> run.called, passed |-> FALSE,
          cells |-> Cardinality(generated \cap HoldoutCells)]
    ELSE SummaryOf(run.cmd)

\* The file that a summary is compared with and, when it is not there, written to.
Name ==
    CASE run.cmd = "feedback" /\ Complete(Shown(run.cmd)) -> "feedback"
      [] Generating /\ HoldoutCells \subseteq generated -> "attempts"
      [] Generating /\ ~(HoldoutCells \subseteq generated) -> "attempts_so_far"
      [] run.cmd \in {"judge", "judge_part"} /\ Complete(Shown(run.cmd)) -> "holdout"
      [] run.cmd = "project" -> "projection"
      [] run.cmd = "retry" -> "retried"
      [] run.cmd = "experiment" -> IF Complete(Shown(run.cmd)) THEN "experiment" ELSE "progress"
      [] OTHER -> None

\* Mutant: the complete summary of the experiment is overwritten as its progress is.
OverwrittenAll == {"attempts_so_far", "attempts"}

\* Only the progress of the experiment is replaced.
Overwritten == {"attempts_so_far"}
Ending == pc = "scan" /\ run.at > Len(Plan)

WriteSummary ==
    /\ Ending
    /\ \/ Name = None /\ UNCHANGED frozen
       \/ /\ Name # None
          /\ frozen[Name] = None \/ Name \in Overwritten
          /\ frozen' = [frozen EXCEPT ![Name] = Summary]
       \/ Name # None /\ Frozen(Name) /\ frozen[Name] = Summary /\ UNCHANGED frozen
    /\ run' = None /\ pc' = "idle"
    /\ UNCHANGED <<setup, generated, official, notes, natives, kills>>

SummaryRefused ==
    /\ Ending /\ Name \notin Overwritten \cup {None} /\ frozen[Name] # None
    /\ frozen[Name] = Torn \/ frozen[Name] # Summary
    /\ Raise

\* A kill, which may fall into the write of a file that is not replaced at once.
Kill ==
    /\ pc # "idle" /\ kills < MaxKills /\ kills' = kills + 1
    /\ run' = None /\ pc' = "idle"
    /\ \/ UNCHANGED <<official, notes, frozen>>
       \/ /\ pc = "receipt"
          /\ official' = [official EXCEPT ![Out][Cell].state = "torn_receipt"]
          /\ UNCHANGED <<notes, frozen>>
       \/ /\ pc = "harness"
          /\ official' = [official EXCEPT ![Out][Cell] = Left("torn_failure", "none")]
          /\ UNCHANGED <<notes, frozen>>
       \/ /\ pc = "note" /\ notes[Evidence][Cell] = None
          /\ notes' = [notes EXCEPT ![Evidence][Cell] = Torn]
          /\ UNCHANGED <<official, frozen>>
       \/ /\ Ending /\ Name # None
          /\ frozen[Name] = None \/ Name \in Overwritten
          /\ frozen' = [frozen EXCEPT ![Name] = Torn] /\ UNCHANGED <<official, notes>>
    /\ UNCHANGED <<setup, generated, natives>>

Next ==
    \/ Start \/ GenerateFeedback \/ Pass \/ Generate \/ Admit \/ PairRefused
    \/ Run \/ Resume \/ ResumeFailure \/ ReceiptUnreadable
    \/ CopyReport \/ PersistFailure \/ PrefetchFails \/ PrefetchTimesOut \/ WriteReceipt
    \/ Normalize \/ ReportRefused \/ WriteNote \/ NoteRefused
    \/ WriteCell \/ WriteSummary \/ SummaryRefused \/ Kill

Spec == Init /\ [][Next]_vars

-----------------------------------------------------------------------------
(* Properties.                                                             *)

\* What the evaluator left for a cell of an evidence root: the retry may have a root of
\* its own.
Verdict(root, c) ==
    official[IF root = "retry" /\ setup.freshRoot THEN "fresh" ELSE "main"][c]
Said(root, c) ==
    IF Verdict(root, c) = None \/ Verdict(root, c).state # "received" THEN "none"
    ELSE Verdict(root, c).outcome

\* "Admit native evaluation only for a complete structural and causal pair"
\* (p1_native.py:276): both arms are judged or none is, and a cell says what the evaluator
\* has a receipt or a failure for; only a kill makes a failure of something else.
CellsAreJudged ==
    \A r \in DOMAIN natives, c \in AllCells : natives[r][c] # None =>
       LET x == natives[r][c] IN
       /\ x.how \in {"judged", "failed"} <=> setup.pairs[c.task] = "distinct"
       /\ x.how = "judged" => Said(r, c) = x.outcome
       /\ x.outcome = "evaluator" => Verdict(r, c).state = "failed"
       /\ x.outcome = "incomplete" => kills > 0

\* "The sole artifact allowed to unlock Round 1 holdout" (round1_run.py:558): no cell of
\* the holdout is generated or judged before a taught arm resolved a feedback task that
\* its baseline did not, every feedback cell being judged.
HoldoutIsUnlocked ==
    setup.program # "experiment" /\ generated \cap HoldoutCells # {} =>
       /\ \E t \in ToSet(Feedback) :
             /\ Said("feedback", Of(t, "taught")) = "resolved"
             /\ Said("feedback", Of(t, "baseline")) \in {"unresolved", "regressed"}
       /\ \A c \in FeedbackCells :
             natives["feedback"][c] # None /\ natives["feedback"][c].how # "failed"

\* What a passed capability gate stands for, in what the evaluator last said of each cell:
\* every pair that could be judged was, none is worse when taught, enough are as good.
CapabilityIsEarned ==
    \A n \in {"holdout", "projection", "retried"} : Frozen(n) /\ frozen[n].passed =>
       LET last(c) ==
             IF n = "retried" /\ natives["retry"][c] # None
             THEN Said("retry", c) ELSE Said("holdout", c)
           pair(t) == <<last(Of(t, "baseline")), last(Of(t, "taught"))>>
           paired == {t \in ToSet(Holdout) : setup.pairs[t] = "distinct"}
           compared == {t \in paired : "unapplied" \notin ToSet(pair(t))}
           empty == {t \in ToSet(Holdout) : setup.pairs[t] = "empty"}
       IN /\ HoldoutCells \subseteq generated
          /\ \A t \in paired : "none" \notin ToSet(pair(t))
          /\ \A t \in compared : /\ pair(t)[1] = "resolved" => pair(t)[2] = "resolved"
                                /\ pair(t)[2] = "regressed" => pair(t)[1] = "regressed"
          /\ Cardinality(compared \cup empty) >= MinPairs

\* Native cells, receipts and frozen summaries stay, also those of the source of a retry.
KeepsEvidence ==
    /\ \A r \in DOMAIN natives, c \in AllCells :
          natives[r][c] # None => natives'[r][c] = natives[r][c]
    /\ \A r \in DOMAIN official, c \in AllCells :
          official[r][c] # None /\ official[r][c].state = "received"
          => official'[r][c] = official[r][c]
    /\ \A r \in DOMAIN notes, c \in AllCells :
          notes[r][c] # None => notes'[r][c] = notes[r][c]
    /\ \A n \in DOMAIN frozen \ {"attempts_so_far"} :
          frozen[n] # None => frozen'[n] = frozen[n]
=============================================================================
