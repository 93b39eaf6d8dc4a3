-------------------------- MODULE AutonomousRunner --------------------------
(***************************************************************************)
(* AutonomousEvolutionRunner.run: rounds of selection, baseline, Teacher,  *)
(* paired campaign and judgement, until a stop condition holds.  All that  *)
(* survives the process is in files: the round index, the state file, the  *)
(* best harness, the frozen files of the round in progress, the result and *)
(* the manifest that seals it.  The process may be stopped at StopPoints,  *)
(* between two writes or inside one that is not atomic, and the same       *)
(* command run again: it replays the index, compares or recovers the       *)
(* state, verifies the best harness, and continues, blocks or refuses      *)
(* (raises).  A round is named by its place in the index, so revision r is *)
(* the candidate of round r; 0 is the empty harness.  Manifests and hashes *)
(* of untouched files are taken to verify.                                 *)
(***************************************************************************)
EXTENDS Integers, Sequences, FiniteSetsExt

CONSTANTS
    Tasks,           \* the feedback task pool
    ProjectOf,       \* the project of each task
    Count,           \* execution.tasks_per_campaign
    TargetGains, MaxRounds, Patience, MaxInfra, MaxSame,    \* goal limits
    MaxFailed,       \* bound on the tasks a baseline fails
    InfraReasons,    \* may a baseline fail for a reason that is not the Student's?
    TeacherAnswers,  \* subset of {"compiled", "invalid", "exceeded"}
    CampaignKinds,   \* subset of AllKinds
    Errors,          \* what the error of a campaign may say
    Facts,           \* what the failure facts of a campaign may hash to
    DiskMayFill,
    StopPoints,      \* where the process may be stopped
    MaxStops         \* bound on how often it is

AllKinds == {"completed", "screened", "raised", "lost", "partial", "unverified", "unlinked"}

ASSUME RunnerAssumption ==
    /\ IsFiniteSet(Tasks) /\ Count \in 1 .. Cardinality(Tasks)
    /\ {TargetGains, MaxRounds, Patience, MaxInfra, MaxSame} \subseteq Nat \ {0}
    /\ {MaxFailed, MaxStops} \subseteq Nat /\ CampaignKinds \subseteq AllKinds
    /\ {InfraReasons, DiskMayFill} \subseteq BOOLEAN

VARIABLES
    rows,      \* ROUND-INDEX.jsonl: the payloads of the completed rounds
    saved,     \* EVOLUTION-STATE.json
    best,      \* best/: the harness file and the artifacts beside it
    draft,     \* the frozen files of the round in progress
    cut,       \* the stages whose file, index or lease a kill has left cut short
    result,    \* EVOLUTION-RESULT.json
    seal,      \* the state and the result the run's manifest was made over
    pc, st, row,    \* the process: where it is, its state, the round's payload
    refused,   \* why the last run() raised, or "no"
    stops

files == <<rows, saved, best, draft, cut, result, seal>>
vars == <<files, pc, st, row, refused, stops>>

Torn == -1
NoFacts == "none"
NoBlock == [phase |-> "none", error |-> NoFacts]
CutBlock == [phase |-> "cut", error |-> NoFacts]
NoSig == [failed |-> {}, student |-> {}, facts |-> NoFacts]

InitialState ==
    [status |-> "active", rounds |-> 0, noProgress |-> 0, infra |-> 0,
     gained |-> {}, best |-> 0, sig |-> NoSig, same |-> 0, unresolvable |-> {}]
NoState == [InitialState EXCEPT !.status = "absent"]
NoRow == [selected |-> {}, failed |-> {}, student |-> {}, gains |-> {},
          sig |-> NoSig, outcome |-> "absent", fitness |-> 0,
          accepted |-> FALSE, best |-> 0]
NoDraft == [selected |-> {}, baseline |-> "absent", failed |-> {}, student |-> {},
            teacher |-> "absent", kind |-> "absent", gains |-> {},
            regressions |-> {}, infra |-> {}, facts |-> NoFacts, block |-> NoBlock]

Init ==
    /\ rows = <<>> /\ saved = NoState /\ best = [harness |-> 0, artifacts |-> 0]
    /\ draft = NoDraft /\ cut = {}
    /\ result = NoState /\ seal = [state |-> NoState, result |-> NoState]
    /\ pc = "down" /\ st = NoState /\ row = NoRow /\ refused = "no" /\ stops = 0

Down == pc' = "down" /\ st' = NoState /\ row' = NoRow

\* run() raises: nothing more is written.
Refuse(why) == Down /\ refused' = why

\* The process is at a stage and finds what that stage reads and writes whole.
At(stage) == pc = stage /\ stage \notin cut

-----------------------------------------------------------------------------
(* What the index says.                                                    *)

Accepted(s) == {i \in DOMAIN s : s[i].accepted}
LastAccepted(s) == Max({0} \cup Accepted(s))
GainedBy(s) == UNION {s[i].gains : i \in Accepted(s)}
FailedBy(s) == UNION {s[i].failed : i \in DOMAIN s}
\* How many of the last rows are all in I.
TailLength(s, I) == Cardinality({i \in DOMAIN s : i .. Len(s) \subseteq I})

NoProgressTail(s) == TailLength(s, DOMAIN s \ Accepted(s))
InfraTail(s) == TailLength(s, {i \in DOMAIN s : s[i].outcome = "infra_failure"})
SameTail(s) == TailLength(s, {i \in DOMAIN s : s[i].sig = s[Len(s)].sig})

\* The order of the stop conditions; a baseline-failed round gains nothing, so
\* its branch, which does not test the goal, agrees.
StopStatus(s, otherwise) ==
    CASE Cardinality(s.gained) >= TargetGains -> "goal_reached"
      [] Cardinality(s.gained) < TargetGains /\ s.noProgress >= Patience -> "no_progress"
      [] Cardinality(s.gained) < TargetGains /\ s.noProgress < Patience
         /\ s.infra >= MaxInfra -> "max_consecutive_infra_failures"
      [] Cardinality(s.gained) < TargetGains /\ s.noProgress < Patience
         /\ s.infra < MaxInfra /\ s.same >= MaxSame -> "max_same_failure_signature"
      [] OTHER -> otherwise

Judged(s, otherwise) == [s EXCEPT !.status = StopStatus(s, otherwise)]

\* _recover_state_from_rounds
Recovered(s) ==
    Judged([status |-> "active", rounds |-> Len(s), noProgress |-> NoProgressTail(s),
            infra |-> InfraTail(s), gained |-> GainedBy(s), best |-> s[Len(s)].best,
            sig |-> s[Len(s)].sig, same |-> SameTail(s), unresolvable |-> FailedBy(s)],
           IF Len(s) >= MaxRounds THEN "max_rounds_reached" ELSE "active")

ExternallyTerminal == {"budget_exhausted", "disk_limit", "stopped_by_user", "blocked_integrity"}

-----------------------------------------------------------------------------
(* Starting: load or create, replay the index, verify the best harness.    *)

Launch ==
    /\ At("down") /\ pc' = "rebuild"
    /\ saved' = IF saved = NoState THEN InitialState ELSE saved
    /\ st' = saved'
    /\ UNCHANGED <<rows, best, draft, cut, result, seal, row, refused, stops>>

\* freeze_json compares a frozen file again at every pass, rows reads every line of an
\* index and _writer finds the lease: what was cut short raises each time it is met.
CutRefuses ==
    /\ pc \in cut /\ Refuse("cut-short")
    /\ UNCHANGED <<files, stops>>

\* The state must be at the index or one round behind it.  Behind: it is recovered
\* and written.  At: every counter, then the status, must be what the index gives.
Rebuild ==
    /\ At("rebuild") /\ UNCHANGED <<rows, best, draft, cut, result, seal, stops>>
    /\ \/ /\ Len(rows) \notin {st.rounds, st.rounds + 1}
          /\ Refuse("state disagrees with the index") /\ UNCHANGED saved
       \/ /\ Len(rows) = st.rounds + 1
          /\ st' = Recovered(rows) /\ saved' = Recovered(rows)
          /\ pc' = "verify" /\ UNCHANGED <<row, refused>>
       \/ /\ Len(rows) = st.rounds /\ UNCHANGED saved
          /\ IF rows = <<>> \/ st = Recovered(rows)
                \/ /\ st = [Recovered(rows) EXCEPT !.status = st.status]
                   /\ st.status \in ExternallyTerminal
             THEN pc' = "verify" /\ UNCHANGED <<st, row, refused>>
             ELSE Refuse("state disagrees with the checkpoint")

\* _block_integrity: why is frozen beside the round in progress, then the state is
\* written, then the result.  A round that is blocked again for another reason raises.
Block(phase, error) ==
    LET b == [phase |-> phase, error |-> error]
    IN /\ UNCHANGED row
       /\ \/ /\ draft.block \in {NoBlock, b} /\ draft' = [draft EXCEPT !.block = b]
             /\ st' = [st EXCEPT !.status = "blocked_integrity"] /\ pc' = "write"
             /\ UNCHANGED refused
          \/ /\ draft.block \notin {NoBlock, b} /\ UNCHANGED draft
             /\ Refuse("INTEGRITY-BLOCK.json conflict")

\* Mutant: the artifacts and the harness file are taken as they are.
BestVerifiesUnread == TRUE

\* _verify_best_projection; the empty harness is verified without the artifacts.
BestVerifies ==
    LET r == LastAccepted(rows)
    IN /\ st.best = r /\ best.harness = r
       /\ r # 0 => best.artifacts = r

AfterVerify == IF st.status = "active" THEN "loop" ELSE "terminal"

VerifyBest ==
    /\ pc = "verify" /\ UNCHANGED <<rows, saved, best, cut, result, seal, stops>>
    /\ \/ BestVerifies /\ pc' = AfterVerify /\ UNCHANGED <<draft, st, row, refused>>
       \/ ~BestVerifies /\ Block("best-harness-projection", NoFacts)

Sealed == result # NoState /\ seal = [state |-> saved, result |-> result]

\* _terminal_result
Terminal ==
    /\ pc = "terminal" /\ UNCHANGED <<files, stops>>
    /\ \/ Sealed /\ Down /\ refused' = "no"
       \/ result = NoState /\ Refuse("terminal state has no result")
       \/ result # NoState /\ ~Sealed /\ Refuse("manifest does not verify")

-----------------------------------------------------------------------------
(* A round.                                                                *)

RepeatHardCap == Max({1, (MaxRounds * Count + Cardinality(Tasks) - 1) \div Cardinality(Tasks)})

Selections(t) == Cardinality({i \in DOMAIN rows : t \in rows[i].selected})

Selectable == {t \in Tasks \ st.unresolvable : Selections(t) < RepeatHardCap}

RoundsLeft == st.rounds < MaxRounds

\* More than one task is taken from more than one project.
CoversProjects(S) == Count > 1 => \E t, u \in S : ProjectOf[t] # ProjectOf[u]

\* FeedbackTaskSelector.select, whatever its ranking; the choice is frozen.
Select ==
    /\ At("loop") /\ RoundsLeft
    /\ UNCHANGED <<rows, saved, best, cut, result, seal, row, stops>>
    /\ \/ /\ draft.selected = {} /\ Cardinality(Selectable) < Count
          /\ Refuse("too few selectable tasks") /\ UNCHANGED draft
       \/ /\ draft.selected = {} /\ Cardinality(Selectable) >= Count
          /\ ~CoversProjects(Selectable)
          /\ Refuse("fewer than two projects") /\ UNCHANGED draft
       \/ /\ draft.selected = {}
          /\ \E S \in kSubset(Count, Selectable) :
                CoversProjects(S) /\ draft' = [draft EXCEPT !.selected = S]
          /\ pc' = "baseline" /\ UNCHANGED <<st, refused>>
       \/ /\ draft.selected # {} /\ pc' = "baseline" /\ UNCHANGED <<draft, st, refused>>

DiskLimit ==
    /\ pc = "loop" /\ RoundsLeft /\ DiskMayFill
    /\ st' = [st EXCEPT !.status = "disk_limit"] /\ pc' = "write"
    /\ UNCHANGED <<files, row, refused, stops>>

MaxRoundsReached ==
    /\ pc = "loop" /\ ~RoundsLeft
    /\ st' = [st EXCEPT !.status = "max_rounds_reached"] /\ pc' = "write"
    /\ UNCHANGED <<files, row, refused, stops>>

\* The probe runs once; a resumed round loads what it froze.
Baseline ==
    /\ At("baseline") /\ draft.baseline = "absent"
    /\ \/ draft' = [draft EXCEPT !.baseline = "complete"]
       \/ \E F \in SUBSET draft.selected : \E S \in SUBSET F :
             /\ Cardinality(F) \in 1 .. MaxFailed /\ (~InfraReasons => S = F)
             /\ draft' = [draft EXCEPT !.baseline = "failed", !.failed = F, !.student = S]
    /\ UNCHANGED <<rows, saved, best, cut, result, seal, pc, st, row, refused, stops>>

\* Mutant: a failed baseline goes back to the selection and leaves no row.
BaselineFailedUnindexed ==
    /\ At("baseline") /\ draft.baseline = "failed" /\ pc' = "loop"
    /\ UNCHANGED <<files, st, row, refused, stops>>

\* A failed baseline ends the round: neutral, never accepted, no Teacher call.
BaselineFailed ==
    /\ At("baseline") /\ draft.baseline = "failed"
    /\ row' = [NoRow EXCEPT !.selected = draft.selected, !.failed = draft.failed,
                            !.student = draft.student, !.outcome = "neutral",
                            !.sig = [failed |-> draft.failed, student |-> draft.student,
                                     facts |-> NoFacts],
                            !.best = st.best]
    /\ pc' = "index" /\ UNCHANGED <<files, st, refused, stops>>

BaselineComplete ==
    /\ At("baseline") /\ draft.baseline = "complete" /\ pc' = "teach"
    /\ UNCHANGED <<files, st, row, refused, stops>>

\* CandidateProposer.propose and _compile_candidate: the answer is durable.
AskTeacher ==
    /\ At("teach") /\ draft.teacher = "absent"
    /\ \E a \in TeacherAnswers : draft' = [draft EXCEPT !.teacher = a]
    /\ UNCHANGED <<rows, saved, best, cut, result, seal, pc, st, row, refused, stops>>

Taught ==
    /\ At("teach") /\ UNCHANGED <<rows, saved, best, cut, result, seal, stops>>
    /\ \/ draft.teacher = "compiled" /\ pc' = "paired" /\ UNCHANGED <<draft, st, row, refused>>
       \/ /\ draft.teacher = "exceeded" /\ pc' = "write" /\ UNCHANGED <<draft, row, refused>>
          /\ st' = [st EXCEPT !.status = "budget_exhausted"]
       \/ draft.teacher = "invalid" /\ Block("teacher", NoFacts)

\* Prescreen and paired campaign, and the result that is frozen.  raised: paired raised,
\* and the receipts hold an evaluator failure, which is the result.  lost: it raised, and
\* they hold none.  partial: the result does not verify, and they hold one.  unverified:
\* and they hold none.  unlinked: the result verifies and has no feedback.
RunCampaign ==
    /\ At("paired") /\ draft.kind = "absent"
    /\ UNCHANGED <<rows, saved, best, cut, result, seal, stops>>
    /\ \/ "lost" \in CampaignKinds
          /\ \E e \in Errors : Block("model-native-lineage", e)
       \/ \E k \in CampaignKinds \ {"lost"}, f \in Facts, G, R, I \in SUBSET draft.selected :
             /\ G \cap R = {} /\ (G \cup R) \cap I = {}
             /\ k # "completed" => G \cup R \cup I = {}
             /\ draft' = [draft EXCEPT !.kind = k, !.facts = f, !.gains = G,
                                       !.regressions = R, !.infra = I]
             /\ pc' = (IF k = "raised" THEN "judge" ELSE "paired")
             /\ UNCHANGED <<st, row, refused>>

\* The result, just frozen or loaded, is verified.  A result that does not verify is
\* compared with the one of the evaluator failure, which is another one: the error that
\* the verifier raises is not the one that raised had.
LoadCampaign ==
    /\ At("paired") /\ UNCHANGED <<rows, saved, best, cut, result, seal, stops>>
    /\ \/ draft.kind \in {"completed", "screened"}
          /\ pc' = "judge" /\ UNCHANGED <<draft, st, row, refused>>
       \/ draft.kind \in {"raised", "partial"}
          /\ Refuse("CAMPAIGN-RESULT.json conflict") /\ UNCHANGED draft
       \/ draft.kind = "unverified" /\ Block("model-native-lineage", NoFacts)
       \/ draft.kind = "unlinked" /\ Block("campaign-feedback-lineage", NoFacts)

\* _fitness, _round_outcome and _acceptable_advance
Fitness(G, R) == 10 * Cardinality(G) - 100 * Cardinality(R)

\* Of the claims, one for each task that gained, regressed or was not evaluated.
Outcome(d) ==
    IF d.kind = "raised" \/ d.infra # {} THEN "infra_failure"
    ELSE IF d.regressions # {} THEN "regression"
    ELSE IF d.gains # {} THEN "gain" ELSE "neutral"

\* Mutant: any gain advances, whatever the fitness of the best so far.
AdvancesAnyGain(d) == d.gains # {} /\ d.regressions = {} /\ d.infra = {}

Advances(d) ==
    /\ d.gains # {} /\ d.regressions = {} /\ d.infra = {}
    /\ LET r == LastAccepted(rows)
       IN r = 0 \/ Fitness(d.gains, d.regressions) > rows[r].fitness

Judge ==
    /\ pc = "judge" /\ UNCHANGED <<files, st, refused, stops>>
    /\ row' = [NoRow EXCEPT !.selected = draft.selected, !.gains = draft.gains,
                            !.sig = [NoSig EXCEPT !.facts = draft.facts],
                            !.outcome = Outcome(draft),
                            !.fitness = Fitness(draft.gains, draft.regressions),
                            !.accepted = Advances(draft),
                            !.best = IF Advances(draft) THEN Len(rows) + 1 ELSE st.best]
    /\ pc' = IF Advances(draft) THEN "copy" ELSE "index"

\* export_best_harness: the artifacts one by one, then the harness file at once.
CopyArtifacts ==
    /\ pc = "copy" /\ best' = [best EXCEPT !.artifacts = Torn] /\ pc' = "reload"
    /\ UNCHANGED <<rows, saved, draft, cut, result, seal, st, row, refused, stops>>

ReloadArtifacts ==
    /\ pc = "reload" /\ best' = [best EXCEPT !.artifacts = Len(rows) + 1] /\ pc' = "harness"
    /\ UNCHANGED <<rows, saved, draft, cut, result, seal, st, row, refused, stops>>

ExportHarness ==
    /\ pc = "harness" /\ best' = [best EXCEPT !.harness = Len(rows) + 1] /\ pc' = "index"
    /\ UNCHANGED <<rows, saved, draft, cut, result, seal, st, row, refused, stops>>

HasInfra(r) == IF r.failed # {} THEN r.failed # r.student ELSE r.outcome = "infra_failure"

\* Mutant: an accepted round does not reset the count of rounds without progress.
AdvancedKeepingCount(s, r) ==
    [s EXCEPT !.rounds = @ + 1, !.noProgress = @ + 1,
              !.infra = IF HasInfra(r) THEN @ + 1 ELSE 0,
              !.gained = IF r.accepted THEN @ \cup r.gains ELSE @, !.best = r.best,
              !.sig = r.sig, !.same = IF s.sig = r.sig THEN @ + 1 ELSE 1,
              !.unresolvable = @ \cup r.student]

\* The next GoalState, counted from the last one.
Advanced(s, r) ==
    [s EXCEPT !.rounds = @ + 1, !.noProgress = IF r.accepted THEN 0 ELSE @ + 1,
              !.infra = IF HasInfra(r) THEN @ + 1 ELSE 0,
              !.gained = IF r.accepted THEN @ \cup r.gains ELSE @, !.best = r.best,
              !.sig = r.sig, !.same = IF s.sig = r.sig THEN @ + 1 ELSE 1,
              !.unresolvable = @ \cup r.student]

\* The round result is frozen, the round sealed and its payload indexed.
Index ==
    /\ At("index") /\ rows' = Append(rows, row) /\ draft' = NoDraft
    /\ st' = Judged(Advanced(st, row), "active") /\ row' = NoRow /\ pc' = "write"
    /\ UNCHANGED <<saved, best, cut, result, seal, refused, stops>>

WriteState ==
    /\ pc = "write" /\ saved' = st
    /\ pc' = IF st.status = "active" THEN "loop" ELSE "result"
    /\ UNCHANGED <<rows, best, draft, cut, result, seal, st, row, refused, stops>>

WriteResult ==
    /\ pc = "result" /\ result' = st /\ pc' = "seal"
    /\ UNCHANGED <<rows, saved, best, draft, cut, seal, st, row, refused, stops>>

Seal ==
    /\ pc = "seal" /\ seal' = [state |-> saved, result |-> result]
    /\ Down /\ refused' = "no"
    /\ UNCHANGED <<rows, saved, best, draft, cut, result, stops>>

-----------------------------------------------------------------------------
Step ==
    \/ CutRefuses \/ Rebuild \/ VerifyBest \/ Terminal
    \/ Select \/ DiskLimit \/ MaxRoundsReached
    \/ Baseline \/ BaselineFailed \/ BaselineComplete
    \/ AskTeacher \/ Taught \/ RunCampaign \/ LoadCampaign
    \/ Judge \/ CopyArtifacts \/ ReloadArtifacts \/ ExportHarness
    \/ Index \/ WriteState \/ WriteResult \/ Seal

\* The operator stops the process, or it is killed, between two writes.
Stop ==
    /\ pc \in StopPoints /\ stops < MaxStops
    /\ stops' = stops + 1 /\ Down
    /\ UNCHANGED <<files, refused>>

\* Where the process is about to freeze INTEGRITY-BLOCK.json.
Blocking ==
    \/ pc = "verify" /\ ~BestVerifies
    \/ pc = "teach" /\ draft.teacher = "invalid"
    \/ pc = "paired" /\ draft.kind \in {"absent", "unverified", "unlinked"}

\* A kill inside a write that is not atomic: inside freeze_json (GOAL.json before the
\* first launch, the files of the round, INTEGRITY-BLOCK.json), or inside append, which
\* leaves its lease or part of a line.
CutShort ==
    /\ pc \in StopPoints \cup {"down"} /\ stops < MaxStops
    /\ stops' = stops + 1 /\ Down /\ UNCHANGED <<rows, saved, best, result, seal, refused>>
    /\ \/ pc = "down" /\ saved = NoState /\ cut' = cut \cup {pc} /\ UNCHANGED draft
       \/ pc \in {"loop", "teach", "index"} /\ cut' = cut \cup {pc} /\ UNCHANGED draft
       \/ /\ pc = "baseline" /\ draft.baseline # "complete"
          /\ cut' = cut \cup {pc} /\ UNCHANGED draft
       \/ pc = "index" /\ cut' = cut \cup {"rebuild"} /\ UNCHANGED draft
       \/ /\ pc = "paired" /\ draft.kind = "absent" /\ UNCHANGED cut
          /\ \E k \in {"partial", "unverified"} : draft' = [draft EXCEPT !.kind = k]
       \/ /\ Blocking /\ draft.block = NoBlock /\ UNCHANGED cut
          /\ draft' = [draft EXCEPT !.block = CutBlock]

Next == Launch \/ Step \/ Stop \/ CutShort

Spec == Init /\ [][Next]_vars

\* The process runs, and the same command is run again until there is a result.
FairSpec == Spec /\ WF_vars(Step) /\ WF_vars(Launch)
-----------------------------------------------------------------------------
(* Properties.                                                             *)

Statuses == {"active", "goal_reached", "no_progress", "budget_exhausted", "disk_limit",
             "max_rounds_reached", "max_consecutive_infra_failures",
             "max_same_failure_signature", "stopped_by_user", "blocked_integrity"}
States ==
    [status : Statuses \cup {"absent"}, rounds : 0 .. MaxRounds,
     noProgress : 0 .. MaxRounds, infra : 0 .. MaxRounds, gained : SUBSET Tasks,
     best : 0 .. MaxRounds, same : 0 .. MaxRounds, unresolvable : SUBSET Tasks,
     sig : [failed : SUBSET Tasks, student : SUBSET Tasks, facts : Facts \cup {NoFacts}]]
PCs == {"down", "rebuild", "verify", "terminal", "loop", "baseline", "teach", "paired",
        "judge", "copy", "reload", "harness", "index", "write", "result", "seal"}

\* Types; the index never grows past goal.max_rounds.
TypeOK ==
    /\ Len(rows) <= MaxRounds /\ {saved, st, result, seal.state, seal.result} \subseteq States
    /\ best.harness \in 0 .. MaxRounds /\ best.artifacts \in Torn .. MaxRounds
    /\ draft.failed \subseteq draft.selected /\ draft.student \subseteq draft.failed
    /\ cut \subseteq PCs /\ pc \in PCs /\ stops \in 0 .. MaxStops

\* The state file is at the round index or one round behind it, wherever the process
\* stopped, and its counters, counted up round by round, are the ones
\* _recover_state_from_rounds reads off the index (the two counts that depend on why
\* a baseline failed only while no baseline failed for another reason than the
\* Student's).
CountersAreRebuilt ==
    saved # NoState =>
        /\ Len(rows) - saved.rounds \in {0, 1}
        /\ rows # <<>> /\ Len(rows) = saved.rounds =>
            LET s == Recovered(rows)
            IN /\ saved.noProgress = s.noProgress /\ saved.gained = s.gained
               /\ saved.best = s.best /\ saved.sig = s.sig /\ saved.same = s.same
               /\ (\A i \in DOMAIN rows : rows[i].failed = rows[i].student) =>
                     saved.infra = s.infra /\ saved.unresolvable = s.unresolvable

\* A round starts from, and a result that is not an integrity block is sealed over, the
\* best harness of the last accepted round in the index, whichever exports were cut
\* short before (runner.run's and resume's verify_best_harness).
BestIsAccepted ==
    (pc \in {"baseline", "teach", "paired", "judge"}
       \/ (Sealed /\ saved.status # "blocked_integrity")) =>
        /\ best.harness = LastAccepted(rows)
        /\ best.harness # 0 => best.artifacts = best.harness

\* Across rounds and restarts the accepted rounds have strictly growing fitness, and
\* every row names the last of them as the best.
AcceptedIsProgress ==
    /\ \A i, j \in Accepted(rows) : i < j => rows[i].fitness < rows[j].fitness
    /\ \A i \in DOMAIN rows : rows[i].best = LastAccepted(SubSeq(rows, 1, i))

\* Stopped or killed at any point and run again each time, the command ends: with a
\* sealed result, or by raising, which for a file that was cut short or a state that
\* another reason blocked it does again each time (run, _terminal_result).
RunEnds == []<>(Sealed \/ refused # "no")
=============================================================================
