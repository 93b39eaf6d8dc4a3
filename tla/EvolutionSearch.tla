--------------------------- MODULE EvolutionSearch ---------------------------
(***************************************************************************)
(* The evolution search of engine/: generations of stages in which the     *)
(* original program, the search parent and candidates attempt a stage's    *)
(* tasks, and proposals for the next generation.  EvolutionController      *)
(* keeps claims, call reservations, evidence and the parent history in a   *)
(* file beside the file of its digest; CandidateArchive keeps candidates,  *)
(* their states and the archive's own parent.  A run that was killed is    *)
(* started again from its first generation: what is on disk is taken, the  *)
(* rest is done.  The tasks of a stage run in threads.  Models, evaluator  *)
(* and miner are external: what a stage or the miner computes is a         *)
(* function of evidence that no longer changes, and is kept in its place.  *)
(***************************************************************************)
EXTENDS Naturals, SequencesExt

CONSTANTS
    Generations,        \* generations after the first, which only observes (3)
    MaxCandidates,      \* proposals of a generation (4)
    MaxFinalists,       \* candidates that leave the scout stage (2)
    Tasks,              \* tasks of a stage
    Programs, Original, Seed,
    CallCap,            \* authorized real model calls
    None,
    MaxFaults, MaxActs  \* bounds on faults and on acts of the operator

EvolutionSearchAssumption ==
    /\ Generations \in Nat \ {0} /\ MaxCandidates \in Nat \ {0} /\ MaxFinalists \in Nat \ {0}
    /\ {Original, Seed} \subseteq Programs /\ Original # Seed
    /\ None \notin Programs \cup Nat \cup BOOLEAN \cup Seq(Programs) \cup {"invalid"}
    /\ "invalid" \notin Programs
    /\ CallCap \in Nat /\ MaxFaults \in Nat /\ MaxActs \in Nat

\* Stages in the order of the plan: 1 observes, then scout, semifinal, confirmation.
Stages == 1 .. 1 + 3 * Generations
Generation(s) == (s + 1) \div 3
IsScout(s) == s % 3 = 2
IsConfirmation(s) == s % 3 = 1 /\ s > 1
Keys == Stages \X Tasks \X Programs
Requests == (0 .. Generations) \X (1 .. MaxCandidates) \X {1, 2}

VARIABLES
    claims,      \* stage -> arms and status
    calls,       \* reserved agent calls: status and number of reservations
    evidence,    \* agent calls whose native evidence is recorded
    asked,       \* status of the reserved proposer calls, two attempts a request
    charged,     \* usage.real_codex_calls
    history,     \* decisions on the search parent
    receipts, artifacts,    \* agent calls whose files are complete
    raws,        \* proposer answers: a program, invalid, or None
    outcome,     \* stage -> finalists, or whether the champion advances
    wanted,      \* generation -> requests the miner found
    registered,  \* program -> the request it was registered for, and its state
    rolledBack,  \* candidates with a rollback event
    lineage,     \* search parents of the archive, oldest first
    damaged,     \* a file of controller or archive no longer loads
    run,         \* the running search
    thread,      \* task -> where its thread is
    dispatched, retracted,  \* history: dispatches and retractions of an agent call
    reopened,    \* history: a proposer call was retracted
    faults, acts

controller == <<claims, calls, evidence, asked, charged, history>>
files == <<receipts, artifacts, raws, outcome, wanted>>
archive == <<registered, rolledBack, lineage>>
kept == <<dispatched, retracted, reopened, faults, acts, damaged>>
vars == <<controller, files, archive, kept, run, thread>>

Idle == [place |-> "stopped", stage |-> 1, request |-> 1, found |-> <<>>, why |-> "none"]
Resting == [arm |-> 1, place |-> "load"]
Unknown == [by |-> <<>>, state |-> "none"]

Init ==
    /\ claims = [s \in Stages |-> [arms |-> <<>>, status |-> "none"]]
    /\ calls = [k \in Keys |-> [status |-> "none", count |-> 0]] /\ evidence = {}
    /\ asked = [r \in Requests |-> "none"] /\ charged = 0 /\ history = <<>>
    /\ receipts = {} /\ artifacts = {} /\ raws = [r \in Requests |-> None]
    /\ outcome = [s \in Stages |-> None] /\ wanted = [g \in 0 .. Generations |-> None]
    /\ registered = [p \in Programs |-> Unknown] /\ rolledBack = {} /\ lineage = <<Seed>>
    /\ damaged = FALSE /\ run = Idle /\ thread = [t \in Tasks |-> Resting]
    /\ dispatched = [k \in Keys |-> 0] /\ retracted = [k \in Keys |-> 0]
    /\ reopened = FALSE /\ faults = 0 /\ acts = 0

Parent == IF history = <<>> THEN Seed ELSE Last(history).parent
At(place) == run.place = place
To(place) == run' = [run EXCEPT !.place = place]
Refuse(why) == run' = [Idle EXCEPT !.place = "refused", !.why = why]
Running == run.place \notin {"stopped", "refused", "finished"}

-----------------------------------------------------------------------------
(* A stage: its claim, its arms, its outcome.                              *)

\* A new process, unless the search has ended; the controller is loaded first.
Start ==
    /\ run.place \in {"stopped", "refused"}
    /\ IF damaged THEN Refuse("damaged") ELSE run' = [Idle EXCEPT !.place = "claim"]
    /\ thread' = [t \in Tasks |-> Resting]
    /\ UNCHANGED <<controller, files, archive, kept>>

\* Candidates that enter a scout stage are being evaluated from then on.
MarkCandidates ==
    /\ At("mark") /\ To("claim")
    /\ registered' = [p \in Programs |->
            IF p \in ToSet(run.found) /\ registered[p].state = "inactive"
            THEN [registered[p] EXCEPT !.state = "evaluating"] ELSE registered[p]]
    /\ UNCHANGED <<controller, files, rolledBack, lineage, kept, thread>>

Contenders == IF run.stage = 1 THEN <<>>
              ELSE IF IsScout(run.stage) THEN run.found ELSE outcome[run.stage - 1]

\* A stage that was claimed keeps its arms, and must be asked for with the same
\* candidates; a new claim takes the parent of the moment.
ClaimStage ==
    /\ At("claim")
    /\ LET arms == <<Original, Parent>> \o Contenders
           claim == claims[run.stage]
       IN CASE claim.status # "none" ->
                 /\ IF SubSeq(claim.arms, 3, Len(claim.arms)) = Contenders
                    THEN To("arms") ELSE Refuse("claim differs")
                 /\ UNCHANGED claims
            [] claim.status = "none" /\ ~IsInjective(arms) ->
                 Refuse("arms not distinct") /\ UNCHANGED claims
            [] OTHER ->
                 /\ claims' = [claims EXCEPT ![run.stage] =
                                  [arms |-> arms, status |-> "claimed"]]
                 /\ To("arms")
    /\ thread' = [t \in Tasks |-> Resting]
    /\ UNCHANGED <<calls, evidence, asked, charged, history, files, archive, kept>>

Key(t) == <<run.stage, t, claims[run.stage].arms[thread[t].arm]>>
In(t, place) == At("arms") /\ thread[t].place = place
Go(t, place) == thread' = [thread EXCEPT ![t].place = place]

\* An execution artifact that is there is taken.
Load(t) ==
    /\ In(t, "load")
    /\ Go(t, IF Key(t) \in artifacts THEN "record" ELSE "reserve")
    /\ UNCHANGED <<controller, files, archive, kept, run>>

\* A real call is charged before it is dispatched, and dispatched only by the one
\* that charged it; a retracted reservation is charged again.
Grant(t) ==
    IF charged < CallCap
    THEN /\ calls' = [calls EXCEPT ![Key(t)] = [status |-> "reserved", count |-> @.count + 1]]
         /\ charged' = charged + 1 /\ Go(t, "dispatch")
    ELSE Go(t, "error") /\ UNCHANGED <<calls, charged>>

\* Mutant: a reservation without a receipt is dispatched again.
ReserveAgain(t) ==
    /\ In(t, "reserve")
    /\ IF calls[Key(t)].status \in {"none", "retracted"} THEN Grant(t)
       ELSE Go(t, IF Key(t) \in receipts THEN "evaluate" ELSE "dispatch")
            /\ UNCHANGED <<calls, charged>>
    /\ UNCHANGED <<claims, evidence, asked, history, files, archive, kept, run>>

Reserve(t) ==
    /\ In(t, "reserve")
    /\ IF calls[Key(t)].status \in {"none", "retracted"} THEN Grant(t)
       ELSE Go(t, IF Key(t) \in receipts THEN "evaluate" ELSE "error")
            /\ UNCHANGED <<calls, charged>>
    /\ UNCHANGED <<claims, evidence, asked, history, files, archive, kept, run>>

\* The agent runs; the receipt is written when it has ended.
Dispatch(t) ==
    /\ In(t, "dispatch") /\ Go(t, "receipt")
    /\ dispatched' = [dispatched EXCEPT ![Key(t)] = @ + 1]
    /\ UNCHANGED <<controller, files, archive, retracted, reopened, faults, acts, damaged, run>>

WriteReceipt(t) ==
    /\ In(t, "receipt") /\ Go(t, "evaluate") /\ receipts' = receipts \cup {Key(t)}
    /\ UNCHANGED <<controller, artifacts, raws, outcome, wanted, archive, kept, run>>

Evaluate(t) ==
    /\ In(t, "evaluate") /\ Go(t, "record") /\ artifacts' = artifacts \cup {Key(t)}
    /\ UNCHANGED <<controller, receipts, raws, outcome, wanted, archive, kept, run>>

NextArm(t) ==
    thread' = [thread EXCEPT ![t] =
        IF @.arm = Len(claims[run.stage].arms) THEN [@ EXCEPT !.place = "done"]
        ELSE [arm |-> @.arm + 1, place |-> "load"]]

\* Evidence completes its reservation, unless that was retracted.
RecordEvidence(t) ==
    /\ In(t, "record")
    /\ CASE Key(t) \in evidence -> NextArm(t) /\ UNCHANGED <<calls, evidence>>
         [] Key(t) \notin evidence /\ calls[Key(t)].status \in {"reserved", "completed"} ->
              /\ evidence' = evidence \cup {Key(t)} /\ NextArm(t)
              /\ calls' = [calls EXCEPT ![Key(t)].status = "completed"]
         [] OTHER -> Go(t, "error") /\ UNCHANGED <<calls, evidence>>
    /\ UNCHANGED <<claims, asked, charged, history, files, archive, kept, run>>

\* The executor waits for every task; the first error is raised.
Join ==
    /\ At("arms") /\ \A t \in Tasks : thread[t].place \in {"done", "error"}
    /\ IF \E t \in Tasks : thread[t].place = "error" THEN Refuse("arm") ELSE To("complete")
    /\ UNCHANGED <<controller, files, archive, kept, thread>>

Candidates(s) == SubSeq(claims[s].arms, 3, Len(claims[s].arms))
LEQ(a, b) == IF a <= b THEN a ELSE b

\* What the native evidence of a stage may say: who goes on, or whether the champion
\* passes the gate.
Outcomes(s) ==
    LET n == LEQ(MaxFinalists, Len(Candidates(s)))
        first(m) == {f \in [1 .. m -> ToSet(Candidates(s))] : IsInjective(f)}
    IN IF s = 1 \/ IsConfirmation(s) THEN BOOLEAN ELSE first(IF IsScout(s) THEN n ELSE 1)

CompleteStage ==
    /\ At("complete")
    /\ claims' = [claims EXCEPT ![run.stage].status = "complete"]
    /\ \E result \in Outcomes(run.stage) :
         outcome' = [outcome EXCEPT ![run.stage] = IF @ = None THEN result ELSE @]
    /\ To(CASE run.stage = 1 -> "mine"
            [] IsConfirmation(run.stage) -> "select"
            [] OTHER -> "eliminate")
    /\ UNCHANGED <<calls, evidence, asked, charged, history, receipts, artifacts, raws,
                   wanted, archive, kept, thread>>

\* A candidate's state in the archive: a state it is in already is left, a step the
\* table of transitions does not have is refused.
Transition(p, state, place) ==
    CASE registered[p].state = state -> To(place) /\ UNCHANGED registered
      [] registered[p].state = "evaluating" ->
           registered' = [registered EXCEPT ![p].state = state] /\ To(place)
      [] OTHER -> Refuse("illegal transition") /\ UNCHANGED registered

Eliminated == {p \in ToSet(Candidates(run.stage)) :
                 p \notin ToSet(outcome[run.stage]) /\ registered[p].state # "rejected"}

Eliminate ==
    /\ At("eliminate")
    /\ IF Eliminated = {}
       THEN run' = [run EXCEPT !.stage = @ + 1, !.place = "claim"] /\ UNCHANGED registered
       ELSE \E p \in Eliminated : Transition(p, "rejected", "eliminate")
    /\ UNCHANGED <<controller, files, rolledBack, lineage, kept, thread>>

-----------------------------------------------------------------------------
(* The decision on the search parent: archive first, controller last.      *)

Champion == outcome[run.stage - 1][1]
PreviousParent == claims[run.stage].arms[2]

\* Mutant: the gate is not asked.
SelectUngated ==
    /\ At("select") /\ Transition(Champion, "selected", "rollback")
    /\ UNCHANGED <<controller, files, rolledBack, lineage, kept, thread>>

Select ==
    /\ At("select")
    /\ IF outcome[run.stage] THEN Transition(Champion, "selected", "rollback")
       ELSE Transition(Champion, "rejected", "decide")
    /\ UNCHANGED <<controller, files, rolledBack, lineage, kept, thread>>

RecordRollback ==
    /\ At("rollback") /\ To("advance") /\ rolledBack' = rolledBack \cup {Champion}
    /\ UNCHANGED <<controller, files, registered, lineage, kept, thread>>

Follows(p, previous) ==
    \E i \in 2 .. Len(lineage) : lineage[i] = p /\ lineage[i - 1] = previous

\* Mutant: an advance that was made before is made again.
AdvanceAgain ==
    /\ At("advance")
    /\ IF Last(lineage) # PreviousParent
       THEN Refuse("stale parent") /\ UNCHANGED lineage
       ELSE To("decide") /\ lineage' = Append(lineage, Champion)
    /\ UNCHANGED <<controller, files, registered, rolledBack, kept, thread>>

AdvanceParent ==
    /\ At("advance")
    /\ CASE Follows(Champion, PreviousParent) -> To("decide") /\ UNCHANGED lineage
         [] ~Follows(Champion, PreviousParent) /\ Last(lineage) # PreviousParent ->
              Refuse("stale parent") /\ UNCHANGED lineage
         [] OTHER -> To("decide") /\ lineage' = Append(lineage, Champion)
    /\ UNCHANGED <<controller, files, registered, rolledBack, kept, thread>>

Decision == [generation |-> Generation(run.stage), previous |-> PreviousParent,
             parent |-> IF outcome[run.stage] THEN Champion ELSE PreviousParent]

RecordDecision ==
    /\ At("decide")
    /\ LET own == {i \in DOMAIN history : history[i].generation = Decision.generation} IN
       CASE own # {} ->
              /\ IF history[CHOOSE i \in own : TRUE] = Decision
                 THEN To("mine") ELSE Refuse("decision differs")
              /\ UNCHANGED history
         [] own = {} /\ PreviousParent # Parent ->
              Refuse("stale parent") /\ UNCHANGED history
         [] OTHER -> history' = Append(history, Decision) /\ To("mine")
    /\ UNCHANGED <<claims, calls, evidence, asked, charged, files, archive, kept, thread>>

-----------------------------------------------------------------------------
(* Proposals for the next generation.                                      *)

\* No request, or a converged search, ends it.
Mine ==
    /\ At("mine")
    /\ LET g == Generation(run.stage) IN
       \E n \in 0 .. MaxCandidates :
         /\ wanted[g] \in {None, n}
         /\ wanted' = [wanted EXCEPT ![g] = n]
         /\ run' = [run EXCEPT !.place = IF n = 0 THEN "finished" ELSE "propose",
                               !.request = 1, !.found = <<>>]
    /\ UNCHANGED <<controller, receipts, artifacts, raws, outcome, archive, kept, thread>>

Request(attempt) == <<Generation(run.stage), run.request, attempt>>
Attempt == IF raws[Request(1)] = "invalid" THEN 2 ELSE 1
Answer == raws[Request(Attempt)]
SearchParent == IF run.stage = 1 THEN Seed ELSE Decision.parent
SkipRequest == run' = [run EXCEPT !.request = @ + 1, !.place = "propose"]

\* A proposer call is charged before it is made; one that was reserved and left no
\* answer fails its request, here and in every later run.
Ask ==
    /\ At("propose") /\ run.request <= wanted[Generation(run.stage)] /\ Answer = None
    /\ CASE asked[Request(Attempt)] \in {"reserved", "completed"} ->
              SkipRequest /\ UNCHANGED <<asked, charged>>
         [] asked[Request(Attempt)] \in {"none", "retracted"} /\ charged < CallCap ->
              /\ asked' = [asked EXCEPT ![Request(Attempt)] = "reserved"]
              /\ charged' = charged + 1 /\ To("ask")
         [] OTHER -> Refuse("budget") /\ UNCHANGED <<asked, charged>>
    /\ UNCHANGED <<claims, calls, evidence, history, files, archive, kept, thread>>

WriteAnswer ==
    /\ At("ask") /\ To("answered")
    /\ \E answer \in Programs \ {SearchParent} :
         raws' = [raws EXCEPT ![Request(Attempt)] = answer]
    /\ UNCHANGED <<controller, receipts, artifacts, outcome, wanted, archive, kept, thread>>

\* The attempt that was answered is the last one with an answer.
CompleteAsk ==
    /\ At("answered") /\ To("propose")
    /\ LET attempt == IF raws[Request(2)] # None THEN 2 ELSE 1 IN
       asked' = [asked EXCEPT ![Request(attempt)] = "completed"]
    /\ UNCHANGED <<claims, calls, evidence, charged, history, files, archive, kept, thread>>

\* A second invalid answer fails the request.
FailRequest ==
    /\ At("propose") /\ run.request <= wanted[Generation(run.stage)]
    /\ Answer = "invalid" /\ SkipRequest
    /\ UNCHANGED <<controller, files, archive, kept, thread>>

\* A candidate is registered under its program: once, by one request.
Register ==
    /\ At("propose") /\ run.request <= wanted[Generation(run.stage)]
    /\ Answer \in Programs
    /\ CASE registered[Answer] = Unknown ->
              /\ registered' = [registered EXCEPT ![Answer] =
                                   [by |-> Request(1), state |-> "directory"]]
              /\ To("blob")
         [] registered[Answer].state # "none" /\ registered[Answer].by = Request(1)
              /\ registered[Answer].state # "directory" ->
              /\ run' = [run EXCEPT !.request = @ + 1, !.found = Append(@, Answer)]
              /\ UNCHANGED registered
         [] OTHER -> Refuse("immutable candidate") /\ UNCHANGED registered
    /\ UNCHANGED <<controller, files, rolledBack, lineage, kept, thread>>

WriteBlob ==
    /\ At("blob")
    /\ registered' = [registered EXCEPT ![Answer].state = "inactive"]
    /\ run' = [run EXCEPT !.request = @ + 1, !.found = Append(@, Answer), !.place = "propose"]
    /\ UNCHANGED <<controller, files, rolledBack, lineage, kept, thread>>

\* The last generation proposes too, and the search ends; so it does without candidates.
NextGeneration ==
    /\ At("propose") /\ run.request > wanted[Generation(run.stage)]
    /\ IF run.found = <<>> \/ run.stage + 1 \notin Stages
       THEN To("finished")
       ELSE run' = [run EXCEPT !.stage = @ + 1, !.place = "mark"]
    /\ UNCHANGED <<controller, files, archive, kept, thread>>

-----------------------------------------------------------------------------
(* Faults, and the operator between two runs.                              *)

Disturb == faults < MaxFaults /\ faults' = faults + 1
History == UNCHANGED <<dispatched, retracted, reopened>>

\* The agent or the evaluator of an arm fails.
ArmFails(t) ==
    /\ thread[t].place \in {"receipt", "evaluate"} /\ At("arms") /\ Disturb /\ Go(t, "error")
    /\ History /\ UNCHANGED <<controller, files, archive, acts, damaged, run>>

AskFails ==
    /\ At("ask") /\ Disturb /\ SkipRequest
    /\ History /\ UNCHANGED <<controller, files, archive, acts, damaged, thread>>

\* The state is replaced before its digest is written, and an event may be cut off.
Writing ==
    \/ run.place \in {"mark", "claim", "complete", "eliminate", "select", "rollback",
                      "advance", "decide", "propose", "answered", "blob"}
    \/ At("arms") /\ \E t \in Tasks : thread[t].place \in {"reserve", "record"}

\* An answer that does not follow the schema, or leaves the parent as it is; only a
\* first one counts as a fault.
AnswerIsInvalid ==
    /\ At("ask") /\ To("answered")
    /\ IF Attempt = 1 THEN Disturb ELSE UNCHANGED faults
    /\ raws' = [raws EXCEPT ![Request(Attempt)] = "invalid"]
    /\ History /\ UNCHANGED <<controller, receipts, artifacts, outcome, wanted, archive, acts,
                              damaged, thread>>

Kill ==
    /\ Running /\ Disturb /\ run' = Idle
    /\ damaged' \in (IF Writing THEN BOOLEAN ELSE {FALSE})
    /\ History /\ UNCHANGED <<controller, files, archive, acts, thread>>

Act == ~Running /\ ~damaged /\ acts < MaxActs /\ acts' = acts + 1

\* A call without evidence never reached the model, or its substrate was invalid.
Retract ==
    /\ Act
    /\ \E k \in Keys :
         /\ calls[k].status = "reserved"
         /\ calls' = [calls EXCEPT ![k].status = "retracted"]
         /\ retracted' = [retracted EXCEPT ![k] = @ + 1]
    /\ UNCHANGED <<claims, evidence, asked, charged, history, files, archive,
                   dispatched, reopened, faults, damaged, run, thread>>

\* Evidence of a stage that is not complete is withdrawn; the artifact stays.
Quarantine ==
    /\ Act
    /\ \E k \in evidence :
         /\ claims[k[1]].status = "claimed"
         /\ evidence' = evidence \ {k}
         /\ calls' = [calls EXCEPT ![k].status = "reserved"]
    /\ UNCHANGED <<claims, asked, charged, history, files, archive,
                   dispatched, retracted, reopened, faults, damaged, run, thread>>

RetractRequest ==
    /\ Act /\ reopened' = TRUE
    /\ \E r \in Requests :
         /\ asked[r] \in {"reserved", "completed"}
         /\ asked' = [asked EXCEPT ![r] = "retracted"]
    /\ UNCHANGED <<claims, calls, evidence, charged, history, files, archive,
                   dispatched, retracted, faults, damaged, run, thread>>

Thread(t) == \/ Load(t) \/ Reserve(t) \/ Dispatch(t) \/ WriteReceipt(t) \/ Evaluate(t)
             \/ RecordEvidence(t)
Step == \/ MarkCandidates \/ ClaimStage \/ Join \/ CompleteStage \/ Eliminate
        \/ Select \/ RecordRollback \/ AdvanceParent \/ RecordDecision \/ Mine
        \/ Ask \/ WriteAnswer \/ CompleteAsk \/ FailRequest \/ Register \/ WriteBlob
        \/ NextGeneration

Next == \/ Start \/ Step \/ (\E t \in Tasks : Thread(t) \/ ArmFails(t))
        \/ AskFails \/ AnswerIsInvalid \/ Kill \/ Retract \/ Quarantine \/ RetractRequest
Spec == Init /\ [][Next]_vars

-----------------------------------------------------------------------------
(* Properties.                                                             *)

\* A crash cannot silently retry a call: every dispatch was charged before it, a call
\* is charged again only when the operator retracted it, and the cap holds.
CallsAreCharged ==
    /\ charged <= CallCap
    /\ \A k \in Keys : /\ dispatched[k] <= calls[k].count
                       /\ calls[k].count <= 1 + retracted[k]

\* Every search parent of the controller won its confirmation, can be rolled back, and
\* is in the archive's lineage in the same order, which is ahead by one at most: at[i]
\* is where the lineage stood after the i-th decision.
LineageIsEarned ==
    /\ lineage[1] = Seed
    /\ \E at \in [0 .. Len(history) -> DOMAIN lineage] :
         /\ at[0] = 1 /\ Len(lineage) <= at[Len(history)] + 1
         /\ \A i \in DOMAIN history :
              /\ lineage[at[i]] = history[i].parent
              /\ at[i] = IF history[i].parent = history[i].previous THEN at[i - 1]
                         ELSE at[i - 1] + 1
    /\ \A i \in 2 .. Len(lineage) :
         /\ registered[lineage[i]].state = "selected" /\ lineage[i] \in rolledBack
         /\ \E s \in Stages : /\ IsConfirmation(s) /\ claims[s].status = "complete"
                              /\ outcome[s] = TRUE
                              /\ claims[s].arms[3] = lineage[i]
                              /\ claims[s].arms[2] = lineage[i - 1]

\* A run that is started again agrees with what it finds: it never asks for another
\* claim or decision than the one on record, starts from a stale parent, or moves a
\* candidate against the table.  Only a proposer call that was retracted can change
\* what a stage is asked for.
ResumeIsConsistent ==
    /\ run.why \notin {"decision differs", "stale parent", "illegal transition"}
    /\ run.why = "claim differs" => reopened
=============================================================================
