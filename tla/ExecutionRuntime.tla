-------------------------- MODULE ExecutionRuntime --------------------------
(***************************************************************************)
(* ExecutionRuntime.execute: the life of one execution plan, kept only as  *)
(* the append-only sequence of its receipts.  Every call reads the         *)
(* receipts, checks them, and does the stages that have none yet:          *)
(*                                                                         *)
(*   workspace -> mechanism_prediction -> model -> external_trace ->       *)
(*   internal_trace -> cost -> native_evaluation -> execution_terminal     *)
(*                                                                         *)
(* A call can end early at any point (a port raises, admission is denied,  *)
(* the process is killed); the next call resumes from the receipts.  A     *)
(* kill inside the append of a receipt leaves the lease file of the store  *)
(* or a part of a line, and no code removes either.                        *)
(* Executors are the processes that may call execute for the plan; nothing *)
(* in the code keeps two of them apart.                                    *)
(***************************************************************************)
EXTENDS Integers, Sequences, FiniteSets

CONSTANTS
    Executors,    \* processes that call execute for this plan identity
    Plans,        \* contents a caller may present under the plan identity
    LimitOf,      \* limits.max_cost_cny of each plan content
    Prescreen,    \* the plans whose mode is model-only-prescreen
    Predictions,  \* mechanism predictions
    Asked,        \* what callers pass as prediction: predictions or None
    None,
    Outputs,      \* payloads the model transport may return
    CostOf,       \* the cost each of them reports
    Traced,       \* the payloads that carry an internal trace
    RefusedAt,    \* the stage whose check of a payload raises, or "never"
    MaxFaults     \* bound on interruptions, exceptions and kills

\* The stages that check the payload of the model receipt: the hash of its patch,
\* the artifact of its trace, its cost, and its patch against the evaluated one.
Checks == {"external_trace", "internal_trace", "cost", "native"}

ASSUME RuntimeAssumption ==
    /\ LimitOf \in [Plans -> Nat] /\ CostOf \in [Outputs -> Nat]
    /\ Prescreen \subseteq Plans /\ Traced \subseteq Outputs
    /\ RefusedAt \in [Outputs -> Checks \cup {"never"}]
    /\ \A o \in Outputs : RefusedAt[o] = "internal_trace" => o \in Traced
    /\ None \notin Predictions /\ Asked \subseteq Predictions \cup {None}
    /\ MaxFaults \in Nat

VARIABLES
    store,        \* "open", "leased" by a killed writer, or "unreadable"
    receipts,     \* the receipts of the plan, in log order
    evidence,     \* <<sequence, kind>> of the facts whose evidence is stored
    pc,           \* stage each executor is in
    known,        \* the receipts its appender holds
    call,         \* [plan, prediction] of its call
    output,       \* the model payload it has received and not yet recorded
    result,       \* what its last call returned
    inferences,   \* history: model calls dispatched, modulo 2
    evaluations,  \* history: native evaluations dispatched, modulo 2
    faults

vars == <<store, receipts, evidence, pc, known, call, output, result,
          inferences, evaluations, faults>>

Singletons == {"workspace", "mechanism_prediction", "model", "external_trace",
               "internal_trace", "cost", "native_evaluation",
               "execution_terminal"}
Kinds == Singletons \cup {"execution_partial"}
Statuses == {"completed", "budget_exhausted", "infra_failure"}

\* The kinds the configured observers turn into evidence.
Observed == {"external_trace", "internal_trace", "cost", "native_evaluation"}

Stages == {"resume", "workspace", "prediction", "model", "record_model",
           "external_trace", "internal_trace", "cost", "settle", "native",
           "record_native", "record_infra", "infra_terminal", "partial"}

Has(log, kind) == \E i \in DOMAIN log : log[i].kind = kind
Count(log, kind) == Cardinality({i \in DOMAIN log : log[i].kind = kind})

\* existing_by_kind[kind]; unique once the duplicate check has passed.
The(log, kind) == log[CHOOSE i \in DOMAIN log : log[i].kind = kind]

\* What a receipt says about the model receipt it is derived from.
Ref(model) == [sequence |-> model.sequence, output |-> model.body]

Init ==
    /\ store = "open" /\ receipts = <<>> /\ evidence = {}
    /\ pc = [x \in Executors |-> "idle"]
    /\ known = [x \in Executors |-> <<>>]
    /\ call = [x \in Executors |-> None]
    /\ output = [x \in Executors |-> None]
    /\ result = [x \in Executors |-> "none"]
    /\ inferences = 0 /\ evaluations = 0 /\ faults = 0

-----------------------------------------------------------------------------
(* Ways a step can end.                                                    *)

GoTo(x, stage) == pc' = [pc EXCEPT ![x] = stage]

Return(x, status) ==
    /\ pc' = [pc EXCEPT ![x] = "idle"]
    /\ result' = [result EXCEPT ![x] = status]

\* A ContractViolation raised by the stage: nothing is written.
Refuse(x) ==
    /\ Return(x, "error")
    /\ UNCHANGED <<store, receipts, evidence, known, call, output, inferences,
                   evaluations, faults>>

Proceed(x, stage) ==
    /\ GoTo(x, stage)
    /\ UNCHANGED <<store, receipts, evidence, known, call, output, result, inferences,
                   evaluations, faults>>

Interrupt(x) ==
    /\ faults < MaxFaults /\ faults' = faults + 1
    /\ GoTo(x, "partial")
    /\ UNCHANGED <<store, receipts, evidence, known, call, output, result>>

\* _ReceiptAppender._next_sequence: one above the highest sequence it holds.
NextSequence(log) ==
    IF log = <<>> THEN 1
    ELSE log[CHOOSE i \in DOMAIN log :
               \A j \in DOMAIN log : log[j].sequence <= log[i].sequence].sequence + 1

\* _append through ReceiptStore.append.  The identity of a receipt is its
\* sequence, kind and payload, without its time stamp: a receipt that is already
\* there is returned when the time stamps agree and is a conflict otherwise.
Appended(x, kind, body) ==
    LET r == [sequence |-> NextSequence(known[x]), kind |-> kind, body |-> body]
        stored == \E i \in DOMAIN receipts :
                    receipts[i].kind = kind /\ receipts[i] = r
    IN  /\ receipts' = IF stored THEN receipts ELSE Append(receipts, r)
        /\ known' = [known EXCEPT ![x] = Append(@, r)]

Conflict(x, kind, body) ==
    /\ \E i \in DOMAIN receipts :
         /\ receipts[i].kind = kind
         /\ receipts[i] = [sequence |-> NextSequence(known[x]), kind |-> kind,
                           body |-> body]
    /\ Refuse(x)

\* The append itself is cut short.  A kill leaves the lease, with the line written
\* or not; a part of a line, left by a kill or a full disk, fails every reader.
CutShort(x, kind, body) ==
    /\ store = "open"
    /\ faults < MaxFaults /\ faults' = faults + 1
    /\ \/ store' = "leased" /\ Appended(x, kind, body)
       \/ store' \in {"leased", "unreadable"} /\ UNCHANGED <<receipts, known>>
    /\ Return(x, "error")
    /\ UNCHANGED <<evidence, call, output, inferences, evaluations>>

\* What stops an append: a conflict, the lease of a killed writer, a torn line.
Stopped(x, kind, body) ==
    \/ Conflict(x, kind, body)
    \/ store # "open" /\ Refuse(x)
    \/ CutShort(x, kind, body)

\* append_control: a receipt no observer sees.  "Then" says how the step ends.
AppendControl(x, kind, body, Then) ==
    \/ /\ store = "open" /\ Appended(x, kind, body)
       /\ Then
       /\ UNCHANGED <<store, evidence, call, output, inferences, evaluations, faults>>
    \/ Stopped(x, kind, body)

\* append_fact: the receipt, then its evidence.  The call can end between the
\* two (the observer raises, the process is killed).
AppendFact(x, kind, body, next) ==
    \/ /\ store = "open" /\ Appended(x, kind, body)
       /\ evidence' = evidence \cup ({NextSequence(known[x])} \X ({kind} \cap Observed))
       /\ GoTo(x, next)
       /\ UNCHANGED <<store, call, output, result, inferences, evaluations, faults>>
    \/ /\ store = "open" /\ Appended(x, kind, body)
       /\ faults < MaxFaults /\ faults' = faults + 1
       /\ Return(x, "error")
       /\ UNCHANGED <<store, evidence, call, output, inferences, evaluations>>
    \/ Stopped(x, kind, body)

-----------------------------------------------------------------------------
(* The stages of execute.                                                  *)

\* A singleton stage that is recorded twice.
Ambiguous(log) == \E kind \in Singletons : Count(log, kind) > 1

\* The receipts are read, without the lease, and checked for duplicate stages.
Call(x, plan, prediction) ==
    /\ pc[x] = "idle"
    /\ known' = [known EXCEPT ![x] = receipts]
    /\ call' = [call EXCEPT ![x] = [plan |-> plan, prediction |-> prediction]]
    /\ output' = [output EXCEPT ![x] = None]
    /\ IF store = "unreadable" \/ Ambiguous(receipts)
       THEN Return(x, "error")
       ELSE GoTo(x, "resume") /\ UNCHANGED result
    /\ UNCHANGED <<store, receipts, evidence, inferences, evaluations, faults>>

\* The prediction presented must be the recorded one.
PredictionDrifts(x) ==
    /\ Has(known[x], "mechanism_prediction")
    /\ The(known[x], "mechanism_prediction").body # call[x].prediction

PlanDrifts(x) ==
    \/ ~Has(known[x], "workspace")
    \/ The(known[x], "workspace").body # call[x].plan

\* Mutant: the terminal receipt is not looked at.
ResumeAfterTerminal(x) ==
    /\ pc[x] = "resume"
    /\ IF PredictionDrifts(x) THEN Refuse(x) ELSE Proceed(x, "workspace")

\* After admission: refuse, replay the terminal receipt, or go on.
Resume(x) ==
    /\ pc[x] = "resume"
    /\ CASE PredictionDrifts(x) -> Refuse(x)
         [] ~PredictionDrifts(x) /\ ~Has(known[x], "execution_terminal") ->
              Proceed(x, "workspace")
         [] OTHER ->
              IF \/ call[x].prediction # None
                    /\ ~Has(known[x], "mechanism_prediction")
                 \/ PlanDrifts(x)
              THEN Refuse(x)
              ELSE /\ Return(x, The(known[x], "execution_terminal").body)
                   /\ UNCHANGED <<store, receipts, evidence, known, call, output,
                                  inferences, evaluations, faults>>

Workspace(x) ==
    /\ pc[x] = "workspace"
    /\ IF Has(known[x], "workspace")
       THEN IF PlanDrifts(x) THEN Refuse(x) ELSE Proceed(x, "prediction")
       ELSE \/ AppendFact(x, "workspace", call[x].plan, "prediction")
            \/ Interrupt(x) /\ UNCHANGED <<inferences, evaluations>>

\* Mutant: a prediction is accepted although the model has answered.
FreezePredictionLate(x) ==
    /\ pc[x] = "prediction"
    /\ IF call[x].prediction = None \/ Has(known[x], "mechanism_prediction")
       THEN Proceed(x, "model")
       ELSE AppendFact(x, "mechanism_prediction", call[x].prediction, "model")

FreezePrediction(x) ==
    /\ pc[x] = "prediction"
    /\ CASE call[x].prediction = None
              \/ Has(known[x], "mechanism_prediction") -> Proceed(x, "model")
         [] OTHER ->
              IF Has(known[x], "model") THEN Refuse(x)
              ELSE AppendFact(x, "mechanism_prediction", call[x].prediction,
                              "model")

\* Mutant: the model is called although its receipt is there.
InferAgain(x) ==
    /\ pc[x] = "model"
    /\ inferences' = 1 - inferences
    /\ UNCHANGED evaluations
    /\ \E o \in Outputs :
            /\ output' = [output EXCEPT ![x] = o]
            /\ GoTo(x, "record_model")
            /\ UNCHANGED <<store, receipts, evidence, known, call, result, faults>>

\* infer: the call is dispatched, and is paid for whatever happens next.
Infer(x) ==
    /\ pc[x] = "model"
    /\ ~Has(known[x], "model")
    /\ inferences' = 1 - inferences
    /\ UNCHANGED evaluations
    /\ \/ \E o \in Outputs :
            /\ output' = [output EXCEPT ![x] = o]
            /\ GoTo(x, "record_model")
            /\ UNCHANGED <<store, receipts, evidence, known, call, result, faults>>
       \/ Interrupt(x)

\* Mutant: a resume refuses a log that already has a model receipt.
ModelKnownRefused(x) ==
    /\ pc[x] = "model"
    /\ Has(known[x], "model")
    /\ Refuse(x)

ModelKnown(x) ==
    /\ pc[x] = "model"
    /\ Has(known[x], "model")
    /\ Proceed(x, "external_trace")

RecordModel(x) ==
    /\ pc[x] = "record_model"
    /\ AppendFact(x, "model", output[x], "external_trace")

\* This check of the recorded payload raises; it does so in every resume.
PayloadRefusedAt(x, stage) == RefusedAt[The(known[x], "model").body] = stage

ExternalTrace(x) ==
    /\ pc[x] = "external_trace"
    /\ IF Has(known[x], "external_trace")
       THEN IF The(known[x], "external_trace").body # Ref(The(known[x], "model"))
            THEN Refuse(x) ELSE Proceed(x, "internal_trace")
       ELSE IF PayloadRefusedAt(x, "external_trace") THEN Refuse(x)
            ELSE AppendFact(x, "external_trace", Ref(The(known[x], "model")),
                            "internal_trace")

InternalTrace(x) ==
    /\ pc[x] = "internal_trace"
    /\ LET expected == The(known[x], "model").body \in Traced
       IN  CASE Has(known[x], "internal_trace") /\ ~expected -> Refuse(x)
             [] ~Has(known[x], "internal_trace") /\ expected ->
                  IF PayloadRefusedAt(x, "internal_trace") THEN Refuse(x)
                  ELSE AppendFact(x, "internal_trace",
                                  Ref(The(known[x], "model")), "cost")
             [] OTHER -> Proceed(x, "cost")

Cost(x) ==
    /\ pc[x] = "cost"
    /\ CASE Has(known[x], "cost") -> Proceed(x, "settle")
         [] ~Has(known[x], "cost") /\ PayloadRefusedAt(x, "cost") -> Refuse(x)
         [] OTHER ->
              AppendFact(x, "cost", CostOf[The(known[x], "model").body], "settle")

\* Mutant: a prescreen plan ends before its cost is compared with the limit.
SettlePrescreenFirst(x) ==
    /\ pc[x] = "settle"
    /\ CASE call[x].plan \in Prescreen ->
              AppendControl(x, "execution_terminal", "completed",
                            Return(x, "completed"))
         [] The(known[x], "cost").body > LimitOf[call[x].plan]
              /\ call[x].plan \notin Prescreen ->
              AppendControl(x, "execution_terminal", "budget_exhausted",
                            Return(x, "budget_exhausted"))
         [] OTHER -> Proceed(x, "native")

\* Over the plan's limit, or without a native stage, the plan ends here.
Settle(x) ==
    /\ pc[x] = "settle"
    /\ CASE The(known[x], "cost").body > LimitOf[call[x].plan] ->
              AppendControl(x, "execution_terminal", "budget_exhausted",
                            Return(x, "budget_exhausted"))
         [] The(known[x], "cost").body <= LimitOf[call[x].plan]
              /\ call[x].plan \in Prescreen ->
              AppendControl(x, "execution_terminal", "completed",
                            Return(x, "completed"))
         [] OTHER -> Proceed(x, "native")

\* The evaluator is dispatched.  What it evaluated must be the recorded patch:
\* where the payload has none, every resume dispatches it again and raises.
Evaluate(x) ==
    /\ pc[x] = "native"
    /\ ~Has(known[x], "native_evaluation")
    /\ evaluations' = 1 - evaluations
    /\ UNCHANGED inferences
    /\ \/ /\ IF PayloadRefusedAt(x, "native")
             THEN Return(x, "error")
             ELSE GoTo(x, "record_native") /\ UNCHANGED result
          /\ UNCHANGED <<store, receipts, evidence, known, call, output, faults>>
       \/ /\ GoTo(x, "record_infra")
          /\ UNCHANGED <<store, receipts, evidence, known, call, output, result, faults>>
       \/ Interrupt(x)

RecordNative(x) ==
    /\ pc[x] = "record_native"
    /\ AppendFact(x, "native_evaluation",
                  [model |-> Ref(The(known[x], "model")), error |-> FALSE],
                  "native")

Complete(x) ==
    /\ pc[x] = "native"
    /\ Has(known[x], "native_evaluation")
    /\ AppendControl(x, "execution_terminal", "completed", Return(x, "completed"))

\* The handler of EvaluatorInfrastructureError: two appends.
RecordInfra(x) ==
    /\ pc[x] = "record_infra"
    /\ AppendFact(x, "native_evaluation",
                  [model |-> Ref(The(known[x], "model")), error |-> TRUE],
                  "infra_terminal")

InfraTerminal(x) ==
    /\ pc[x] = "infra_terminal"
    /\ AppendControl(x, "execution_terminal", "infra_failure",
                     Return(x, "infra_failure"))

\* The handler of ExecutionInterrupted.
Partial(x) ==
    /\ pc[x] = "partial"
    /\ AppendControl(x, "execution_partial", "interrupted", Return(x, "partial"))

\* Denied admission, any other exception, or a kill: the call ends, and only
\* what it appended remains.
Abort(x) ==
    /\ pc[x] # "idle"
    /\ faults < MaxFaults /\ faults' = faults + 1
    /\ Return(x, "error")
    /\ UNCHANGED <<store, receipts, evidence, known, call, output, inferences,
                   evaluations>>

Step(x) ==
    \/ Resume(x) \/ Workspace(x) \/ FreezePrediction(x) \/ Infer(x)
    \/ ModelKnown(x) \/ RecordModel(x) \/ ExternalTrace(x) \/ InternalTrace(x)
    \/ Cost(x) \/ Settle(x) \/ Evaluate(x) \/ RecordNative(x) \/ Complete(x)
    \/ RecordInfra(x) \/ InfraTerminal(x) \/ Partial(x)

Next ==
    \E x \in Executors :
        \/ \E plan \in Plans, prediction \in Asked : Call(x, plan, prediction)
        \/ Step(x)
        \/ Abort(x)

Spec == Init /\ [][Next]_vars

\* A live process keeps executing, and the command is run again while the plan
\* has not ended.
Rerun(x) ==
    /\ ~Has(receipts, "execution_terminal")
    /\ \E plan \in Plans, prediction \in Asked : Call(x, plan, prediction)

FairSpec ==
    /\ Spec
    /\ \A x \in Executors : WF_vars(Step(x)) /\ WF_vars(Rerun(x))

-----------------------------------------------------------------------------
(* Properties.                                                             *)

BodyOK(r) ==
    CASE r.kind = "workspace" -> r.body \in Plans
      [] r.kind = "mechanism_prediction" -> r.body \in Predictions
      [] r.kind = "model" -> r.body \in Outputs
      [] r.kind \in {"external_trace", "internal_trace"} ->
           r.body.sequence \in Nat /\ r.body.output \in Outputs
      [] r.kind = "cost" -> r.body \in Nat
      [] r.kind = "native_evaluation" -> r.body.error \in BOOLEAN
      [] r.kind = "execution_partial" -> r.body = "interrupted"
      [] r.kind = "execution_terminal" -> r.body \in Statuses

LogOK(log) ==
    \A i \in DOMAIN log :
        log[i].sequence \in Nat \ {0} /\ log[i].kind \in Kinds /\ BodyOK(log[i])

\* Every variable has its type, and what a receipt says fits its kind.
TypeOK ==
    /\ store \in {"open", "leased", "unreadable"}
    /\ LogOK(receipts) /\ \A x \in Executors : LogOK(known[x])
    /\ \A e \in evidence : e[1] \in Nat /\ e[2] \in Kinds
    /\ pc \in [Executors -> Stages \cup {"idle"}]
    /\ \A x \in Executors :
         /\ pc[x] # "idle" => call[x].plan \in Plans /\ call[x].prediction \in Asked
         /\ pc[x] = "record_model" => output[x] \in Outputs
    /\ result \in [Executors -> Statuses \cup {"none", "partial", "error"}]
    /\ inferences \in 0 .. 1 /\ evaluations \in 0 .. 1 /\ faults \in 0 .. MaxFaults

\* "mechanism prediction was not frozen before model dispatch": a prediction in
\* the log precedes the model receipt, whatever callers asked for.
PredictionBeforeModel ==
    \A i, j \in DOMAIN receipts :
        receipts[i].kind = "mechanism_prediction" /\ receipts[j].kind = "model"
            => i < j

\* The terminal receipt is the last one and says what the others show: over
\* the limit, evaluated, or failed in the evaluator.
TerminalFitsReceipts ==
    \A i \in DOMAIN receipts :
        receipts[i].kind = "execution_terminal" =>
            LET plan == The(receipts, "workspace").body
                over == The(receipts, "cost").body > LimitOf[plan]
            IN  /\ i = Len(receipts)
                /\ receipts[i].body = "budget_exhausted" <=> over
                /\ receipts[i].body = "completed" =>
                     plan \in Prescreen \/ Has(receipts, "native_evaluation")
                /\ receipts[i].body = "infra_failure" =>
                     The(receipts, "native_evaluation").body.error

\* A stage whose receipt is stored is not dispatched again by a resume, and
\* nothing is dispatched after the terminal receipt.
CompletedWorkIsNotRepeated ==
    [][ /\ inferences' # inferences =>
             ~Has(receipts, "model") /\ ~Has(receipts, "execution_terminal")
        /\ evaluations' # evaluations =>
             /\ ~Has(receipts, "native_evaluation")
             /\ ~Has(receipts, "execution_terminal") ]_vars

\* Seen from outside a plan ends once, with one status and one cost: the last
\* terminal receipt never says something else than the first did.
RecordedOutcome ==
    LET ends == {i \in DOMAIN receipts : receipts[i].kind = "execution_terminal"}
    IN  IF ends = {} THEN None
        ELSE [status |-> receipts[CHOOSE i \in ends : \A j \in ends : j <= i].body,
              cost |-> The(receipts, "cost").body]
PlanEnd == INSTANCE PlanOutcome
    WITH EndStatuses <- Statuses, NotEnded <- None, outcome <- RecordedOutcome
ImplementsPlanOutcome == PlanEnd!OutcomeSpec

\* The recorded model payload is one that a later stage refuses.
PayloadRefused ==
    /\ Has(receipts, "model")
    /\ RefusedAt[The(receipts, "model").body] # "never"

\* Running one and the same admitted command again ends the plan, wherever it was
\* interrupted between two writes.  Two things stop it for ever: an append that was
\* cut short, and a recorded payload that a later stage refuses, which every resume
\* finds again (and, at the last stage, evaluates again).
RerunEndsThePlan ==
    \A plan \in Plans, prediction \in Asked :
        [](\A x \in Executors : pc[x] # "idle" =>
                call[x] = [plan |-> plan, prediction |-> prediction])
            => <>(\/ Has(receipts, "execution_terminal")
                 \/ store # "open"
                 \/ PayloadRefused)

\* "completed" for a full plan means the evaluator produced an outcome.
CompletedMeansEvaluated ==
    \A i, j \in DOMAIN receipts :
        /\ receipts[i].kind = "execution_terminal"
        /\ receipts[i].body = "completed"
        /\ receipts[j].kind = "native_evaluation"
        => ~receipts[j].body.error
=============================================================================
