----------------------- MODULE ExecutionRuntimeProofs -----------------------
(***************************************************************************)
(* What the receipts of a plan say, for any plan contents, predictions,    *)
(* model outputs and costs, and any number of interruptions and kills.     *)
(* Nothing in the code keeps two executors of one plan apart; the theorems *)
(* are about one executor at a time.  Then a call that is under way holds  *)
(* the log as it is, every stage finds what earlier stages recorded, and a *)
(* stage is recorded once.                                                 *)
(***************************************************************************)
EXTENDS ExecutionRuntime, TLAPS

OneExecutor == \A x, y \in Executors : x = y

Refs == [sequence : Nat, output : Outputs]
Bodies == Plans \cup Predictions \cup Outputs \cup Nat \cup Refs \cup Statuses
            \cup {"interrupted"} \cup [model : Refs, error : BOOLEAN]
Receipts == [sequence : Nat, kind : Kinds, body : Bodies]

\* The variables the argument is about have their types.
Types ==
    /\ receipts \in Seq(Receipts)
    /\ known \in [Executors -> Seq(Receipts)]
    /\ pc \in [Executors -> Stages \cup {"idle"}]
    /\ call \in [Executors -> {None} \cup [plan : Plans, prediction : Asked]]
    /\ output \in [Executors -> {None} \cup Outputs]

\* Sequences count the receipts, and a stage is recorded once.
LogInv ==
    /\ \A i \in DOMAIN receipts : receipts[i].sequence = i
    /\ \A i, j \in DOMAIN receipts :
          (receipts[i].kind \in Singletons /\ receipts[i].kind = receipts[j].kind) => i = j
    /\ \A i \in DOMAIN receipts :
          /\ receipts[i].kind = "model" => receipts[i].body \in Outputs
          /\ receipts[i].kind = "cost" => receipts[i].body \in Nat
          /\ receipts[i].kind = "execution_terminal" =>
                receipts[i].body \in Statuses /\ Has(receipts, "cost")

PastWorkspace == {"prediction", "model", "record_model", "external_trace", "internal_trace",
                  "cost", "settle", "native", "record_native", "record_infra",
                  "infra_terminal"}
PastModel == {"external_trace", "internal_trace", "cost", "settle", "native",
              "record_native", "record_infra", "infra_terminal"}
PastSettle == {"native", "record_native", "record_infra", "infra_terminal"}

\* What an executor has behind it at a stage.
BehindAt(x, stage) ==
    /\ stage # "idle" =>
          known[x] = receipts /\ call[x] \in [plan : Plans, prediction : Asked]
    /\ stage \notin {"idle", "resume"} => ~Has(receipts, "execution_terminal")
    /\ stage \in PastWorkspace =>
          Has(receipts, "workspace") /\ The(receipts, "workspace").body = call[x].plan
    /\ stage = "record_model" => ~Has(receipts, "model") /\ output[x] \in Outputs
    /\ stage \in PastModel => Has(receipts, "model")
    /\ stage \in PastSettle \cup {"settle"} => Has(receipts, "cost")
    /\ stage \in PastSettle =>
          /\ ~(The(receipts, "cost").body > LimitOf[call[x].plan])
          /\ call[x].plan \notin Prescreen
    /\ stage \in {"record_native", "record_infra"} => ~Has(receipts, "native_evaluation")
    /\ stage = "infra_terminal" =>
          /\ Has(receipts, "native_evaluation")
          /\ The(receipts, "native_evaluation").body.error

Behind(x) == BehindAt(x, pc[x])

StageInv == \A x \in Executors : Behind(x)

Inv == Types /\ LogInv /\ StageInv /\ PredictionBeforeModel /\ TerminalFitsReceipts

-----------------------------------------------------------------------------
\* The stage receipt of a log is the one with its kind.
LEMMA TheOne ==
    ASSUME NEW log, NEW kind, NEW i \in DOMAIN log, log[i].kind = kind,
           \A j \in DOMAIN log : log[j].kind = kind => j = i
    PROVE  The(log, kind) = log[i]
BY DEF The

\* What recording a stage does to the log.
LEMMA Recording ==
    ASSUME NEW log \in Seq(Receipts), NEW r \in Receipts,
           \A i, j \in DOMAIN log :
               (log[i].kind \in Singletons /\ log[i].kind = log[j].kind) => i = j,
           r.kind \in Singletons => ~Has(log, r.kind)
    PROVE  LET longer == Append(log, r) IN
           /\ longer \in Seq(Receipts) /\ Len(longer) = Len(log) + 1
           /\ DOMAIN longer = DOMAIN log \cup {Len(log) + 1}
           /\ Len(log) + 1 \notin DOMAIN log /\ longer[Len(log) + 1] = r
           /\ \A i \in DOMAIN log : longer[i] = log[i]
           /\ \A i, j \in DOMAIN longer :
                 (longer[i].kind \in Singletons /\ longer[i].kind = longer[j].kind) => i = j
           /\ \A kind : Has(longer, kind) <=> Has(log, kind) \/ kind = r.kind
           /\ \A kind \in Singletons : Has(log, kind) => The(longer, kind) = The(log, kind)
           /\ r.kind \in Singletons => The(longer, r.kind) = r
<1> DEFINE longer == Append(log, r)
<1>1. /\ longer \in Seq(Receipts) /\ Len(longer) = Len(log) + 1
      /\ DOMAIN longer = DOMAIN log \cup {Len(log) + 1}
      /\ Len(log) + 1 \notin DOMAIN log /\ longer[Len(log) + 1] = r
      /\ \A i \in DOMAIN log : longer[i] = log[i]
    OBVIOUS
<1> HIDE DEF longer
<1>2. \A kind : Has(longer, kind) <=> Has(log, kind) \/ kind = r.kind
    BY <1>1 DEF Has
<1>3. \A i, j \in DOMAIN longer :
          (longer[i].kind \in Singletons /\ longer[i].kind = longer[j].kind) => i = j
    BY <1>1 DEF Has
<1>4. ASSUME NEW kind \in Singletons, Has(log, kind) PROVE The(longer, kind) = The(log, kind)
    <2>1. PICK i \in DOMAIN log : log[i].kind = kind
        BY <1>4 DEF Has
    <2>2. The(log, kind) = log[i]
        BY <2>1, TheOne
    <2>3. The(longer, kind) = longer[i]
        BY <1>1, <1>3, <2>1, TheOne
    <2> QED
        BY <1>1, <2>2, <2>3
<1>5. r.kind \in Singletons => The(longer, r.kind) = r
    BY <1>1, <1>3, TheOne
<1> QED
    BY <1>1, <1>2, <1>3, <1>4, <1>5 DEF longer

\* The log of a call that is under way counts on from its length.
LEMMA NextSequenceIsNext ==
    ASSUME NEW log \in Seq(Receipts), \A i \in DOMAIN log : log[i].sequence = i
    PROVE  NextSequence(log) = Len(log) + 1
<1>1. CASE log = <<>>
    BY <1>1 DEF NextSequence
<1>2. CASE log # <<>>
    <2> DEFINE IsLast(i) == \A j \in DOMAIN log : log[j].sequence <= log[i].sequence
    <2>1. Len(log) \in DOMAIN log /\ IsLast(Len(log))
        BY <1>2
    <2>2. \A i \in DOMAIN log : IsLast(i) => i = Len(log)
        BY <2>1
    <2>3. (CHOOSE i \in DOMAIN log : IsLast(i)) = Len(log)
        BY <2>1, <2>2
    <2> QED
        BY <1>2, <2>1, <2>3 DEF NextSequence
<1> QED
    BY <1>1, <1>2

\* A stage of a call under way is appended, and nothing is in its way.
LEMMA AppendedMeaning ==
    ASSUME Inv, NEW x \in Executors, pc[x] # "idle", NEW kind \in Kinds, NEW body \in Bodies
    PROVE  LET r == [sequence |-> Len(receipts) + 1, kind |-> kind, body |-> body] IN
           /\ r \in Receipts
           /\ Appended(x, kind, body) =>
                 /\ receipts' = Append(receipts, r)
                 /\ known' = [known EXCEPT ![x] = receipts']
           /\ ~Conflict(x, kind, body)
<1> DEFINE r == [sequence |-> Len(receipts) + 1, kind |-> kind, body |-> body]
<1>1. /\ receipts \in Seq(Receipts) /\ \A i \in DOMAIN receipts : receipts[i].sequence = i
      /\ known[x] = receipts
    BY DEF Inv, Types, LogInv, StageInv, Behind, BehindAt
<1>2. NextSequence(known[x]) = Len(receipts) + 1
    BY <1>1, NextSequenceIsNext
<1>3. r \in Receipts
    BY <1>1 DEF Receipts
<1>4. \A i \in DOMAIN receipts : receipts[i] # r
    BY <1>1
<1> QED
    BY <1>1, <1>2, <1>3, <1>4 DEF Appended, Conflict, Inv, Types

\* What TerminalFitsReceipts asks of a status, before it is recorded.
Fits(plan, status) ==
    LET over == The(receipts, "cost").body > LimitOf[plan]
    IN  /\ status = "budget_exhausted" <=> over
        /\ status = "completed" => plan \in Prescreen \/ Has(receipts, "native_evaluation")
        /\ status = "infra_failure" => /\ Has(receipts, "native_evaluation")
                                       /\ The(receipts, "native_evaluation").body.error

\* A stage recorded where it belongs.
LEMMA RecordInv ==
    ASSUME Inv, NEW x \in Executors, pc[x] \notin {"idle", "resume"},
           NEW kind \in Kinds, NEW body \in Bodies, Appended(x, kind, body),
           kind \in Singletons => ~Has(receipts, kind),
           kind = "model" => body \in Outputs,
           kind = "cost" => body \in Nat,
           kind = "mechanism_prediction" => ~Has(receipts, "model"),
           kind = "execution_terminal" =>
               /\ Has(receipts, "workspace") /\ Has(receipts, "cost")
               /\ body \in Statuses
               /\ Fits(The(receipts, "workspace").body, body)
    PROVE  /\ receipts' \in Seq(Receipts) /\ known' \in [Executors -> Seq(Receipts)]
           /\ known'[x] = receipts'
           /\ LogInv' /\ PredictionBeforeModel' /\ TerminalFitsReceipts'
           /\ \A k \in Kinds : Has(receipts', k) <=> Has(receipts, k) \/ k = kind
           /\ \A k \in Singletons : Has(receipts, k) => The(receipts', k) = The(receipts, k)
           /\ kind \in Singletons => The(receipts', kind).body = body
<1> DEFINE r == [sequence |-> Len(receipts) + 1, kind |-> kind, body |-> body]
<1>1. /\ r \in Receipts /\ receipts' = Append(receipts, r)
      /\ known' = [known EXCEPT ![x] = receipts']
    BY AppendedMeaning
<1>2. /\ receipts \in Seq(Receipts)
      /\ \A i, j \in DOMAIN receipts :
            (receipts[i].kind \in Singletons /\ receipts[i].kind = receipts[j].kind) => i = j
    BY DEF Inv, Types, LogInv
<1>3. r.kind = kind /\ r.body = body /\ r.sequence = Len(receipts) + 1
    OBVIOUS
<1> HIDE DEF r
<1>4. /\ receipts' \in Seq(Receipts) /\ Len(receipts') = Len(receipts) + 1
      /\ DOMAIN receipts' = DOMAIN receipts \cup {Len(receipts) + 1}
      /\ Len(receipts) + 1 \notin DOMAIN receipts /\ receipts'[Len(receipts) + 1] = r
      /\ \A i \in DOMAIN receipts : receipts'[i] = receipts[i]
      /\ \A i, j \in DOMAIN receipts' :
            (receipts'[i].kind \in Singletons /\ receipts'[i].kind = receipts'[j].kind) => i = j
      /\ \A k : Has(receipts', k) <=> Has(receipts, k) \/ k = kind
      /\ \A k \in Singletons : Has(receipts, k) => The(receipts', k) = The(receipts, k)
      /\ kind \in Singletons => The(receipts', kind) = r
    BY <1>1, <1>2, <1>3, Recording
<1>5. known' \in [Executors -> Seq(Receipts)] /\ known'[x] = receipts'
    BY <1>1, <1>4 DEF Inv, Types
<1>6. LogInv'
    BY <1>3, <1>4 DEF Inv, LogInv, Kinds, Singletons
<1>7. PredictionBeforeModel'
    <2>1. \A i \in DOMAIN receipts : i < Len(receipts) + 1
        BY <1>2
    <2> QED
        BY <1>3, <1>4, <2>1 DEF Inv, PredictionBeforeModel, Has
<1>8. TerminalFitsReceipts'
    <2>1. ~Has(receipts, "execution_terminal")
        BY DEF Inv, StageInv, Behind, BehindAt
    <2>2. SUFFICES ASSUME kind = "execution_terminal"
                   PROVE  TerminalFitsReceipts'
        BY <1>3, <1>4, <2>1 DEF TerminalFitsReceipts, Has
    <2>3. \A i \in DOMAIN receipts' : receipts'[i].kind = "execution_terminal" =>
              i = Len(receipts') /\ receipts'[i] = r
        BY <1>4, <2>1 DEF Has
    <2>4. /\ The(receipts', "workspace") = The(receipts, "workspace")
          /\ The(receipts', "cost") = The(receipts, "cost")
          /\ Has(receipts, "native_evaluation") =>
                /\ Has(receipts', "native_evaluation")
                /\ The(receipts', "native_evaluation") = The(receipts, "native_evaluation")
        BY <1>4, <2>2 DEF Singletons
    <2> QED
        BY <1>3, <2>2, <2>3, <2>4 DEF TerminalFitsReceipts, Fits
<1> QED
    BY <1>3, <1>4, <1>5, <1>6, <1>7, <1>8

\* A step that records nothing.
LEMMA Quiet ==
    ASSUME Inv, receipts' = receipts
    PROVE  LogInv' /\ PredictionBeforeModel' /\ TerminalFitsReceipts'
BY DEF Inv, LogInv, PredictionBeforeModel, TerminalFitsReceipts, Has, The

LEMMA InitInv == ASSUME RuntimeAssumption, Init PROVE Inv
<1>1. Types
    BY DEF Init, Types
<1>2. LogInv /\ PredictionBeforeModel /\ TerminalFitsReceipts
    BY DEF Init, LogInv, PredictionBeforeModel, TerminalFitsReceipts
<1>3. StageInv
    BY DEF Init, StageInv, Behind, BehindAt, PastWorkspace, PastModel, PastSettle
<1> QED
    BY <1>1, <1>2, <1>3 DEF Inv

\* A call that ends, whatever it recorded, has nothing behind it.
LEMMA EndCall ==
    ASSUME OneExecutor, Inv, NEW x \in Executors, pc' = [pc EXCEPT ![x] = "idle"],
           receipts' \in Seq(Receipts), known' \in [Executors -> Seq(Receipts)],
           LogInv', PredictionBeforeModel', TerminalFitsReceipts',
           call' = call, output' = output
    PROVE  Inv'
<1>1. Types'
    BY DEF Inv, Types
<1>2. StageInv'
    BY DEF OneExecutor, Inv, Types, StageInv, Behind, BehindAt, PastWorkspace, PastModel, PastSettle
<1> QED
    BY <1>1, <1>2 DEF Inv

LEMMA EndQuietly ==
    ASSUME OneExecutor, Inv, NEW x \in Executors, NEW status, Return(x, status),
           UNCHANGED <<receipts, known, call, output>>
    PROVE  Inv'
<1>1. LogInv' /\ PredictionBeforeModel' /\ TerminalFitsReceipts'
    BY Quiet
<1> QED
    BY <1>1, EndCall DEF Return, Inv, Types

LEMMA RefuseStep == ASSUME OneExecutor, Inv, NEW x \in Executors, Refuse(x) PROVE Inv'
BY EndQuietly DEF Refuse

\* A call that goes on, with behind it what its next stage asks for.
LEMMA Advance ==
    ASSUME OneExecutor, Inv, NEW x \in Executors, NEW next \in Stages,
           pc' = [pc EXCEPT ![x] = next],
           receipts' \in Seq(Receipts), known' \in [Executors -> Seq(Receipts)],
           LogInv', PredictionBeforeModel', TerminalFitsReceipts',
           call' = call, output' \in [Executors -> {None} \cup Outputs],
           Behind(x)'
    PROVE  Inv'
<1>1. Types'
    BY DEF Inv, Types
<1>2. StageInv'
    BY DEF OneExecutor, StageInv
<1> QED
    BY <1>1, <1>2 DEF Inv

\* A stage that has nothing left to do.
LEMMA ProceedStep ==
    ASSUME OneExecutor, Inv, NEW x \in Executors, NEW next \in Stages, Proceed(x, next),
           BehindAt(x, next)
    PROVE  Inv'
<1>1. LogInv' /\ PredictionBeforeModel' /\ TerminalFitsReceipts'
    BY Quiet DEF Proceed
<1>2. pc' = [pc EXCEPT ![x] = next] /\ pc'[x] = next
    BY DEF Proceed, GoTo, Inv, Types
<1>3. Behind(x)'
    BY <1>2 DEF Behind, BehindAt, Proceed
<1> QED
    BY <1>1, <1>2, <1>3, Advance DEF Proceed, Inv, Types

\* An interruption is caught, and its receipt is written next.
LEMMA InterruptStep ==
    ASSUME OneExecutor, Inv, NEW x \in Executors, pc[x] \notin {"idle", "resume"},
           Interrupt(x)
    PROVE  Inv'
<1>1. LogInv' /\ PredictionBeforeModel' /\ TerminalFitsReceipts'
    BY Quiet DEF Interrupt
<1>2. pc' = [pc EXCEPT ![x] = "partial"] /\ pc'[x] = "partial"
    BY DEF Interrupt, GoTo, Inv, Types
<1>3. Behind(x)'
    BY <1>2 DEF Interrupt, Inv, StageInv, Behind, BehindAt, PastWorkspace, PastModel, PastSettle, Has
<1> QED
    BY <1>1, <1>2, <1>3, Advance DEF Interrupt, Inv, Types, Stages

\* What a recorded stage adds to the log, and what it leaves as it was.
Recorded(x, kind, body) ==
    /\ known'[x] = receipts'
    /\ \A k \in Kinds : Has(receipts', k) <=> Has(receipts, k) \/ k = kind
    /\ \A k \in Singletons : Has(receipts, k) => The(receipts', k) = The(receipts, k)
    /\ kind \in Singletons => The(receipts', kind).body = body
    /\ call' = call /\ output' = output

\* An append that is stopped has recorded its receipt or nothing, and ends the call.
LEMMA StoppedStep ==
    ASSUME OneExecutor, Inv, NEW x \in Executors, pc[x] \notin {"idle", "resume"},
           NEW kind \in Kinds, NEW body \in Bodies, Stopped(x, kind, body),
           kind \in Singletons => ~Has(receipts, kind),
           kind = "model" => body \in Outputs,
           kind = "cost" => body \in Nat,
           kind = "mechanism_prediction" => ~Has(receipts, "model"),
           kind = "execution_terminal" =>
               /\ Has(receipts, "workspace") /\ Has(receipts, "cost")
               /\ body \in Statuses
               /\ Fits(The(receipts, "workspace").body, body)
    PROVE  Inv'
<1>1. Refuse(x) \/ CutShort(x, kind, body)
    BY AppendedMeaning DEF Stopped
<1>2. CASE CutShort(x, kind, body)
    <2>1. /\ Return(x, "error") /\ call' = call /\ output' = output
          /\ Appended(x, kind, body) \/ UNCHANGED <<receipts, known>>
        BY <1>2 DEF CutShort
    <2>2. CASE Appended(x, kind, body)
        BY <2>1, <2>2, RecordInv, EndCall DEF Return
    <2>3. CASE UNCHANGED <<receipts, known>>
        BY <2>1, <2>3, EndQuietly
    <2> QED
        BY <2>1, <2>2, <2>3
<1> QED
    BY <1>1, <1>2, RefuseStep

\* A recorded fact, with or without its evidence.
LEMMA FactStep ==
    ASSUME OneExecutor, Inv, NEW x \in Executors, pc[x] \notin {"idle", "resume"},
           NEW kind \in Singletons \ {"execution_terminal"}, NEW body \in Bodies,
           NEW next \in Stages, AppendFact(x, kind, body, next),
           ~Has(receipts, kind),
           kind = "model" => body \in Outputs,
           kind = "cost" => body \in Nat,
           kind = "mechanism_prediction" => ~Has(receipts, "model"),
           (Recorded(x, kind, body) /\ pc'[x] = next) => Behind(x)'
    PROVE  Inv'
<1>1. kind \in Kinds
    BY DEF Kinds
<1>0. CASE Stopped(x, kind, body)
    BY <1>0, <1>1, StoppedStep
<1>2. SUFFICES ASSUME /\ Appended(x, kind, body) /\ call' = call /\ output' = output
                      /\ GoTo(x, next) \/ Return(x, "error")
               PROVE  Inv'
    BY <1>0 DEF AppendFact
<1>3. /\ receipts' \in Seq(Receipts) /\ known' \in [Executors -> Seq(Receipts)]
      /\ LogInv' /\ PredictionBeforeModel' /\ TerminalFitsReceipts'
      /\ Recorded(x, kind, body)
    BY <1>1, <1>2, RecordInv DEF Recorded
<1>4. CASE GoTo(x, next)
    <2>1. pc' = [pc EXCEPT ![x] = next] /\ pc'[x] = next
        BY <1>4 DEF GoTo, Inv, Types
    <2> QED
        BY <1>2, <1>3, <2>1, Advance DEF Inv, Types
<1>5. CASE Return(x, "error")
    BY <1>2, <1>3, <1>5, EndCall DEF Return
<1> QED
    BY <1>2, <1>4, <1>5

\* The receipt that ends a plan, or a call.
LEMMA ControlStep ==
    ASSUME OneExecutor, Inv, NEW x \in Executors, pc[x] \notin {"idle", "resume"},
           NEW kind \in {"execution_terminal", "execution_partial"}, NEW body \in Bodies,
           NEW status, AppendControl(x, kind, body, Return(x, status)),
           kind = "execution_terminal" =>
               /\ Has(receipts, "workspace") /\ Has(receipts, "cost")
               /\ body \in Statuses
               /\ Fits(The(receipts, "workspace").body, body)
    PROVE  Inv'
<1>1. kind \in Kinds
    BY DEF Kinds, Singletons
<1>3. kind \in Singletons => ~Has(receipts, kind)
    BY DEF Inv, StageInv, Behind, BehindAt, Singletons
<1>5. kind \notin {"model", "cost", "mechanism_prediction"}
    OBVIOUS
<1>0. CASE Stopped(x, kind, body)
    BY <1>0, <1>1, <1>3, <1>5, StoppedStep
<1>2. SUFFICES ASSUME /\ Appended(x, kind, body) /\ Return(x, status)
                      /\ call' = call /\ output' = output
               PROVE  Inv'
    BY <1>0 DEF AppendControl
<1>4. /\ receipts' \in Seq(Receipts) /\ known' \in [Executors -> Seq(Receipts)]
      /\ LogInv' /\ PredictionBeforeModel' /\ TerminalFitsReceipts'
    BY <1>1, <1>2, <1>3, RecordInv
<1> QED
    BY <1>2, <1>4, EndCall DEF Return

-----------------------------------------------------------------------------
\* What a receipt that is derived from the model says of it.
LEMMA RefIsRef ==
    ASSUME Inv, Has(receipts, "model")
    PROVE  /\ The(receipts, "model").body \in Outputs
           /\ Ref(The(receipts, "model")) \in Refs
<1>1. PICK i \in DOMAIN receipts : receipts[i].kind = "model"
    BY DEF Has
<1>2. The(receipts, "model") = receipts[i]
    BY <1>1, TheOne DEF Inv, LogInv, Singletons
<1>3. receipts[i].body \in Outputs /\ receipts[i].sequence \in Nat
    BY <1>1 DEF Inv, LogInv, Types, Receipts
<1> QED
    BY <1>2, <1>3 DEF Ref, Refs

LEMMA CostIsNat ==
    ASSUME Inv, Has(receipts, "cost")
    PROVE  The(receipts, "cost").body \in Nat
<1>1. PICK i \in DOMAIN receipts : receipts[i].kind = "cost"
    BY DEF Has
<1>2. The(receipts, "cost") = receipts[i]
    BY <1>1, TheOne DEF Inv, LogInv, Singletons
<1> QED
    BY <1>1, <1>2 DEF Inv, LogInv

\* The checks before the first stage, and the first three stages.
LEMMA EarlyStep ==
    ASSUME RuntimeAssumption, OneExecutor, Inv, NEW x \in Executors,
           Resume(x) \/ Workspace(x) \/ FreezePrediction(x)
    PROVE  Inv'
<1>0. /\ pc[x] # "idle" /\ Behind(x) /\ known[x] = receipts
      /\ call[x].plan \in Plans /\ call[x].prediction \in Predictions \cup {None}
    BY DEF Resume, Workspace, FreezePrediction, Inv, StageInv, Behind, BehindAt, RuntimeAssumption
<1>1. CASE Resume(x)
    <2>1. CASE Proceed(x, "workspace") /\ ~Has(known[x], "execution_terminal")
        <3>1. BehindAt(x, "workspace")
            BY <1>0, <2>1 DEF Behind, BehindAt, PastWorkspace, PastModel, PastSettle
        <3> QED
            BY <2>1, <3>1, ProceedStep DEF Stages
    <2>2. ASSUME NEW status, Return(x, status),
                 UNCHANGED <<receipts, evidence, known, call, output, inferences,
                             evaluations, faults>>
          PROVE  Inv'
        BY <2>2, EndQuietly
    <2> QED
        BY <1>1, <2>1, <2>2, RefuseStep DEF Resume
<1>2. CASE Workspace(x)
    <2>1. CASE Has(receipts, "workspace")
        <3>1. Refuse(x) \/ (Proceed(x, "prediction") /\ ~PlanDrifts(x))
            BY <1>0, <1>2, <2>1 DEF Workspace
        <3>2. ~PlanDrifts(x) => The(receipts, "workspace").body = call[x].plan
            BY <1>0 DEF PlanDrifts
        <3>3. pc[x] = "workspace"
            BY <1>2 DEF Workspace
        <3>4. CASE Proceed(x, "prediction") /\ ~PlanDrifts(x)
            <4>1. BehindAt(x, "prediction")
                BY <1>0, <2>1, <3>2, <3>3, <3>4
                DEF Behind, BehindAt, PastWorkspace, PastModel, PastSettle
            <4> QED
                BY <3>4, <4>1, ProceedStep DEF Stages
        <3> QED
            BY <3>1, <3>4, RefuseStep
    <2>2. CASE ~Has(receipts, "workspace")
        <3>1. \/ AppendFact(x, "workspace", call[x].plan, "prediction")
              \/ Interrupt(x)
            BY <1>0, <1>2, <2>2 DEF Workspace
        <3>2. call[x].plan \in Bodies /\ pc[x] = "workspace"
            BY <1>0, <1>2 DEF Bodies, Workspace
        <3>3. ASSUME Recorded(x, "workspace", call[x].plan), pc'[x] = "prediction"
              PROVE  Behind(x)'
            BY <1>0, <3>2, <3>3
            DEF Recorded, Behind, BehindAt, PastWorkspace, PastModel, PastSettle, Singletons, Kinds
        <3> QED
            BY <2>2, <3>1, <3>2, <3>3, FactStep, InterruptStep DEF Singletons, Stages
    <2> QED
        BY <2>1, <2>2
<1>3. CASE FreezePrediction(x)
    <2>1. pc[x] = "prediction"
        BY <1>3 DEF FreezePrediction
    <2>2. CASE Proceed(x, "model")
        <3>1. BehindAt(x, "model")
            BY <1>0, <2>1 DEF Behind, BehindAt, PastWorkspace, PastModel, PastSettle
        <3> QED
            BY <2>2, <3>1, ProceedStep DEF Stages
    <2>3. CASE /\ AppendFact(x, "mechanism_prediction", call[x].prediction, "model")
               /\ call[x].prediction # None /\ ~Has(receipts, "mechanism_prediction")
               /\ ~Has(receipts, "model")
        <3>1. call[x].prediction \in Bodies
            BY <1>0, <2>3 DEF Bodies
        <3>2. ASSUME Recorded(x, "mechanism_prediction", call[x].prediction), pc'[x] = "model"
              PROVE  Behind(x)'
            BY <1>0, <2>1, <3>2
            DEF Recorded, Behind, BehindAt, PastWorkspace, PastModel, PastSettle, Singletons, Kinds
        <3> QED
            BY <2>1, <2>3, <3>1, <3>2, FactStep DEF Singletons, Stages
    <2>4. Refuse(x) => Inv'
        BY RefuseStep
    <2> QED
        BY <1>0, <1>3, <2>2, <2>3, <2>4 DEF FreezePrediction
<1> QED
    BY <1>1, <1>2, <1>3

\* The model: called when its receipt is missing, and recorded.
LEMMA ModelStep ==
    ASSUME RuntimeAssumption, OneExecutor, Inv, NEW x \in Executors,
           Infer(x) \/ ModelKnown(x) \/ RecordModel(x)
    PROVE  Inv'
<1>0. pc[x] \notin {"idle", "resume"} /\ Behind(x) /\ known[x] = receipts
    BY DEF Infer, ModelKnown, RecordModel, Inv, StageInv, Behind, BehindAt
<1>1. CASE Infer(x)
    <2>1. CASE Interrupt(x)
        BY <1>0, <2>1, InterruptStep
    <2>2. ASSUME NEW o \in Outputs, output' = [output EXCEPT ![x] = o], GoTo(x, "record_model"),
                 UNCHANGED <<receipts, evidence, known, call, result, faults>>
          PROVE  Inv'
        <3>1. LogInv' /\ PredictionBeforeModel' /\ TerminalFitsReceipts'
            BY <2>2, Quiet
        <3>2. /\ pc' = [pc EXCEPT ![x] = "record_model"] /\ pc'[x] = "record_model"
              /\ output' \in [Executors -> {None} \cup Outputs] /\ output'[x] = o
            BY <2>2 DEF GoTo, Inv, Types
        <3>3. Behind(x)'
            BY <1>0, <1>1, <2>2, <3>2
            DEF Infer, Behind, BehindAt, PastWorkspace, PastModel, PastSettle, Has, The
        <3> QED
            BY <2>2, <3>1, <3>2, <3>3, Advance DEF Inv, Types, Stages
    <2> QED
        BY <1>1, <2>1, <2>2 DEF Infer
<1>2. CASE ModelKnown(x)
    <2>1. pc[x] = "model" /\ Has(receipts, "model") /\ Proceed(x, "external_trace")
        BY <1>0, <1>2 DEF ModelKnown
    <2>2. BehindAt(x, "external_trace")
        BY <1>0, <2>1 DEF Behind, BehindAt, PastWorkspace, PastModel, PastSettle
    <2> QED
        BY <2>1, <2>2, ProceedStep DEF Stages
<1>3. CASE RecordModel(x)
    <2>1. /\ pc[x] = "record_model" /\ AppendFact(x, "model", output[x], "external_trace")
          /\ output[x] \in Outputs /\ output[x] \in Bodies /\ ~Has(receipts, "model")
        BY <1>0, <1>3 DEF RecordModel, Behind, BehindAt, Bodies
    <2>2. ASSUME Recorded(x, "model", output[x]), pc'[x] = "external_trace"
          PROVE  Behind(x)'
        BY <1>0, <2>1, <2>2
        DEF Recorded, Behind, BehindAt, PastWorkspace, PastModel, PastSettle, Singletons, Kinds
    <2> QED
        BY <1>0, <2>1, <2>2, FactStep DEF Singletons, Stages
<1> QED
    BY <1>1, <1>2, <1>3

\* Traces and cost, derived from the model receipt.
LEMMA TraceStep ==
    ASSUME RuntimeAssumption, OneExecutor, Inv, NEW x \in Executors,
           ExternalTrace(x) \/ InternalTrace(x) \/ Cost(x)
    PROVE  Inv'
<1>0. /\ pc[x] \notin {"idle", "resume"} /\ Behind(x) /\ known[x] = receipts
      /\ Has(receipts, "model")
    BY DEF ExternalTrace, InternalTrace, Cost, Inv, StageInv, Behind, BehindAt, PastModel
<1>1. /\ The(receipts, "model").body \in Outputs
      /\ Ref(The(receipts, "model")) \in Bodies
      /\ CostOf[The(receipts, "model").body] \in Nat
      /\ CostOf[The(receipts, "model").body] \in Bodies
    BY <1>0, RefIsRef, RuntimeAssumption DEF Bodies
<1>2. ASSUME NEW next \in {"internal_trace", "cost", "settle"}, Proceed(x, next),
             pc[x] \in {"external_trace", "internal_trace", "cost"},
             next = "settle" => Has(receipts, "cost")
      PROVE  Inv'
    <2>1. BehindAt(x, next)
        BY <1>0, <1>2 DEF Behind, BehindAt, PastWorkspace, PastModel, PastSettle
    <2> QED
        BY <1>2, <2>1, ProceedStep DEF Stages
<1>3. ASSUME NEW kind \in {"external_trace", "internal_trace", "cost"}, NEW body \in Bodies,
             NEW next \in {"internal_trace", "cost", "settle"},
             AppendFact(x, kind, body, next), ~Has(receipts, kind),
             pc[x] \in {"external_trace", "internal_trace", "cost"},
             next = "settle" => kind = "cost",
             kind = "cost" => body \in Nat
      PROVE  Inv'
    <2>1. ASSUME Recorded(x, kind, body), pc'[x] = next PROVE Behind(x)'
        BY <1>0, <1>3, <2>1
        DEF Recorded, Behind, BehindAt, PastWorkspace, PastModel, PastSettle, Singletons, Kinds
    <2> QED
        BY <1>0, <1>3, <2>1, FactStep DEF Singletons, Stages
<1>4. CASE ExternalTrace(x)
    <2>1. CASE Has(receipts, "external_trace")
        BY <1>0, <1>2, <1>4, <2>1, RefuseStep DEF ExternalTrace
    <2>2. CASE ~Has(receipts, "external_trace")
        <3>1. /\ \/ Refuse(x)
                 \/ AppendFact(x, "external_trace", Ref(The(receipts, "model")),
                               "internal_trace")
              /\ pc[x] = "external_trace"
            BY <1>0, <1>4, <2>2 DEF ExternalTrace
        <3> QED
            BY <1>1, <1>3, <2>2, <3>1, RefuseStep
    <2> QED
        BY <2>1, <2>2
<1>5. CASE InternalTrace(x)
    <2>1. CASE Proceed(x, "cost")
        BY <1>2, <1>5, <2>1 DEF InternalTrace
    <2>2. CASE /\ AppendFact(x, "internal_trace", Ref(The(receipts, "model")), "cost")
               /\ ~Has(receipts, "internal_trace")
        <3>1. pc[x] = "internal_trace"
            BY <1>5 DEF InternalTrace
        <3> QED
            BY <1>1, <1>3, <2>2, <3>1
    <2> QED
        BY <1>0, <1>5, <2>1, <2>2, RefuseStep DEF InternalTrace
<1>6. CASE Cost(x)
    <2>1. CASE Has(receipts, "cost")
        BY <1>0, <1>2, <1>6, <2>1 DEF Cost
    <2>2. CASE ~Has(receipts, "cost")
        <3>1. /\ \/ Refuse(x)
                 \/ AppendFact(x, "cost", CostOf[The(receipts, "model").body], "settle")
              /\ pc[x] = "cost"
            BY <1>0, <1>6, <2>2 DEF Cost
        <3> QED
            BY <1>1, <1>3, <2>2, <3>1, RefuseStep
    <2> QED
        BY <2>1, <2>2
<1> QED
    BY <1>4, <1>5, <1>6

\* Over the limit, or a prescreen: the plan ends; otherwise it is evaluated.
LEMMA SettleStep ==
    ASSUME RuntimeAssumption, OneExecutor, Inv, NEW x \in Executors, Settle(x)
    PROVE  Inv'
<1>0. /\ pc[x] = "settle" /\ Behind(x) /\ known[x] = receipts /\ call[x].plan \in Plans
      /\ Has(receipts, "cost") /\ Has(receipts, "workspace")
      /\ The(receipts, "workspace").body = call[x].plan
    BY DEF Settle, Inv, StageInv, Behind, BehindAt, PastWorkspace
<1>1. The(receipts, "cost").body \in Nat /\ LimitOf[call[x].plan] \in Nat
    BY <1>0, CostIsNat, RuntimeAssumption
<1>2. CASE The(receipts, "cost").body > LimitOf[call[x].plan]
    <2>1. AppendControl(x, "execution_terminal", "budget_exhausted",
                        Return(x, "budget_exhausted"))
        BY <1>0, <1>1, <1>2 DEF Settle
    <2>2. Fits(call[x].plan, "budget_exhausted")
        BY <1>2 DEF Fits
    <2> QED
        BY <1>0, <2>1, <2>2, ControlStep DEF Bodies, Statuses
<1>3. CASE /\ The(receipts, "cost").body <= LimitOf[call[x].plan]
           /\ call[x].plan \in Prescreen
    <2>1. AppendControl(x, "execution_terminal", "completed", Return(x, "completed"))
        BY <1>0, <1>1, <1>3 DEF Settle
    <2>2. Fits(call[x].plan, "completed")
        BY <1>1, <1>3 DEF Fits
    <2> QED
        BY <1>0, <2>1, <2>2, ControlStep DEF Bodies, Statuses
<1>4. CASE /\ The(receipts, "cost").body <= LimitOf[call[x].plan]
           /\ call[x].plan \notin Prescreen
    <2>1. Proceed(x, "native")
        BY <1>0, <1>1, <1>4 DEF Settle
    <2>2. ~(The(receipts, "cost").body > LimitOf[call[x].plan])
        BY <1>1, <1>4
    <2>3. BehindAt(x, "native")
        BY <1>0, <1>4, <2>2 DEF Behind, BehindAt, PastWorkspace, PastModel, PastSettle
    <2> QED
        BY <2>1, <2>3, ProceedStep DEF Stages
<1> QED
    BY <1>1, <1>2, <1>3, <1>4

\* The evaluation, its failure, and the end of the plan.
LEMMA NativeStep ==
    ASSUME RuntimeAssumption, OneExecutor, Inv, NEW x \in Executors,
           \/ Evaluate(x) \/ RecordNative(x) \/ Complete(x)
           \/ RecordInfra(x) \/ InfraTerminal(x)
    PROVE  Inv'
<1>0. /\ pc[x] \in PastSettle /\ Behind(x) /\ known[x] = receipts
      /\ Has(receipts, "model") /\ Has(receipts, "cost") /\ Has(receipts, "workspace")
      /\ The(receipts, "workspace").body = call[x].plan
      /\ ~(The(receipts, "cost").body > LimitOf[call[x].plan])
    BY DEF Evaluate, RecordNative, Complete, RecordInfra, InfraTerminal, Inv, StageInv, Behind, BehindAt,
           PastSettle, PastModel, PastWorkspace
<1>1. \A error \in BOOLEAN : [model |-> Ref(The(receipts, "model")), error |-> error] \in Bodies
    BY <1>0, RefIsRef DEF Bodies
<1>2. CASE Evaluate(x)
    <2>1. CASE Interrupt(x)
        BY <1>0, <2>1, InterruptStep DEF PastSettle
    <2>2. ASSUME NEW stage \in {"record_native", "record_infra"}, GoTo(x, stage),
                 UNCHANGED <<receipts, known, call, output>>
          PROVE  Inv'
        <3>1. LogInv' /\ PredictionBeforeModel' /\ TerminalFitsReceipts'
            BY <2>2, Quiet
        <3>2. pc' = [pc EXCEPT ![x] = stage] /\ pc'[x] = stage
            BY <2>2 DEF GoTo, Inv, Types
        <3>3. Behind(x)'
            BY <1>0, <1>2, <2>2, <3>2
            DEF Evaluate, Behind, BehindAt, PastWorkspace, PastModel, PastSettle, Has, The
        <3> QED
            BY <2>2, <3>1, <3>2, <3>3, Advance DEF Inv, Types, Stages
    <2>3. CASE /\ Return(x, "error")
               /\ UNCHANGED <<receipts, known, call, output>>
        BY <2>3, EndQuietly
    <2> QED
        BY <1>2, <2>1, <2>2, <2>3 DEF Evaluate
<1>3. ASSUME NEW error \in BOOLEAN, NEW next \in {"native", "infra_terminal"},
             AppendFact(x, "native_evaluation",
                        [model |-> Ref(The(receipts, "model")), error |-> error], next),
             pc[x] \in {"record_native", "record_infra"},
             next = "infra_terminal" => error
      PROVE  Inv'
    <2>1. ~Has(receipts, "native_evaluation")
        BY <1>0, <1>3 DEF Behind, BehindAt
    <2>2. ASSUME Recorded(x, "native_evaluation",
                          [model |-> Ref(The(receipts, "model")), error |-> error]),
                 pc'[x] = next
          PROVE  Behind(x)'
        BY <1>0, <1>3, <2>2
        DEF Recorded, Behind, BehindAt, PastWorkspace, PastModel, PastSettle, Singletons, Kinds
    <2> QED
        BY <1>0, <1>1, <1>3, <2>1, <2>2, FactStep DEF Singletons, Stages, PastSettle
<1>4. CASE RecordNative(x)
    BY <1>0, <1>3, <1>4 DEF RecordNative
<1>5. CASE RecordInfra(x)
    BY <1>0, <1>3, <1>5 DEF RecordInfra
<1>6. CASE Complete(x)
    <2>1. /\ AppendControl(x, "execution_terminal", "completed", Return(x, "completed"))
          /\ Has(receipts, "native_evaluation")
        BY <1>0, <1>6 DEF Complete
    <2>2. Fits(call[x].plan, "completed")
        BY <1>0, <2>1 DEF Fits
    <2> QED
        BY <1>0, <2>1, <2>2, ControlStep DEF Bodies, Statuses, PastSettle
<1>7. CASE InfraTerminal(x)
    <2>1. AppendControl(x, "execution_terminal", "infra_failure", Return(x, "infra_failure"))
        BY <1>7 DEF InfraTerminal
    <2>2. Fits(call[x].plan, "infra_failure")
        BY <1>0, <1>7 DEF Fits, InfraTerminal, Behind, BehindAt
    <2> QED
        BY <1>0, <2>1, <2>2, ControlStep DEF Bodies, Statuses, PastSettle
<1> QED
    BY <1>2, <1>4, <1>5, <1>6, <1>7

LEMMA NextInv == ASSUME RuntimeAssumption, OneExecutor, Inv, [Next]_vars PROVE Inv'
<1>1. ASSUME NEW x \in Executors, NEW plan \in Plans, NEW prediction \in Asked,
             Call(x, plan, prediction)
      PROVE  Inv'
    <2>1. LogInv' /\ PredictionBeforeModel' /\ TerminalFitsReceipts'
        BY <1>1, Quiet DEF Call
    <2>2. Types'
        BY <1>1 DEF Call, Return, GoTo, Inv, Types, Stages
    <2>3. pc'[x] \in {"idle", "resume"} /\ known'[x] = receipts'
          /\ call'[x] \in [plan : Plans, prediction : Asked]
        BY <1>1 DEF Call, Return, GoTo, Inv, Types
    <2>4. Behind(x)'
        BY <2>3 DEF Behind, BehindAt, PastWorkspace, PastModel, PastSettle
    <2> QED
        BY <2>1, <2>2, <2>4 DEF Inv, StageInv, OneExecutor
<1>2. ASSUME NEW x \in Executors, Step(x) PROVE Inv'
    <2>1. CASE Partial(x)
        BY <2>1, ControlStep DEF Partial, Bodies
    <2> QED
        BY <1>2, <2>1, EarlyStep, ModelStep, TraceStep, SettleStep, NativeStep DEF Step
<1>3. ASSUME NEW x \in Executors, Abort(x) PROVE Inv'
    <2>1. LogInv' /\ PredictionBeforeModel' /\ TerminalFitsReceipts'
        BY <1>3, Quiet DEF Abort
    <2> QED
        BY <1>3, <2>1, EndCall DEF Abort, Return, Inv, Types
<1>4. CASE UNCHANGED vars
    <2>1. LogInv' /\ PredictionBeforeModel' /\ TerminalFitsReceipts'
        BY <1>4, Quiet DEF vars
    <2> QED
        BY <1>4, <2>1 DEF vars, Inv, Types, StageInv, Behind, BehindAt, Has, The
<1> QED
    BY <1>1, <1>2, <1>3, <1>4 DEF Next

LEMMA Invariance == ASSUME OneExecutor PROVE Spec => []Inv
<1>1. Init => Inv
    BY InitInv, RuntimeAssumption
<1>2. Inv /\ [Next]_vars => Inv'
    BY NextInv, RuntimeAssumption
<1> QED
    BY <1>1, <1>2, PTL DEF Spec

-----------------------------------------------------------------------------
\* "mechanism prediction was not frozen before model dispatch": a prediction is in the
\* log before the model's answer, whatever is interrupted and repeated.
THEOREM PredictionIsFrozenFirst ==
    ASSUME OneExecutor PROVE Spec => []PredictionBeforeModel
<1>1. Inv => PredictionBeforeModel
    BY DEF Inv
<1> QED
    BY <1>1, Invariance, PTL

\* The terminal receipt is the last one, and its status is what limit, cost and
\* evaluation in the receipts before it say.
THEOREM TerminalIsTrue ==
    ASSUME OneExecutor PROVE Spec => []TerminalFitsReceipts
<1>1. Inv => TerminalFitsReceipts
    BY DEF Inv
<1> QED
    BY <1>1, Invariance, PTL

\* Two actions only dispatch.
LEMMA Dispatches ==
    ASSUME [Next]_vars
    PROVE  \/ \E x \in Executors : Infer(x) \/ Evaluate(x)
           \/ UNCHANGED <<inferences, evaluations>>
<1> DEFINE Same == UNCHANGED <<inferences, evaluations>>
<1>1. ASSUME NEW x, NEW next, Refuse(x) \/ Proceed(x, next) PROVE Same
    BY <1>1 DEF Refuse, Proceed
<1>0. ASSUME NEW x, NEW kind, NEW body, Stopped(x, kind, body) PROVE Same
    BY <1>0, <1>1 DEF Stopped, Conflict, CutShort
<1>2. ASSUME NEW x, NEW kind, NEW body, NEW next, AppendFact(x, kind, body, next) PROVE Same
    BY <1>0, <1>2 DEF AppendFact
<1>3. ASSUME NEW x, NEW kind, NEW body, NEW status,
             AppendControl(x, kind, body, Return(x, status))
      PROVE  Same
    BY <1>0, <1>3 DEF AppendControl
<1>4. ASSUME NEW x \in Executors, Step(x), ~Infer(x), ~Evaluate(x) PROVE Same
    <2>1. CASE Resume(x) \/ Workspace(x) \/ FreezePrediction(x)
        BY <1>1, <1>2, <2>1 DEF Resume, Workspace, FreezePrediction
    <2>2. CASE ModelKnown(x) \/ RecordModel(x) \/ ExternalTrace(x)
        BY <1>1, <1>2, <2>2 DEF ModelKnown, RecordModel, ExternalTrace
    <2>3. CASE InternalTrace(x)
        BY <1>1, <1>2, <2>3 DEF InternalTrace
    <2>4. CASE Cost(x) \/ Settle(x)
        BY <1>1, <1>2, <1>3, <2>4 DEF Cost, Settle
    <2>5. CASE RecordNative(x) \/ Complete(x) \/ RecordInfra(x) \/ InfraTerminal(x) \/ Partial(x)
        BY <1>2, <1>3, <2>5 DEF RecordNative, Complete, RecordInfra, InfraTerminal, Partial
    <2> QED
        BY <1>4, <2>1, <2>2, <2>3, <2>4, <2>5 DEF Step
<1> QED
    BY <1>4 DEF Next, Call, Abort, vars

\* No model call and no evaluation is dispatched for a stage that is on record, nor
\* after the plan has ended.
THEOREM WorkIsNotRepeated ==
    ASSUME OneExecutor PROVE Spec => CompletedWorkIsNotRepeated
<1> DEFINE Kept ==
        /\ inferences' # inferences =>
             ~Has(receipts, "model") /\ ~Has(receipts, "execution_terminal")
        /\ evaluations' # evaluations =>
             /\ ~Has(receipts, "native_evaluation")
             /\ ~Has(receipts, "execution_terminal")
<1>1. ASSUME Inv, [Next]_vars PROVE [Kept]_vars
    <2>1. ASSUME NEW x \in Executors, Infer(x) PROVE Kept
        <3>1. evaluations' = evaluations /\ pc[x] = "model" /\ ~Has(known[x], "model")
            BY <2>1 DEF Infer
        <3> QED
            BY <1>1, <3>1 DEF Inv, StageInv, Behind, BehindAt
    <2>2. ASSUME NEW x \in Executors, Evaluate(x) PROVE Kept
        <3>1. /\ inferences' = inferences /\ pc[x] = "native"
              /\ ~Has(known[x], "native_evaluation")
            BY <2>2 DEF Evaluate
        <3> QED
            BY <1>1, <3>1 DEF Inv, StageInv, Behind, BehindAt
    <2>3. CASE UNCHANGED <<inferences, evaluations>>
        BY <2>3
    <2> QED
        BY <1>1, <2>1, <2>2, <2>3, Dispatches
<1> QED
    BY <1>1, Invariance, PTL DEF Spec, CompletedWorkIsNotRepeated

\* A call writes nothing before it has checked the log.
LEMMA EarlyIsQuiet ==
    ASSUME [Next]_vars, \A x \in Executors : pc[x] \in {"idle", "resume"}
    PROVE  receipts' = receipts
<1>1. ASSUME NEW x \in Executors, Step(x) PROVE receipts' = receipts
    <2>1. Resume(x)
        BY <1>1
        DEF Step, Workspace, FreezePrediction, Infer, ModelKnown, RecordModel, ExternalTrace,
            InternalTrace, Cost, Settle, Evaluate, RecordNative, Complete, RecordInfra,
            InfraTerminal, Partial
    <2> QED
        BY <2>1 DEF Resume, Refuse, Proceed
<1> QED
    BY <1>1 DEF Next, Call, Abort, vars

LEMMA CostIsNatAfter ==
    ASSUME Inv', Has(receipts', "cost")
    PROVE  The(receipts', "cost").body \in Nat
<1>1. PICK i \in DOMAIN receipts' : receipts'[i].kind = "cost"
    BY DEF Has
<1>2. The(receipts', "cost") = receipts'[i]
    BY <1>1, TheOne DEF Inv, LogInv, Singletons
<1> QED
    BY <1>1, <1>2 DEF Inv, LogInv

\* Seen from outside a plan ends once: with one status and one cost, which no later
\* call changes.
THEOREM PlanEndsOnce == ASSUME OneExecutor PROVE Spec => ImplementsPlanOutcome
<1> DEFINE Ends == {i \in DOMAIN receipts : receipts[i].kind = "execution_terminal"}
<1>1. Init => PlanEnd!OutcomeInit
    BY DEF Init, PlanEnd!OutcomeInit, RecordedOutcome
<1>2. ASSUME Inv, Inv', [Next]_vars PROVE [PlanEnd!End]_RecordedOutcome
    <2>1. CASE receipts' = receipts
        BY <2>1 DEF RecordedOutcome, The
    <2>2. CASE receipts' # receipts
        <3>1. ~Has(receipts, "execution_terminal")
            <4>1. \E x \in Executors : pc[x] \notin {"idle", "resume"}
                BY <1>2, <2>2, EarlyIsQuiet
            <4> QED
                BY <1>2, <4>1 DEF Inv, StageInv, Behind, BehindAt
        <3>2. RecordedOutcome = None
            BY <3>1 DEF RecordedOutcome, Has
        <3>3. CASE Ends' = {}
            BY <3>2, <3>3 DEF RecordedOutcome
        <3>4. CASE Ends' # {}
            <4>1. PICK i \in DOMAIN receipts' : receipts'[i].kind = "execution_terminal"
                BY <3>4
            <4>2. \A j \in Ends' : j = i
                BY <1>2, <4>1 DEF Inv, LogInv, Singletons
            <4>3. receipts' \in Seq(Receipts) /\ i \in Nat
                BY <1>2, <4>1 DEF Inv, Types
            <4>4. (CHOOSE k \in Ends' : \A j \in Ends' : j <= k) = i
                BY <4>1, <4>2, <4>3
            <4>5. Has(receipts', "cost") /\ receipts'[i].body \in Statuses
                BY <1>2, <4>1 DEF Inv, LogInv
            <4>6. The(receipts', "cost").body \in Nat
                BY <1>2, <4>5, CostIsNatAfter
            <4>7. RecordedOutcome' = [status |-> receipts'[i].body,
                                      cost |-> The(receipts', "cost").body]
                BY <3>4, <4>4 DEF RecordedOutcome
            <4> QED
                BY <3>2, <4>5, <4>6, <4>7 DEF PlanEnd!End
        <3> QED
            BY <3>3, <3>4
    <2> QED
        BY <2>1, <2>2
<1> QED
    BY <1>1, <1>2, Invariance, PTL DEF Spec, ImplementsPlanOutcome, PlanEnd!OutcomeSpec
=============================================================================
