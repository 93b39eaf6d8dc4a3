----------------------- MODULE CampaignCommandsProofs -----------------------
(***************************************************************************)
(* Safety of the two commands that run a live campaign into a directory of *)
(* their own, about the specification that is run.                         *)
(***************************************************************************)
EXTENDS CampaignCommands, Integers, FiniteSetTheorems, TLAPS

-----------------------------------------------------------------------------
(* The fresh round.  What the command has established at each of its       *)
(* places; the evidence is frozen from the first claim on.                 *)

\* The places of the command, each group a suffix of the one before.
Ending == {"report", "result", "seal"}
Projecting == {"project"} \cup Ending
Deciding == {"decide"} \cup Projecting
Recording == {"candidate"} \cup Deciding
Claiming == {"claim"} \cup Recording
Observing == {"observe"} \cup Claiming

\* Every plan has run, and has its trusted observation where an issuer is configured.
EvidenceComplete == Pending = {} /\ (setup.issuer => Plans \subseteq traces)

Outcomes == [outcome : {"resolved", "unresolved", "error", "interrupted"},
             status : {"completed", "failed"}]

ConfigInv == setup \in Setups /\ anomaly \in Anomalies[setup]

ReceiptInv ==
    /\ receipts \in [Plans -> {NotRun} \cup Outcomes]
    /\ traces # {} => Pending = {} /\ setup.issuer
    /\ capability # {} => Pending = {}

\* Every claim says what the evidence of its pair says, and that evidence is frozen.
ClaimInv ==
    /\ claims # {} => EvidenceComplete
    /\ \A c \in claims :
         /\ c.task \in Tasks
         /\ Evaluated(<<c.task, "baseline">>) /\ Evaluated(<<c.task, "taught">>)
         /\ Claimable(Baseline(c.task), Taught(c.task))
         /\ c = ClaimOf(c.task, Baseline(c.task), Taught(c.task))

Projected(d) == (d.gate = "approved" <=> d \in capability)
                /\ (d.gate = "rejected" <=> d \in rejected)
Summary(d) == [claims |-> claims, gate |-> d.gate, status |-> campaign]

EvidencePlaceInv ==
    /\ pc \in Observing => Pending = {}
    /\ pc = "observe" => setup.issuer
    /\ pc \in Claiming => EvidenceComplete
    /\ pc \in Recording => Unclaimed = {}

DecisionPlaceInv ==
    /\ pc \notin {"down", "freeze", "reserve", "charge"} => teacher = "charged"
    /\ pc \in Deciding => candidate = claims
    /\ pc \in Projecting =>
         Decision \in decisions /\ (Decision.gate = "approved" => setup.authority)
    /\ pc \in Ending => Projected(Decision)
    /\ pc = "seal" => result = {Summary(Decision)}
    /\ pc \notin {"down", "seal"} => result = {}

RegistryInv ==
    /\ \A d \in capability : d.gate = "approved"
    /\ \A d \in rejected : d.gate = "rejected"

SealInv ==
    /\ manifest = "sealed" => pc = "down" /\ result # {}
    /\ SealedIsComplete

FreshInv ==
    /\ ConfigInv /\ ReceiptInv /\ ClaimInv /\ EvidencePlaceInv /\ DecisionPlaceInv
    /\ RegistryInv /\ SealInv /\ CapabilityIsEarned

LEMMA FreshInit == Init => FreshInv
<1> SUFFICES ASSUME Init PROVE FreshInv
    OBVIOUS
<1>1. ConfigInv /\ ReceiptInv
    BY DEF Init, ConfigInv, ReceiptInv
<1>2. ClaimInv /\ EvidencePlaceInv
    BY DEF Init, ClaimInv, EvidencePlaceInv, Observing, Claiming, Recording, Deciding,
           Projecting, Ending
<1>3. DecisionPlaceInv /\ RegistryInv
    BY DEF Init, DecisionPlaceInv, RegistryInv, Deciding, Projecting, Ending
<1>4. SealInv /\ CapabilityIsEarned
    BY DEF Init, SealInv, SealedIsComplete, CapabilityIsEarned
<1> QED
    BY <1>1, <1>2, <1>3, <1>4 DEF FreshInv

\* Two states with the same evidence say the same of every arm.
LEMMA SameArms ==
    ASSUME UNCHANGED <<setup, anomaly, receipts, traces>>
    PROVE  /\ \A p : ArmOf(p)' = ArmOf(p) /\ Evaluated(p)' = Evaluated(p)
           /\ Pending' = Pending
           /\ EvidenceComplete' = EvidenceComplete
<1>1. \A p : Odd(p, "lineage")' = Odd(p, "lineage") /\ Odd(p, "trace")' = Odd(p, "trace")
             /\ Odd(p, "identity")' = Odd(p, "identity") /\ Odd(p, "prompt")' = Odd(p, "prompt")
             /\ Odd(p, "parent")' = Odd(p, "parent") /\ Odd(p, "effect")' = Odd(p, "effect")
             /\ Odd(p, "prediction")' = Odd(p, "prediction")
    BY DEF Odd
<1>2. \A p : ArmOf(p)' = ArmOf(p)
    BY <1>1 DEF ArmOf
<1>3. \A p : Evaluated(p)' = Evaluated(p)
    BY DEF Evaluated, Ran
<1>4. Pending' = Pending
    BY DEF Pending, Ran
<1> QED
    BY <1>2, <1>3, <1>4 DEF EvidenceComplete

LEMMA SameDecision ==
    ASSUME UNCHANGED <<setup, anomaly, receipts, traces, claims>>
    PROVE  Decision' = Decision /\ Unclaimed' = Unclaimed
<1>1. \A t : Baseline(t)' = Baseline(t) /\ Taught(t)' = Taught(t)
    BY SameArms DEF Baseline, Taught
<1>2. Projects(claims)' = Projects(claims)
    BY DEF Projects
<1>3. Predicted(claims)' = Predicted(claims)
    BY <1>1 DEF Predicted
<1>4. GradeNow' = GradeNow
    BY <1>2, <1>3 DEF GradeNow
<1>5. LastReceipt' = LastReceipt
    BY DEF LastReceipt, Ran
<1>6. Unclaimed' = Unclaimed
    BY DEF Unclaimed
<1> QED
    BY <1>4, <1>5, <1>6 DEF Decision

LEMMA SameClaims ==
    ASSUME ClaimInv, UNCHANGED <<setup, anomaly, receipts, traces, claims>>
    PROVE  ClaimInv'
<1>1. \A t : Baseline(t)' = Baseline(t) /\ Taught(t)' = Taught(t)
    BY SameArms DEF Baseline, Taught
<1> QED
    BY <1>1, SameArms DEF ClaimInv

\* The steps that leave the evidence and the claims alone.
Quiet ==
    \/ Launch \/ FreezeArtifacts \/ ReserveTeacher \/ ChargeTeacher \/ OpenCampaign \/ Isolate
    \/ RecordCandidate \/ Decide \/ Project \/ WriteReport \/ WriteResult \/ Seal
    \/ Kill \/ CutShort \/ Raise \/ UNCHANGED vars

LEMMA QuietFrame ==
    ASSUME Quiet PROVE UNCHANGED <<setup, anomaly, receipts, traces, claims>>
<1>1. Launch \/ FreezeArtifacts \/ ReserveTeacher \/ ChargeTeacher \/ OpenCampaign \/ Isolate
        => UNCHANGED <<setup, anomaly, receipts, traces, claims>>
    BY DEF Launch, FreezeArtifacts, ReserveTeacher, ChargeTeacher, OpenCampaign, Isolate, Go,
           Refuse, saved
<1>2. RecordCandidate \/ Decide \/ Project \/ WriteReport \/ WriteResult
        => UNCHANGED <<setup, anomaly, receipts, traces, claims>>
    BY DEF RecordCandidate, Decide, Project, WriteReport, WriteResult, Go, Refuse, saved
<1>3. Seal \/ Kill \/ CutShort \/ Raise \/ UNCHANGED vars
        => UNCHANGED <<setup, anomaly, receipts, traces, claims>>
    BY DEF Seal, Kill, CutShort, Raise, Refuse, vars, saved
<1> QED
    BY <1>1, <1>2, <1>3 DEF Quiet

-----------------------------------------------------------------------------
(* The evidence.                                                           *)

\* An execution needs a plan that has not run; then nothing is observed, claimed or
\* projected yet.
LEMMA ExecuteIsFirst ==
    ASSUME FreshInv, Execute
    PROVE  traces = {} /\ claims = {} /\ capability = {} /\ manifest # "sealed"
           /\ pc' \in {"execute", "down"} /\ result = {}
<1>1. Pending # {} /\ pc = "execute" /\ pc' \in {"execute", "down"}
    BY DEF Execute, Go
<1>2. traces = {} /\ claims = {} /\ capability = {}
    BY <1>1 DEF FreshInv, ReceiptInv, ClaimInv, EvidenceComplete
<1>3. result = {} /\ manifest # "sealed"
    BY <1>1 DEF FreshInv, SealInv, DecisionPlaceInv
<1> QED
    BY <1>1, <1>2, <1>3

LEMMA ExecuteFrame ==
    ASSUME Execute
    PROVE  UNCHANGED <<setup, anomaly, teacher, traces, claims, candidate, decisions,
                       capability, rejected, manifest, result>>
BY DEF Execute, Go

LEMMA ObserveFrame ==
    ASSUME Observe
    PROVE  /\ UNCHANGED <<setup, anomaly, teacher, campaign, receipts, claims, candidate,
                          decisions, capability, rejected, manifest, result>>
           /\ pc = "observe" /\ pc' \in {"observe", "claim", "down"}
           /\ traces \subseteq traces' /\ (Plans \subseteq traces => traces' = traces)
           /\ pc' = "claim" => Plans \subseteq traces
<1> DEFINE p == FirstOf(Plans \ traces)
<1>1. CASE Plans \subseteq traces
    BY <1>1 DEF Observe, Go, saved
<1>2. CASE ~(Plans \subseteq traces) /\ receipts[p].status # "completed"
    BY <1>2 DEF Observe, Refuse, saved
<1>3. CASE ~(Plans \subseteq traces) /\ receipts[p].status = "completed"
    BY <1>3 DEF Observe, Go
<1> QED
    BY <1>1, <1>2, <1>3

LEMMA OneIsLeast ==
    ASSUME NEW places \in SUBSET (1 .. 3), places # {}
    PROVE  \E k \in places : \A j \in places : k <= j
<1>1. CASE 1 \in places
    BY <1>1
<1>2. CASE 1 \notin places /\ 2 \in places
    <2>1. \A j \in places : 2 <= j
        BY <1>2
    <2> QED
        BY <1>2, <2>1
<1>3. CASE 1 \notin places /\ 2 \notin places
    <2>1. \A j \in places : j = 3
        BY <1>3
    <2>2. \E j : j \in places
        OBVIOUS
    <2>3. 3 \in places /\ \A j \in places : 3 <= j
        BY <2>1, <2>2
    <2> QED
        BY <2>3
<1> QED
    BY <1>1, <1>2, <1>3

LEMMA MakeClaimFrame ==
    ASSUME MakeClaim
    PROVE  /\ UNCHANGED <<setup, anomaly, teacher, campaign, receipts, traces, candidate,
                          decisions, capability, rejected, manifest, result>>
           /\ pc = "claim" /\ pc' \in {"claim", "candidate", "down"}
           /\ \/ claims' = claims
              \/ \E t \in Tasks :
                   /\ Evaluated(<<t, "baseline">>) /\ Evaluated(<<t, "taught">>)
                   /\ Claimable(Baseline(t), Taught(t))
                   /\ claims' = claims \cup {ClaimOf(t, Baseline(t), Taught(t))}
                   /\ pc' = "claim"
           /\ pc' = "candidate" => Unclaimed = {} /\ claims' = claims
<1> DEFINE i == CHOOSE i \in Unclaimed : \A j \in Unclaimed : i <= j
           t == TaskOrder[i]
           Fits == /\ Evaluated(<<t, "baseline">>) /\ Evaluated(<<t, "taught">>)
                   /\ Claimable(Baseline(t), Taught(t))
<1>1. CASE Unclaimed = {}
    BY <1>1 DEF MakeClaim, Go, saved
<1>2. CASE Unclaimed # {} /\ ~Fits
    BY <1>2 DEF MakeClaim, Refuse, saved
<1>3. CASE Unclaimed # {} /\ Fits
    <2>1. pc = "claim" /\ claims' = claims \cup {ClaimOf(t, Baseline(t), Taught(t))} /\ Go("claim")
          /\ UNCHANGED <<teacher, campaign, receipts, traces, candidate,
                                decisions, capability, rejected, manifest, result>>
        BY <1>3, Zenon DEF MakeClaim
    <2>2. t \in Tasks
        <3>1. DOMAIN TaskOrder = 1 .. 3
            BY FreshAssumption
        <3>2. Unclaimed \subseteq 1 .. 3
            BY <3>1 DEF Unclaimed
        <3>3. \E k \in Unclaimed : \A j \in Unclaimed : k <= j
            BY <3>2, <1>3, OneIsLeast
        <3>4. i \in Unclaimed
            BY <3>3
        <3> QED
            BY <3>4 DEF Tasks, Unclaimed
    <2> QED
        BY <2>1, <2>2, <1>3 DEF Go
<1> QED
    BY <1>1, <1>2, <1>3

LEMMA EvidenceStep ==
    ASSUME FreshInv, Next \/ UNCHANGED vars
    PROVE  ConfigInv' /\ ClaimInv'
<1>1. CASE Quiet
    BY <1>1, QuietFrame, SameClaims DEF FreshInv, ConfigInv
<1>2. CASE Execute
    BY <1>2, ExecuteIsFirst, ExecuteFrame DEF FreshInv, ConfigInv, ClaimInv
<1>3. CASE Observe
    <2>1. claims # {} => traces' = traces
        BY <1>3, ObserveFrame DEF FreshInv, ClaimInv, EvidencePlaceInv, EvidenceComplete
    <2>2. CASE claims = {}
        BY <2>2, <1>3, ObserveFrame DEF FreshInv, ConfigInv, ClaimInv
    <2>3. CASE claims # {}
        BY <2>1, <2>3, <1>3, ObserveFrame, SameClaims DEF FreshInv, ConfigInv
    <2> QED
        BY <2>2, <2>3
<1>4. CASE MakeClaim
    <2>1. /\ \A p : ArmOf(p)' = ArmOf(p) /\ Evaluated(p)' = Evaluated(p)
          /\ EvidenceComplete' = EvidenceComplete
        BY <1>4, MakeClaimFrame, SameArms
    <2>2. EvidenceComplete
        BY <1>4, MakeClaimFrame DEF FreshInv, EvidencePlaceInv, Claiming
    <2>3. \A c \in claims' :
            \/ c \in claims
            \/ \E t \in Tasks :
                 /\ Evaluated(<<t, "baseline">>) /\ Evaluated(<<t, "taught">>)
                 /\ Claimable(Baseline(t), Taught(t))
                 /\ c = ClaimOf(t, Baseline(t), Taught(t))
        BY <1>4, MakeClaimFrame
    <2>4. \A c \in claims' :
            /\ c.task \in Tasks
            /\ Evaluated(<<c.task, "baseline">>) /\ Evaluated(<<c.task, "taught">>)
            /\ Claimable(Baseline(c.task), Taught(c.task))
            /\ c = ClaimOf(c.task, Baseline(c.task), Taught(c.task))
        <3>1. \A t, b, a : ClaimOf(t, b, a).task = t
            BY DEF ClaimOf
        <3> QED
            <4> TAKE c \in claims'
            <4>1. CASE c \in claims
                BY <4>1 DEF FreshInv, ClaimInv
            <4>2. CASE c \notin claims
                <5>1. PICK t \in Tasks :
                        /\ Evaluated(<<t, "baseline">>) /\ Evaluated(<<t, "taught">>)
                        /\ Claimable(Baseline(t), Taught(t))
                        /\ c = ClaimOf(t, Baseline(t), Taught(t))
                    BY <4>2, <2>3
                <5>2. c.task = t
                    BY <5>1, <3>1
                <5> QED
                    BY <5>1, <5>2
            <4> QED
                BY <4>1, <4>2
    <2>5. \A t : Baseline(t)' = Baseline(t) /\ Taught(t)' = Taught(t)
        BY <2>1 DEF Baseline, Taught
    <2> QED
        BY <2>1, <2>2, <2>4, <2>5, <1>4, MakeClaimFrame DEF FreshInv, ConfigInv, ClaimInv
<1> QED
    BY <1>1, <1>2, <1>3, <1>4 DEF Next, Step, Work, Quiet

\* An issuer observes only what has run to its end.
LEMMA ReceiptStep ==
    ASSUME FreshInv, Next \/ UNCHANGED vars
    PROVE  ReceiptInv'
<1>1. CASE Quiet
    <2>1. capability' = capability \/ (pc = "project" /\ Project)
        BY <1>1 DEF Quiet, Launch, FreezeArtifacts, ReserveTeacher, ChargeTeacher, OpenCampaign,
                    Isolate, RecordCandidate, Decide, Project, WriteReport, WriteResult, Seal,
                    Kill, CutShort, Raise, Go, Refuse, saved, vars
    <2>2. capability' # {} => Pending = {}
        BY <2>1 DEF FreshInv, ReceiptInv, EvidencePlaceInv, Observing, Claiming, Recording,
                    Deciding, Projecting
    <2>3. Pending' = Pending
        BY <1>1, QuietFrame, SameArms
    <2> QED
        BY <1>1, <2>2, <2>3, QuietFrame DEF FreshInv, ReceiptInv
<1>2. CASE Execute
    <2>1. traces' = {} /\ capability' = {}
        BY <1>2, ExecuteIsFirst, ExecuteFrame
    <2>2. PICK end \in Ends \cup {[outcome |-> "error", status |-> "completed"]} :
            receipts' = [receipts EXCEPT ![FirstOf(Pending)] = end]
        BY <1>2, Zenon DEF Execute
    <2>3. end \in Outcomes
        BY <2>2 DEF Ends, Outcomes
    <2>4. receipts' \in [Plans -> {NotRun} \cup Outcomes]
        BY <2>2, <2>3 DEF FreshInv, ReceiptInv
    <2> QED
        BY <2>1, <2>4 DEF ReceiptInv
<1>3. CASE Observe
    <2>1. Pending' = Pending
        BY <1>3, ObserveFrame DEF Pending, Ran
    <2>2. Pending = {} /\ setup.issuer
        BY <1>3, ObserveFrame DEF FreshInv, EvidencePlaceInv, Observing
    <2> QED
        BY <2>1, <2>2, <1>3, ObserveFrame DEF FreshInv, ReceiptInv
<1>4. CASE MakeClaim
    <2>1. Pending' = Pending
        BY <1>4, MakeClaimFrame DEF Pending, Ran
    <2> QED
        BY <2>1, <1>4, MakeClaimFrame DEF FreshInv, ReceiptInv
<1> QED
    BY <1>1, <1>2, <1>3, <1>4 DEF Next, Step, Work, Quiet

-----------------------------------------------------------------------------
(* What an approval stands for.                                            *)

\* The evidence of an approved decision, as CapabilityIsEarned asks for it.
Earned ==
    /\ setup.approval /\ setup.authority /\ setup.issuer
    /\ Cardinality({ProjectOf[setup.projects][t] : t \in Tasks}) >= 2
    /\ anomaly.kind = "none"
    /\ \A t \in Tasks :
         /\ receipts[<<t, "baseline">>].outcome = "unresolved"
         /\ receipts[<<t, "taught">>].outcome = "resolved"
         /\ {<<t, "baseline">>, <<t, "taught">>} \subseteq traces

LEMMA GateApproves ==
    ASSUME NEW cs, NEW grade, NEW approval \in BOOLEAN,
           Gate(cs, grade, approval) = "approved"
    PROVE  /\ approval /\ grade = "E3"
           /\ \A c \in cs : c.classification \notin {"infra_failure", "regression", "neutral"}
<1>1. ~Any(cs, "infra_failure") /\ ~Any(cs, "regression") /\ ~Any(cs, "neutral")
      /\ approval /\ grade = "E3"
    BY DEF Gate
<1> QED
    BY <1>1 DEF Any, With

LEMMA GradeIsEarned ==
    ASSUME NEW cs, NEW projects, NEW predicted, Grade(cs, projects, predicted) = "E3"
    PROVE  Cardinality(projects) >= 2
           /\ \A c \in cs : c.grade = "E2" /\ c.task \in predicted
BY DEF Grade, E3Eligible

\* One task of an approved decision: the pair is matched, the taught arm gained, and the
\* traces show the predicted effect in it and not in the baseline.
LEMMA PairIsEarned ==
    ASSUME FreshInv, Decision.gate = "approved", NEW t \in Tasks, Unclaimed = {}
    PROVE  /\ Matched(Baseline(t), Taught(t)) /\ Predicts(Baseline(t), Taught(t))
           /\ Classify(Baseline(t), Taught(t)) = "gain"
           /\ Evaluated(<<t, "baseline">>) /\ Evaluated(<<t, "taught">>)
<1>1. Gate(claims, GradeNow, setup.approval) = "approved"
    BY DEF Decision
<1>2. setup.approval \in BOOLEAN
    BY FreshAssumption DEF FreshInv, ConfigInv
<1>3. /\ GradeNow = "E3"
      /\ \A c \in claims : c.classification \notin {"infra_failure", "regression", "neutral"}
    BY <1>1, <1>2, GateApproves
<1>4. \A c \in claims : c.grade = "E2" /\ c.task \in Predicted(claims)
    BY <1>3, GradeIsEarned DEF GradeNow
<1>5. PICK c \in claims : c.task = t
    BY DEF Unclaimed, Tasks
<1>6. /\ Claimable(Baseline(t), Taught(t))
      /\ c = ClaimOf(t, Baseline(t), Taught(t))
      /\ Evaluated(<<t, "baseline">>) /\ Evaluated(<<t, "taught">>)
    BY <1>5 DEF FreshInv, ClaimInv
<1>7. /\ ~EvaluatorFailed(Baseline(t), Taught(t))
      /\ Classify(Baseline(t), Taught(t)) = c.classification
    BY <1>4, <1>5, <1>6 DEF ClaimOf
<1>8. Predicts(Baseline(t), Taught(t))
    BY <1>4, <1>5 DEF Predicted
<1>9. Classify(Baseline(t), Taught(t)) = "gain"
    BY <1>3, <1>5, <1>7 DEF Classify, Outcome
<1> QED
    BY <1>6, <1>7, <1>8, <1>9 DEF Claimable

\* An anomaly of one arm shows in that arm, but for the two kinds that only show
\* in what the arms of a pair share.
LEMMA OddArm ==
    ASSUME NEW p, p[2] \in {"baseline", "taught"}, anomaly.plan = p,
           ArmIsComplete(ArmOf(p)),
           ArmOf(p).effect = IF p[2] = "taught" THEN "shown" ELSE "absent"
    PROVE  anomaly.kind \notin Oddities \ {"identity", "parent"}
<1> DEFINE arm == ArmOf(p)
           taught == p[2] = "taught"
<1>1. Candidate # NoCandidate
    BY FreshAssumption
<1>2. /\ arm.traced = arm.lineage /\ Same(arm.parent) /\ Same(arm.predicted)
      /\ arm.effect = IF taught THEN "shown" ELSE "absent"
      /\ IF taught THEN arm.lineage = Candidate /\ "candidate" \in arm.prompt
                   ELSE arm.lineage = NoCandidate /\ "candidate" \notin arm.prompt
    <2>1. arm.arm = p[2]
        BY DEF ArmOf
    <2> QED
        BY <2>1 DEF ArmIsComplete, BaselinePrompt, TaughtPrompt
<1>3. anomaly.kind # "lineage"
    <2>1. arm.lineage = IF taught # Odd(p, "lineage") THEN Candidate ELSE NoCandidate
        BY DEF ArmOf
    <2> HIDE DEF arm
    <2> QED
        BY <1>1, <1>2, <2>1 DEF Odd
<1>4. anomaly.kind # "trace"
    <2>1. arm.traced = IF taught # (Odd(p, "lineage") \/ Odd(p, "trace"))
                       THEN Candidate ELSE NoCandidate
        BY DEF ArmOf
    <2> HIDE DEF arm
    <2> QED
        BY <1>1, <1>2, <1>3, <2>1 DEF Odd
<1>5. anomaly.kind # "prompt"
    <2>1. arm.prompt = (IF taught # Odd(p, "prompt") THEN {"candidate"} ELSE {})
                          \cup (IF taught THEN {} ELSE {"parent"})
        BY DEF ArmOf
    <2> HIDE DEF arm
    <2> QED
        BY <1>2, <2>1 DEF Odd
<1>6. anomaly.kind # "effect"
    <2>1. arm.effect = IF p \notin traces THEN "unobserved"
                       ELSE IF taught # Odd(p, "effect") THEN "shown" ELSE "absent"
        BY DEF ArmOf
    <2> HIDE DEF arm
    <2> QED
        BY <1>2, <2>1 DEF Odd
<1>7. anomaly.kind # "prediction"
    <2>1. arm.predicted = [s \in Sources |->
                             IF s = "native" /\ Odd(p, "prediction") THEN "other" ELSE "own"]
        BY DEF ArmOf
    <2> HIDE DEF arm
    <2> QED
        BY <1>2, <2>1 DEF Odd, Same, Sources
<1> QED
    BY <1>3, <1>4, <1>5, <1>6, <1>7 DEF Oddities

\* Each kind of anomaly breaks what the pair of its task shows.
LEMMA AnomalyShows ==
    ASSUME NEW t, Matched(Baseline(t), Taught(t)), Predicts(Baseline(t), Taught(t)),
           anomaly.plan \in {<<t, "baseline">>, <<t, "taught">>}
    PROVE  anomaly.kind \notin Oddities
<1> DEFINE b == <<t, "baseline">>
           g == <<t, "taught">>
<1>1. /\ ArmIsComplete(ArmOf(b)) /\ ArmIsComplete(ArmOf(g))
      /\ ArmOf(b).effect = "absent" /\ ArmOf(g).effect = "shown"
      /\ ArmOf(b).identity = ArmOf(g).identity
      /\ ArmOf(b).parent = ArmOf(g).parent
    BY DEF Matched, Aligned, Predicts, Baseline, Taught
<1>2. b[2] = "baseline" /\ g[2] = "taught" /\ b # g
    OBVIOUS
<1>3. anomaly.kind \notin Oddities \ {"identity", "parent"}
    BY <1>1, <1>2, OddArm
<1>4. anomaly.kind # "identity"
    <2>1. \A p \in {b, g} : ArmOf(p).identity = IF Odd(p, "identity") THEN "other" ELSE "own"
        BY DEF ArmOf
    <2> QED
        BY <1>1, <1>2, <2>1 DEF Odd
<1>5. anomaly.kind # "parent"
    <2>1. \A p \in {b, g} : ArmOf(p).parent =
                             [s \in Sources |-> IF Odd(p, "parent") THEN "other" ELSE "harness"]
        BY DEF ArmOf
    <2>2. \A p \in {b, g} : ArmOf(p).parent["model"] =
                             IF Odd(p, "parent") THEN "other" ELSE "harness"
        BY <2>1 DEF Sources
    <2> QED
        BY <1>1, <1>2, <2>2 DEF Odd
<1> QED
    BY <1>3, <1>4, <1>5

LEMMA ApprovedIsEarned ==
    ASSUME FreshInv, pc = "project", Decision.gate = "approved"
    PROVE  Earned
<1>1. Unclaimed = {} /\ EvidenceComplete /\ setup.authority
    BY DEF FreshInv, EvidencePlaceInv, DecisionPlaceInv, Claiming, Recording, Deciding,
           Projecting
<1>2. \A t \in Tasks :
        /\ Matched(Baseline(t), Taught(t)) /\ Predicts(Baseline(t), Taught(t))
        /\ Classify(Baseline(t), Taught(t)) = "gain"
        /\ Evaluated(<<t, "baseline">>) /\ Evaluated(<<t, "taught">>)
    BY <1>1, PairIsEarned
<1>3. ASSUME NEW t \in Tasks
      PROVE  /\ receipts[<<t, "baseline">>].outcome = "unresolved"
             /\ receipts[<<t, "taught">>].outcome = "resolved"
             /\ {<<t, "baseline">>, <<t, "taught">>} \subseteq traces
    <2> DEFINE b == <<t, "baseline">>
               g == <<t, "taught">>
    <2>1. b \in Plans /\ g \in Plans
        BY DEF Plans, ArmNames
    <2>2. receipts[b] \in Outcomes /\ receipts[g] \in Outcomes
          /\ receipts[b].outcome # "interrupted" /\ receipts[g].outcome # "interrupted"
        BY <1>2, <2>1 DEF FreshInv, ReceiptInv, Evaluated, Ran
    <2>3. /\ Baseline(t).error = (receipts[b].outcome = "error")
          /\ Taught(t).error = (receipts[g].outcome = "error")
          /\ Baseline(t).resolved = (receipts[b].outcome = "resolved")
          /\ Taught(t).resolved = (receipts[g].outcome = "resolved")
        BY DEF Baseline, Taught, ArmOf
    <2>4. /\ ~Baseline(t).error /\ ~Taught(t).error
          /\ ~Baseline(t).resolved /\ Taught(t).resolved
        <3> DEFINE base == Baseline(t)
                   arm == Taught(t)
        <3>1. /\ Classify(base, arm) = "gain" /\ base.error \in BOOLEAN /\ arm.error \in BOOLEAN
              /\ base.resolved \in BOOLEAN /\ arm.resolved \in BOOLEAN
            BY <1>2, <2>3
        <3> HIDE DEF base, arm
        <3>2. ~EvaluatorFailed(base, arm) /\ Outcome(base, arm) = "gain"
            BY <3>1 DEF Classify
        <3>3. ~base.error /\ ~arm.error
            BY <3>2 DEF EvaluatorFailed
        <3>4. ~base.resolved /\ arm.resolved
            BY <3>2 DEF Outcome
        <3> QED
            BY <3>3, <3>4, Zenon DEF base, arm
    <2>5. b \in traces /\ g \in traces
        <3>1. ArmOf(b).effect # "unobserved" /\ ArmOf(g).effect # "unobserved"
            BY <1>2 DEF Predicts, Baseline, Taught
        <3>2. \A p : p \notin traces => ArmOf(p).effect = "unobserved"
            BY DEF ArmOf
        <3> QED
            BY <3>1, <3>2
    <2>6. receipts[b].outcome = "unresolved" /\ receipts[g].outcome = "resolved"
        <3>1. \A r \in Outcomes : r.outcome \in {"resolved", "unresolved", "error", "interrupted"}
            BY DEF Outcomes
        <3>2. receipts[g].outcome = "resolved"
            BY <2>3, <2>4
        <3>3. receipts[b].outcome \notin {"resolved", "error", "interrupted"}
            BY <2>2, <2>3, <2>4
        <3> QED
            BY <2>2, <3>1, <3>2, <3>3
    <2> QED
        BY <2>5, <2>6, Zenon
<1>4. Gate(claims, GradeNow, setup.approval) = "approved"
    BY DEF Decision
<1>5. setup.approval \in BOOLEAN
    BY FreshAssumption DEF FreshInv, ConfigInv
<1>6. setup.approval /\ GradeNow = "E3"
    BY <1>4, <1>5, GateApproves
<1>7. Cardinality(Projects(claims)) >= 2
    BY <1>6, GradeIsEarned DEF GradeNow
<1>8. Projects(claims) = {ProjectOf[setup.projects][t] : t \in Tasks}
    <2>1. \A t \in Tasks : \E c \in claims : c.task = t
        BY <1>1 DEF Unclaimed, Tasks
    <2>2. \A c \in claims : c.task \in Tasks
        BY DEF FreshInv, ClaimInv
    <2> QED
        BY <2>1, <2>2 DEF Projects
<1>9. setup.issuer
    <2>1. \E t : t \in Tasks
        BY FreshAssumption DEF Tasks
    <2>2. traces # {}
        BY <1>3, <2>1
    <2> QED
        BY <2>2 DEF FreshInv, ReceiptInv
<1>10. anomaly.kind = "none"
    <2>1. anomaly.plan \in Plans /\ anomaly.kind \in {"none"} \cup Oddities
        BY FreshAssumption DEF FreshInv, ConfigInv
    <2>2. PICK t \in Tasks : anomaly.plan \in {<<t, "baseline">>, <<t, "taught">>}
        BY <2>1 DEF Plans, ArmNames
    <2>3. anomaly.kind \notin Oddities
        BY <1>2, <2>2, AnomalyShows
    <2> QED
        BY <2>1, <2>3
<1> QED
    BY <1>1, <1>3, <1>6, <1>7, <1>8, <1>9, <1>10 DEF Earned

\* What was earned stays so: the receipts are frozen and observations only grow.
LEMMA EarnedStays ==
    ASSUME Earned, UNCHANGED <<setup, anomaly, receipts>>, traces \subseteq traces'
    PROVE  Earned'
BY DEF Earned

LEMMA CapabilityStep ==
    ASSUME FreshInv, Next \/ UNCHANGED vars
    PROVE  CapabilityIsEarned'
<1>1. CapabilityIsEarned <=> (capability # {} => Earned)
    BY DEF CapabilityIsEarned, Earned
<1>2. CapabilityIsEarned' <=> (capability' # {} => Earned')
    BY DEF CapabilityIsEarned, Earned
<1>3. CASE Execute
    BY <1>3, <1>2, ExecuteIsFirst, ExecuteFrame
<1>4. CASE Observe \/ MakeClaim
    BY <1>4, <1>1, <1>2, ObserveFrame, MakeClaimFrame, EarnedStays DEF FreshInv
<1>5. CASE Quiet
    <2>1. \/ capability' = capability
          \/ pc = "project" /\ Decision.gate = "approved"
        BY <1>5 DEF Quiet, Launch, FreezeArtifacts, ReserveTeacher, ChargeTeacher, OpenCampaign,
                    Isolate, RecordCandidate, Decide, Project, WriteReport, WriteResult, Seal,
                    Kill, CutShort, Raise, Go, Refuse, saved, vars
    <2>2. capability' # {} => Earned
        BY <1>1, <2>1, ApprovedIsEarned DEF FreshInv
    <2> QED
        BY <1>2, <1>5, <2>2, QuietFrame, EarnedStays
<1> QED
    BY <1>3, <1>4, <1>5 DEF Next, Step, Work, Quiet

-----------------------------------------------------------------------------
(* The places.                                                             *)

LEMMA EvidencePlaceStep ==
    ASSUME FreshInv, Next \/ UNCHANGED vars
    PROVE  EvidencePlaceInv'
<1> USE DEF Observing, Claiming, Recording, Deciding, Projecting, Ending
<1>1. CASE Quiet
    <2>1. UNCHANGED <<setup, anomaly, receipts, traces, claims>>
        BY <1>1, QuietFrame
    <2>2. Pending' = Pending /\ EvidenceComplete' = EvidenceComplete /\ Unclaimed' = Unclaimed
        BY <2>1, SameArms, SameDecision
    <2>3. CASE Launch \/ FreezeArtifacts \/ ReserveTeacher \/ ChargeTeacher \/ OpenCampaign
               \/ Kill \/ CutShort \/ Raise \/ Seal
        <3>1. pc' \in {"down", "freeze", "reserve", "charge", "campaign", "execute"}
            BY <2>3 DEF Launch, FreezeArtifacts, ReserveTeacher, ChargeTeacher, OpenCampaign,
                        Kill, CutShort, Raise, Seal, Go, Refuse
        <3> QED
            BY <3>1 DEF EvidencePlaceInv
    <2>4. CASE Isolate
        <3>1. /\ Pending = {} /\ (pc' = "observe" => setup.issuer)
              /\ pc' \in {"observe", "down"} \/ (pc' = "claim" /\ ~setup.issuer)
            BY <2>4 DEF Isolate, Go, Refuse
        <3> QED
            BY <3>1, <2>1, <2>2 DEF EvidencePlaceInv, EvidenceComplete
    <2>5. CASE RecordCandidate \/ Decide \/ Project \/ WriteReport \/ WriteResult
        <3>1. pc \in Recording /\ pc' \in Recording \cup {"down"}
            BY <2>5 DEF RecordCandidate, Decide, Project, WriteReport, WriteResult, Go, Refuse
        <3>2. Pending = {} /\ EvidenceComplete /\ Unclaimed = {}
            BY <3>1 DEF FreshInv, EvidencePlaceInv
        <3> QED
            BY <3>1, <3>2, <2>2 DEF EvidencePlaceInv
    <2>6. CASE UNCHANGED vars
        BY <2>6, <2>2 DEF vars, FreshInv, EvidencePlaceInv
    <2> QED
        BY <2>3, <2>4, <2>5, <2>6, <1>1 DEF Quiet
<1>2. CASE Execute
    BY <1>2, ExecuteIsFirst DEF EvidencePlaceInv
<1>3. CASE Observe
    <2>1. Pending' = Pending
        BY <1>3, ObserveFrame DEF Pending, Ran
    <2>2. Pending = {} /\ setup.issuer
        BY <1>3, ObserveFrame DEF FreshInv, EvidencePlaceInv
    <2>3. pc' = "claim" => Plans \subseteq traces'
        BY <1>3, ObserveFrame
    <2>4. (Plans \subseteq traces)' <=> Plans \subseteq traces'
        OBVIOUS
    <2> QED
        BY <2>1, <2>2, <2>3, <1>3, ObserveFrame DEF EvidencePlaceInv, EvidenceComplete
<1>4. CASE MakeClaim
    <2>1. UNCHANGED <<setup, anomaly, receipts, traces>> /\ pc' \in {"claim", "candidate", "down"}
        BY <1>4, MakeClaimFrame
    <2>2. Pending' = Pending /\ EvidenceComplete' = EvidenceComplete
        BY <2>1, SameArms
    <2>3. Pending = {} /\ EvidenceComplete
        BY <1>4, MakeClaimFrame DEF FreshInv, EvidencePlaceInv
    <2>4. pc' = "candidate" => Unclaimed' = {}
        BY <1>4, MakeClaimFrame, <2>1, SameDecision
    <2> QED
        BY <2>1, <2>2, <2>3, <2>4 DEF EvidencePlaceInv
<1> QED
    BY <1>1, <1>2, <1>3, <1>4 DEF Next, Step, Work, Quiet

LEMMA RegistryStep ==
    ASSUME FreshInv, Next \/ UNCHANGED vars
    PROVE  RegistryInv'
<1>1. \/ UNCHANGED <<capability, rejected>>
      \/ /\ capability' = capability \/ (Decision.gate = "approved"
                                         /\ capability' = capability \cup {Decision})
         /\ rejected' = rejected \/ (Decision.gate = "rejected"
                                     /\ rejected' = rejected \cup {Decision})
    <2>1. CASE Quiet
        BY <2>1 DEF Quiet, Launch, FreezeArtifacts, ReserveTeacher, ChargeTeacher, OpenCampaign,
                    Isolate, RecordCandidate, Decide, Project, WriteReport, WriteResult, Seal,
                    Kill, CutShort, Raise, Go, Refuse, saved, vars
    <2>2. CASE Execute \/ Observe \/ MakeClaim
        BY <2>2, ExecuteFrame, ObserveFrame, MakeClaimFrame
    <2> QED
        BY <2>1, <2>2 DEF Next, Step, Work, Quiet
<1> QED
    BY <1>1 DEF FreshInv, RegistryInv

\* At its projection a decision enters the registry of its gate, and no other.
LEMMA ProjectProjects ==
    ASSUME FreshInv, Project
    PROVE  Projected(Decision)'
<1>1. pc = "project" /\ UNCHANGED <<setup, anomaly, receipts, traces, claims>>
    BY QuietFrame DEF Quiet, Project
<1>2. Decision' = Decision
    BY <1>1, SameDecision
<1>3. Decision \in decisions /\ Decision.claims = candidate
    BY <1>1 DEF FreshInv, DecisionPlaceInv, Projecting, Deciding, Ending, Decision
<1>4. Decision.gate = "approved" => Decision.grade = "E3"
    <2>1. Decision.gate = Gate(claims, GradeNow, setup.approval) /\ Decision.grade = GradeNow
        BY DEF Decision
    <2>2. setup.approval \in BOOLEAN
        BY FreshAssumption DEF FreshInv, ConfigInv
    <2> QED
        BY <2>1, <2>2, GateApproves
<1>5. /\ capability' = IF Decision.gate = "approved" THEN capability \cup {Decision}
                       ELSE capability
      /\ rejected' = IF Decision.gate = "rejected" THEN rejected \cup {Decision}
                     ELSE rejected
    BY <1>3, <1>4 DEF Project
<1>6. /\ Decision \in capability => Decision.gate = "approved"
      /\ Decision \in rejected => Decision.gate = "rejected"
    BY DEF FreshInv, RegistryInv
<1> QED
    BY <1>2, <1>5, <1>6 DEF Projected

LEMMA DecisionPlaceStep ==
    ASSUME FreshInv, Next \/ UNCHANGED vars
    PROVE  DecisionPlaceInv'
<1> USE DEF Deciding, Projecting, Ending
<1>1. CASE Launch \/ FreezeArtifacts \/ ReserveTeacher \/ ChargeTeacher
    BY <1>1 DEF FreshInv, DecisionPlaceInv, Launch, FreezeArtifacts, ReserveTeacher,
                ChargeTeacher, Go, Refuse, saved
<1>2. CASE OpenCampaign \/ Isolate
    <2>1. pc \in {"campaign", "execute"} /\ UNCHANGED <<teacher, result>>
          /\ pc' \in {"execute", "observe", "claim", "down"}
        BY <1>2 DEF OpenCampaign, Isolate, Go, Refuse, saved
    <2> QED
        BY <2>1 DEF FreshInv, DecisionPlaceInv
<1>3. CASE Execute
    BY <1>3, ExecuteIsFirst, ExecuteFrame DEF Execute, FreshInv, DecisionPlaceInv
<1>4. CASE Observe \/ MakeClaim
    BY <1>4, ObserveFrame, MakeClaimFrame DEF FreshInv, DecisionPlaceInv
<1>5. CASE RecordCandidate
    BY <1>5 DEF FreshInv, DecisionPlaceInv, RecordCandidate, Go
<1>6. CASE Decide
    <2>1. Decision' = Decision
        BY <1>6, QuietFrame, SameDecision DEF Quiet
    <2> QED
        BY <1>6, <2>1 DEF FreshInv, DecisionPlaceInv, Decide, Go, Refuse, saved
<1>7. CASE Project
    <2>1. Decision' = Decision /\ Projected(Decision)'
        BY <1>7, QuietFrame, SameDecision, ProjectProjects DEF Quiet
    <2>2. pc = "project" /\ pc' = "report"
          /\ UNCHANGED <<setup, teacher, claims, candidate, decisions, result>>
        BY <1>7 DEF Project, Go
    <2> QED
        BY <2>1, <2>2 DEF FreshInv, DecisionPlaceInv
<1>8. CASE WriteReport \/ WriteResult
    <2>1. Decision' = Decision
        BY <1>8, QuietFrame, SameDecision DEF Quiet
    <2>2. Projected(Decision)
        BY <1>8 DEF FreshInv, DecisionPlaceInv, WriteReport, WriteResult
    <2>3. /\ pc \in {"report", "result"} /\ pc' \in {"result", "seal"}
          /\ UNCHANGED <<setup, teacher, claims, candidate, decisions, capability, rejected>>
        BY <1>8 DEF WriteReport, WriteResult, Go
    <2>4. Projected(Decision)'
        BY <2>1, <2>2, <2>3 DEF Projected
    <2>5. /\ pc' = "seal" => result' = {Summary(Decision)}'
          /\ pc' # "seal" => result' = result
        BY <1>8, <2>1 DEF WriteReport, WriteResult, Go, Summary
    <2> QED
        BY <2>1, <2>3, <2>4, <2>5 DEF FreshInv, DecisionPlaceInv
<1>9. CASE Seal \/ Kill \/ CutShort \/ Raise
    BY <1>9 DEF DecisionPlaceInv, Seal, Kill, CutShort, Raise, Refuse
<1>10. CASE UNCHANGED vars
    <2>1. Decision' = Decision /\ UNCHANGED vars
        BY <1>10, SameDecision DEF vars, saved
    <2>2. Projected(Decision)' <=> Projected(Decision)
        BY <2>1 DEF vars, saved, Projected
    <2>3. Summary(Decision)' = Summary(Decision)
        BY <2>1 DEF vars, saved, Summary
    <2> QED
        BY <2>1, <2>2, <2>3 DEF vars, saved, FreshInv, DecisionPlaceInv
<1> QED
    BY <1>1, <1>2, <1>3, <1>4, <1>5, <1>6, <1>7, <1>8, <1>9, <1>10 DEF Next, Step, Work

\* What a sealed directory holds.
Complete ==
    /\ Unclaimed = {} /\ teacher = "charged"
    /\ \E d \in decisions : result = {Summary(d)} /\ Projected(d)

LEMMA SealStep ==
    ASSUME FreshInv, Next \/ UNCHANGED vars
    PROVE  SealInv'
<1>1. SealedIsComplete <=> /\ reported \in {"returned", "replayed"} => manifest = "sealed"
                           /\ manifest = "sealed" => Complete
    BY DEF SealedIsComplete, Complete, Projected, Summary
<1>2. SealedIsComplete' <=> /\ reported' \in {"returned", "replayed"} => manifest' = "sealed"
                            /\ manifest' = "sealed" => Complete'
    BY DEF SealedIsComplete, Complete, Projected, Summary
<1>3. /\ manifest = "sealed" => pc = "down" /\ result # {} /\ Complete
      /\ reported \in {"returned", "replayed"} => manifest = "sealed"
    BY <1>1 DEF FreshInv, SealInv
<1>4. ASSUME UNCHANGED saved PROVE Complete' <=> Complete
    <2>1. Unclaimed' = Unclaimed
        BY <1>4 DEF saved, Unclaimed
    <2> QED
        BY <1>4, <2>1 DEF saved, Complete, Projected, Summary
<1>5. CASE Launch \/ Raise
    <2>1. UNCHANGED saved /\ (manifest = "sealed" => pc' = "down")
          /\ (reported' = reported \/ reported' = "refused"
                \/ (reported' = "replayed" /\ manifest = "sealed"))
        BY <1>5, <1>3 DEF Launch, Raise, Go, Refuse
    <2> QED
        BY <2>1, <1>2, <1>3, <1>4 DEF SealInv, saved
<1>6. CASE Seal
    <2>1. pc = "seal" /\ UNCHANGED <<teacher, campaign, claims, decisions, capability, rejected,
                                     result>>
          /\ pc' = "down" /\ manifest' = "sealed"
        BY <1>6 DEF Seal
    <2>2. Unclaimed' = Unclaimed
        BY <2>1 DEF Unclaimed
    <2>3. Unclaimed = {} /\ teacher = "charged"
          /\ Decision \in decisions /\ result = {Summary(Decision)} /\ Projected(Decision)
        BY <2>1 DEF FreshInv, EvidencePlaceInv, DecisionPlaceInv, Recording, Deciding,
                    Projecting, Ending
    <2>4. Complete
        BY <2>3 DEF Complete
    <2>5. Complete' /\ result' # {}
        BY <2>1, <2>2, <2>3, <2>4 DEF Complete, Projected, Summary
    <2> QED
        BY <2>1, <2>5, <1>2 DEF SealInv
<1>7. CASE UNCHANGED vars
    BY <1>7, <1>2, <1>3, <1>4 DEF vars, saved, SealInv
<1>8. CASE Next /\ ~Launch /\ ~Seal /\ ~Raise
    <2>1. pc # "down" /\ manifest' \in {manifest, "report"}
          /\ reported' \in {reported, "refused", "killed"}
        <3>1. CASE FreezeArtifacts \/ ReserveTeacher \/ ChargeTeacher \/ OpenCampaign \/ Isolate
            BY <3>1 DEF FreezeArtifacts, ReserveTeacher, ChargeTeacher, OpenCampaign, Isolate,
                        Go, Refuse, saved
        <3>2. CASE RecordCandidate \/ Decide \/ Project \/ WriteReport \/ WriteResult \/ Kill
                   \/ CutShort
            BY <3>2 DEF RecordCandidate, Decide, Project, WriteReport, WriteResult, Kill,
                        CutShort, Appends, Go, Refuse, saved
        <3>3. CASE Execute \/ Observe \/ MakeClaim
            <4>1. pc # "down" /\ manifest' = manifest
                BY <3>3, ExecuteFrame, ObserveFrame, MakeClaimFrame DEF Execute
            <4>2. reported' \in {reported, "refused"}
                BY <3>3 DEF Execute, Observe, MakeClaim, Go, Refuse
            <4> QED
                BY <4>1, <4>2
        <3> QED
            BY <3>1, <3>2, <3>3, <1>8 DEF Next, Step, Work
    <2> QED
        BY <2>1, <1>2, <1>3 DEF SealInv
<1> QED
    BY <1>5, <1>6, <1>7, <1>8

LEMMA FreshStep == FreshInv /\ (Next \/ UNCHANGED vars) => FreshInv'
BY EvidenceStep, ReceiptStep, CapabilityStep, EvidencePlaceStep, RegistryStep,
   DecisionPlaceStep, SealStep DEF FreshInv

LEMMA FreshRound == CommandSpec => []FreshInv
<1>1. StartCommand => FreshInv
    BY FreshInit DEF StartCommand
<1>2. FreshInv /\ [Proceed]_commands => FreshInv'
    <2>1. [Proceed]_commands => Next \/ UNCHANGED vars
        BY DEF Proceed, FreshGoes, AgentGoes, Stops, Next, commands
    <2> QED
        BY <2>1, FreshStep
<1> QED
    BY <1>1, <1>2, PTL DEF CommandSpec

\* A capability that run_fresh_feedback_e2e projected was approved and signed, in two
\* projects, on receipts in which the taught arm of every task resolved what the baseline
\* did not, each with its trusted observation, and no arm recorded what it should not.
THEOREM CapabilitiesAreEarned == CommandSpec => []CapabilityIsEarned
<1>1. FreshInv => CapabilityIsEarned
    BY DEF FreshInv
<1> QED
    BY <1>1, FreshRound, PTL

\* A claim that the round graded says what the receipts of its two arms say; one of
\* grade E2 stands on a pair that differs in the candidate and in nothing else.
THEOREM ClaimsSayTheReceipts == CommandSpec => []ClaimsAreCausal
<1>1. ASSUME FreshInv, NEW c \in claims
      PROVE  LET b == Baseline(c.task)
                 t == Taught(c.task)
             IN /\ (c.classification = "gain") =
                      (~b.error /\ ~t.error /\ t.resolved /\ ~b.resolved)
                /\ (c.classification = "regression") =
                      (~b.error /\ ~t.error /\ b.resolved /\ ~t.resolved)
                /\ c.grade = "E2" =>
                     /\ "candidate" \in t.prompt /\ "candidate" \notin b.prompt
                     /\ b.traced = NoCandidate /\ t.traced = Candidate
                     /\ b.identity = t.identity /\ b.parent = t.parent
                     /\ \A arm \in {b, t} : arm.predicted["native"] = arm.predicted["model"]
    <2> DEFINE b == Baseline(c.task)
               t == Taught(c.task)
    <2>1. Claimable(b, t) /\ c = ClaimOf(c.task, b, t)
        BY <1>1 DEF ClaimInv, FreshInv
    <2>2. c.classification = Classify(b, t) /\ (c.grade = "E2" => ~EvaluatorFailed(b, t))
        BY <2>1 DEF ClaimOf
    <2>3. (c.classification = "gain") = (~b.error /\ ~t.error /\ t.resolved /\ ~b.resolved)
          /\ (c.classification = "regression")
                = (~b.error /\ ~t.error /\ b.resolved /\ ~t.resolved)
        BY <2>2 DEF Classify, Outcome, EvaluatorFailed
    <2>4. ASSUME c.grade = "E2"
          PROVE  /\ "candidate" \in t.prompt /\ "candidate" \notin b.prompt
                 /\ b.traced = NoCandidate /\ t.traced = Candidate
                 /\ b.identity = t.identity /\ b.parent = t.parent
                 /\ Same(b.predicted) /\ Same(t.predicted)
        BY <2>1, <2>2, <2>4 DEF Claimable, Matched, Aligned, ArmIsComplete, BaselinePrompt,
                                TaughtPrompt
    <2>5. \A p : DOMAIN ArmOf(p).predicted = Sources
        BY DEF ArmOf
    <2>6. Same(b.predicted) => b.predicted["native"] = b.predicted["model"]
        BY <2>5 DEF Same, Sources, Baseline
    <2>7. Same(t.predicted) => t.predicted["native"] = t.predicted["model"]
        BY <2>5 DEF Same, Sources, Taught
    <2> QED
        BY <2>3, <2>4, <2>6, <2>7
<1>2. FreshInv => ClaimsAreCausal
    BY <1>1 DEF ClaimsAreCausal
<1> QED
    BY <1>2, FreshRound, PTL

\* _sealed_replay answers from a sealed directory only, and one is complete: claims for
\* every task, the Teacher's cost, the decision, its projection and the result.
THEOREM SealedRunsAreComplete == CommandSpec => []SealedIsComplete
<1>1. FreshInv => SealedIsComplete
    BY DEF FreshInv, SealInv
<1> QED
    BY <1>1, FreshRound, PTL

-----------------------------------------------------------------------------
(* Finite sets of numbers.                                                 *)

\* A finite set has an element of the highest score: the elements above another are
\* fewer than those above that one.
LEMMA MaximumExists ==
    ASSUME NEW S, IsFiniteSet(S), S # {}, NEW score, \A r \in S : score[r] \in Int
    PROVE  \E r \in S : \A other \in S : score[other] <= score[r]
<1> DEFINE Above(r) == {other \in S : score[other] > score[r]}
           T == {Above(r) : r \in S}
<1>1. T \subseteq FiniteSubsetsOf(S) /\ T # {}
    <2>1. ASSUME NEW r \in S PROVE Above(r) \subseteq S /\ IsFiniteSet(Above(r))
        BY FS_Subset
    <2> QED
        BY <2>1 DEF FiniteSubsetsOf
<1>2. PICK least \in T : \A t \in T : <<t, least>> \notin StrictSubsetOrdering(S)
    BY <1>1, FS_StrictSubsetOrderingWellFounded, WFMin
<1>3. PICK r \in S : least = Above(r)
    BY <1>2
<1>4. ASSUME NEW other \in S, score[other] > score[r] PROVE FALSE
    <2>1. Above(other) \subseteq Above(r) /\ other \in Above(r) /\ other \notin Above(other)
        BY <1>4
    <2>2. <<Above(other), Above(r)>> \in StrictSubsetOrdering(S)
        BY <2>1 DEF StrictSubsetOrdering
    <2> QED
        BY <1>2, <1>3, <2>2
<1> QED
    BY <1>4

LEMMA LeastExists ==
    ASSUME NEW S \in SUBSET Nat, IsFiniteSet(S), S # {}
    PROVE  Agent!Least(S) \in S /\ \A other \in S : Agent!Least(S) <= other
<1> DEFINE score == [r \in S |-> -r]
<1>1. PICK r \in S : \A other \in S : score[other] <= score[r]
    <2>1. \A r \in S : score[r] \in Int
        OBVIOUS
    <2> HIDE DEF score
    <2> QED
        BY <2>1, MaximumExists
<1>2. \A other \in S : r <= other
    BY <1>1
<1> QED
    BY <1>2 DEF Agent!Least

-----------------------------------------------------------------------------
(* The AgentProgram campaign.  From the last terminal receipt on the       *)
(* scores are frozen, and the search parent is what they select.           *)

Revisions == Agent!Participants
Finished == Revisions \subseteq ended

\* The places of the command after its executions.
Selecting == {"select", "report", "seal"}

ScoreInv ==
    /\ native \in [Revisions -> Int \cup {NotRun}]
    /\ ended \subseteq Revisions /\ observed \subseteq Revisions
    /\ \A r \in ended : native[r] # NotRun
    /\ Finished => agentCampaign = "completed"
    /\ agentClaims \subseteq observed

SelectionInv ==
    /\ place \in {"claim"} \cup Selecting => Finished
    /\ place \in Selecting /\ profile = "live" => Revisions \subseteq observed
    /\ place \in {"report", "seal"} => parents # <<>>
    /\ parents # <<>> =>
         /\ Finished /\ parents = <<Agent!Selected>>
         /\ profile = "live" => Revisions \subseteq observed
    /\ agentResult # <<>> =>
         /\ parents # <<>> /\ agentResult[1].selected = parents[1]
         /\ agentResult[1].scores = native

AgentInv == ScoreInv /\ SelectionInv

LEMMA AgentConstants ==
    /\ Revisions \subseteq Nat /\ IsFiniteSet(Revisions) /\ Parent \in Revisions
    /\ NotRun \notin Int
    /\ \A score \in Agent!Scores : score \in Int
<1>1. /\ Candidates \subseteq Nat /\ Parent \in Nat /\ Agent!IsFiniteSet(Candidates)
      /\ NotRun \notin Int /\ FixtureScores \subseteq Int
    BY CommandsAssumption DEF Agent!AgentCampaignAssumption
<1>2. IsFiniteSet(Candidates)
    BY <1>1 DEF IsFiniteSet, Agent!IsFiniteSet
<1>3. Revisions = Candidates \cup {Parent}
    BY DEF Revisions, Agent!Participants
<1>4. IsFiniteSet(Revisions)
    BY <1>2, <1>3, FS_AddElement
<1>5. \A score \in Agent!Scores : score \in Int
    BY <1>1 DEF Agent!Scores, Agent!Weight
<1> QED
    BY <1>1, <1>3, <1>4, <1>5

LEMMA NextPlanWaits ==
    ASSUME Agent!Waiting # {}
    PROVE  Agent!NextPlan \in Revisions \ ended
<1>1. Agent!Waiting = Revisions \ ended
    BY DEF Agent!Waiting, Revisions
<1>2. Agent!Waiting \in SUBSET Nat /\ IsFiniteSet(Agent!Waiting)
    BY <1>1, AgentConstants, FS_Subset
<1>3. Agent!Least(Agent!Waiting) \in Agent!Waiting
    BY <1>2, LeastExists
<1> QED
    BY <1>1, <1>3 DEF Agent!NextPlan

LEMMA AgentInit == Agent!Init => AgentInv
<1> SUFFICES ASSUME Agent!Init PROVE AgentInv
    OBVIOUS
<1>1. Parent \in Revisions
    BY AgentConstants
<1>2. ScoreInv
    BY <1>1 DEF Agent!Init, ScoreInv, Finished, Revisions
<1>3. SelectionInv
    BY DEF Agent!Init, SelectionInv, Selecting
<1> QED
    BY <1>2, <1>3 DEF AgentInv

\* What a step may do to the executions: end the next plan, leave it with a score but
\* without a terminal receipt, or raise.
LEMMA ScoreMoves ==
    ASSUME AgentInv, Agent!Next
    PROVE  /\ \/ UNCHANGED <<native, ended, observed>>
              \/ /\ ~Finished /\ place = "execute"
                 /\ place' \in {"execute", "down"}
                 /\ \/ native' = native
                    \/ \E score \in Agent!Scores :
                         native' = [native EXCEPT ![Agent!NextPlan] = score]
                 /\ observed' \in {observed, observed \cup {Agent!NextPlan}}
                 /\ \/ ended' = ended
                    \/ /\ ended' = ended \cup {Agent!NextPlan}
                       /\ \/ native[Agent!NextPlan] # NotRun /\ native' = native
                          \/ \E score \in Agent!Scores :
                               native' = [native EXCEPT ![Agent!NextPlan] = score]
           /\ \/ agentCampaign' = agentCampaign
                 /\ (ended' = ended \/ Agent!Waiting # {Agent!NextPlan})
              \/ agentCampaign' = "completed"
              \/ ended' = ended /\ ~Finished
<1>1. ~Finished <=> Agent!Waiting # {}
    BY DEF Finished, Agent!Waiting, Revisions
<1>2. CASE Agent!Launch \/ Agent!FirstPass \/ Agent!Claim
    BY <1>2 DEF Agent!Launch, Agent!FirstPass, Agent!Claim, Agent!Go, Agent!Leave,
                Agent!Refuse, Agent!saved
<1>3. CASE Agent!Select \/ Agent!WriteResult \/ Agent!Seal \/ Agent!Replay
    BY <1>3 DEF Agent!Select, Agent!WriteResult, Agent!Seal, Agent!Replay, Agent!Go,
                Agent!Leave, Agent!Refuse, Agent!saved
<1>4. CASE Agent!Register
    <2>1. agentCampaign' = agentCampaign \/ agentCampaign = "none"
        BY <1>4 DEF Agent!Register
    <2>2. agentCampaign = "none" => ~Finished
        BY DEF AgentInv, ScoreInv
    <2> QED
        BY <1>4, <2>1, <2>2 DEF Agent!Register
<1>5. CASE Agent!Execute
    <2>1. /\ ~Finished /\ place = "execute" /\ place' = "execute"
          /\ ended' = ended \cup {Agent!NextPlan}
          /\ agentCampaign' = IF Agent!Waiting = {Agent!NextPlan} THEN "completed"
                              ELSE agentCampaign
        BY <1>5, <1>1 DEF Agent!Execute, Agent!Go
    <2>2. CASE native[Agent!NextPlan] = NotRun
        <3>1. PICK score \in Agent!Scores :
                native' = [native EXCEPT ![Agent!NextPlan] = score]
            BY <1>5, <2>2, Zenon DEF Agent!Execute
        <3>2. observed' = observed \cup {Agent!NextPlan}
            BY <1>5, <2>2, Zenon DEF Agent!Execute
        <3> QED
            BY <2>1, <3>1, <3>2
    <2>3. CASE native[Agent!NextPlan] # NotRun
        <3>1. native' = native /\ observed' = observed
            BY <1>5, <2>3, Zenon DEF Agent!Execute
        <3> QED
            BY <2>1, <2>3, <3>1
    <2> QED
        BY <2>2, <2>3
<1>6. CASE Agent!Interrupt
    BY <1>6, <1>1 DEF Agent!Interrupt
<1>7. CASE Agent!Kill
    <2>1. place' = "down" /\ UNCHANGED <<ended, agentCampaign>>
        BY <1>7 DEF Agent!Kill
    <2>2. \/ UNCHANGED <<native, observed>>
          \/ /\ place = "execute" /\ ~Finished
             /\ \E score \in Agent!Scores : native' = [native EXCEPT ![Agent!NextPlan] = score]
             /\ observed' \in {observed, observed \cup {Agent!NextPlan}}
        BY <1>7, <1>1, Zenon DEF Agent!Kill
    <2> QED
        BY <2>1, <2>2
<1>8. CASE Agent!CutShort \/ Agent!Raise
    BY <1>8, <1>1 DEF Agent!CutShort, Agent!Raise, Agent!Leave, Agent!Refuse, Agent!saved
<1> QED
    BY <1>2, <1>3, <1>4, <1>5, <1>6, <1>7, <1>8 DEF Agent!Next, Agent!Step, Agent!Work

\* A Claim is made for a revision whose evidence is there.
LEMMA ClaimMoves ==
    ASSUME Agent!Next
    PROVE  \A r \in agentClaims' : r \in agentClaims \/ r \in observed
<1>1. agentClaims' = agentClaims \/ Agent!Claim
    BY DEF Agent!Next, Agent!Step, Agent!Work, Agent!Launch, Agent!Register, Agent!Execute,
           Agent!FirstPass, Agent!Select, Agent!WriteResult, Agent!Seal, Agent!Replay,
           Agent!Interrupt, Agent!Kill, Agent!CutShort, Agent!Raise,
           Agent!Go, Agent!Leave, Agent!Refuse, Agent!saved
<1>2. CASE Agent!Claim
    BY <1>2 DEF Agent!Claim, Agent!Refuse, Agent!Go, Agent!saved
<1> QED
    BY <1>1, <1>2

LEMMA ScoreStep ==
    ASSUME AgentInv, Agent!Next
    PROVE  ScoreInv'
<1> DEFINE r == Agent!NextPlan
<1>1. ~Finished => r \in Revisions \ ended
    BY NextPlanWaits DEF Finished, Agent!Waiting, Revisions
<1>2. CASE UNCHANGED <<native, ended, observed>>
    <2>1. agentClaims' \subseteq observed
        BY ClaimMoves DEF AgentInv, ScoreInv
    <2>2. Finished' <=> Finished
        BY <1>2 DEF Finished
    <2>3. Finished' => agentCampaign' = "completed"
        BY <2>2, ScoreMoves DEF AgentInv, ScoreInv
    <2> QED
        BY <1>2, <2>1, <2>3 DEF AgentInv, ScoreInv
<1>3. CASE ~UNCHANGED <<native, ended, observed>>
    <2>1. r \in Revisions \ ended
        BY <1>1, <1>3, ScoreMoves
    <2>2. native' \in [Revisions -> Int \cup {NotRun}]
          /\ \A s \in ended' : native'[s] # NotRun
        <3>1. \/ native' = native
              \/ \E score \in Int : score # NotRun /\ native' = [native EXCEPT ![r] = score]
            BY <1>3, ScoreMoves, AgentConstants
        <3>2. \A s \in ended' :
                \/ s \in ended
                \/ /\ s = r
                   /\ \/ native[r] # NotRun /\ native' = native
                      \/ \E score \in Int : score # NotRun
                                            /\ native' = [native EXCEPT ![r] = score]
            BY <1>3, ScoreMoves, AgentConstants
        <3>3. native \in [Revisions -> Int \cup {NotRun}] /\ ended \subseteq Revisions
              /\ \A s \in ended : native[s] # NotRun
            BY DEF AgentInv, ScoreInv
        <3> QED
            BY <2>1, <3>1, <3>2, <3>3
    <2>3. ended' \subseteq Revisions /\ observed' \subseteq Revisions
          /\ observed \subseteq observed'
        BY <1>3, <2>1, ScoreMoves DEF AgentInv, ScoreInv
    <2>4. Finished' => agentCampaign' = "completed"
        <3>1. ended' = ended \/ ended' = ended \cup {r}
            BY <1>3, ScoreMoves
        <3>2. Finished' => Agent!Waiting = {r}
            BY <2>1, <3>1 DEF Finished, Agent!Waiting, Revisions
        <3>3. ended' = ended => ~Finished'
            BY <2>1 DEF Finished
        <3> QED
            BY <3>2, <3>3, <1>3, ScoreMoves
    <2>5. agentClaims' \subseteq observed
        BY ClaimMoves DEF AgentInv, ScoreInv
    <2> QED
        BY <2>2, <2>3, <2>4, <2>5 DEF AgentInv, ScoreInv
<1> QED
    BY <1>2, <1>3

\* The places after the executions, the search parent's log and the report.
LEMMA SelectionStep ==
    ASSUME AgentInv, Agent!Next
    PROVE  SelectionInv'
<1>1. profile' = profile
    BY DEF Agent!Next, Agent!Step, Agent!Work, Agent!Launch, Agent!Register, Agent!Execute,
           Agent!FirstPass, Agent!Claim, Agent!Select, Agent!WriteResult, Agent!Seal,
           Agent!Replay, Agent!Interrupt, Agent!Kill, Agent!CutShort, Agent!Raise, Agent!Go,
           Agent!Leave, Agent!Refuse
<1>2. CASE ~Finished
    <2>1. parents = <<>> /\ agentResult = <<>> /\ place \notin {"claim"} \cup Selecting
        BY <1>2 DEF AgentInv, SelectionInv
    <2>2. parents' = <<>> /\ agentResult' = <<>> /\ place' \notin {"claim"} \cup Selecting
        <3>1. Agent!Waiting # {}
            BY <1>2 DEF Finished, Agent!Waiting, Revisions
        <3>2. CASE Agent!Launch \/ Agent!Register \/ Agent!Interrupt \/ Agent!Replay
                   \/ Agent!CutShort \/ Agent!Raise
            BY <2>1, <3>2 DEF Agent!CutShort, Agent!Raise,
                   Agent!Launch, Agent!Register, Agent!Interrupt, Agent!Replay,
                   Agent!Go, Agent!Leave, Agent!Refuse, Agent!saved, Selecting
        <3>3. CASE Agent!Execute \/ Agent!Kill
            BY <2>1, <3>3 DEF Agent!Execute, Agent!Kill, Agent!Go, Selecting
        <3>4. CASE Agent!FirstPass \/ Agent!Claim \/ Agent!Select \/ Agent!WriteResult
                   \/ Agent!Seal
            BY <2>1, <3>1, <3>4 DEF Agent!FirstPass, Agent!Claim, Agent!Select,
                   Agent!WriteResult, Agent!Seal, Selecting
        <3> QED
            BY <3>2, <3>3, <3>4 DEF Agent!Next, Agent!Step, Agent!Work
    <2> QED
        BY <2>2, <1>1 DEF SelectionInv, Selecting
<1>3. CASE Finished
    <2>1. UNCHANGED <<native, ended, observed>>
        BY <1>3, ScoreMoves
    <2>2. Finished' /\ Agent!Selected' = Agent!Selected
        BY <1>3, <2>1 DEF Finished, Agent!Selected
    <2>3. CASE Agent!Launch \/ Agent!Register \/ Agent!Interrupt \/ Agent!Execute
               \/ Agent!Replay \/ Agent!Kill \/ Agent!CutShort \/ Agent!Raise
        <3>1. UNCHANGED <<parents, agentResult>>
              /\ place' \in {"down", "register", "execute", "replay"}
            BY <2>3 DEF Agent!Launch, Agent!Register, Agent!Interrupt, Agent!Execute,
                   Agent!Replay, Agent!Kill, Agent!CutShort, Agent!Raise,
                   Agent!Go, Agent!Leave, Agent!Refuse, Agent!saved
        <3> QED
            BY <3>1, <2>1, <2>2, <1>1 DEF AgentInv, SelectionInv, Selecting
    <2>4. CASE Agent!FirstPass \/ Agent!Claim
        <3>1. /\ UNCHANGED <<parents, agentResult>>
              /\ place' \in {"claim", "select", "down"}
              /\ place' = "select" /\ profile = "live" => Revisions \subseteq agentClaims
            BY <2>4 DEF Agent!FirstPass, Agent!Claim, Agent!Go, Agent!Leave, Agent!Refuse,
                   Agent!saved, Revisions
        <3>2. agentClaims \subseteq observed
            BY DEF AgentInv, ScoreInv
        <3> QED
            BY <3>1, <3>2, <2>1, <2>2, <1>1 DEF AgentInv, SelectionInv, Selecting
    <2>5. CASE Agent!Select
        <3>1. place = "select" /\ agentResult' = agentResult
              /\ (profile = "live" => Revisions \subseteq observed)
            BY <2>5 DEF AgentInv, SelectionInv, Selecting, Agent!Select, Agent!Refuse,
                        Agent!saved
        <3>2. \/ parents' = <<Agent!Selected>> /\ place' = "report"
                   /\ (parents = <<>> \/ parents' = parents)
              \/ parents' = parents /\ place' = "down"
            BY <2>5 DEF Agent!Select, Agent!Go, Agent!Leave, Agent!Refuse, Agent!saved
        <3> QED
            BY <3>1, <3>2, <2>1, <2>2, <1>1 DEF AgentInv, SelectionInv, Selecting
    <2>6. CASE Agent!WriteResult \/ Agent!Seal
        <3>1. /\ place \in {"report", "seal"} /\ place' \in {"seal", "down"}
              /\ parents' = parents
              /\ \/ agentResult' = agentResult
                 \/ agentResult' = <<Agent!Report>>
            BY <2>6 DEF Agent!WriteResult, Agent!Seal, Agent!Go, Agent!Leave
        <3>2. Agent!Report.selected = parents[1] /\ Agent!Report.scores = native
            BY DEF Agent!Report
        <3>3. agentResult' # <<>> => agentResult'[1].selected = parents[1]
                                     /\ agentResult'[1].scores = native
            BY <3>1, <3>2 DEF AgentInv, SelectionInv
        <3> QED
            BY <3>1, <3>3, <2>1, <2>2, <1>1 DEF AgentInv, SelectionInv, Selecting
    <2> QED
        BY <2>3, <2>4, <2>5, <2>6 DEF Agent!Next, Agent!Step, Agent!Work
<1> QED
    BY <1>2, <1>3

LEMMA AgentStep == AgentInv /\ (Agent!Next \/ UNCHANGED agent) => AgentInv'
<1>1. CASE UNCHANGED agent
    <2>1. (Finished' <=> Finished) /\ Agent!Selected' = Agent!Selected
        BY <1>1 DEF agent, Finished, Agent!Selected
    <2> QED
        BY <1>1, <2>1 DEF agent, AgentInv, ScoreInv, SelectionInv
<1> QED
    BY <1>1, ScoreStep, SelectionStep DEF AgentInv

\* What the tournament selects: the highest score, and the parent unless it is beaten.
LEMMA WinnerIsBest ==
    ASSUME native \in [Revisions -> Int]
    PROVE  LET winner == Agent!Winner(native, Parent)
           IN /\ winner \in Revisions
              /\ \A r \in Revisions : native[r] <= native[winner]
              /\ winner # Parent => native[winner] > native[Parent]
<1> DEFINE tied == Agent!Tied(native)
           winner == Agent!Winner(native, Parent)
<1>1. tied = {r \in Revisions : \A other \in Revisions : native[other] <= native[r]}
    BY DEF Agent!Tied
<1>2. \E r \in tied : TRUE
    <2>1. Revisions # {} /\ IsFiniteSet(Revisions) /\ \A r \in Revisions : native[r] \in Int
        BY AgentConstants
    <2>2. \E r \in Revisions : \A other \in Revisions : native[other] <= native[r]
        BY <2>1, MaximumExists
    <2> QED
        BY <1>1, <2>2
<1>3. tied \in SUBSET Nat /\ IsFiniteSet(tied) /\ tied # {}
    <2>1. tied \subseteq Revisions
        BY <1>1
    <2> QED
        BY <1>2, <2>1, AgentConstants, FS_Subset
<1>4. winner \in tied
    <2>1. Agent!Least(tied) \in tied
        BY <1>3, LeastExists
    <2> QED
        BY <2>1 DEF Agent!Winner
<1>5. winner \in Revisions /\ \A r \in Revisions : native[r] <= native[winner]
    BY <1>1, <1>4
<1>6. ASSUME winner # Parent PROVE native[winner] > native[Parent]
    <2>1. Parent \in Revisions /\ Parent \notin tied
        BY <1>6, AgentConstants DEF Agent!Winner
    <2>2. PICK r \in Revisions : ~(native[r] <= native[Parent])
        BY <1>1, <2>1
    <2>3. native[r] \in Int /\ native[Parent] \in Int /\ native[winner] \in Int
        BY <1>5, <2>1
    <2>4. native[r] <= native[winner]
        BY <1>5
    <2> QED
        BY <2>2, <2>3, <2>4
<1> QED
    BY <1>5, <1>6

LEMMA AgentRound == CommandSpec => []AgentInv
<1>1. StartCommand => AgentInv
    BY AgentInit DEF StartCommand
<1>2. AgentInv /\ [Proceed]_commands => AgentInv'
    <2>1. [Proceed]_commands => Agent!Next \/ UNCHANGED agent
        BY DEF Proceed, FreshGoes, AgentGoes, Stops, Agent!Next, commands
    <2> QED
        BY <2>1, AgentStep
<1> QED
    BY <1>1, <1>2, PTL DEF CommandSpec

\* campaign run --strategy agent-program moves the search parent once, after every
\* execution has ended, to a revision of the highest score that beats the parent, or leaves
\* it; kills and repeated commands add no row and change no report.
THEOREM SelectionsAreEarned == CommandSpec => []SelectionIsEarned
<1>1. AgentInv => SelectionIsEarned
    <2> SUFFICES ASSUME AgentInv, parents # <<>> PROVE Agent!SelectionIsEarned
        BY DEF SelectionIsEarned, Agent!SelectionIsEarned
    <2>1. Finished /\ parents = <<Agent!Selected>>
          /\ (profile = "live" => Revisions \subseteq observed)
        BY DEF AgentInv, SelectionInv
    <2>2. ended = Revisions /\ agentCampaign = "completed" /\ native \in [Revisions -> Int]
        BY <2>1 DEF AgentInv, ScoreInv, Finished
    <2>3. /\ \A r \in Revisions : native[r] <= native[Agent!Selected]
          /\ Agent!Selected # Parent => native[Agent!Selected] > native[Parent]
        BY <2>2, WinnerIsBest DEF Agent!Selected
    <2>4. profile = "live" => observed = Revisions
        BY <2>1 DEF AgentInv, ScoreInv
    <2>5. agentResult # <<>> => agentResult[1].selected = parents[1]
                                /\ agentResult[1].scores = native
        BY DEF AgentInv, SelectionInv
    <2>6. Len(parents) = 1 /\ parents[1] = Agent!Selected
        BY <2>1
    <2> QED
        BY <2>2, <2>3, <2>4, <2>5, <2>6 DEF Agent!SelectionIsEarned, Revisions
<1> QED
    BY <1>1, AgentRound, PTL
=============================================================================
