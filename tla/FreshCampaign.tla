--------------------------- MODULE FreshCampaign ---------------------------
(***************************************************************************)
(* run_fresh_feedback_e2e: one command that runs the baseline and the      *)
(* taught arm of every task, claims, grades, decides, projects the         *)
(* decision into the registries and seals its run directory.  Each step is *)
(* one durable write or one refusal; the process may be killed before any  *)
(* of them or inside one that is not atomic, and the same command run      *)
(* again.  The executions are those of Campaign, as far as this command    *)
(* can tell them apart; every append is idempotent by identity, as         *)
(* DurableStores shows for its stores.                                     *)
(***************************************************************************)
EXTENDS Sequences, EvidenceRules

CONSTANTS
    TaskOrder,     \* the feedback tasks, in the order of the configuration
    ProjectOf,     \* task -> project, one function for each configuration
    Setups,        \* what the operator configured
    Anomalies,     \* setup -> what one arm may record that it should not
    NotRun,
    MaxFaults

Tasks == {TaskOrder[i] : i \in DOMAIN TaskOrder}
Plans == Tasks \X ArmNames

\* What the evidence of one arm may show that it should not.
Oddities == {"lineage", "prompt", "effect", "identity", "trace", "parent", "prediction"}

ASSUME FreshAssumption ==
    /\ TaskOrder \in Seq(Tasks) /\ Len(TaskOrder) = 3
    /\ \A i, j \in DOMAIN TaskOrder : TaskOrder[i] = TaskOrder[j] => i = j
    /\ Setups \subseteq [approval : BOOLEAN, authority : BOOLEAN, issuer : BOOLEAN,
                         projects : DOMAIN ProjectOf]
    /\ Anomalies \in [Setups -> SUBSET [kind : {"none"} \cup Oddities, plan : Plans]]
    /\ Candidate # NoCandidate /\ MaxFaults \in Nat

VARIABLES
    setup, anomaly,
    teacher,      \* the Teacher's candidate: none, frozen, its cost reserved, charged
    campaign,     \* status of the saved campaign
    receipts,     \* plan -> outcome and status of its execution
    traces,       \* plans whose trusted observation is stored
    claims,       \* claims of the evidence graph
    candidate,    \* claims the candidate record names; {} when there is none
    decisions,    \* the promotion decision log
    capability,   \* decisions projected into the capability registry
    rejected,     \* decisions projected into the rejected registry
    manifest,     \* none, report (the projector's), sealed
    result,       \* the frozen summary, {} when there is none
    cut,          \* places whose file a kill left in part, or under a dead writer's lease
    pc, reported, faults

saved == <<teacher, campaign, receipts, traces, claims, candidate, decisions,
           capability, rejected, manifest, result>>
vars == <<setup, anomaly, saved, cut, pc, reported, faults>>

Init ==
    /\ setup \in Setups /\ anomaly \in Anomalies[setup]
    /\ teacher = "none" /\ campaign = "none"
    /\ receipts = [p \in Plans |-> NotRun] /\ traces = {}
    /\ claims = {} /\ candidate = {} /\ decisions = {}
    /\ capability = {} /\ rejected = {}
    /\ manifest = "none" /\ result = {} /\ cut = {}
    /\ pc = "down" /\ reported = "none" /\ faults = 0

-----------------------------------------------------------------------------
(* What the stored receipts say.                                           *)

Odd(p, kind) == anomaly.kind = kind /\ anomaly.plan = p

\* The evidence of one arm, rebuilt from its receipts.
ArmOf(p) ==
    LET taught == p[2] = "taught"
        lineage == IF taught # Odd(p, "lineage") THEN Candidate ELSE NoCandidate
    IN [arm |-> p[2],
        identity |-> IF Odd(p, "identity") THEN "other" ELSE "own",
        lineage |-> lineage,
        traced |-> IF taught # (Odd(p, "lineage") \/ Odd(p, "trace"))
                   THEN Candidate ELSE NoCandidate,
        prompt |-> (IF taught # Odd(p, "prompt") THEN {"candidate"} ELSE {})
                      \cup (IF taught THEN {} ELSE {"parent"}),
        parent |-> [s \in Sources |-> IF Odd(p, "parent") THEN "other" ELSE "harness"],
        predicted |-> [s \in Sources |->
                         IF s = "native" /\ Odd(p, "prediction") THEN "other" ELSE "own"],
        error |-> receipts[p].outcome = "error",
        resolved |-> receipts[p].outcome = "resolved",
        effect |-> IF p \notin traces THEN "unobserved"
                   ELSE IF taught # Odd(p, "effect") THEN "shown" ELSE "absent"]

Ran(p) == receipts[p] # NotRun
Baseline(t) == ArmOf(<<t, "baseline">>)
Taught(t) == ArmOf(<<t, "taught">>)
Evaluated(p) == Ran(p) /\ receipts[p].outcome # "interrupted"

\* The position of a plan: the arms of the first task come first.
Place(p) == 2 * (CHOOSE i \in DOMAIN TaskOrder : TaskOrder[i] = p[1])
              - (IF p[2] = "baseline" THEN 1 ELSE 0)
FirstOf(plans) == CHOOSE p \in plans : \A q \in plans : Place(p) <= Place(q)
Pending == {p \in Plans : ~Ran(p)}
Unclaimed == {i \in DOMAIN TaskOrder : \A c \in claims : c.task # TaskOrder[i]}

Projects(cs) == {ProjectOf[setup.projects][c.task] : c \in cs}
Predicted(cs) == {c.task : c \in {d \in cs : Predicts(Baseline(d.task), Taught(d.task))}}
GradeNow == Grade(claims, Projects(claims), Predicted(claims))

\* decided_at is the time of the last receipt of the campaign.
LastReceipt == Cardinality({p \in Plans : Ran(p)}) + Cardinality(traces)

Decision ==
    [claims |-> claims, grade |-> GradeNow, approval |-> setup.approval,
     gate |-> Gate(claims, GradeNow, setup.approval), at |-> LastReceipt]

-----------------------------------------------------------------------------
(* The command.                                                            *)

Go(place) == pc' = place /\ UNCHANGED <<setup, anomaly, cut, reported, faults>>

\* An exception leaves the command; everything it saved stays.
Refuse == /\ pc' = "down" /\ reported' = "refused"
          /\ UNCHANGED <<setup, anomaly, saved, cut, faults>>

\* Mutant: any manifest will do for a replay.
LaunchLenient ==
    /\ pc = "down"
    /\ IF result # {} /\ manifest # "none"
       THEN /\ reported' = "replayed" /\ pc' = "down"
            /\ UNCHANGED <<setup, anomaly, saved, cut, faults>>
       ELSE Go("freeze") /\ UNCHANGED saved

\* _sealed_replay: a result needs a manifest that names it.
Launch ==
    /\ pc = "down"
    /\ CASE result = {} -> Go("freeze") /\ UNCHANGED saved
         [] result # {} /\ manifest = "sealed" ->
              /\ reported' = "replayed" /\ pc' = "down"
              /\ UNCHANGED <<setup, anomaly, saved, cut, faults>>
         [] OTHER -> Refuse

\* Compile the Teacher's candidate and freeze its artifacts at the run root, each file
\* created exclusively; what exists must be equal.
FreezeArtifacts ==
    /\ pc = "freeze" /\ Go("reserve")
    /\ teacher' = IF teacher = "none" THEN "frozen" ELSE teacher
    /\ UNCHANGED <<campaign, receipts, traces, claims, candidate, decisions,
                   capability, rejected, manifest, result>>

\* Reserve and record the Teacher's frozen cost under fixed identities.
ReserveTeacher ==
    /\ pc = "reserve" /\ Go("charge")
    /\ teacher' = IF teacher = "frozen" THEN "reserved" ELSE teacher
    /\ UNCHANGED <<campaign, receipts, traces, claims, candidate, decisions,
                   capability, rejected, manifest, result>>

ChargeTeacher ==
    /\ pc = "charge" /\ Go("campaign")
    /\ teacher' = "charged"
    /\ UNCHANGED <<campaign, receipts, traces, claims, candidate, decisions,
                   capability, rejected, manifest, result>>

\* Mutant: a campaign that completed cannot be loaded again.
OpenCampaignOnce ==
    /\ pc = "campaign"
    /\ IF campaign \in {"partial", "completed"} THEN Refuse
       ELSE /\ campaign' = "running" /\ Go("execute")
            /\ UNCHANGED <<teacher, receipts, traces, claims, candidate, decisions,
                           capability, rejected, manifest, result>>

\* create or load the campaign; one that ended without completing is refused.
OpenCampaign ==
    /\ pc = "campaign"
    /\ IF campaign = "partial" THEN Refuse
       ELSE /\ campaign' = IF campaign = "none" THEN "running" ELSE campaign
            /\ Go("execute")
            /\ UNCHANGED <<teacher, receipts, traces, claims, candidate, decisions,
                           capability, rejected, manifest, result>>

\* What an execution may record.  A native error is a failure, except when a kill
\* separated the error from the terminal receipt: then the resumed execution ends
\* as completed.
Ends == [outcome : {"resolved", "unresolved"}, status : {"completed"}]
          \cup [outcome : {"error", "interrupted"}, status : {"failed"}]

\* Execute the next plan.  The campaign stops at the first failure; only when that
\* was the last plan does the command go on.
Execute ==
    /\ pc = "execute" /\ Pending # {}
    /\ \E end \in Ends \cup (IF faults = 0 THEN {}
                             ELSE {[outcome |-> "error", status |-> "completed"]}) :
         LET p == FirstOf(Pending) IN
         /\ receipts' = [receipts EXCEPT ![p] = end]
         /\ campaign' = IF end.status = "failed" THEN "partial"
                        ELSE IF Pending = {p} THEN "completed" ELSE "running"
         /\ IF end.status = "failed" /\ Pending # {p}
            THEN /\ pc' = "down" /\ reported' = "refused"
                 /\ UNCHANGED <<setup, anomaly, cut, faults>>
            ELSE Go("execute")
    /\ UNCHANGED <<teacher, traces, claims, candidate, decisions, capability,
                   rejected, manifest, result>>

\* _validate_candidate_isolation, from the model receipts.
Isolate ==
    /\ pc = "execute" /\ Pending = {}
    /\ IF \A p \in Plans :
            ArmOf(p).lineage = IF p[2] = "taught" THEN Candidate ELSE NoCandidate
       THEN Go(IF setup.issuer THEN "observe" ELSE "claim") /\ UNCHANGED saved
       ELSE Refuse

\* Issue and store the trusted observation of the next plan.
Observe ==
    /\ pc = "observe"
    /\ IF Plans \subseteq traces THEN Go("claim") /\ UNCHANGED saved
       ELSE LET p == FirstOf(Plans \ traces) IN
            IF receipts[p].status # "completed" THEN Refuse
            ELSE /\ traces' = traces \cup {p} /\ Go("observe")
                 /\ UNCHANGED <<teacher, campaign, receipts, claims, candidate,
                                decisions, capability, rejected, manifest, result>>

\* Claim the next pair; an arm without native evaluation, and arms that do not
\* match, are refused.
MakeClaim ==
    /\ pc = "claim"
    /\ IF Unclaimed = {} THEN Go("candidate") /\ UNCHANGED saved
       ELSE LET i == CHOOSE i \in Unclaimed : \A j \in Unclaimed : i <= j
                t == TaskOrder[i] IN
            IF /\ Evaluated(<<t, "baseline">>) /\ Evaluated(<<t, "taught">>)
               /\ Claimable(Baseline(t), Taught(t))
            THEN /\ claims' = claims \cup {ClaimOf(t, Baseline(t), Taught(t))}
                 /\ Go("claim")
                 /\ UNCHANGED <<teacher, campaign, receipts, traces, candidate,
                                decisions, capability, rejected, manifest, result>>
            ELSE Refuse

RecordCandidate ==
    /\ pc = "candidate" /\ candidate' = claims /\ Go("decide")
    /\ UNCHANGED <<teacher, campaign, receipts, traces, claims, decisions,
                   capability, rejected, manifest, result>>

\* Only a configured authority signs an approval.
Decide ==
    /\ pc = "decide"
    /\ IF Decision.gate = "approved" /\ ~setup.authority THEN Refuse
       ELSE /\ decisions' = decisions \cup {Decision} /\ Go("project")
            /\ UNCHANGED <<teacher, campaign, receipts, traces, claims, candidate,
                           capability, rejected, manifest, result>>

\* The registries verify the logged decision before they take its projection.
Project ==
    /\ pc = "project" /\ Go("report")
    /\ capability' = IF Decision.gate = "approved" /\ Decision \in decisions
                        /\ Decision.grade = "E3" /\ Decision.claims = candidate
                     THEN capability \cup {Decision} ELSE capability
    /\ rejected' = IF Decision.gate = "rejected" /\ Decision \in decisions
                   THEN rejected \cup {Decision} ELSE rejected
    /\ UNCHANGED <<teacher, campaign, receipts, traces, claims, candidate,
                   decisions, manifest, result>>

\* The report's own manifest names the report and nothing else.
WriteReport ==
    /\ pc = "report" /\ manifest' = "report" /\ Go("result")
    /\ UNCHANGED <<teacher, campaign, receipts, traces, claims, candidate,
                   decisions, capability, rejected, result>>

WriteResult ==
    /\ pc = "result" /\ Go("seal")
    /\ result' = {[claims |-> claims, gate |-> Decision.gate, status |-> campaign]}
    /\ UNCHANGED <<teacher, campaign, receipts, traces, claims, candidate,
                   decisions, capability, rejected, manifest>>

Seal ==
    /\ pc = "seal" /\ manifest' = "sealed"
    /\ pc' = "down" /\ reported' = "returned"
    /\ UNCHANGED <<setup, anomaly, teacher, campaign, receipts, traces, claims,
                   candidate, decisions, capability, rejected, result, cut, faults>>

\* Where a file was cut short every run raises.
Raise == pc \in cut /\ Refuse

Kill ==
    /\ pc # "down" /\ faults < MaxFaults
    /\ faults' = faults + 1 /\ pc' = "down" /\ reported' = "killed"
    /\ UNCHANGED <<setup, anomaly, saved, cut>>

\* The places that are about to create or append to a file; the ledger takes its lease
\* for an event that is recorded already, too.
Appends ==
    \/ pc = "freeze" /\ teacher = "none"
    \/ pc \in {"reserve", "charge"}
    \/ pc = "execute" /\ Pending # {}
    \/ pc = "observe" /\ ~(Plans \subseteq traces)
    \/ pc = "claim" /\ Unclaimed # {}
    \/ pc = "candidate" /\ candidate = {}
    \/ pc = "decide" /\ Decision \notin decisions
         /\ (Decision.gate = "approved" => setup.authority)
    \/ pc = "project" /\ Decision.gate \in {"approved", "rejected"}
         /\ Decision \notin capability \cup rejected

\* A kill inside such a write leaves a part of a file or of a line, or the lease.
\* The command raises where it next reads or appends to the file; between that and
\* the place of the write it records nothing new.
CutShort ==
    /\ Appends /\ faults < MaxFaults
    /\ cut' = cut \cup {pc}
    /\ faults' = faults + 1 /\ pc' = "down" /\ reported' = "killed"
    /\ UNCHANGED <<setup, anomaly, saved>>

Work ==
    \/ Launch \/ FreezeArtifacts \/ ReserveTeacher \/ ChargeTeacher \/ OpenCampaign
    \/ Execute \/ Isolate \/ Observe \/ MakeClaim \/ RecordCandidate \/ Decide
    \/ Project \/ WriteReport \/ WriteResult \/ Seal

Step == (pc \notin cut /\ Work) \/ Raise

Next == Step \/ Kill \/ CutShort
Spec == Init /\ [][Next]_vars

-----------------------------------------------------------------------------
(* Properties.                                                             *)

DecisionType == [claims : SUBSET claims, grade : {"E1", "E2", "E3"},
                 approval : BOOLEAN, at : Nat,
                 gate : {"approved", "rejected", "no_change", "blocked",
                         "human_approval_required"}]

\* Every variable has its type.
TypeOK ==
    /\ setup \in Setups /\ anomaly \in Anomalies[setup]
    /\ teacher \in {"none", "frozen", "reserved", "charged"}
    /\ campaign \in {"none", "running", "completed", "partial"}
    /\ receipts \in [Plans -> {NotRun}
                       \cup [outcome : {"resolved", "unresolved", "error", "interrupted"},
                            status : {"completed", "failed"}]]
    /\ traces \subseteq Plans
    /\ claims \subseteq [task : Tasks, grade : {"E1", "E2"}, classification :
                           {"gain", "regression", "neutral", "infra_failure"}]
    /\ candidate \subseteq claims /\ decisions \subseteq DecisionType
    /\ capability \subseteq decisions /\ rejected \subseteq decisions
    /\ manifest \in {"none", "report", "sealed"}
    /\ cut \subseteq {"freeze", "reserve", "charge", "execute", "observe", "claim",
                     "candidate", "decide", "project"}
    /\ Cardinality(result) <= 1 /\ faults \in 0 .. MaxFaults
    /\ reported \in {"none", "refused", "replayed", "returned", "killed"}

\* A capability exists only when a person approved it, an authority signed it, and
\* the receipts of every task show that the candidate turned a failure into a
\* success and that the predicted internal effect came with it, in two projects.
CapabilityIsEarned ==
    \A d \in capability :
        /\ setup.approval /\ setup.authority /\ setup.issuer
        /\ Cardinality({ProjectOf[setup.projects][t] : t \in Tasks}) >= 2
        /\ anomaly.kind = "none"
        /\ \A t \in Tasks :
             /\ receipts[<<t, "baseline">>].outcome = "unresolved"
             /\ receipts[<<t, "taught">>].outcome = "resolved"
             /\ {<<t, "baseline">>, <<t, "taught">>} \subseteq traces

\* A graded claim says what the receipts of its two arms say, and the candidate was
\* in the taught prompt, not in the baseline's, and in nothing else they differ.
ClaimsAreCausal ==
    \A c \in claims :
        LET b == Baseline(c.task)
            t == Taught(c.task)
        IN /\ (c.classification = "gain") =
                 (~b.error /\ ~t.error /\ t.resolved /\ ~b.resolved)
           /\ (c.classification = "regression") =
                 (~b.error /\ ~t.error /\ b.resolved /\ ~t.resolved)
           /\ c.grade = "E2" =>
                /\ "candidate" \in t.prompt /\ "candidate" \notin b.prompt
                /\ b.traced = NoCandidate /\ t.traced = Candidate
                /\ b.identity = t.identity /\ b.parent = t.parent
                /\ \A arm \in {b, t} : arm.predicted["native"] = arm.predicted["model"]

\* A sealed run directory, and only a sealed one, is returned or replayed, and it is
\* complete: claims for every task, the decision, its projection and the result.
SealedIsComplete ==
    /\ reported \in {"returned", "replayed"} => manifest = "sealed"
    /\ manifest = "sealed" =>
         /\ Unclaimed = {} /\ teacher = "charged"
         /\ \E d \in decisions :
              /\ result = {[claims |-> claims, gate |-> d.gate, status |-> campaign]}
              /\ d.gate = "approved" <=> d \in capability
              /\ d.gate = "rejected" <=> d \in rejected

\* Why the command may refuse for ever: an arm that recorded what it should not, a
\* campaign that ended without completing (also one whose last plan failed and that
\* was killed before its result was sealed), an approval that nobody can sign, a kill
\* after the result was written and before it was sealed, and a kill inside a write.
KnownRefusal ==
    \/ anomaly.kind \notin {"none", "effect"}
    \/ campaign = "partial"
    \/ setup.approval /\ ~setup.authority
    \/ result # {} /\ manifest # "sealed"
    \/ cut # {}

\* How a command ends: with a sealed run or with one of the known refusals.
Answered == manifest = "sealed" \/ (reported = "refused" /\ KnownRefusal)
=============================================================================
