----------------------- MODULE AutonomousRunnerProofs -----------------------
(***************************************************************************)
(* Safety of the autonomous loop for every task pool, every limit of the   *)
(* goal and any number of stops at any points.  The properties of          *)
(* AutonomousRunner relate files that are written at different moments, so  *)
(* none is inductive.  What carries them is where the process is: between   *)
(* which two writes the state file is behind the index (StateInv), what the *)
(* row in progress says before it is indexed (RowInv), which export the     *)
(* best harness is in (BestInv), and that a terminal state is never left    *)
(* (SealInv).  The counters need no induction over the index: each is       *)
(* followed from one index to the next that is a row longer.  At the end    *)
(* CandidateProposer, the paid call of a round, for concurrent callers.     *)
(***************************************************************************)
EXTENDS AutonomousRunner, CandidateProposer, FiniteSetTheorems, SequenceTheorems, TLAPS

SigType == [failed : SUBSET Tasks, student : SUBSET Tasks, facts : Facts \cup {NoFacts}]
StateType ==
    [status : Statuses \cup {"absent"}, rounds : Nat, noProgress : Nat, infra : Nat,
     gained : SUBSET Tasks, best : Nat, sig : SigType, same : Nat,
     unresolvable : SUBSET Tasks]
RowType ==
    [selected : SUBSET Tasks, failed : SUBSET Tasks, student : SUBSET Tasks,
     gains : SUBSET Tasks, sig : SigType,
     outcome : {"absent", "infra_failure", "regression", "gain", "neutral"},
     fitness : Int, accepted : BOOLEAN, best : Nat]
Phases == {"none", "cut", "best-harness-projection", "teacher", "model-native-lineage",
           "campaign-feedback-lineage"}
DraftType ==
    [selected : SUBSET Tasks, baseline : {"absent", "complete", "failed"},
     failed : SUBSET Tasks, student : SUBSET Tasks, teacher : TeacherAnswers \cup {"absent"},
     kind : AllKinds \cup {"absent"}, gains : SUBSET Tasks, regressions : SUBSET Tasks,
     infra : SUBSET Tasks, facts : Facts \cup {NoFacts},
     block : [phase : Phases, error : Errors \cup {NoFacts}]]

Types ==
    /\ rows \in Seq(RowType) /\ row \in RowType /\ draft \in DraftType
    /\ saved \in StateType /\ st \in StateType /\ result \in StateType
    /\ seal \in [state : StateType, result : StateType]
    /\ best \in [harness : Int, artifacts : Int]
    /\ pc \in PCs /\ stops \in Nat

-----------------------------------------------------------------------------
(* State file and index.                                                   *)

InRound == {"loop", "baseline", "teach", "paired", "judge", "copy", "reload", "harness",
            "index"}
Writing == {"copy", "reload", "harness", "index"}

\* A baseline of q failed for a reason that is not the Student's.
Odd(q) == \E i \in DOMAIN q : q[i].failed # q[i].student

LastSig(q) == IF q = <<>> THEN NoSig ELSE q[Len(q)].sig

\* The counters of s are those of the index q, its status aside.
Counts(s, q) ==
    /\ s.rounds = Len(q) /\ s.noProgress = NoProgressTail(q)
    /\ s.gained = GainedBy(q) /\ s.sig = LastSig(q) /\ s.same = SameTail(q)
    /\ s.best = LastAccepted(q) /\ s.unresolvable \subseteq FailedBy(q)
    /\ ~Odd(q) => s.infra = InfraTail(q) /\ s.unresolvable = FailedBy(q)

\* The status that the last round, or the end of the rounds, gave it.
StatusFits(s) ==
    \/ s.status \in ExternallyTerminal
    \/ s.status = StopStatus(s, "active")
    \/ s.status = "max_rounds_reached" /\ s.rounds >= MaxRounds
         /\ StopStatus(s, "active") = "active"

Fits(s, q) == Counts(s, q) /\ StatusFits(s)

Blocked(s) == [s EXCEPT !.status = "blocked_integrity"]
Ended(s) == s.status \notin {"absent", "active"}

StateInv ==
    /\ saved.status = "absent" => saved = NoState /\ rows = <<>> /\ pc = "down"
    /\ saved.status # "absent" =>
          \/ Fits(saved, rows)
          \/ saved.status = "active" /\ saved.rounds + 1 = Len(rows)
    /\ pc = "rebuild" => st = saved
    /\ pc \in InRound \cup {"verify", "terminal", "result", "seal"} =>
          st = saved /\ Fits(saved, rows)
    /\ pc \in InRound => st.status = "active"
    /\ pc \in {"terminal", "result", "seal"} => st.status # "active"
    /\ pc = "write" =>
          /\ Fits(st, rows) /\ st.status # "absent"
          /\ saved.status = "active" \/ (st = Blocked(saved) /\ Fits(saved, rows))

-----------------------------------------------------------------------------
(* Rows, and the round in progress.                                        *)

\* The draft is of the same baseline.
SameRound ==
    /\ draft'.baseline = draft.baseline /\ draft'.failed = draft.failed
    /\ draft'.student = draft.student

RowSound(r) == r.student \subseteq r.failed /\ (r.failed # {} => r.outcome = "neutral")

\* LastAccepted is the place of the last accepted row, or 0.
LastIsLast(q) ==
    /\ LastAccepted(q) \in {0} \cup Accepted(q)
    /\ \A i \in Accepted(q) : i <= LastAccepted(q)

RowInv ==
    /\ Len(rows) <= MaxRounds
    /\ pc \in InRound \ {"loop"} => Len(rows) < MaxRounds
    /\ \A i \in DOMAIN rows : RowSound(rows[i])
    /\ draft.student \subseteq draft.failed
    /\ draft.baseline = "failed" => draft.failed # {}
    /\ LastIsLast(rows)
    /\ pc \in Writing =>
          /\ RowSound(row)
          /\ row.best = IF row.accepted THEN Len(rows) + 1 ELSE LastAccepted(rows)
          /\ row.accepted => LastAccepted(rows) = 0
                               \/ row.fitness > rows[LastAccepted(rows)].fitness
    /\ pc \in Writing \ {"index"} => row.accepted

\* The harness of the last accepted round is in place, with its artifacts.
Exported ==
    /\ best.harness = LastAccepted(rows)
    /\ best.harness # 0 => best.artifacts = best.harness

BestInv ==
    /\ pc \in {"loop", "baseline", "teach", "paired", "judge"} => Exported
    /\ pc = "harness" => best.artifacts = Len(rows) + 1
    /\ pc = "index" =>
          IF row.accepted THEN best.harness = Len(rows) + 1 /\ best.artifacts = Len(rows) + 1
          ELSE Exported
    /\ pc \in {"write", "result", "seal"} => Exported \/ st.status = "blocked_integrity"
    /\ Sealed => Exported \/ saved.status = "blocked_integrity"

-----------------------------------------------------------------------------
(* The end of the run.                                                     *)

\* A result is of the state or of the state before it was blocked, a seal likewise.
SealInv ==
    /\ seal.state = seal.result
    /\ result = NoState => seal.state = NoState
    /\ result # NoState => Ended(result) /\ saved \in {result, Blocked(result)}
    /\ seal.state # NoState => Ended(seal.state) /\ result \in {seal.state, Blocked(seal.state)}
    /\ pc = "write" /\ result # NoState => st = Blocked(saved)
    /\ pc = "seal" => result = saved

IInv == Types /\ StateInv /\ RowInv /\ AcceptedIsProgress /\ BestInv /\ SealInv

-----------------------------------------------------------------------------
(* Lemmas about the operators.                                             *)

LEMMA MaxIs ==
    ASSUME NEW S \in SUBSET Int, NEW m \in S, \A x \in S : x <= m
    PROVE  Max(S) = m
<1>1. \A y \in S : m >= y
    OBVIOUS
<1>2. Max(S) \in S /\ \A y \in S : Max(S) >= y
    BY <1>1 DEF Max
<1>3. Max(S) \in Int /\ m \in Int /\ Max(S) >= m /\ m >= Max(S)
    BY <1>1, <1>2
<1> QED
    BY <1>3

LEMMA TasksFinite ==
    \A S \in SUBSET Tasks : IsFiniteSet(S) /\ Cardinality(S) \in Nat
BY RunnerAssumption, FS_Subset, FS_CardinalityType DEF RunnerAssumption

(* A row more: what the index says of it and of the rows before. *)
LEMMA Appended ==
    ASSUME NEW q \in Seq(RowType), NEW r \in RowType
    PROVE  /\ Append(q, r) \in Seq(RowType) /\ Append(q, r) # <<>>
           /\ Len(Append(q, r)) = Len(q) + 1 /\ Len(q) \in Nat
           /\ DOMAIN q = 1 .. Len(q) /\ DOMAIN Append(q, r) = 1 .. Len(q) + 1
           /\ \A i \in 1 .. Len(q) : q[i] \in RowType /\ Append(q, r)[i] = q[i]
           /\ Append(q, r)[Len(q) + 1] = r
OBVIOUS

LEMMA LastAppended ==
    ASSUME NEW q \in Seq(RowType), NEW r \in RowType, LastIsLast(q)
    PROVE  /\ Accepted(Append(q, r)) =
                 Accepted(q) \cup (IF r.accepted THEN {Len(q) + 1} ELSE {})
           /\ LastAccepted(Append(q, r)) =
                 IF r.accepted THEN Len(q) + 1 ELSE LastAccepted(q)
           /\ LastIsLast(Append(q, r))
<1>1. Accepted(Append(q, r)) = Accepted(q) \cup (IF r.accepted THEN {Len(q) + 1} ELSE {})
    BY Appended DEF Accepted
<1>2. Accepted(q) \subseteq 1 .. Len(q)
    BY DEF Accepted
<1>3. CASE r.accepted
    <2> DEFINE S == {0} \cup Accepted(q) \cup {Len(q) + 1}
    <2>1. S \subseteq Int /\ Len(q) + 1 \in S /\ \A x \in S : x <= Len(q) + 1
        BY <1>2, Appended
    <2>2. LastAccepted(Append(q, r)) = Max(S)
        BY <1>1, <1>3 DEF LastAccepted
    <2>3. LastAccepted(Append(q, r)) = Len(q) + 1
        BY <2>1, <2>2, MaxIs
    <2> QED
        BY <1>1, <1>2, <1>3, <2>3 DEF LastIsLast
<1>4. CASE ~r.accepted
    BY <1>1, <1>4 DEF LastAccepted, LastIsLast
<1> QED
    BY <1>1, <1>3, <1>4

(* LastAccepted of a prefix is read off the rows of the prefix. *)
LEMMA PrefixLast ==
    ASSUME NEW q \in Seq(RowType), NEW i \in 0 .. Len(q)
    PROVE  LastAccepted(SubSeq(q, 1, i)) = Max({0} \cup {j \in 1 .. i : q[j].accepted})
<1>1. /\ SubSeq(q, 1, i) \in Seq(RowType) /\ Len(SubSeq(q, 1, i)) = i
      /\ \A j \in 1 .. i : SubSeq(q, 1, i)[j] = q[j]
    BY SubSeqProperties
<1>2. Accepted(SubSeq(q, 1, i)) = {j \in 1 .. i : q[j].accepted}
    BY <1>1 DEF Accepted
<1> QED
    BY <1>2 DEF LastAccepted

LEMMA PrefixKept ==
    ASSUME NEW q \in Seq(RowType), NEW r \in RowType, NEW i \in 0 .. Len(q)
    PROVE  LastAccepted(SubSeq(Append(q, r), 1, i)) = LastAccepted(SubSeq(q, 1, i))
<1>1. {j \in 1 .. i : Append(q, r)[j].accepted} = {j \in 1 .. i : q[j].accepted}
    BY Appended
<1>2. LastAccepted(SubSeq(q, 1, i)) = Max({0} \cup {j \in 1 .. i : q[j].accepted})
    BY PrefixLast
<1>3. i \in 0 .. Len(Append(q, r)) /\ Append(q, r) \in Seq(RowType)
    BY Appended
<1>4. LastAccepted(SubSeq(Append(q, r), 1, i))
        = Max({0} \cup {j \in 1 .. i : Append(q, r)[j].accepted})
    BY <1>3, PrefixLast
<1> QED
    BY <1>1, <1>2, <1>4, Zenon

(* The tail of a longer index grows by one or is cut. *)
LEMMA TailAppended ==
    ASSUME NEW q \in Seq(RowType), NEW r \in RowType,
           NEW I \in SUBSET (1 .. Len(q)), NEW J \in SUBSET (1 .. Len(q) + 1),
           J \ {Len(q) + 1} = I
    PROVE  /\ TailLength(q, I) \in Nat
           /\ TailLength(Append(q, r), J) =
                 IF Len(q) + 1 \in J THEN TailLength(q, I) + 1 ELSE 0
<1> DEFINE n == Len(q)
           A == {i \in 1 .. n : i .. n \subseteq I}
           B == {i \in 1 .. n + 1 : i .. n + 1 \subseteq J}
<1>0. n \in Nat
    OBVIOUS
<1>1. TailLength(q, I) = Cardinality(A) /\ TailLength(Append(q, r), J) = Cardinality(B)
    BY Appended DEF TailLength
<1>2. IsFiniteSet(A) /\ Cardinality(A) \in Nat
    <2>1. A \in SUBSET (1 .. n) /\ IsFiniteSet(1 .. n)
        BY <1>0, FS_Interval
    <2> HIDE DEF A, n
    <2> QED
        BY <2>1, FS_Subset, FS_CardinalityType
<1>3. CASE n + 1 \in J
    <2>1. \A i \in 1 .. n : i .. n + 1 \subseteq J <=> i .. n \subseteq I
        BY <1>0, <1>3
    <2>2. n + 1 .. n + 1 \subseteq J
        BY <1>0, <1>3
    <2>3. B = A \cup {n + 1} /\ n + 1 \notin A
        BY <1>0, <2>1, <2>2
    <2>4. Cardinality(B) = Cardinality(A) + 1
        <3> HIDE DEF A, B, n
        <3> QED
            BY <1>2, <2>3, FS_AddElement
    <2> QED
        BY <1>1, <1>2, <1>3, <2>4
<1>4. CASE n + 1 \notin J
    <2>1. B = {}
        BY <1>0, <1>4
    <2> QED
        BY <1>1, <1>2, <1>4, <2>1, FS_EmptySet
<1> QED
    BY <1>3, <1>4

(* A set that lacks the last row has no tail. *)
LEMMA TailCut ==
    ASSUME NEW q \in Seq(RowType), NEW I \in SUBSET (1 .. Len(q)), Len(q) \notin I
    PROVE  TailLength(q, I) = 0
<1>1. \A i \in 1 .. Len(q) : ~(i .. Len(q) \subseteq I)
    OBVIOUS
<1>2. {i \in DOMAIN q : i .. Len(q) \subseteq I} = {}
    BY <1>1
<1> QED
    BY <1>2, FS_EmptySet DEF TailLength

LEMMA NoProgressAppended ==
    ASSUME NEW q \in Seq(RowType), NEW r \in RowType, LastIsLast(q)
    PROVE  /\ NoProgressTail(q) \in Nat
           /\ NoProgressTail(Append(q, r)) = IF r.accepted THEN 0 ELSE NoProgressTail(q) + 1
<1> DEFINE A == Append(q, r)
           I == DOMAIN q \ Accepted(q)
           J == DOMAIN A \ Accepted(A)
<1>1. I \in SUBSET (1 .. Len(q)) /\ J \in SUBSET (1 .. Len(q) + 1) /\ J \ {Len(q) + 1} = I
    BY Appended, LastAppended DEF Accepted
<1>2. Len(q) + 1 \in J <=> ~r.accepted
    BY Appended, LastAppended DEF Accepted
<1>3. NoProgressTail(q) = TailLength(q, I) /\ NoProgressTail(A) = TailLength(A, J)
    BY DEF NoProgressTail
<1> HIDE DEF I, J
<1> QED
    BY <1>1, <1>2, <1>3, TailAppended

LEMMA InfraAppended ==
    ASSUME NEW q \in Seq(RowType), NEW r \in RowType
    PROVE  /\ InfraTail(q) \in Nat
           /\ InfraTail(Append(q, r)) =
                 IF r.outcome = "infra_failure" THEN InfraTail(q) + 1 ELSE 0
<1> DEFINE A == Append(q, r)
           I == {i \in DOMAIN q : q[i].outcome = "infra_failure"}
           J == {i \in DOMAIN A : A[i].outcome = "infra_failure"}
<1>1. I \in SUBSET (1 .. Len(q)) /\ J \in SUBSET (1 .. Len(q) + 1) /\ J \ {Len(q) + 1} = I
    BY Appended
<1>2. Len(q) + 1 \in J <=> r.outcome = "infra_failure"
    BY Appended
<1>3. InfraTail(q) = TailLength(q, I) /\ InfraTail(A) = TailLength(A, J)
    BY DEF InfraTail
<1> HIDE DEF I, J
<1> QED
    BY <1>1, <1>2, <1>3, TailAppended

LEMMA SameAppended ==
    ASSUME NEW q \in Seq(RowType), NEW r \in RowType
    PROVE  /\ SameTail(q) \in Nat
           /\ SameTail(Append(q, r)) = IF LastSig(q) = r.sig THEN SameTail(q) + 1 ELSE 1
<1> DEFINE A == Append(q, r)
           n == Len(q)
           I == {i \in DOMAIN q : q[i].sig = q[n].sig}
           R == {i \in DOMAIN q : q[i].sig = r.sig}
           J == {i \in DOMAIN A : A[i].sig = r.sig}
<1>1. /\ I \in SUBSET (1 .. n) /\ R \in SUBSET (1 .. n)
      /\ J \in SUBSET (1 .. n + 1) /\ J \ {n + 1} = R /\ n + 1 \in J
    BY Appended
<1>2. SameTail(q) = TailLength(q, I) /\ SameTail(A) = TailLength(A, J)
    BY Appended DEF SameTail
<1>3. I \in SUBSET (1 .. n + 1) /\ I \ {n + 1} = I
    BY <1>1, Appended
<1>4. SameTail(A) = TailLength(q, R) + 1
    <2> HIDE DEF I, R, J, n
    <2> QED
        BY <1>1, <1>2, TailAppended DEF n
<1>5. TailLength(q, I) \in Nat
    <2> HIDE DEF I, R, J, n
    <2> QED
        BY <1>1, <1>3, TailAppended DEF n
<1>6. CASE q # <<>> /\ q[n].sig = r.sig
    <2>1. I = R
        BY <1>6
    <2> HIDE DEF I, R, J
    <2> QED
        BY <1>2, <1>4, <1>5, <1>6, <2>1 DEF LastSig
<1>7. CASE q # <<>> /\ q[n].sig # r.sig
    <2>1. n \notin R
        BY <1>7
    <2>2. TailLength(q, R) = 0
        BY <1>1, <2>1, TailCut
    <2> HIDE DEF I, R, J
    <2> QED
        BY <1>2, <1>4, <1>5, <1>7, <2>2 DEF LastSig
<1>8. CASE q = <<>>
    <2>1. n = 0 /\ I = {} /\ R = {}
        BY <1>8
    <2>2. TailLength(q, R) = 0 /\ TailLength(q, I) = 0
        BY <2>1, <1>1, TailCut
    <2> HIDE DEF I, R, J
    <2> QED
        BY <1>2, <1>4, <1>8, <2>2
<1> QED
    BY <1>6, <1>7, <1>8

LEMMA UnionsAppended ==
    ASSUME NEW q \in Seq(RowType), NEW r \in RowType, LastIsLast(q)
    PROVE  /\ GainedBy(q) \subseteq Tasks /\ FailedBy(q) \subseteq Tasks
           /\ GainedBy(Append(q, r)) = GainedBy(q) \cup (IF r.accepted THEN r.gains ELSE {})
           /\ FailedBy(Append(q, r)) = FailedBy(q) \cup r.failed
           /\ Odd(Append(q, r)) <=> Odd(q) \/ r.failed # r.student
<1> DEFINE A == Append(q, r)
<1>1. GainedBy(q) \subseteq Tasks /\ FailedBy(q) \subseteq Tasks
    <2>1. \A i \in DOMAIN q : q[i].gains \subseteq Tasks /\ q[i].failed \subseteq Tasks
        <3> SUFFICES ASSUME NEW i \in DOMAIN q
                     PROVE  q[i].gains \subseteq Tasks /\ q[i].failed \subseteq Tasks
            OBVIOUS
        <3>1. q[i] \in RowType
            BY Appended
        <3> QED
            BY <3>1 DEF RowType
    <2>2. \A t \in GainedBy(q) : t \in Tasks
        BY <2>1 DEF GainedBy, Accepted
    <2>3. \A t \in FailedBy(q) : t \in Tasks
        BY <2>1 DEF FailedBy
    <2> QED
        BY <2>2, <2>3
<1>2. \A t : t \in GainedBy(A) <=>
             t \in GainedBy(q) \/ (r.accepted /\ t \in r.gains)
    BY Appended DEF GainedBy, Accepted
<1>3. \A t : t \in FailedBy(A) <=> t \in FailedBy(q) \/ t \in r.failed
    BY Appended DEF FailedBy
<1>4. Odd(A) <=> Odd(q) \/ r.failed # r.student
    BY Appended DEF Odd
<1> QED
    BY <1>1, <1>2, <1>3, <1>4

(* The next GoalState, counted from the last, is what the longer index gives. *)
LEMMA CountsAppended ==
    ASSUME NEW q \in Seq(RowType), NEW r \in RowType, NEW s \in StateType,
           LastIsLast(q), RowSound(r), Counts(s, q), r.best = LastAccepted(Append(q, r))
    PROVE  Advanced(s, r) \in StateType /\ Counts(Advanced(s, r), Append(q, r))
<1> DEFINE A == Append(q, r)
           a == Advanced(s, r)
<1>1. /\ a.status = s.status /\ a.rounds = s.rounds + 1 /\ a.best = r.best /\ a.sig = r.sig
      /\ a.noProgress = (IF r.accepted THEN 0 ELSE s.noProgress + 1)
      /\ a.infra = (IF HasInfra(r) THEN s.infra + 1 ELSE 0)
      /\ a.gained = (IF r.accepted THEN s.gained \cup r.gains ELSE s.gained)
      /\ a.same = (IF s.sig = r.sig THEN s.same + 1 ELSE 1)
      /\ a.unresolvable = s.unresolvable \cup r.student
    BY DEF Advanced, StateType
<1>2. a \in StateType
    <2> DEFINE np == IF r.accepted THEN 0 ELSE s.noProgress + 1
               inf == IF HasInfra(r) THEN s.infra + 1 ELSE 0
               g == IF r.accepted THEN s.gained \cup r.gains ELSE s.gained
               sm == IF s.sig = r.sig THEN s.same + 1 ELSE 1
               u == s.unresolvable \cup r.student
    <2>1. /\ s.rounds + 1 \in Nat /\ np \in Nat /\ inf \in Nat /\ sm \in Nat
          /\ g \in SUBSET Tasks /\ u \in SUBSET Tasks /\ r.best \in Nat /\ r.sig \in SigType
        BY DEF StateType, RowType
    <2>2. a = [s EXCEPT !.rounds = s.rounds + 1, !.noProgress = np, !.infra = inf,
                        !.gained = g, !.best = r.best, !.sig = r.sig, !.same = sm,
                        !.unresolvable = u]
        BY DEF Advanced
    <2> HIDE DEF a, np, inf, g, sm, u
    <2> QED
        BY <2>1, <2>2 DEF StateType
<1>3. LastSig(A) = r.sig
    BY Appended DEF LastSig
<1>4. a.rounds = Len(A) /\ a.best = LastAccepted(A) /\ a.sig = LastSig(A)
    BY <1>1, <1>3, Appended DEF Counts
<1>5. a.noProgress = NoProgressTail(A)
    BY <1>1, NoProgressAppended DEF Counts
<1>6. a.same = SameTail(A)
    BY <1>1, SameAppended DEF Counts
<1>7. a.gained = GainedBy(A)
    BY <1>1, UnionsAppended DEF Counts
<1>8. a.unresolvable \subseteq FailedBy(A)
    BY <1>1, UnionsAppended DEF Counts, RowSound
<1>9. ASSUME ~Odd(A)
      PROVE  a.infra = InfraTail(A) /\ a.unresolvable = FailedBy(A)
    <2>1. ~Odd(q) /\ r.failed = r.student
        BY <1>9, UnionsAppended
    <2>2. HasInfra(r) <=> r.outcome = "infra_failure"
        BY <2>1 DEF HasInfra, RowSound
    <2>3. a.infra = InfraTail(A)
        BY <1>1, <2>1, <2>2, InfraAppended DEF Counts
    <2>4. a.unresolvable = FailedBy(A)
        BY <1>1, <2>1, UnionsAppended DEF Counts
    <2> QED
        BY <2>3, <2>4
<1> HIDE DEF A, a
<1>10. Counts(a, A)
    BY <1>4, <1>5, <1>6, <1>7, <1>8, <1>9 DEF Counts
<1> QED
    BY <1>2, <1>10 DEF A, a

-----------------------------------------------------------------------------
(* Statuses.                                                               *)

LEMMA StopStatusCases ==
    ASSUME NEW s \in StateType, NEW o \in Statuses
    PROVE  /\ StopStatus(s, o) \in Statuses
           /\ StopStatus(s, "active") # "active" => StopStatus(s, o) = StopStatus(s, "active")
           /\ StopStatus(s, "active") = "active" => StopStatus(s, o) = o
<1>1. Cardinality(s.gained) \in Nat /\ s.noProgress \in Nat /\ s.infra \in Nat /\ s.same \in Nat
    BY TasksFinite DEF StateType
<1>2. {TargetGains, Patience, MaxInfra, MaxSame} \subseteq Nat
    BY RunnerAssumption DEF RunnerAssumption
<1> QED
    BY <1>1, <1>2 DEF StopStatus, Statuses

\* t is s with another status.
SameCounts(s, t) ==
    /\ t.rounds = s.rounds /\ t.noProgress = s.noProgress /\ t.infra = s.infra
    /\ t.gained = s.gained /\ t.best = s.best /\ t.sig = s.sig /\ t.same = s.same
    /\ t.unresolvable = s.unresolvable

LEMMA StatusAside ==
    ASSUME NEW s \in StateType, NEW t \in StateType, SameCounts(s, t), NEW q
    PROVE  /\ Counts(s, q) => Counts(t, q)
           /\ StopStatus(t, "active") = StopStatus(s, "active")
BY DEF SameCounts, Counts, StopStatus

LEMMA WithStatus ==
    ASSUME NEW s \in StateType, NEW x \in Statuses \cup {"absent"}
    PROVE  /\ [s EXCEPT !.status = x] \in StateType
           /\ [s EXCEPT !.status = x].status = x
           /\ SameCounts(s, [s EXCEPT !.status = x])
BY DEF StateType, SameCounts

(* A state that is given an external status, or the status of its counters, fits. *)
LEMMA StatusFitting ==
    ASSUME NEW s \in StateType, NEW q, Counts(s, q)
    PROVE  /\ \A x \in ExternallyTerminal :
                 /\ [s EXCEPT !.status = x] \in StateType /\ Fits([s EXCEPT !.status = x], q)
                 /\ [s EXCEPT !.status = x].status = x
           /\ \A o \in {"active", "max_rounds_reached"} :
                 s.rounds >= MaxRounds \/ o = "active" =>
                    /\ Judged(s, o) \in StateType /\ Fits(Judged(s, o), q)
                    /\ Judged(s, o).status \in Statuses
<1>1. ASSUME NEW x \in ExternallyTerminal
      PROVE  /\ [s EXCEPT !.status = x] \in StateType /\ Fits([s EXCEPT !.status = x], q)
             /\ [s EXCEPT !.status = x].status = x
    <2>1. x \in Statuses
        BY DEF ExternallyTerminal, Statuses
    <2> QED
        BY <2>1, WithStatus, StatusAside DEF Fits, StatusFits
<1>2. ASSUME NEW o \in {"active", "max_rounds_reached"}, s.rounds >= MaxRounds \/ o = "active"
      PROVE  /\ Judged(s, o) \in StateType /\ Fits(Judged(s, o), q)
             /\ Judged(s, o).status \in Statuses
    <2> DEFINE x == StopStatus(s, o)
               t == [s EXCEPT !.status = x]
    <2>0. o \in Statuses /\ "active" \in Statuses
        BY DEF Statuses
    <2>1. /\ x \in Statuses
          /\ StopStatus(s, "active") # "active" => x = StopStatus(s, "active")
          /\ StopStatus(s, "active") = "active" => x = o
        BY <2>0, StopStatusCases
    <2>2. Judged(s, o) = t
        BY DEF Judged
    <2> HIDE DEF x
    <2>3. t \in StateType /\ t.status = x /\ SameCounts(s, t)
        BY <2>1, WithStatus
    <2>4. Counts(t, q) /\ StopStatus(t, "active") = StopStatus(s, "active")
        BY <2>3, StatusAside
    <2>5. t.rounds = s.rounds
        BY <2>3 DEF SameCounts
    <2> HIDE DEF t
    <2>6. StatusFits(t)
        BY <1>2, <2>1, <2>3, <2>4, <2>5 DEF StatusFits
    <2> QED
        BY <2>1, <2>2, <2>3, <2>4, <2>6 DEF Fits
<1> QED
    BY <1>1, <1>2

LEMMA RecoveredFits ==
    ASSUME NEW q \in Seq(RowType), q # <<>>, LastIsLast(q), q[Len(q)].best = LastAccepted(q),
           \A i \in DOMAIN q : RowSound(q[i])
    PROVE  Recovered(q) \in StateType /\ Fits(Recovered(q), q) /\ Recovered(q).status \in Statuses
<1> DEFINE s == [status |-> "active", rounds |-> Len(q), noProgress |-> NoProgressTail(q),
                 infra |-> InfraTail(q), gained |-> GainedBy(q), best |-> q[Len(q)].best,
                 sig |-> q[Len(q)].sig, same |-> SameTail(q), unresolvable |-> FailedBy(q)]
           o == IF Len(q) >= MaxRounds THEN "max_rounds_reached" ELSE "active"
<1>1. NoRow \in RowType
    BY DEF NoRow, RowType, NoSig, SigType, NoFacts
<1>2. /\ NoProgressTail(q) \in Nat /\ InfraTail(q) \in Nat /\ SameTail(q) \in Nat
      /\ GainedBy(q) \subseteq Tasks /\ FailedBy(q) \subseteq Tasks
    BY <1>1, NoProgressAppended, InfraAppended, SameAppended, UnionsAppended
<1>3. Len(q) \in Nat /\ q[Len(q)].best \in Nat /\ q[Len(q)].sig \in SigType
    <2>1. q[Len(q)] \in RowType /\ Len(q) \in Nat
        OBVIOUS
    <2> QED
        BY <2>1 DEF RowType
<1>4. s \in StateType
    BY <1>2, <1>3 DEF StateType, Statuses
<1>5. Counts(s, q)
    BY DEF Counts, LastSig
<1>6. Recovered(q) = Judged(s, o)
    BY DEF Recovered
<1>7. o \in {"active", "max_rounds_reached"} /\ (s.rounds >= MaxRounds \/ o = "active")
    OBVIOUS
<1> HIDE DEF s, o
<1> QED
    BY <1>4, <1>5, <1>6, <1>7, StatusFitting

LEMMA InitialFits ==
    /\ InitialState \in StateType /\ NoState \in StateType /\ Fits(InitialState, <<>>)
    /\ NoState # InitialState /\ NoState.status = "absent" /\ InitialState.status = "active"
<1>1. InitialState \in StateType /\ InitialState.status = "active"
    BY DEF InitialState, StateType, Statuses, NoSig, SigType, NoFacts
<1>2. NoState \in StateType /\ NoState.status = "absent"
    BY <1>1, WithStatus DEF NoState
<1>3. TailLength(<<>>, {}) = 0
    BY EmptySeq, TailCut
<1>4. NoProgressTail(<<>>) = 0 /\ InfraTail(<<>>) = 0 /\ SameTail(<<>>) = 0
    BY <1>3, EmptySeq DEF NoProgressTail, InfraTail, SameTail
<1>5. GainedBy(<<>>) = {} /\ FailedBy(<<>>) = {} /\ Accepted(<<>>) = {}
    BY DEF GainedBy, FailedBy, Accepted
<1>6. LastAccepted(<<>>) = 0
    BY <1>5, MaxIs DEF LastAccepted
<1>7. Counts(InitialState, <<>>)
    BY <1>4, <1>5, <1>6 DEF Counts, InitialState, LastSig
<1>8. StopStatus(InitialState, "active") = "active"
    <2>1. Cardinality({}) = 0 /\ {TargetGains, Patience, MaxInfra, MaxSame} \subseteq Nat \ {0}
        BY FS_EmptySet, RunnerAssumption DEF RunnerAssumption
    <2> QED
        BY <2>1 DEF StopStatus, InitialState
<1> QED
    BY <1>1, <1>2, <1>7, <1>8 DEF Fits, StatusFits

-----------------------------------------------------------------------------
(* Every step keeps the parts of the invariant.                            *)

LEMMA Cases ==
    ASSUME [Next]_vars
    PROVE  \/ Launch \/ Stop \/ CutShort \/ CutRefuses \/ Rebuild \/ VerifyBest \/ Terminal
           \/ Select \/ DiskLimit \/ MaxRoundsReached
           \/ Baseline \/ BaselineFailed \/ BaselineComplete
           \/ AskTeacher \/ Taught \/ RunCampaign \/ LoadCampaign
           \/ Judge \/ CopyArtifacts \/ ReloadArtifacts \/ ExportHarness
           \/ Index \/ WriteState \/ WriteResult \/ Seal \/ UNCHANGED vars
BY DEF Next, Step

(* A block raises over another one, or is frozen; nothing else of the round changes. *)
LEMMA BlockCases ==
    ASSUME Types, NEW phase \in Phases, NEW error \in Errors \cup {NoFacts}, Block(phase, error)
    PROVE  /\ draft' \in DraftType /\ SameRound
           /\ \/ pc' = "down" /\ st' = NoState /\ row' = NoRow
              \/ pc' = "write" /\ st' = Blocked(st) /\ row' = row
<1> DEFINE b == [phase |-> phase, error |-> error]
<1>1. \/ draft' = draft /\ pc' = "down" /\ st' = NoState /\ row' = NoRow
      \/ /\ draft' = [draft EXCEPT !.block = b]
         /\ pc' = "write" /\ st' = Blocked(st) /\ row' = row
    BY Zenon DEF Block, Refuse, Down, Blocked
<1>2. [draft EXCEPT !.block = b] \in DraftType
    BY DEF Types, DraftType
<1>3. draft' \in DraftType
    BY <1>1, <1>2 DEF Types
<1>4. SameRound
    BY <1>1 DEF SameRound, Types, DraftType
<1> QED
    BY <1>1, <1>3, <1>4

(* The result of a campaign is frozen. *)
Frozen(k, f, G, R, I) ==
    /\ draft' = [draft EXCEPT !.kind = k, !.facts = f, !.gains = G, !.regressions = R, !.infra = I]
    /\ pc' \in {"judge", "paired"} /\ st' = st /\ row' = row

LEMMA CampaignCases ==
    /\ RunCampaign =>
          \/ \E e \in Errors : Block("model-native-lineage", e)
          \/ \E k \in CampaignKinds, f \in Facts, G, R, I \in SUBSET draft.selected :
                Frozen(k, f, G, R, I)
    /\ LoadCampaign =>
          \/ /\ pc' \in {"judge", "down"} /\ draft' = draft /\ row' \in {row, NoRow}
             /\ st' \in {st, NoState} /\ (pc' = "judge" => st' = st)
          \/ \E phase \in Phases : Block(phase, NoFacts)
<1>1. ASSUME RunCampaign
      PROVE  \/ \E e \in Errors : Block("model-native-lineage", e)
             \/ \E k \in CampaignKinds, f \in Facts, G, R, I \in SUBSET draft.selected :
                   Frozen(k, f, G, R, I)
    <2>1. CASE \E e \in Errors : Block("model-native-lineage", e)
        BY <2>1
    <2>2. CASE ~ \E e \in Errors : Block("model-native-lineage", e)
        <3>1. PICK k \in CampaignKinds, f \in Facts, G \in SUBSET draft.selected,
                   R \in SUBSET draft.selected, I \in SUBSET draft.selected :
                /\ draft' = [draft EXCEPT !.kind = k, !.facts = f, !.gains = G,
                                          !.regressions = R, !.infra = I]
                /\ pc' = (IF k = "raised" THEN "judge" ELSE "paired")
                /\ UNCHANGED <<st, row>>
            BY <1>1, <2>2, Zenon DEF RunCampaign
        <3>2. Frozen(k, f, G, R, I)
            BY <3>1 DEF Frozen
        <3> QED
            BY <3>2
    <2> QED
        BY <2>1, <2>2
<1>2. ASSUME LoadCampaign
      PROVE  \/ /\ pc' \in {"judge", "down"} /\ draft' = draft /\ row' \in {row, NoRow}
                /\ st' \in {st, NoState} /\ (pc' = "judge" => st' = st)
             \/ \E phase \in Phases : Block(phase, NoFacts)
    <2>1. "model-native-lineage" \in Phases /\ "campaign-feedback-lineage" \in Phases
        BY DEF Phases
    <2> QED
        BY <1>2, <2>1, Zenon DEF LoadCampaign, Refuse, Down
<1> QED
    BY <1>1, <1>2

(* A kill inside a write leaves the process down and a mark in cut or in the draft. *)
LEMMA CutCases ==
    ASSUME Types, CutShort
    PROVE  /\ draft' \in DraftType /\ SameRound
           /\ pc' = "down" /\ st' = NoState /\ row' = NoRow /\ stops' \in Nat
           /\ UNCHANGED <<rows, saved, best, result, seal>>
<1>1. /\ pc' = "down" /\ st' = NoState /\ row' = NoRow /\ stops' \in Nat
      /\ UNCHANGED <<rows, saved, best, result, seal>>
    BY DEF CutShort, Down, Types
<1>2. \/ draft' = draft \/ draft' = [draft EXCEPT !.block = CutBlock]
      \/ \E k \in {"partial", "unverified"} : draft' = [draft EXCEPT !.kind = k]
    BY Zenon DEF CutShort
<1>3. CutBlock \in [phase : Phases, error : Errors \cup {NoFacts}]
    BY DEF CutBlock, Phases
<1>5. draft \in DraftType
    BY DEF Types
<1>6. ASSUME draft' = [draft EXCEPT !.block = CutBlock]
      PROVE  draft' \in DraftType /\ SameRound
    <2>1. [draft EXCEPT !.block = CutBlock] \in DraftType
        BY <1>3, <1>5 DEF DraftType
    <2>2. ASSUME NEW b, draft' = [draft EXCEPT !.block = b] PROVE SameRound
        BY <1>5, <2>2 DEF DraftType, SameRound
    <2> QED
        BY <1>6, <2>1, <2>2, Zenon
<1>7. ASSUME NEW k \in {"partial", "unverified"}, draft' = [draft EXCEPT !.kind = k]
      PROVE  draft' \in DraftType /\ SameRound
    <2>1. [draft EXCEPT !.kind = k] \in DraftType
        BY <1>5 DEF DraftType, AllKinds
    <2> QED
        BY <1>5, <1>7, <2>1 DEF SameRound, DraftType
<1>4. draft' \in DraftType /\ SameRound
    BY <1>2, <1>5, <1>6, <1>7 DEF SameRound
<1> QED
    BY <1>1, <1>4

(* The row of the last round names the last accepted one. *)
LEMMA LastNamed ==
    ASSUME Types, AcceptedIsProgress, rows # <<>>
    PROVE  rows[Len(rows)].best = LastAccepted(rows)
<1>1. SubSeq(rows, 1, Len(rows)) = rows /\ Len(rows) \in DOMAIN rows
    BY SubSeqFull DEF Types
<1> QED
    BY <1>1 DEF AcceptedIsProgress

LEMMA DraftTyped ==
    ASSUME Types
    PROVE  /\ draft.selected \in SUBSET Tasks /\ draft.failed \in SUBSET Tasks
           /\ draft.student \in SUBSET Tasks /\ draft.gains \in SUBSET Tasks
           /\ draft.regressions \in SUBSET Tasks /\ draft.facts \in Facts \cup {NoFacts}
           /\ Fitness(draft.gains, draft.regressions) \in Int
           /\ NoDraft \in DraftType /\ NoRow \in RowType
<1>0. NoBlock \in [phase : Phases, error : Errors \cup {NoFacts}]
    BY DEF NoBlock, Phases
<1>1. /\ draft.selected \in SUBSET Tasks /\ draft.failed \in SUBSET Tasks
      /\ draft.student \in SUBSET Tasks /\ draft.gains \in SUBSET Tasks
      /\ draft.regressions \in SUBSET Tasks /\ draft.facts \in Facts \cup {NoFacts}
    BY DEF Types, DraftType
<1>2. Cardinality(draft.gains) \in Nat /\ Cardinality(draft.regressions) \in Nat
    BY <1>1, TasksFinite
<1>3. Fitness(draft.gains, draft.regressions) \in Int
    BY <1>2 DEF Fitness
<1>4. NoDraft \in DraftType /\ NoRow \in RowType
    BY <1>0 DEF NoDraft, DraftType, NoRow, RowType, NoSig, SigType, NoFacts
<1> QED
    BY <1>1, <1>3, <1>4

LEMMA AdvancedFits ==
    ASSUME Types, StateInv, RowInv, pc = "index"
    PROVE  /\ Judged(Advanced(st, row), "active") \in StateType
           /\ Judged(Advanced(st, row), "active").status \in Statuses
           /\ Fits(Judged(Advanced(st, row), "active"), Append(rows, row))
           /\ LastIsLast(Append(rows, row))
           /\ LastAccepted(Append(rows, row)) = row.best
<1>1. Counts(st, rows)
    BY DEF StateInv, InRound, Fits
<1>2. RowSound(row) /\ LastIsLast(rows)
      /\ row.best = IF row.accepted THEN Len(rows) + 1 ELSE LastAccepted(rows)
    BY DEF RowInv, Writing
<1>3. LastIsLast(Append(rows, row)) /\ LastAccepted(Append(rows, row)) = row.best
    BY <1>2, LastAppended DEF Types
<1>4. Advanced(st, row) \in StateType /\ Counts(Advanced(st, row), Append(rows, row))
    BY <1>1, <1>2, <1>3, CountsAppended DEF Types
<1> QED
    BY <1>3, <1>4, StatusFitting

LEMMA TypesStep == Types /\ StateInv /\ RowInv /\ AcceptedIsProgress /\ [Next]_vars => Types'
<1> SUFFICES ASSUME Types, StateInv, RowInv, AcceptedIsProgress, [Next]_vars
             PROVE  Types'
    OBVIOUS
<1>0. /\ NoState \in StateType /\ NoRow \in RowType /\ NoDraft \in DraftType
      /\ \A x \in Statuses : [st EXCEPT !.status = x] \in StateType
      /\ "blocked_integrity" \in Statuses
    BY InitialFits, DraftTyped, WithStatus DEF Types, Statuses
<1> USE DEF Types, PCs
<1>1. ASSUME Launch PROVE Types'
    BY <1>1, InitialFits DEF Launch
<1>2. ASSUME Rebuild PROVE Types'
    <2>1. Recovered(rows) \in StateType \/ rows = <<>>
        BY LastNamed, RecoveredFits DEF RowInv
    <2>2. st.rounds \in Nat /\ Len(rows) \in Nat /\ (rows = <<>> => Len(rows) = 0)
        BY DEF StateType
    <2>3. /\ pc' \in {"down", "verify"} /\ row' \in {row, NoRow}
          /\ saved' \in {saved, Recovered(rows)} /\ st' \in {st, NoState, Recovered(rows)}
        BY <1>2, Zenon DEF Rebuild, Refuse, Down
    <2>4. rows = <<>> => saved' \in {saved} /\ st' \in {st, NoState}
        <3>1. (saved' = saved /\ st' \in {st, NoState}) \/ Len(rows) = st.rounds + 1
            BY <1>2, Zenon DEF Rebuild, Refuse, Down
        <3> QED
            BY <2>2, <3>1
    <2>5. UNCHANGED <<rows, best, draft, result, seal, stops>>
        BY <1>2 DEF Rebuild
    <2> QED
        BY <1>0, <2>1, <2>3, <2>4, <2>5
<1>3. ASSUME VerifyBest PROVE Types'
    <2>1. UNCHANGED <<rows, saved, best, result, seal, stops>>
        BY <1>3 DEF VerifyBest
    <2>2. \/ pc' \in {"loop", "terminal"} /\ UNCHANGED <<draft, st, row>>
          \/ Block("best-harness-projection", NoFacts)
        BY <1>3, Zenon DEF VerifyBest, AfterVerify
    <2>3. CASE Block("best-harness-projection", NoFacts)
        BY <1>0, <2>1, <2>3, BlockCases DEF Phases, Blocked
    <2> QED
        BY <2>1, <2>2, <2>3
<1>4. ASSUME Terminal \/ CutRefuses PROVE Types'
    BY <1>0, <1>4 DEF Terminal, CutRefuses, Refuse, Down, files
<1>5. ASSUME Select PROVE Types'
    <2>1. ASSUME NEW S \in kSubset(Count, Selectable)
          PROVE  [draft EXCEPT !.selected = S] \in DraftType
        BY <2>1 DEF kSubset, Selectable, DraftType
    <2> QED
        BY <1>5, <2>1, DraftTyped, InitialFits DEF Select, Refuse, Down
<1>6. ASSUME DiskLimit \/ MaxRoundsReached PROVE Types'
    BY <1>0, <1>6 DEF DiskLimit, MaxRoundsReached, files, Statuses
<1>17. ASSUME Taught PROVE Types'
    <2>1. UNCHANGED <<rows, saved, best, result, seal, stops>>
        BY <1>17 DEF Taught
    <2>2. \/ pc' = "paired" /\ UNCHANGED <<draft, st, row>>
          \/ pc' = "write" /\ st' = [st EXCEPT !.status = "budget_exhausted"]
               /\ UNCHANGED <<draft, row>>
          \/ Block("teacher", NoFacts)
        BY <1>17, Zenon DEF Taught
    <2>3. CASE Block("teacher", NoFacts)
        BY <1>0, <2>1, <2>3, BlockCases DEF Phases, Blocked
    <2> QED
        BY <1>0, <2>1, <2>2, <2>3 DEF Statuses
<1>7. ASSUME Baseline PROVE Types'
    <2>1. CASE draft' = [draft EXCEPT !.baseline = "complete"]
        BY <1>7, <2>1 DEF Baseline, DraftType
    <2>2. ASSUME NEW F \in SUBSET draft.selected, NEW S \in SUBSET F,
                 draft' = [draft EXCEPT !.baseline = "failed", !.failed = F, !.student = S]
          PROVE  draft' \in DraftType
        BY <2>2 DEF DraftType
    <2>3. draft' \in DraftType
        BY <1>7, <2>1, <2>2 DEF Baseline
    <2> QED
        BY <1>7, <2>3 DEF Baseline
<1>8. ASSUME BaselineFailed PROVE Types'
    <2>1. row' \in RowType
        <3>1. [failed |-> draft.failed, student |-> draft.student, facts |-> NoFacts] \in SigType
            BY DraftTyped DEF SigType
        <3>2. st.best \in Nat
            BY DEF StateType
        <3> QED
            BY <1>8, <3>1, <3>2, DraftTyped DEF BaselineFailed, RowType, NoRow
    <2> QED
        BY <1>8, <2>1 DEF BaselineFailed, files
<1>9. ASSUME BaselineComplete \/ CopyArtifacts \/ ReloadArtifacts \/ ExportHarness
             \/ WriteState \/ WriteResult
      PROVE  Types'
    BY <1>9 DEF BaselineComplete, CopyArtifacts, ReloadArtifacts, ExportHarness,
                WriteState, WriteResult, files, Torn
<1>10. ASSUME AskTeacher PROVE Types'
    <2>1. \A a \in TeacherAnswers : [draft EXCEPT !.teacher = a] \in DraftType
        BY DEF DraftType
    <2> QED
        BY <1>10, <2>1 DEF AskTeacher
<1>11. ASSUME RunCampaign PROVE Types'
    <2>1. UNCHANGED <<rows, saved, best, result, seal, stops>>
        BY <1>11 DEF RunCampaign
    <2>2. CASE \E e \in Errors : Block("model-native-lineage", e)
        BY <1>0, <2>1, <2>2, BlockCases DEF Phases, Blocked
    <2>3. ASSUME NEW k \in CampaignKinds, NEW f \in Facts, NEW G \in SUBSET draft.selected,
                 NEW R \in SUBSET draft.selected, NEW I \in SUBSET draft.selected,
                 Frozen(k, f, G, R, I)
          PROVE  Types'
        <3>1. [draft EXCEPT !.kind = k, !.facts = f, !.gains = G, !.regressions = R, !.infra = I]
                 \in DraftType
            BY RunnerAssumption DEF RunnerAssumption, DraftType
        <3> QED
            BY <2>1, <2>3, <3>1 DEF Frozen
    <2> QED
        BY <1>11, <2>2, <2>3, CampaignCases
<1>12. ASSUME LoadCampaign PROVE Types'
    <2>1. UNCHANGED <<rows, saved, best, result, seal, stops>>
        BY <1>12 DEF LoadCampaign
    <2>2. CASE \E phase \in Phases : Block(phase, NoFacts)
        BY <1>0, <2>1, <2>2, BlockCases DEF Blocked
    <2>3. CASE ~ \E phase \in Phases : Block(phase, NoFacts)
        <3>1. /\ pc' \in {"judge", "down"} /\ draft' = draft /\ row' \in {row, NoRow}
              /\ st' \in {st, NoState}
            BY <1>12, <2>3, CampaignCases, Zenon
        <3> QED
            BY <1>0, <2>1, <3>1
    <2> QED
        BY <2>2, <2>3
<1>13. ASSUME Judge PROVE Types'
    <2>1. row' \in RowType
        <3>1. [NoSig EXCEPT !.facts = draft.facts] \in SigType
            BY DraftTyped DEF NoSig, SigType
        <3>2. /\ st.best \in Nat /\ Len(rows) + 1 \in Nat
              /\ Outcome(draft) \in {"infra_failure", "regression", "gain", "neutral"}
              /\ Advances(draft) \in BOOLEAN
            BY DEF StateType, Outcome, Advances
        <3>3. (IF Advances(draft) THEN Len(rows) + 1 ELSE st.best) \in Nat
            BY <3>2
        <3> QED
            BY <1>13, <3>1, <3>2, <3>3, DraftTyped DEF Judge, RowType, NoRow
    <2> QED
        BY <1>13, <2>1 DEF Judge, files
<1>14. ASSUME Index PROVE Types'
    BY <1>14, AdvancedFits, DraftTyped DEF Index, At
<1>18. ASSUME CutShort PROVE Types'
    BY <1>0, <1>18, CutCases
<1>15. ASSUME Seal \/ Stop PROVE Types'
    BY <1>15, DraftTyped, InitialFits DEF Seal, Stop, Down, files
<1>16. CASE UNCHANGED vars
    BY <1>16 DEF vars, files
<1> QED
    BY <1>1, <1>2, <1>3, <1>4, <1>5, <1>6, <1>7, <1>8, <1>9, <1>10, <1>11, <1>12, <1>13,
       <1>14, <1>15, <1>16, <1>17, <1>18, Cases

(* A round goes on: neither file has changed. *)
LEMMA StateRound ==
    ASSUME Types, StateInv, pc \in InRound, pc' \in InRound, UNCHANGED <<rows, saved, st>>
    PROVE  StateInv'
BY DEF StateInv, InRound, Fits, Counts, Odd, NoProgressTail, GainedBy, LastSig, SameTail,
       LastAccepted, FailedBy, InfraTail, StatusFits, StopStatus

(* The process is down: what the files say of each other is all that is left. *)
LEMMA StateDown ==
    ASSUME Types, StateInv, pc' = "down", UNCHANGED <<rows, saved>>
    PROVE  StateInv'
BY DEF StateInv, InRound, Fits, Counts, Odd, NoProgressTail, GainedBy, LastSig, SameTail,
       LastAccepted, FailedBy, InfraTail, StatusFits, StopStatus

(* A status given outside the rules is yet to be written. *)
LEMMA StateGiven ==
    ASSUME Types, StateInv, pc \in InRound \cup {"verify"}, pc' = "write",
           UNCHANGED <<rows, saved>>, NEW x \in ExternallyTerminal \cup {"max_rounds_reached"},
           st' = [st EXCEPT !.status = x], x = "max_rounds_reached" => st.rounds >= MaxRounds,
           x # "blocked_integrity" => pc \in InRound
    PROVE  StateInv'
<1>1. st = saved /\ st \in StateType /\ Fits(st, rows) /\ pc # "down"
    BY DEF StateInv, InRound, Types
<1>2. saved.status # "absent" /\ (saved.status = "active" \/ st' = Blocked(saved))
    <2>1. saved.status # "absent"
        BY DEF StateInv, InRound
    <2>2. pc \in InRound => saved.status = "active"
        BY DEF StateInv, InRound
    <2>3. x = "blocked_integrity" => st' = Blocked(saved)
        BY <1>1, Zenon DEF Blocked
    <2> QED
        BY <2>1, <2>2, <2>3
<1>3. Fits(st', rows) /\ st'.status # "absent"
    <2>1. CASE x \in ExternallyTerminal
        BY <1>1, <2>1, StatusFitting DEF Fits, ExternallyTerminal
    <2>2. CASE x = "max_rounds_reached"
        <3>1. st.status = "active" /\ st.rounds >= MaxRounds
            BY <2>2 DEF StateInv, InRound, ExternallyTerminal
        <3>2. StopStatus(st, "active") = "active"
            BY <1>1, <3>1 DEF Fits, StatusFits, ExternallyTerminal
        <3>3. StopStatus(st, "max_rounds_reached") = "max_rounds_reached"
            BY <1>1, <3>2, StopStatusCases DEF Statuses
        <3>4. st' = Judged(st, "max_rounds_reached")
            BY <2>2, <3>3 DEF Judged
        <3>5. Fits(st', rows)
            BY <1>1, <3>1, <3>4, StatusFitting DEF Fits
        <3>6. st'.status = "max_rounds_reached"
            BY <1>1, <2>2, WithStatus DEF Statuses
        <3> QED
            BY <3>5, <3>6
    <2> QED
        BY <2>1, <2>2
<1>4. Fits(st, rows)' <=> Fits(st', rows)
    BY DEF Fits, Counts, Odd, NoProgressTail, GainedBy, LastSig, SameTail,
           LastAccepted, FailedBy, InfraTail, StatusFits, StopStatus
<1>5. Fits(saved, rows)' <=> Fits(saved, rows)
    BY DEF Fits, Counts, Odd, NoProgressTail, GainedBy, LastSig, SameTail,
           LastAccepted, FailedBy, InfraTail, StatusFits, StopStatus
<1> QED
    BY <1>1, <1>2, <1>3, <1>4, <1>5 DEF StateInv, InRound, Blocked

LEMMA StateStep == Types /\ StateInv /\ RowInv /\ AcceptedIsProgress /\ [Next]_vars => StateInv'
<1> SUFFICES ASSUME Types, StateInv, RowInv, AcceptedIsProgress, [Next]_vars
             PROVE  StateInv'
    OBVIOUS
<1>0. st \in StateType /\ saved \in StateType /\ rows \in Seq(RowType)
    BY DEF Types
<1>1. ASSUME Launch PROVE StateInv'
    <2>1. pc = "down" /\ pc' = "rebuild" /\ st' = saved' /\ UNCHANGED rows
        BY <1>1 DEF Launch, At
    <2>2. CASE saved = NoState
        <3>1. rows = <<>> /\ saved' = InitialState
            BY <1>1, <2>2, InitialFits DEF Launch, StateInv
        <3>2. Fits(saved', rows) /\ saved'.status = "active"
            BY <3>1, InitialFits
        <3> QED
            BY <2>1, <3>2 DEF StateInv, InRound, Fits, Counts, Odd, NoProgressTail, GainedBy,
               LastSig, SameTail, LastAccepted, FailedBy, InfraTail, StatusFits, StopStatus
    <2>3. CASE saved # NoState
        <3>1. saved' = saved /\ saved.status # "absent"
            BY <1>1, <2>3 DEF Launch, StateInv
        <3> QED
            BY <2>1, <3>1 DEF StateInv, InRound, Fits, Counts, Odd, NoProgressTail, GainedBy,
               LastSig, SameTail, LastAccepted, FailedBy, InfraTail, StatusFits, StopStatus
    <2> QED
        BY <2>2, <2>3
<1>2. ASSUME Rebuild PROVE StateInv'
    <2>1. pc = "rebuild" /\ st = saved /\ saved.status # "absent" /\ UNCHANGED rows
        BY <1>2 DEF Rebuild, At, StateInv
    <2>2. \/ pc' = "down" /\ saved' = saved
          \/ Len(rows) = st.rounds + 1 /\ st' = Recovered(rows) /\ saved' = st' /\ pc' = "verify"
          \/ Len(rows) = st.rounds /\ st' = st /\ saved' = saved /\ pc' = "verify"
        BY <1>2, Zenon DEF Rebuild, Refuse, Down
    <2>3. CASE pc' = "down" /\ saved' = saved
        BY <2>1, <2>3, StateDown
    <2>4. CASE Len(rows) = st.rounds + 1 /\ st' = Recovered(rows) /\ saved' = st' /\ pc' = "verify"
        <3>1. rows # <<>>
            BY <1>0, <2>4 DEF StateType
        <3>2. Fits(st', rows) /\ st'.status # "absent"
            BY <1>0, <2>4, <3>1, LastNamed, RecoveredFits DEF RowInv, Statuses
        <3> QED
            BY <2>1, <2>4, <3>2 DEF StateInv, InRound
    <2>5. CASE Len(rows) = st.rounds /\ st' = st /\ saved' = saved /\ pc' = "verify"
        <3>1. st.rounds \in Nat
            BY <1>0 DEF StateType
        <3>2. Fits(saved, rows)
            BY <2>1, <2>5, <3>1 DEF StateInv
        <3> QED
            BY <2>1, <2>5, <3>2 DEF StateInv, InRound
    <2> QED
        BY <2>2, <2>3, <2>4, <2>5
<1>3. ASSUME VerifyBest PROVE StateInv'
    <2>0. pc = "verify" /\ UNCHANGED <<rows, saved>>
        BY <1>3 DEF VerifyBest
    <2>1. CASE Block("best-harness-projection", NoFacts)
        BY <2>0, <2>1, BlockCases, StateDown, StateGiven DEF Phases, Blocked, ExternallyTerminal
    <2>2. CASE pc' = AfterVerify /\ UNCHANGED st
        BY <2>0, <2>2 DEF AfterVerify, StateInv, InRound, Fits, Counts, Odd,
           NoProgressTail, GainedBy, LastSig, SameTail, LastAccepted, FailedBy, InfraTail,
           StatusFits, StopStatus
    <2> QED
        BY <1>3, <2>1, <2>2, Zenon DEF VerifyBest
<1>4. ASSUME Terminal \/ Seal \/ Stop \/ CutShort \/ CutRefuses PROVE StateInv'
    BY <1>4, StateDown, CutCases DEF Terminal, Seal, Stop, CutRefuses, Refuse, Down, files
<1>5. ASSUME Select PROVE StateInv'
    <2>1. UNCHANGED <<rows, saved>> /\ pc = "loop"
        BY <1>5 DEF Select, At
    <2>2. pc' = "down" \/ (pc' = "baseline" /\ UNCHANGED st)
        BY <1>5, Zenon DEF Select, Refuse, Down
    <2> QED
        BY <2>1, <2>2, StateDown, StateRound DEF InRound
<1>6. ASSUME DiskLimit PROVE StateInv'
    BY <1>6, StateGiven DEF DiskLimit, files, ExternallyTerminal, InRound
<1>7. ASSUME MaxRoundsReached PROVE StateInv'
    <2>1. st.rounds >= MaxRounds
        <3>1. st.rounds \in Nat /\ MaxRounds \in Nat
            BY <1>0, RunnerAssumption DEF RunnerAssumption, StateType
        <3> QED
            BY <1>7, <3>1 DEF MaxRoundsReached, RoundsLeft
    <2> QED
        BY <1>7, <2>1, StateGiven DEF MaxRoundsReached, files, InRound
<1>8. ASSUME Baseline PROVE StateInv'
    BY <1>8, StateRound DEF Baseline, At, InRound
<1>9. ASSUME BaselineFailed \/ BaselineComplete \/ Judge PROVE StateInv'
    BY <1>9, StateRound DEF BaselineFailed, BaselineComplete, Judge, At, InRound, files
<1>10. ASSUME AskTeacher \/ CopyArtifacts \/ ReloadArtifacts \/ ExportHarness PROVE StateInv'
    BY <1>10, StateRound DEF AskTeacher, At, CopyArtifacts, ReloadArtifacts, ExportHarness,
       InRound
<1>11. ASSUME Taught PROVE StateInv'
    <2>1. pc = "teach" /\ UNCHANGED <<rows, saved>>
        BY <1>11 DEF Taught, At
    <2>2. \/ pc' = "paired" /\ UNCHANGED st
          \/ pc' = "write" /\ st' = [st EXCEPT !.status = "budget_exhausted"]
          \/ Block("teacher", NoFacts)
        BY <1>11, Zenon DEF Taught
    <2>3. CASE Block("teacher", NoFacts)
        BY <2>1, <2>3, BlockCases, StateDown, StateGiven
           DEF Phases, Blocked, ExternallyTerminal, InRound
    <2> QED
        BY <2>1, <2>2, <2>3, StateRound, StateGiven DEF InRound, ExternallyTerminal
<1>12. ASSUME RunCampaign \/ LoadCampaign PROVE StateInv'
    <2>1. pc = "paired" /\ UNCHANGED <<rows, saved>>
        BY <1>12 DEF RunCampaign, LoadCampaign, At
    <2>2. \/ pc' \in {"judge", "paired"} /\ UNCHANGED st
          \/ pc' = "down"
          \/ \E phase \in Phases, error \in Errors \cup {NoFacts} : Block(phase, error)
        BY <1>12, CampaignCases DEF Frozen, Phases
    <2>3. CASE \E phase \in Phases, error \in Errors \cup {NoFacts} : Block(phase, error)
        BY <2>1, <2>3, BlockCases, StateDown, StateGiven DEF Blocked, ExternallyTerminal, InRound
    <2> QED
        BY <2>1, <2>2, <2>3, StateRound, StateDown DEF InRound
<1>13. ASSUME Index PROVE StateInv'
    <2>1. /\ pc = "index" /\ pc' = "write" /\ rows' = Append(rows, row) /\ saved' = saved
          /\ st' = Judged(Advanced(st, row), "active")
        BY <1>13 DEF Index, At
    <2>2. Fits(st', Append(rows, row)) /\ st'.status # "absent"
        BY <2>1, AdvancedFits DEF Statuses
    <2>3. Fits(st, rows)' <=> Fits(st', rows')
        BY DEF Fits, Counts, Odd, NoProgressTail, GainedBy, LastSig, SameTail,
               LastAccepted, FailedBy, InfraTail, StatusFits, StopStatus
    <2>4. saved.status = "active" /\ saved.rounds = Len(rows)
        BY <2>1 DEF StateInv, InRound, Fits, Counts
    <2>5. Len(rows') = Len(rows) + 1
        BY <1>0, <2>1, Appended DEF Types
    <2> QED
        BY <2>1, <2>2, <2>3, <2>4, <2>5 DEF StateInv, InRound
<1>14. ASSUME WriteState PROVE StateInv'
    <2>1. pc = "write" /\ saved' = st /\ UNCHANGED <<rows, st>> /\ Fits(st, rows)
          /\ st.status # "absent" /\ pc' = IF st.status = "active" THEN "loop" ELSE "result"
        BY <1>14 DEF WriteState, StateInv
    <2>2. Fits(st, rows)' /\ Fits(saved, rows)'
        BY <2>1 DEF Fits, Counts, Odd, NoProgressTail, GainedBy, LastSig, SameTail,
               LastAccepted, FailedBy, InfraTail, StatusFits, StopStatus
    <2> QED
        BY <2>1, <2>2 DEF StateInv, InRound
<1>15. ASSUME WriteResult PROVE StateInv'
    <2>1. pc = "result" /\ pc' = "seal" /\ UNCHANGED <<rows, saved, st>>
        BY <1>15 DEF WriteResult
    <2> QED
        BY <2>1 DEF StateInv, InRound, Fits, Counts, Odd,
           NoProgressTail, GainedBy, LastSig, SameTail, LastAccepted, FailedBy, InfraTail,
           StatusFits, StopStatus
<1>16. CASE UNCHANGED vars
    BY <1>16 DEF vars, files, StateInv, InRound, Fits, Counts, Odd,
       NoProgressTail, GainedBy, LastSig, SameTail, LastAccepted, FailedBy, InfraTail,
       StatusFits, StopStatus
<1> QED
    BY <1>1, <1>2, <1>3, <1>4, <1>5, <1>6, <1>7, <1>8, <1>9, <1>10, <1>11, <1>12, <1>13,
       <1>14, <1>15, <1>16, Cases

(* Neither the index nor the baseline has changed, and no row is being written. *)
LEMMA RowAside ==
    ASSUME Types, RowInv, UNCHANGED rows, SameRound, pc' \in PCs \ Writing,
           pc' \in InRound \ {"loop"} => pc \in InRound \ {"loop"}
    PROVE  RowInv'
BY DEF RowInv, InRound, Writing, LastIsLast, LastAccepted, Accepted, RowSound, SameRound

(* The row in progress is written as it was judged. *)
LEMMA RowKept ==
    ASSUME Types, RowInv, UNCHANGED <<rows, draft, row>>, pc \in Writing \ {"index"},
           pc' \in Writing
    PROVE  RowInv'
BY DEF RowInv, InRound, Writing, LastIsLast, LastAccepted, Accepted, RowSound

(* Where a round goes from its first stages. *)
LEMMA RoundGoesOn ==
    ASSUME Types, \/ Select \/ DiskLimit \/ MaxRoundsReached \/ Baseline \/ BaselineComplete
                  \/ AskTeacher \/ Taught \/ RunCampaign \/ LoadCampaign
    PROVE  pc' \in {"loop", "baseline", "teach", "paired", "judge", "write", "down"}
<1>1. CASE Select
    BY <1>1, Zenon DEF Select, Refuse, Down
<1>2. CASE DiskLimit \/ MaxRoundsReached \/ Baseline \/ BaselineComplete \/ AskTeacher
    BY <1>2 DEF DiskLimit, MaxRoundsReached, Baseline, BaselineComplete, AskTeacher, At
<1>3. CASE Taught
    <2>1. pc' \in {"paired", "write"} \/ Block("teacher", NoFacts)
        BY <1>3, Zenon DEF Taught
    <2> QED
        BY <2>1, BlockCases DEF Phases
<1>4. CASE RunCampaign \/ LoadCampaign
    <2>1. \/ pc' \in {"judge", "paired", "down"}
          \/ \E phase \in Phases, error \in Errors \cup {NoFacts} : Block(phase, error)
        BY <1>4, CampaignCases DEF Frozen, Phases
    <2> QED
        BY <2>1, BlockCases
<1> QED
    BY <1>1, <1>2, <1>3, <1>4

LEMMA RowStep == Types /\ StateInv /\ RowInv /\ AcceptedIsProgress /\ [Next]_vars => RowInv'
<1> SUFFICES ASSUME Types, StateInv, RowInv, AcceptedIsProgress, [Next]_vars
             PROVE  RowInv'
    OBVIOUS
<1>1. ASSUME Launch \/ Terminal \/ DiskLimit \/ MaxRoundsReached
             \/ WriteState \/ WriteResult \/ Seal \/ Stop \/ CutRefuses
      PROVE  RowInv'
    <2>1. UNCHANGED <<rows, draft>> /\ pc' \in PCs \ Writing /\ pc' \notin InRound \ {"loop"}
        BY <1>1 DEF Launch, Terminal, DiskLimit, MaxRoundsReached, WriteState, CutRefuses,
                    WriteResult, Seal, Stop, Refuse, Down, files, PCs, Writing, InRound
    <2> QED
        BY <2>1, RowAside DEF SameRound
<1>12. ASSUME VerifyBest \/ CutShort PROVE RowInv'
    <2>1. UNCHANGED rows /\ SameRound /\ pc' \in {"down", "write", "loop", "terminal"}
        <3>1. CASE CutShort
            BY <3>1, CutCases
        <3>2. CASE VerifyBest
            <4>1. UNCHANGED rows
                BY <3>2 DEF VerifyBest
            <4>2. \/ pc' \in {"loop", "terminal"} /\ draft' = draft
                  \/ Block("best-harness-projection", NoFacts)
                BY <3>2, Zenon DEF VerifyBest, AfterVerify
            <4> QED
                BY <4>1, <4>2, BlockCases DEF SameRound, Phases
        <3> QED
            BY <1>12, <3>1, <3>2
    <2> QED
        BY <2>1, RowAside DEF PCs, Writing, InRound
<1>2. ASSUME Rebuild PROVE RowInv'
    <2>1. UNCHANGED <<rows, draft>> /\ pc' \in {"down", "verify"}
        BY <1>2, Zenon DEF Rebuild, Refuse, Down
    <2> QED
        BY <2>1, RowAside DEF SameRound, PCs, Writing, InRound
<1>3. ASSUME Select PROVE RowInv'
    <2>1. pc = "loop" /\ RoundsLeft /\ UNCHANGED rows
        BY <1>3 DEF Select, At
    <2>2. Len(rows) < MaxRounds
        BY <2>1 DEF RoundsLeft, StateInv, InRound, Fits, Counts
    <2>3. draft' = draft \/ \E S \in SUBSET Selectable : draft' = [draft EXCEPT !.selected = S]
        BY <1>3, Zenon DEF Select, kSubset
    <2>4. pc' \in {"down", "baseline"}
        BY <1>3, Zenon DEF Select, Refuse, Down
    <2>5. /\ draft'.student = draft.student /\ draft'.failed = draft.failed
          /\ draft'.baseline = draft.baseline
        BY <2>3 DEF Types, DraftType
    <2> QED
        BY <2>1, <2>2, <2>4, <2>5 DEF RowInv, InRound, Writing, LastIsLast,
           LastAccepted, Accepted, RowSound
<1>4. ASSUME Baseline PROVE RowInv'
    <2>1. UNCHANGED <<rows, pc>> /\ pc = "baseline"
        BY <1>4 DEF Baseline, At
    <2>2. \/ draft' = [draft EXCEPT !.baseline = "complete"]
          \/ \E F \in SUBSET draft.selected : \E S \in SUBSET F :
                /\ F # {}
                /\ draft' = [draft EXCEPT !.baseline = "failed", !.failed = F, !.student = S]
        <3>1. \A F : Cardinality(F) \in 1 .. MaxFailed => F # {}
            BY FS_EmptySet
        <3> QED
            BY <1>4, <3>1, Zenon DEF Baseline
    <2>3. /\ draft'.student \subseteq draft'.failed
          /\ draft'.baseline = "failed" => draft'.failed # {}
        <3>1. CASE draft' = [draft EXCEPT !.baseline = "complete"]
            BY <3>1 DEF Types, DraftType, RowInv
        <3>2. ASSUME NEW F \in SUBSET draft.selected, NEW S \in SUBSET F, F # {},
                     draft' = [draft EXCEPT !.baseline = "failed", !.failed = F, !.student = S]
              PROVE  <2>3!1 /\ <2>3!2
            BY <3>2 DEF Types, DraftType
        <3> QED
            BY <2>2, <3>1, <3>2
    <2> QED
        BY <2>1, <2>3 DEF RowInv, InRound, Writing, LastIsLast,
           LastAccepted, Accepted, RowSound
<1>5. ASSUME BaselineComplete PROVE RowInv'
    BY <1>5, RowAside DEF BaselineComplete, At, files, SameRound, InRound, PCs, Writing
<1>6. ASSUME AskTeacher \/ Taught \/ RunCampaign \/ LoadCampaign PROVE RowInv'
    <2>1. UNCHANGED rows /\ pc \in InRound \ {"loop"}
        BY <1>6 DEF AskTeacher, Taught, RunCampaign, LoadCampaign, At, InRound
    <2>2. \/ pc' \in {"teach", "paired", "judge", "write", "down"} /\ SameRound
          \/ \E phase \in Phases, error \in Errors \cup {NoFacts} : Block(phase, error)
        <3>1. CASE AskTeacher
            BY <3>1 DEF AskTeacher, At, Types, DraftType, SameRound
        <3>2. CASE Taught
            <4>1. \/ pc' \in {"paired", "write"} /\ draft' = draft
                  \/ Block("teacher", NoFacts)
                BY <3>2, Zenon DEF Taught
            <4> QED
                BY <4>1 DEF SameRound, Phases
        <3>3. CASE RunCampaign \/ LoadCampaign
            <4>1. ASSUME NEW k, NEW f, NEW G, NEW R, NEW I, Frozen(k, f, G, R, I)
                  PROVE  SameRound /\ pc' \in {"judge", "paired"}
                BY <4>1 DEF Frozen, Types, DraftType, SameRound
            <4>2. draft' = draft => SameRound
                BY DEF SameRound
            <4>3. "model-native-lineage" \in Phases
                BY DEF Phases
            <4> QED
                BY <3>3, <4>1, <4>2, <4>3, CampaignCases
        <3> QED
            BY <1>6, <3>1, <3>2, <3>3
    <2>3. pc' \in {"teach", "paired", "judge", "write", "down"} /\ SameRound
        BY <2>2, BlockCases
    <2> QED
        BY <2>1, <2>3, RowAside DEF PCs, Writing
<1>7. ASSUME BaselineFailed PROVE RowInv'
    <2>1. UNCHANGED <<rows, draft>> /\ pc = "baseline" /\ pc' = "index"
        BY <1>7 DEF BaselineFailed, At, files
    <2>2. st.best = LastAccepted(rows)
        BY <2>1 DEF StateInv, InRound, Fits, Counts
    <2>3. /\ row'.failed = draft.failed
          /\ row'.student = draft.student /\ row'.outcome = "neutral"
          /\ row'.accepted = FALSE /\ row'.best = LastAccepted(rows)
        BY <1>7, <2>2 DEF BaselineFailed, NoRow
    <2>4. RowSound(row')
        BY <2>3 DEF RowSound, RowInv
    <2> QED
        BY <2>1, <2>3, <2>4 DEF RowInv, InRound, Writing, LastIsLast,
           LastAccepted, Accepted, RowSound
<1>8. ASSUME Judge PROVE RowInv'
    <2>1. UNCHANGED <<rows, draft>> /\ pc = "judge"
          /\ pc' = IF Advances(draft) THEN "copy" ELSE "index"
        BY <1>8 DEF Judge, files
    <2>2. st.best = LastAccepted(rows)
        BY <2>1 DEF StateInv, InRound, Fits, Counts
    <2>3. /\ row'.failed = {} /\ row'.student = {}
          /\ row'.accepted = Advances(draft)
          /\ row'.fitness = Fitness(draft.gains, draft.regressions)
          /\ row'.best = IF Advances(draft) THEN Len(rows) + 1 ELSE LastAccepted(rows)
        BY <1>8, <2>2 DEF Judge, NoRow
    <2>4. RowSound(row')
        BY <2>3 DEF RowSound
    <2>5. Advances(draft) => LastAccepted(rows) = 0
             \/ Fitness(draft.gains, draft.regressions) > rows[LastAccepted(rows)].fitness
        BY DEF Advances
    <2> QED
        BY <2>1, <2>3, <2>4, <2>5 DEF RowInv, InRound, Writing, LastIsLast,
           LastAccepted, Accepted, RowSound
<1>9. ASSUME CopyArtifacts \/ ReloadArtifacts \/ ExportHarness PROVE RowInv'
    BY <1>9, RowKept DEF CopyArtifacts, ReloadArtifacts, ExportHarness, Writing
<1>10. ASSUME Index PROVE RowInv'
    <2>1. pc = "index" /\ pc' = "write" /\ rows' = Append(rows, row) /\ draft' = NoDraft
        BY <1>10 DEF Index, At
    <2>2. /\ Len(rows) < MaxRounds /\ RowSound(row)
          /\ \A i \in DOMAIN rows : RowSound(rows[i])
        BY <2>1 DEF RowInv, InRound, Writing
    <2>3. Len(rows') <= MaxRounds /\ \A i \in DOMAIN rows' : RowSound(rows'[i])
        <3>1. MaxRounds \in Nat
            BY RunnerAssumption DEF RunnerAssumption
        <3> QED
            BY <2>1, <2>2, <3>1, Appended DEF Types
    <2>4. LastIsLast(rows')
        BY <2>1, AdvancedFits
    <2>6. draft'.student = {} /\ draft'.failed = {}
          /\ draft'.baseline = "absent"
        BY <2>1 DEF NoDraft
    <2> QED
        BY <2>1, <2>3, <2>4, <2>6 DEF RowInv, InRound, Writing, LastIsLast,
           LastAccepted, Accepted, RowSound
<1>11. CASE UNCHANGED vars
    BY <1>11 DEF vars, files, RowInv, InRound, Writing, LastIsLast, LastAccepted, Accepted, RowSound
<1> QED
    BY <1>1, <1>2, <1>3, <1>4, <1>5, <1>6, <1>7, <1>8, <1>9, <1>10, <1>11, <1>12, Cases

(* The accepted rounds grow in fitness, and each row names the last of them. *)
LEMMA ProgressStep ==
    Types /\ StateInv /\ RowInv /\ AcceptedIsProgress /\ [Next]_vars => AcceptedIsProgress'
<1> SUFFICES ASSUME Types, StateInv, RowInv, AcceptedIsProgress, [Next]_vars
             PROVE  AcceptedIsProgress'
    OBVIOUS
<1>1. UNCHANGED rows \/ Index
    BY Cases, Zenon DEF Launch, Stop, CutShort, CutRefuses, Rebuild, VerifyBest, Terminal,
       Select, DiskLimit,
       MaxRoundsReached, Baseline, BaselineFailed, BaselineComplete, AskTeacher, Taught,
       RunCampaign, LoadCampaign, Judge, CopyArtifacts, ReloadArtifacts, ExportHarness,
       WriteState, WriteResult, Seal, vars, files
<1>2. CASE UNCHANGED rows
    BY <1>2 DEF AcceptedIsProgress, Accepted, LastAccepted
<1>3. CASE Index
    <2> DEFINE n == Len(rows)
               A == Append(rows, row)
               L == LastAccepted(rows)
    <2>1. rows' = A /\ pc = "index" /\ rows \in Seq(RowType) /\ row \in RowType
        BY <1>3 DEF Index, At, Types
    <2>2. LastIsLast(rows) /\ (row.accepted => L = 0 \/ row.fitness > rows[L].fitness)
        BY <2>1 DEF RowInv, Writing
    <2>3. /\ n \in Nat /\ DOMAIN rows = 1 .. n /\ DOMAIN A = 1 .. n + 1 /\ A[n + 1] = row
          /\ \A i \in 1 .. n : A[i] = rows[i]
        BY <2>1, Appended
    <2>4. Accepted(A) = Accepted(rows) \cup (IF row.accepted THEN {n + 1} ELSE {})
          /\ Accepted(rows) \subseteq 1 .. n
        BY <2>1, <2>2, LastAppended DEF Accepted
    <2>5. ASSUME NEW i \in Accepted(A), NEW j \in Accepted(A), i < j
          PROVE  A[i].fitness < A[j].fitness
        <3>1. i \in Accepted(rows)
            BY <2>3, <2>4, <2>5
        <3>2. CASE j \in Accepted(rows)
            BY <2>3, <2>4, <2>5, <3>1, <3>2 DEF AcceptedIsProgress
        <3>3. CASE j \notin Accepted(rows)
            <4>1. j = n + 1 /\ row.accepted
                BY <2>4, <2>5, <3>3
            <4>2. L \in Accepted(rows) /\ i <= L /\ row.fitness > rows[L].fitness
                BY <2>2, <2>3, <2>4, <3>1, <4>1 DEF LastIsLast
            <4>3. /\ rows[i].fitness \in Int /\ rows[L].fitness \in Int /\ row.fitness \in Int
                  /\ i \in Int /\ L \in Int
                <5>1. rows[i] \in RowType /\ rows[L] \in RowType /\ row \in RowType
                    BY <2>1, <2>3, <2>4, <3>1, <4>2
                <5>2. i \in Int /\ L \in Int
                    BY <2>3, <2>4, <3>1, <4>2
                <5> QED
                    BY <5>1, <5>2 DEF RowType
            <4>4. rows[i].fitness <= rows[L].fitness
                BY <3>1, <4>2, <4>3 DEF AcceptedIsProgress
            <4> QED
                BY <2>3, <2>4, <3>1, <4>1, <4>2, <4>3, <4>4
        <3> QED
            BY <3>2, <3>3
    <2>6. ASSUME NEW i \in 1 .. n + 1
          PROVE  A[i].best = LastAccepted(SubSeq(A, 1, i))
        <3>1. CASE i \in 1 .. n
            BY <2>1, <2>3, <3>1, PrefixKept DEF AcceptedIsProgress
        <3>2. CASE i = n + 1
            <4>1. A \in Seq(RowType) /\ Len(A) = n + 1
                BY <2>1, Appended
            <4>2. SubSeq(A, 1, i) = A
                BY <3>2, <4>1, SubSeqFull
            <4> HIDE DEF A
            <4>3. A[i] = row /\ LastAccepted(A) = row.best
                BY <2>1, <2>3, <3>2, AdvancedFits DEF A
            <4> QED
                BY <4>2, <4>3
        <3> QED
            BY <2>3, <3>1, <3>2
    <2>7. AcceptedIsProgress' <=>
            /\ \A i, j \in Accepted(A) : i < j => A[i].fitness < A[j].fitness
            /\ \A i \in DOMAIN A : A[i].best = LastAccepted(SubSeq(A, 1, i))
        BY <2>1 DEF AcceptedIsProgress, Accepted, LastAccepted
    <2> HIDE DEF A, n
    <2> QED
        BY <2>3, <2>5, <2>6, <2>7
<1> QED
    BY <1>1, <1>2, <1>3

-----------------------------------------------------------------------------
(* The best harness.                                                       *)

(* A state that is active, or none, has no result. *)
LEMMA ActiveUnsealed ==
    ASSUME Types, SealInv, saved.status \in {"absent", "active"}
    PROVE  result = NoState /\ ~Sealed
<1>1. \A s : Blocked(s).status = "blocked_integrity" \/ s \notin StateType
    BY DEF Blocked, StateType
<1> QED
    BY <1>1 DEF Types, SealInv, Ended, Sealed

(* The index and the best harness have not changed, nor what is sealed. *)
LEMMA BestKept ==
    ASSUME Types, BestInv, UNCHANGED <<rows, best>>,
           Sealed' => Exported \/ saved'.status = "blocked_integrity",
           pc' \in {"loop", "baseline", "teach", "paired", "judge"} => Exported,
           pc' \in {"write", "result", "seal"} => Exported \/ st'.status = "blocked_integrity",
           pc' \notin {"harness", "index"}
    PROVE  BestInv'
BY DEF BestInv, Exported, LastAccepted, Accepted

LEMMA BestStep ==
    Types /\ StateInv /\ RowInv /\ AcceptedIsProgress /\ BestInv /\ SealInv /\ [Next]_vars
        => BestInv'
<1> SUFFICES ASSUME Types, StateInv, RowInv, AcceptedIsProgress, BestInv, SealInv, [Next]_vars
             PROVE  BestInv'
    OBVIOUS
<1>0. /\ UNCHANGED <<saved, result, seal>> => (Sealed' <=> Sealed)
      /\ pc \in InRound \cup {"rebuild"} => st = saved
      /\ pc \in InRound => saved.status = "active" /\ ~Sealed
    BY ActiveUnsealed DEF Sealed, StateInv, InRound
<1>1. ASSUME Launch PROVE BestInv'
    <2>1. UNCHANGED <<rows, best, result, seal>> /\ pc' = "rebuild"
        BY <1>1 DEF Launch
    <2>2. CASE saved = NoState
        <3>1. result = NoState
            BY <2>2, ActiveUnsealed, InitialFits
        <3> QED
            BY <2>1, <3>1, BestKept DEF Sealed
    <2>3. CASE saved # NoState
        <3>1. saved' = saved
            BY <1>1, <2>3 DEF Launch
        <3> QED
            BY <2>1, <3>1, <1>0, BestKept DEF BestInv
    <2> QED
        BY <2>2, <2>3
<1>2. ASSUME Rebuild PROVE BestInv'
    <2>1. pc = "rebuild" /\ UNCHANGED <<rows, best, result, seal>> /\ pc' \in {"down", "verify"}
        BY <1>2, Zenon DEF Rebuild, At, Refuse, Down
    <2>2. saved' = saved \/ Len(rows) = saved.rounds + 1
        BY <1>0, <1>2, <2>1, Zenon DEF Rebuild
    <2>3. CASE Len(rows) = saved.rounds + 1
        <3>1. saved.status \in {"absent", "active"}
            <4>1. saved.rounds \in Nat
                BY DEF Types, StateType
            <4> QED
                BY <2>3, <4>1 DEF StateInv, Fits, Counts
        <3>2. ~Sealed'
            BY <2>1, <3>1, ActiveUnsealed DEF Sealed
        <3> QED
            BY <2>1, <3>2, BestKept
    <2>4. CASE saved' = saved
        BY <1>0, <2>1, <2>4, BestKept DEF BestInv
    <2> QED
        BY <2>2, <2>3, <2>4
<1>3. ASSUME VerifyBest PROVE BestInv'
    <2>1. UNCHANGED <<rows, saved, best, result, seal>>
        BY <1>3 DEF VerifyBest
    <2>2. BestVerifies => Exported
        BY DEF BestVerifies, Exported
    <2>3. \/ Exported /\ pc' \in {"loop", "terminal"}
          \/ pc' = "down"
          \/ st' = Blocked(st) /\ pc' = "write"
        <3>1. \/ Exported /\ pc' \in {"loop", "terminal"}
              \/ Block("best-harness-projection", NoFacts)
            BY <1>3, <2>2, Zenon DEF VerifyBest, AfterVerify
        <3> QED
            BY <3>1, BlockCases DEF Phases
    <2>4. Blocked(st).status = "blocked_integrity"
        BY DEF Types, StateType, Blocked
    <2> QED
        BY <1>0, <2>1, <2>3, <2>4, BestKept DEF BestInv
<1>4. ASSUME Terminal \/ Stop \/ CutShort \/ CutRefuses PROVE BestInv'
    <2>1. UNCHANGED <<rows, saved, best, result, seal>> /\ pc' = "down"
        BY <1>4, CutCases DEF Terminal, Stop, CutRefuses, Refuse, Down, files
    <2> QED
        BY <1>0, <2>1, BestKept DEF BestInv
<1>5. ASSUME Select \/ DiskLimit \/ MaxRoundsReached \/ Baseline \/ BaselineComplete
             \/ AskTeacher \/ Taught \/ RunCampaign \/ LoadCampaign
      PROVE  BestInv'
    <2>1. /\ pc \in {"loop", "baseline", "teach", "paired"}
          /\ UNCHANGED <<rows, saved, best, result, seal>>
        BY <1>5 DEF Select, DiskLimit, MaxRoundsReached, Baseline, BaselineComplete, AskTeacher,
                    Taught, RunCampaign, LoadCampaign, At, files
    <2>2. pc' \in {"loop", "baseline", "teach", "paired", "judge", "write", "down"}
        BY <1>5, <2>1, RoundGoesOn
    <2>3. Exported
        BY <2>1 DEF BestInv
    <2> QED
        BY <1>0, <2>1, <2>2, <2>3, BestKept DEF InRound
<1>6. ASSUME BaselineFailed \/ Judge PROVE BestInv'
    <2>1. Exported /\ UNCHANGED <<rows, saved, best, result, seal>> /\ pc \in InRound
        BY <1>6 DEF BaselineFailed, Judge, At, files, BestInv, InRound
    <2>2. pc' = "copy" \/ (pc' = "index" /\ ~row'.accepted)
        BY <1>6 DEF BaselineFailed, Judge, NoRow
    <2> QED
        BY <1>0, <2>1, <2>2 DEF BestInv, Exported, LastAccepted, Accepted
<1>7. ASSUME CopyArtifacts PROVE BestInv'
    BY <1>0, <1>7 DEF CopyArtifacts, BestInv, InRound
<1>8. ASSUME ReloadArtifacts PROVE BestInv'
    <2>1. best'.artifacts = Len(rows) + 1
        BY <1>8 DEF ReloadArtifacts, Types
    <2> QED
        BY <1>0, <1>8, <2>1 DEF ReloadArtifacts, BestInv, InRound
<1>9. ASSUME ExportHarness PROVE BestInv'
    <2>1. best'.artifacts = best.artifacts /\ best'.harness = Len(rows) + 1
        BY <1>9 DEF ExportHarness, Types
    <2>2. /\ row'.accepted /\ pc = "harness" /\ pc' = "index"
          /\ UNCHANGED <<rows, saved, result, seal>>
        BY <1>9 DEF ExportHarness, RowInv, Writing
    <2> QED
        BY <1>0, <2>1, <2>2 DEF BestInv, InRound
<1>10. ASSUME Index PROVE BestInv'
    <2>1. /\ pc = "index" /\ pc' = "write" /\ rows' = Append(rows, row)
          /\ UNCHANGED <<saved, best, result, seal>>
        BY <1>10 DEF Index, At
    <2>2. LastAccepted(rows') = IF row.accepted THEN Len(rows) + 1 ELSE LastAccepted(rows)
        BY <2>1, LastAppended DEF Types, RowInv
    <2>3. Exported'
        BY <2>1, <2>2 DEF BestInv, Exported
    <2>4. ~Sealed'
        BY <1>0, <2>1 DEF InRound
    <2> QED
        BY <2>1, <2>3, <2>4 DEF BestInv
<1>11. ASSUME WriteState \/ WriteResult \/ Seal PROVE BestInv'
    <2>1. /\ pc \in {"write", "result", "seal"} /\ UNCHANGED <<rows, best>>
          /\ Exported \/ st.status = "blocked_integrity"
        BY <1>11 DEF WriteState, WriteResult, Seal, BestInv
    <2>2. saved' = st
        BY <1>11, Zenon DEF WriteState, WriteResult, Seal, StateInv
    <2>3. pc' \in {"result", "seal", "down"} \/ (pc' = "loop" /\ st.status = "active")
        BY <1>11 DEF WriteState, WriteResult, Seal, Down
    <2>4. pc' # "down" => UNCHANGED st
        BY <1>11 DEF WriteState, WriteResult, Seal, Down
    <2> QED
        BY <2>1, <2>2, <2>3, <2>4, BestKept
<1>12. CASE UNCHANGED vars
    BY <1>12 DEF vars, files, BestInv, Exported, LastAccepted, Accepted, Sealed
<1> QED
    BY <1>1, <1>2, <1>3, <1>4, <1>5, <1>6, <1>7, <1>8, <1>9, <1>10, <1>11, <1>12, Cases

-----------------------------------------------------------------------------
(* The end.                                                                *)

LEMMA BlockedTwice ==
    ASSUME NEW s \in StateType
    PROVE  /\ Blocked(s) \in StateType /\ Blocked(s).status = "blocked_integrity"
           /\ Blocked(Blocked(s)) = Blocked(s) /\ Ended(Blocked(s))
BY DEF Blocked, StateType, Ended, Statuses

(* The files are as they were. *)
LEMMA SealKept ==
    ASSUME Types, SealInv, UNCHANGED <<rows, saved, result, seal>>, pc' # "seal",
           pc' = "write" /\ result # NoState => st' = Blocked(saved)
    PROVE  SealInv'
BY DEF SealInv, Ended, Sealed, Blocked

LEMMA SealStep ==
    Types /\ StateInv /\ SealInv /\ [Next]_vars => SealInv'
<1> SUFFICES ASSUME Types, StateInv, SealInv, [Next]_vars PROVE SealInv'
    OBVIOUS
<1>0. /\ saved \in StateType /\ st \in StateType /\ result \in StateType /\ stops \in Nat
      /\ saved.status \in {"absent", "active"} => result = NoState /\ ~Sealed
      /\ pc \in InRound => saved.status = "active" /\ st = saved
      /\ saved.rounds \in Nat /\ Len(rows) \in Nat
    <2>1. /\ saved \in StateType /\ st \in StateType /\ result \in StateType /\ stops \in Nat
          /\ Len(rows) \in Nat
        BY DEF Types
    <2>2. saved.rounds \in Nat
        BY <2>1 DEF StateType
    <2>3. pc \in InRound => saved.status = "active" /\ st = saved
        BY DEF StateInv, InRound
    <2> QED
        BY <2>1, <2>2, <2>3, ActiveUnsealed
<1>1. ASSUME Launch PROVE SealInv'
    <2>1. /\ UNCHANGED <<rows, result, seal, stops>> /\ pc = "down" /\ pc' = "rebuild"
          /\ saved' = IF saved = NoState THEN InitialState ELSE saved
        BY <1>1 DEF Launch, At
    <2>2. CASE saved = NoState
        <3>1. result = NoState /\ saved' = InitialState /\ rows = <<>>
            BY <1>0, <2>1, <2>2, InitialFits DEF StateInv
        <3>2. InitialState.rounds = 0 /\ Len(rows) = 0
            BY <3>1 DEF InitialState
        <3> QED
            BY <2>1, <3>1, <3>2, InitialFits DEF SealInv, Ended
    <2>3. CASE saved # NoState
        BY <1>0, <2>1, <2>3, SealKept
    <2> QED
        BY <2>2, <2>3
<1>2. ASSUME Rebuild PROVE SealInv'
    <2>1. pc = "rebuild" /\ st = saved /\ saved.status # "absent"
          /\ UNCHANGED <<rows, result, seal, stops>> /\ pc' \in {"down", "verify"}
        BY <1>2, Zenon DEF Rebuild, At, Refuse, Down, StateInv
    <2>2. saved' = saved \/ Len(rows) = saved.rounds + 1
        BY <1>2, <2>1, Zenon DEF Rebuild
    <2>3. CASE Len(rows) = saved.rounds + 1
        <3>1. saved.status = "active"
            BY <1>0, <2>1, <2>3 DEF StateInv, Fits, Counts, SealInv
        <3> QED
            BY <1>0, <2>1, <3>1 DEF SealInv
    <2>4. CASE saved' = saved
        BY <1>0, <2>1, <2>4, SealKept
    <2> QED
        BY <2>2, <2>3, <2>4
<1>3. ASSUME VerifyBest PROVE SealInv'
    <2>1. UNCHANGED <<rows, saved, result, seal, stops>> /\ pc = "verify" /\ st = saved
        BY <1>3 DEF VerifyBest, StateInv
    <2>2. pc' \in {"loop", "terminal", "down"} \/ (pc' = "write" /\ st' = Blocked(saved))
        <3>1. pc' \in {"loop", "terminal"} \/ Block("best-harness-projection", NoFacts)
            BY <1>3, Zenon DEF VerifyBest, AfterVerify
        <3> QED
            BY <2>1, <3>1, BlockCases DEF Phases
    <2> QED
        BY <1>0, <2>1, <2>2, SealKept
<1>4. ASSUME Terminal \/ CutRefuses PROVE SealInv'
    BY <1>0, <1>4, SealKept DEF Terminal, CutRefuses, Refuse, Down, files
<1>5. ASSUME Stop \/ CutShort PROVE SealInv'
    BY <1>0, <1>5, SealKept, CutCases DEF Stop, Down, files
<1>6. ASSUME Select \/ DiskLimit \/ MaxRoundsReached \/ Baseline \/ BaselineFailed
             \/ BaselineComplete \/ AskTeacher \/ Taught \/ RunCampaign \/ LoadCampaign
             \/ Judge \/ CopyArtifacts \/ ReloadArtifacts \/ ExportHarness
      PROVE  SealInv'
    <2>1. UNCHANGED <<rows, saved, result, seal, stops>> /\ pc \in InRound
        BY <1>6 DEF Select, DiskLimit, MaxRoundsReached, Baseline, BaselineFailed, BaselineComplete,
                    AskTeacher, Taught, RunCampaign, LoadCampaign, Judge, CopyArtifacts,
                    ReloadArtifacts, ExportHarness, At, files, InRound
    <2>2. pc' # "seal"
        BY <1>6, RoundGoesOn DEF BaselineFailed, Judge, CopyArtifacts, ReloadArtifacts,
           ExportHarness
    <2> QED
        BY <1>0, <2>1, <2>2, SealKept DEF InRound
<1>7. ASSUME Index PROVE SealInv'
    <2>1. UNCHANGED <<saved, result, seal, stops>> /\ pc = "index" /\ pc' = "write"
        BY <1>7 DEF Index, At
    <2> QED
        BY <1>0, <2>1 DEF SealInv, InRound, Ended
<1>8. ASSUME WriteState PROVE SealInv'
    <2>1. /\ UNCHANGED <<rows, result, seal, stops>> /\ pc = "write" /\ saved' = st
          /\ pc' = IF st.status = "active" THEN "loop" ELSE "result"
        BY <1>8 DEF WriteState
    <2>3. result # NoState => saved' = Blocked(result)
        BY <1>0, <2>1, BlockedTwice DEF SealInv
    <2>4. Ended(saved') => pc' = "result"
        BY <2>1 DEF Ended
    <2> QED
        BY <2>1, <2>3, <2>4 DEF SealInv
<1>9. ASSUME WriteResult PROVE SealInv'
    <2>1. /\ UNCHANGED <<rows, saved, seal, stops>> /\ pc = "result" /\ result' = st
          /\ pc' = "seal" /\ st = saved /\ Ended(saved)
        BY <1>9 DEF WriteResult, StateInv, Ended
    <2>2. seal.state # NoState => result' \in {seal.state, Blocked(seal.state)}
        <3>1. seal.state \in StateType
            BY DEF Types
        <3> QED
            BY <2>1, <3>1, BlockedTwice DEF SealInv
    <2>3. NoState.status = "absent"
        BY InitialFits
    <2> QED
        BY <2>1, <2>2, <2>3 DEF SealInv, Ended
<1>10. ASSUME Seal PROVE SealInv'
    <2>1. /\ UNCHANGED <<rows, saved, result, stops>> /\ pc = "seal" /\ pc' = "down"
          /\ seal' = [state |-> saved, result |-> result] /\ result = saved
          /\ Ended(saved) /\ st = saved
        BY <1>10 DEF Seal, Down, StateInv, SealInv, Ended
    <2>2. Sealed' /\ seal'.state = saved /\ seal'.result = saved /\ saved # NoState
        BY <2>1, InitialFits DEF Sealed, Ended
    <2> QED
        BY <2>1, <2>2 DEF SealInv, StateInv
<1>11. CASE UNCHANGED vars
    BY <1>11 DEF vars, files, SealInv, Sealed, Ended, Blocked
<1> QED
    BY <1>1, <1>2, <1>3, <1>4, <1>5, <1>6, <1>7, <1>8, <1>9, <1>10, <1>11, Cases

-----------------------------------------------------------------------------
(* The invariant, and what it says.                                        *)

LEMMA InvInit == Init => IInv
<1> SUFFICES ASSUME Init PROVE IInv
    OBVIOUS
<1>1. /\ rows = <<>> /\ saved = NoState /\ draft = NoDraft /\ result = NoState
      /\ seal.state = NoState /\ seal.result = NoState /\ pc = "down" /\ refused = "no"
      /\ stops = 0 /\ st = NoState /\ row = NoRow /\ best.harness = 0 /\ best.artifacts = 0
    BY DEF Init
<1>2. Len(rows) = 0 /\ DOMAIN rows = {} /\ rows \in Seq(RowType)
    BY <1>1
<1>3. NoDraft \in DraftType /\ NoRow \in RowType /\ NoState \in StateType
    <2>1. NoBlock \in [phase : Phases, error : Errors \cup {NoFacts}]
        BY DEF NoBlock, Phases
    <2> QED
        BY <2>1, InitialFits DEF NoDraft, DraftType, NoRow, RowType, NoSig, SigType, NoFacts
<1>4. Types
    BY <1>2, <1>3 DEF Init, Types, PCs
<1>5. StateInv
    BY <1>1, InitialFits DEF StateInv, InRound
<1>6. RowInv
    <2>1. Accepted(rows) = {} /\ LastAccepted(rows) = 0
        <3>1. Accepted(rows) = {}
            BY <1>2 DEF Accepted
        <3> QED
            BY <3>1, MaxIs DEF LastAccepted
    <2>2. MaxRounds \in Nat
        BY RunnerAssumption DEF RunnerAssumption
    <2> QED
        BY <1>1, <1>2, <2>1, <2>2 DEF RowInv, LastIsLast, NoDraft, InRound, Writing
<1>7. AcceptedIsProgress
    BY <1>2 DEF AcceptedIsProgress, Accepted
<1>8. BestInv /\ SealInv
    BY <1>1, <1>2, InitialFits DEF BestInv, SealInv, Sealed, Ended
<1> QED
    BY <1>4, <1>5, <1>6, <1>7, <1>8 DEF IInv

LEMMA InvStep == IInv /\ [Next]_vars => IInv'
BY TypesStep, StateStep, RowStep, ProgressStep, BestStep, SealStep DEF IInv

LEMMA Invariance == Spec => []IInv
BY InvInit, InvStep, PTL DEF Spec

(* The state file is at the index or a round behind it, and its counters are the  *)
(* ones recovery reads off the index (load_or_create, _validate_checkpoint_state). *)
THEOREM CountersRebuilt == Spec => []CountersAreRebuilt
<1>1. ASSUME IInv PROVE CountersAreRebuilt
    <2> USE <1>1 DEF IInv
    <2> SUFFICES ASSUME saved # NoState
                 PROVE  /\ Len(rows) - saved.rounds \in {0, 1}
                        /\ rows # <<>> /\ Len(rows) = saved.rounds =>
                             LET s == Recovered(rows)
                             IN /\ saved.noProgress = s.noProgress /\ saved.gained = s.gained
                                /\ saved.best = s.best /\ saved.sig = s.sig
                                /\ saved.same = s.same
                                /\ (\A i \in DOMAIN rows : rows[i].failed = rows[i].student) =>
                                      saved.infra = s.infra /\ saved.unresolvable = s.unresolvable
        BY DEF CountersAreRebuilt
    <2>1. saved \in StateType /\ Len(rows) \in Nat /\ rows \in Seq(RowType)
        BY DEF Types
    <2>2. saved.rounds \in Nat
        BY <2>1 DEF StateType
    <2>3. Fits(saved, rows) \/ saved.rounds + 1 = Len(rows)
        BY DEF StateInv
    <2>4. Len(rows) - saved.rounds \in {0, 1}
        BY <2>1, <2>2, <2>3 DEF Fits, Counts
    <2>5. ASSUME rows # <<>>, Len(rows) = saved.rounds
          PROVE  Counts(saved, rows) /\ Counts(Recovered(rows), rows)
        <3>1. Counts(saved, rows)
            BY <2>1, <2>2, <2>3, <2>5 DEF Fits
        <3>2. Counts(Recovered(rows), rows)
            BY <2>1, <2>5, LastNamed, RecoveredFits DEF RowInv, Fits
        <3> QED
            BY <3>1, <3>2
    <2> QED
        BY <2>4, <2>5 DEF Counts, Odd
<1> QED
    BY <1>1, Invariance, PTL

(* A round starts from, and a result is sealed over, the harness of the last       *)
(* accepted round and its artifacts (verify_best_harness, export_best_harness).    *)
THEOREM BestAccepted == Spec => []BestIsAccepted
<1>1. IInv => BestIsAccepted
    BY DEF IInv, BestInv, Exported, BestIsAccepted
<1> QED
    BY <1>1, Invariance, PTL

(* Accepted rounds grow in fitness and every row names the last of them, however   *)
(* often the process was stopped (_acceptable_advance, _recover_state_from_rounds). *)
THEOREM AcceptedProgress == Spec => []AcceptedIsProgress
<1>1. IInv => AcceptedIsProgress
    BY DEF IInv
<1> QED
    BY <1>1, Invariance, PTL

-----------------------------------------------------------------------------
(* CandidateProposer, from which a round has its candidate: one paid call for *)
(* each request, and one answer, for any number of processes, requests,       *)
(* contents, answers and failures.  Neither property is inductive.  The         *)
(* strengthening follows a request through its files: the reservation comes   *)
(* before the call, one process holds the right to it, and what that process  *)
(* stored is what everybody charges and returns.                              *)

\* The request file says what its callers ask, while one of them is under way.
RequestInv ==
    /\ \A p \in Procs : stage[p] # "idle" => request[at[p]] = content[at[p]]
    /\ \A id \in RequestIds : request[id] = Missing => reserved[id] = Missing

\* The process that reserved is the only one that sends and stores.
PaidInv ==
    /\ \A id \in RequestIds : /\ reserved[id] = Missing => sent[id] = <<>>
                              /\ sent[id] \in {<<>>, <<request[id]>>}
    /\ \A p \in Procs : stage[p] \in {"send", "store"} =>
          /\ reserved[at[p]] # Missing /\ raw[at[p]] = Missing
          /\ sent[at[p]] = IF stage[p] = "send" THEN <<>> ELSE <<request[at[p]]>>
          /\ stage[p] = "store" => answer[p] # Missing
    /\ \A p, q \in Procs :
          (stage[p] \in {"send", "store"} /\ stage[q] \in {"send", "store"} /\ at[p] = at[q])
              => p = q

\* What is charged and answered is what was stored.
AnswerInv ==
    /\ \A id \in RequestIds : raw[id] # Missing => sent[id] = <<request[id]>>
    /\ \A p \in Procs :
          /\ stage[p] \in {"charge", "respond"} => raw[at[p]] # Missing /\ answer[p] = raw[at[p]]
          /\ stage[p] = "respond" => charged[at[p]] = raw[at[p]].cost
    /\ \A id \in RequestIds : response[id] # Missing =>
          /\ raw[id] # Missing /\ raw[id].valid /\ charged[id] = raw[id].cost
          /\ response[id] = [request |-> request[id], answer |-> raw[id]]
    /\ \A id \in RequestIds : \A r \in returned[id] : response[id] = r

ProposerInv == ProposerTypeOK /\ RequestInv /\ PaidInv /\ AnswerInv

-----------------------------------------------------------------------------
\* The ledger takes a charge of a reserved request: the first, or the same again.
LEMMA ChargeVerdictMeaning ==
    ASSUME NEW id \in RequestIds, NEW cost, ChargeVerdict(id, cost) # "raise"
    PROVE  charged[id] \in {Missing, cost}
BY DEF ChargeVerdict

\* An answer costs a natural number, with or without usable usage.
LEMMA CostIsNat == ASSUME NEW a \in Answers PROVE ChargeOf(a) \in Nat
BY ProposerAssumption DEF ChargeOf

LEMMA ProposerStarts == ProposerInit => ProposerInv
<1> SUFFICES ASSUME ProposerInit PROVE ProposerInv
    OBVIOUS
<1>1. (CHOOSE id \in RequestIds : TRUE) \in RequestIds
    BY ProposerAssumption
<1>2. ProposerTypeOK
    BY <1>1, ProposerAssumption DEF ProposerInit, ProposerTypeOK, Places
<1>3. RequestInv /\ PaidInv /\ AnswerInv
    BY DEF ProposerInit, RequestInv, PaidInv, AnswerInv
<1> QED
    BY <1>2, <1>3 DEF ProposerInv

LEMMA ProposeStep == ASSUME ProposerInv, NEW p \in Procs, Propose(p) PROVE ProposerInv'
<1> USE DEF ProposerInv
<1>1. PICK id \in RequestIds : /\ at' = [at EXCEPT ![p] = id]
                               /\ Replay(p, id) \/ Freeze(p, id)
    BY DEF Propose
<1>2. UNCHANGED <<content, raw, response, reserved, sent, failures>> /\ stage[p] = "idle"
    BY DEF Propose
<1>3. CASE Replay(p, id)
    <2>1. response[id] \in Responses /\ UNCHANGED request
        BY <1>3, ProposerAssumption DEF Replay, ProposerTypeOK
    <2>2. /\ charged' = charged
          /\ returned' \in {returned, [returned EXCEPT ![id] = @ \cup {response[id]}]}
        BY <1>3, <2>1, ChargeVerdictMeaning, ProposerAssumption
        DEF Replay, ProposerTypeOK, AnswerInv, Responses
    <2>3. stage' = [stage EXCEPT ![p] = "idle"] /\ answer' = [answer EXCEPT ![p] = Missing]
        BY <1>3 DEF Replay, Raise, Goto
    <2>4. ProposerTypeOK'
        BY <1>1, <1>2, <2>1, <2>2, <2>3 DEF ProposerTypeOK, Places
    <2>5. RequestInv' /\ PaidInv'
        BY <1>1, <1>2, <2>1, <2>2, <2>3 DEF ProposerTypeOK, RequestInv, PaidInv
    <2>6. \A i \in RequestIds : returned'[i] \subseteq returned[i] \cup {response[i]}
        BY <2>2 DEF ProposerTypeOK
    <2>7. AnswerInv'
        BY <1>1, <1>2, <2>1, <2>2, <2>3, <2>6 DEF ProposerTypeOK, AnswerInv
    <2> QED
        BY <2>4, <2>5, <2>7
<1>4. CASE Freeze(p, id)
    <2>1. UNCHANGED <<charged, returned>> /\ response[id] = Missing
        BY <1>4 DEF Freeze
    <2>2. content[id] \in Contents /\ content[id] # Missing
        BY ProposerAssumption DEF ProposerTypeOK
    <2>3. CASE request[id] \in {Missing, content[id]}
        <3>1. /\ request' = [request EXCEPT ![id] = content[id]]
              /\ stage' = [stage EXCEPT ![p] = "raw"] /\ answer' = answer
            BY <1>4, <2>3 DEF Freeze, Goto
        <3>2. ProposerTypeOK'
            BY <1>1, <1>2, <2>1, <2>2, <3>1 DEF ProposerTypeOK, Places
        <3>3. RequestInv'
            BY <1>1, <1>2, <2>1, <2>2, <2>3, <3>1 DEF ProposerTypeOK, RequestInv
        <3>4. request[id] = Missing => sent[id] = <<>> /\ raw[id] = Missing
            BY DEF RequestInv, PaidInv, AnswerInv
        <3>5. \A q \in Procs : stage[q] # "idle" => request[at[q]] # Missing
            BY ProposerAssumption DEF ProposerTypeOK, RequestInv
        <3>6. PaidInv'
            BY <1>1, <1>2, <2>1, <2>2, <2>3, <3>1, <3>4, <3>5 DEF ProposerTypeOK, PaidInv
        <3>7. AnswerInv'
            BY <1>1, <1>2, <2>1, <2>2, <2>3, <3>1, <3>4, <3>5 DEF ProposerTypeOK, AnswerInv
        <3> QED
            BY <3>2, <3>3, <3>6, <3>7
    <2>4. CASE request[id] \notin {Missing, content[id]}
        <3>1. /\ request' = request /\ stage' = [stage EXCEPT ![p] = "idle"]
              /\ answer' = [answer EXCEPT ![p] = Missing]
            BY <1>4, <2>4 DEF Freeze, Raise, Goto
        <3> QED
            BY <1>1, <1>2, <2>1, <3>1 DEF ProposerTypeOK, Places, RequestInv, PaidInv, AnswerInv
    <2> QED
        BY <2>3, <2>4
<1> QED
    BY <1>1, <1>3, <1>4

LEMMA ReserveStep == ASSUME ProposerInv, NEW p \in Procs, Reserve(p) PROVE ProposerInv'
<1> USE DEF ProposerInv
<1>1. /\ stage[p] = "reserve" /\ at[p] \in RequestIds
      /\ UNCHANGED <<content, requestFiles, charged, sent, at, returned, failures>>
    BY DEF Reserve, ProposerTypeOK
<1>2. CASE reserved' = reserved
    <2>1. stage' = [stage EXCEPT ![p] = "idle"] /\ answer' = [answer EXCEPT ![p] = Missing]
        BY <1>2, <1>1, ProposerAssumption DEF Reserve, Raise, Goto, ProposerTypeOK
    <2> QED
        BY <1>1, <1>2, <2>1
        DEF ProposerTypeOK, Places, requestFiles, RequestInv, PaidInv, AnswerInv
<1>3. CASE reserved' # reserved
    <2>1. /\ reserved[at[p]] = Missing /\ reserved' = [reserved EXCEPT ![at[p]] = Reservation]
          /\ stage' = [stage EXCEPT ![p] = "send"] /\ answer' = answer
        BY <1>3 DEF Reserve, Goto
    <2>2. request[at[p]] \in Contents /\ Reservation # Missing /\ Missing \notin Contents
        BY <1>1, ProposerAssumption DEF ProposerTypeOK, RequestInv
    <2>3. sent[at[p]] = <<>> /\ raw[at[p]] = Missing
        <3>1. sent[at[p]] = <<>>
            BY <1>1, <2>1 DEF PaidInv
        <3>2. \A x : <<x>> # <<>>
            OBVIOUS
        <3>3. raw[at[p]] # Missing => sent[at[p]] = <<request[at[p]]>>
            BY <1>1 DEF AnswerInv
        <3> QED
            BY <3>1, <3>2, <3>3
    <2>4. \A q \in Procs : stage[q] \in {"send", "store"} => at[q] # at[p]
        BY <2>1 DEF PaidInv
    <2>5. ProposerTypeOK'
        BY <1>1, <2>1 DEF ProposerTypeOK, Places, requestFiles
    <2>6. RequestInv' /\ AnswerInv'
        BY <1>1, <2>1, <2>2 DEF ProposerTypeOK, requestFiles, RequestInv, AnswerInv
    <2>7. PaidInv'
        BY <1>1, <2>1, <2>2, <2>3, <2>4 DEF ProposerTypeOK, requestFiles, PaidInv
    <2> QED
        BY <2>5, <2>6, <2>7
<1> QED
    BY <1>2, <1>3

LEMMA SendStep == ASSUME ProposerInv, NEW p \in Procs, Send(p) PROVE ProposerInv'
<1> USE DEF ProposerInv
<1>1. /\ stage[p] = "send" /\ at[p] \in RequestIds
      /\ sent' = [sent EXCEPT ![at[p]] = Append(@, content[at[p]])]
      /\ UNCHANGED <<content, requestFiles, ledger, at, returned>>
    BY DEF Send, ProposerTypeOK
<1>2. Append(sent[at[p]], content[at[p]]) = <<request[at[p]]>>
    <2>1. sent[at[p]] = <<>> /\ content[at[p]] = request[at[p]]
        BY <1>1 DEF PaidInv, RequestInv
    <2> QED
        BY <2>1
<1>3. request[at[p]] \in Contents \cup {Missing} /\ content[at[p]] \in Contents
      /\ Append(sent[at[p]], content[at[p]]) \in Seq(Contents)
    BY <1>1 DEF ProposerTypeOK
<1>4. sent' = [sent EXCEPT ![at[p]] = <<request[at[p]]>>]
    BY <1>1, <1>2
<1>5. /\ stage' \in {[stage EXCEPT ![p] = "store"], [stage EXCEPT ![p] = "idle"]}
      /\ stage'[p] = "store" =>
            \E a \in Answers : answer' = [answer EXCEPT ![p] = a]
      /\ stage'[p] = "idle" => answer' = [answer EXCEPT ![p] = Missing]
      /\ failures' \in 0 .. MaxFailures
    BY ProposerAssumption DEF Send, Goto, Raise, ProposerTypeOK
<1>6. ProposerTypeOK'
    <2>1. sent' \in [RequestIds -> Seq(Contents)]
        BY <1>1, <1>3 DEF ProposerTypeOK
    <2>2. stage' \in [Procs -> Places]
        BY <1>5 DEF ProposerTypeOK, Places
    <2>3. answer' \in [Procs -> Answers \cup {Missing}]
        <3>1. stage'[p] = "store" \/ stage'[p] = "idle"
            BY <1>5 DEF ProposerTypeOK
        <3>2. CASE stage'[p] = "store"
            BY <1>5, <3>2 DEF ProposerTypeOK
        <3>3. CASE stage'[p] = "idle"
            BY <1>5, <3>3 DEF ProposerTypeOK
        <3> QED
            BY <3>1, <3>2, <3>3
    <2> HIDE DEF ProposerInv
    <2> QED
        BY <1>1, <1>5, <2>1, <2>2, <2>3 DEF ProposerInv, ProposerTypeOK, requestFiles, ledger
<1>7. RequestInv'
    BY <1>1, <1>5 DEF ProposerTypeOK, requestFiles, ledger, RequestInv
<1>8. Missing \notin Answers /\ raw[at[p]] = Missing /\ reserved[at[p]] # Missing
    BY <1>1, ProposerAssumption DEF PaidInv
<1>9. PaidInv'
    <2>1. \A id \in RequestIds : sent'[id] = IF id = at[p] THEN <<request[id]>> ELSE sent[id]
        BY <1>1, <1>4 DEF ProposerTypeOK
    <2>2. \A q \in Procs : q # p => /\ stage'[q] = stage[q] /\ answer'[q] = answer[q]
                                    /\ stage[q] \in {"send", "store"} => at[q] # at[p]
        BY <1>1, <1>5 DEF ProposerTypeOK, PaidInv
    <2>3. stage'[p] = "store" => answer'[p] # Missing
        BY <1>5, <1>8 DEF ProposerTypeOK
    <2>4. stage'[p] \in {"store", "idle"}
        BY <1>5 DEF ProposerTypeOK
    <2>5. \A id \in RequestIds : /\ reserved'[id] = Missing => sent'[id] = <<>>
                                 /\ sent'[id] \in {<<>>, <<request'[id]>>}
        BY <1>1, <1>8, <2>1 DEF requestFiles, ledger, PaidInv
    <2>8. /\ at' = at /\ raw' = raw /\ request' = request /\ reserved' = reserved
          /\ at \in [Procs -> RequestIds]
        BY <1>1 DEF ProposerTypeOK, requestFiles, ledger
    <2>6. \A q \in Procs : stage'[q] \in {"send", "store"} =>
             /\ reserved'[at'[q]] # Missing /\ raw'[at'[q]] = Missing
             /\ sent'[at'[q]] = IF stage'[q] = "send" THEN <<>> ELSE <<request'[at'[q]]>>
             /\ stage'[q] = "store" => answer'[q] # Missing
        <3> SUFFICES ASSUME NEW q \in Procs, stage'[q] \in {"send", "store"}
                     PROVE  /\ reserved[at[q]] # Missing /\ raw[at[q]] = Missing
                            /\ sent'[at[q]] = IF stage'[q] = "send" THEN <<>>
                                              ELSE <<request[at[q]]>>
                            /\ stage'[q] = "store" => answer'[q] # Missing
            BY <2>8
        <3>1. CASE q = p
            BY <1>1, <1>8, <2>8, <2>1, <2>3, <2>4, <3>1
        <3>2. CASE q # p
            <4>1. stage'[q] = stage[q] /\ answer'[q] = answer[q] /\ at[q] # at[p]
                BY <2>2, <3>2
            <4>2. at[q] \in RequestIds /\ sent'[at[q]] = sent[at[q]]
                BY <2>1, <2>8, <4>1
            <4> QED
                BY <4>1, <4>2 DEF PaidInv
        <3> QED
            BY <3>1, <3>2
    <2>7. \A q, w \in Procs :
             (stage'[q] \in {"send", "store"} /\ stage'[w] \in {"send", "store"}
                /\ at'[q] = at'[w]) => q = w
        <3> SUFFICES ASSUME NEW q \in Procs, NEW w \in Procs, at[q] = at[w],
                            stage'[q] \in {"send", "store"}, stage'[w] \in {"send", "store"}
                     PROVE  q = w
            BY <2>8
        <3>1. CASE q # p /\ w # p
            BY <2>2, <3>1 DEF PaidInv
        <3>2. CASE q = p \/ w = p
            BY <2>2, <3>2
        <3> QED
            BY <3>1, <3>2
    <2> QED
        BY <2>5, <2>6, <2>7 DEF PaidInv
<1>10. AnswerInv'
    BY <1>1, <1>4, <1>5, <1>8 DEF ProposerTypeOK, requestFiles, ledger, AnswerInv
<1> QED
    BY <1>6, <1>7, <1>9, <1>10

LEMMA StoreStep == ASSUME ProposerInv, NEW p \in Procs, StoreRaw(p) PROVE ProposerInv'
<1> USE DEF ProposerInv
<1>1. /\ stage[p] = "store" /\ at[p] \in RequestIds
      /\ raw' = [raw EXCEPT ![at[p]] = answer[p]]
      /\ stage' = [stage EXCEPT ![p] = "charge"]
      /\ UNCHANGED <<content, request, response, ledger, sent, at, answer, returned, failures>>
    BY DEF StoreRaw, Goto, ProposerTypeOK
<1>2. /\ raw[at[p]] = Missing /\ sent[at[p]] = <<request[at[p]]>> /\ answer[p] # Missing
      /\ \A q \in Procs : at[q] = at[p] /\ q # p => stage[q] \notin {"send", "store"}
    BY <1>1 DEF PaidInv
<1>3. ProposerTypeOK' /\ RequestInv'
    BY <1>1 DEF ProposerTypeOK, RequestInv, Places, ledger
<1>4. PaidInv'
    BY <1>1, <1>2 DEF ProposerTypeOK, PaidInv, ledger
<1>5. AnswerInv'
    BY <1>1, <1>2 DEF ProposerTypeOK, AnswerInv, ledger
<1> QED
    BY <1>3, <1>4, <1>5

LEMMA ChargeStep == ASSUME ProposerInv, NEW p \in Procs, Charge(p) PROVE ProposerInv'
<1> USE DEF ProposerInv
<1>1. /\ stage[p] = "charge" /\ at[p] \in RequestIds
      /\ UNCHANGED <<content, requestFiles, reserved, sent, at, returned, failures>>
      /\ answer[p] \in Answers /\ answer[p] = raw[at[p]]
    BY DEF Charge, ProposerTypeOK, AnswerInv
<1>2. \/ charged' = charged
      \/ /\ charged[at[p]] \in {Missing, ChargeOf(answer[p])}
         /\ charged' = [charged EXCEPT ![at[p]] = ChargeOf(answer[p])]
    BY <1>1, ChargeVerdictMeaning DEF Charge
<1>3. \/ /\ stage' = [stage EXCEPT ![p] = "idle"] /\ answer' = [answer EXCEPT ![p] = Missing]
      \/ /\ stage' = [stage EXCEPT ![p] = "respond"] /\ answer' = answer
         /\ answer[p].shape
         /\ charged' = [charged EXCEPT ![at[p]] = ChargeOf(answer[p])]
    BY <1>1 DEF Charge, Goto, Raise
<1>4. ChargeOf(answer[p]) \in Nat /\ Missing \notin Nat
    BY <1>1, CostIsNat, ProposerAssumption
<1>5. ProposerTypeOK'
    <2>1. charged' \in [RequestIds -> Nat \cup {Missing}]
        BY <1>1, <1>2, <1>4 DEF ProposerTypeOK
    <2>2. stage' \in [Procs -> Places] /\ answer' \in [Procs -> Answers \cup {Missing}]
        BY <1>3 DEF ProposerTypeOK, Places
    <2> QED
        BY <1>1, <2>1, <2>2 DEF ProposerTypeOK, requestFiles
<1>6. RequestInv' /\ PaidInv'
    <2>1. \A q \in Procs : \/ stage'[q] = stage[q] /\ answer'[q] = answer[q]
                           \/ stage'[q] = "idle"
                           \/ stage'[q] = "respond" /\ stage[q] # "idle"
        BY <1>1, <1>3 DEF ProposerTypeOK
    <2> QED
        <3>1. /\ UNCHANGED <<content, request, raw, reserved, sent, at>>
              /\ \A q \in Procs : stage'[q] # "idle" => stage[q] # "idle"
              /\ \A q \in Procs : stage'[q] \in {"send", "store"} =>
                     stage[q] = stage'[q] /\ answer'[q] = answer[q]
            BY <1>1, <2>1, Zenon DEF requestFiles
        <3>2. RequestInv'
            BY <3>1, Zenon DEF RequestInv
        <3>3. PaidInv'
            BY <3>1, Zenon DEF PaidInv
        <3> QED
            BY <3>2, <3>3
<1>7. \A id \in RequestIds : charged[id] # Missing => charged'[id] = charged[id]
    BY <1>1, <1>2 DEF ProposerTypeOK
<1>8. \A q \in Procs : raw[at[q]] # Missing => raw[at[q]].cost \in Nat
    BY ProposerAssumption DEF ProposerTypeOK
<1>9. AnswerInv'
    <2>1. \A q \in Procs : stage'[q] = "respond" => charged'[at[q]] = raw[at[q]].cost
        BY <1>1, <1>3, <1>4, <1>7, <1>8 DEF ProposerTypeOK, AnswerInv, ChargeOf
    <2>2. \A id \in RequestIds : response[id] # Missing => charged'[id] = raw[id].cost
        BY <1>4, <1>7, ProposerAssumption DEF ProposerTypeOK, AnswerInv
    <2> QED
        BY <1>1, <1>3, <2>1, <2>2 DEF ProposerTypeOK, requestFiles, AnswerInv
<1> QED
    BY <1>5, <1>6, <1>9

LEMMA RespondStep == ASSUME ProposerInv, NEW p \in Procs, Respond(p) PROVE ProposerInv'
<1> USE DEF ProposerInv
<1> DEFINE r == [request |-> request[at[p]], answer |-> raw[at[p]]]
<1>1. /\ stage[p] = "respond" /\ at[p] \in RequestIds
      /\ stage' = [stage EXCEPT ![p] = "idle"] /\ answer' = [answer EXCEPT ![p] = Missing]
      /\ UNCHANGED <<content, request, raw, ledger, sent, at, failures>>
      /\ answer[p] = raw[at[p]] /\ raw[at[p]] \in Answers
    BY DEF Respond, Goto, Raise, ProposerTypeOK, AnswerInv
<1>2. request[at[p]] \in Contents
    BY <1>1 DEF ProposerTypeOK, RequestInv
<1>3. r \in Responses /\ r # Missing /\ charged[at[p]] = raw[at[p]].cost
    BY <1>1, <1>2, ProposerAssumption DEF Responses, AnswerInv
<1>4. RequestInv' /\ PaidInv'
    BY <1>1 DEF ProposerTypeOK, ledger, RequestInv, PaidInv
<1>5. CASE raw[at[p]].valid
    <2>1. /\ response' = [response EXCEPT ![at[p]] = r]
          /\ returned' = [returned EXCEPT ![at[p]] = @ \cup {r}]
        BY <1>1, <1>5 DEF Respond
    <2>2. ProposerTypeOK'
        BY <1>1, <1>3, <2>1 DEF ProposerTypeOK, Places, ledger
    <2>3. \A s \in returned[at[p]] : s = r
        BY <1>1, ProposerAssumption DEF ProposerTypeOK, AnswerInv, Responses
    <2>4. AnswerInv'
        BY <1>1, <1>3, <1>5, <2>1, <2>3 DEF ProposerTypeOK, ledger, AnswerInv
    <2> QED
        BY <1>4, <2>2, <2>4
<1>6. CASE ~raw[at[p]].valid
    <2>1. UNCHANGED <<response, returned>>
        BY <1>1, <1>6 DEF Respond
    <2> QED
        BY <1>1, <1>4, <2>1 DEF ProposerTypeOK, Places, ledger, AnswerInv
<1> QED
    BY <1>5, <1>6

LEMMA ChangeStep == ASSUME ProposerInv, ChangeContent PROVE ProposerInv'
BY ProposerAssumption
   DEF ProposerInv, ChangeContent, ProposerTypeOK, RequestInv, PaidInv, AnswerInv,
       requestFiles, ledger

LEMMA OtherStep ==
    ASSUME ProposerInv, NEW p \in Procs, ReadRaw(p) \/ Kill(p) PROVE ProposerInv'
<1> USE DEF ProposerInv
<1>1. CASE ReadRaw(p)
    <2>1. /\ answer' = [answer EXCEPT ![p] = raw[at[p]]] /\ stage[p] = "raw"
          /\ \/ raw[at[p]] # Missing /\ stage' = [stage EXCEPT ![p] = "charge"]
             \/ raw[at[p]] = Missing /\ stage' = [stage EXCEPT ![p] = "reserve"]
          /\ UNCHANGED <<content, requestFiles, ledger, sent, at, returned, failures>>
        BY <1>1 DEF ReadRaw, Goto
    <2>2. ProposerTypeOK'
        <3>1. raw[at[p]] \in Answers \cup {Missing}
            BY DEF ProposerTypeOK
        <3>2. stage' \in [Procs -> Places] /\ answer' \in [Procs -> Answers \cup {Missing}]
            BY <2>1, <3>1 DEF ProposerTypeOK, Places
        <3> QED
            BY <2>1, <3>2 DEF ProposerTypeOK, requestFiles, ledger
    <2>3. RequestInv' /\ PaidInv'
        <3>1. \A q \in Procs : \/ q # p /\ stage'[q] = stage[q] /\ answer'[q] = answer[q]
                               \/ q = p /\ stage'[q] \notin {"idle", "send", "store"}
            BY <2>1 DEF ProposerTypeOK
        <3> QED
            BY <2>1, <3>1 DEF requestFiles, ledger, RequestInv, PaidInv
    <2>4. AnswerInv'
        BY <2>1 DEF ProposerTypeOK, requestFiles, ledger, AnswerInv
    <2> QED
        BY <2>2, <2>3, <2>4
<1>2. CASE Kill(p)
    <2>1. /\ stage' = [stage EXCEPT ![p] = "idle"] /\ answer' = [answer EXCEPT ![p] = Missing]
          /\ failures' \in 0 .. MaxFailures
          /\ UNCHANGED <<content, requestFiles, ledger, sent, at, returned>>
        BY <1>2, ProposerAssumption DEF Kill, Goto, Raise, ProposerTypeOK
    <2> QED
        BY <2>1 DEF ProposerTypeOK, Places, requestFiles, ledger, RequestInv, PaidInv, AnswerInv
<1> QED
    BY <1>1, <1>2

LEMMA ProposerKeeps == ProposerInv /\ [ProposerNext]_proposerVars => ProposerInv'
<1> SUFFICES ASSUME ProposerInv, [ProposerNext]_proposerVars PROVE ProposerInv'
    OBVIOUS
<1>1. CASE UNCHANGED proposerVars
    BY <1>1 DEF proposerVars, requestFiles, ledger, ProposerInv, ProposerTypeOK,
                RequestInv, PaidInv, AnswerInv
<1>2. ASSUME NEW p \in Procs, ProposerStep(p) \/ Kill(p) PROVE ProposerInv'
    BY <1>2, ProposeStep, ReserveStep, SendStep, StoreStep, ChargeStep, RespondStep,
       OtherStep DEF ProposerStep
<1> QED
    BY <1>1, <1>2, ChangeStep DEF ProposerNext

LEMMA ProposerInvariance == ProposerSpec => []ProposerInv
BY ProposerStarts, ProposerKeeps, PTL DEF ProposerSpec

\* The files, the ledger and the processes have their types (propose).
THEOREM ProposerTypes == ProposerSpec => []ProposerTypeOK
BY ProposerInvariance, PTL DEF ProposerInv

\* However callers, kills, failed transports and repetitions are interleaved, a
\* request is sent to the Teacher at most once (dispatch_once under propose).
THEOREM RequestPaidOnce == ProposerSpec => []PaidOnce
<1>1. ProposerInv => PaidOnce
    <2> SUFFICES ASSUME ProposerInv, NEW id \in RequestIds PROVE Len(sent[id]) <= 1
        BY DEF PaidOnce
    <2>1. sent[id] = <<>> \/ sent[id] = <<request[id]>>
        BY DEF ProposerInv, PaidInv
    <2>2. CASE sent[id] = <<>>
        BY <2>2
    <2>3. CASE sent[id] = <<request[id]>>
        BY <2>3
    <2> QED
        BY <2>1, <2>2, <2>3
<1> QED
    BY <1>1, ProposerInvariance, PTL

\* Whatever is returned to a caller, the first time or from the frozen response, is the
\* one answer that was paid, charged at its cost.
THEOREM ReturnedAnswerWasPaid == ProposerSpec => []ReturnedIsPaidAnswer
<1>1. ProposerInv => ReturnedIsPaidAnswer
    <2> SUFFICES ASSUME ProposerInv, NEW id \in RequestIds, NEW r \in returned[id]
                 PROVE  /\ sent[id] = <<r.request>> /\ r.answer = raw[id]
                        /\ charged[id] = r.answer.cost /\ r.answer.valid
                        /\ returned[id] = {r}
        BY DEF ReturnedIsPaidAnswer
    <2>1. response[id] = r /\ r # Missing
        BY ProposerAssumption DEF ProposerInv, ProposerTypeOK, AnswerInv, Responses
    <2>2. r = [request |-> request[id], answer |-> raw[id]] /\ sent[id] = <<request[id]>>
        BY <2>1 DEF ProposerInv, AnswerInv
    <2> QED
        BY <2>1, <2>2 DEF ProposerInv, AnswerInv
<1> QED
    BY <1>1, ProposerInvariance, PTL
=============================================================================
