--------------------------- MODULE StudentAttempts ---------------------------
(***************************************************************************)
(* How engine/skill_evolution_loop obtains the attempt of an experiment    *)
(* cell from a local student model.  A generator decodes an answer, checks *)
(* it, and may ask again; an adapter checks what the generator returned    *)
(* with checks of its own and makes an attempt of it; the experiment       *)
(* freezes the attempt with the trace that the generator kept.  There are  *)
(* six pairs of generator and adapter, the families.  The adapter of round *)
(* 1 (Round1SharedRealizationAdapter) runs the operator or span family a   *)
(* number of times per cell and selects one of the candidates.             *)
(*                                                                         *)
(* An answer is known by its flaw, the first thing that a check of its     *)
(* family would object to.  Generators, adapters and traces live as long   *)
(* as the process, which goes on to the next cell with them.               *)
(***************************************************************************)
EXTENDS Naturals, Sequences, FiniteSetsExt

CONSTANTS
    Families,      \* families an instance looks at
    Rounds,        \* source_round of the revisions
    SharedFlaws,   \* flaws an instance looks at among candidates, for its size
    Sizes,         \* changed lines of a patch, which here tell patches apart
    MaxRepairs,    \* max_structural_repairs, max_plan_repairs
    MaxCandidates, \* maximum_candidates
    MaxCells,      \* bound on the cells of a run
    None,
    MaxFaults      \* bound on failures of the model transport

Shareable == {"operator", "span"}

VARIABLES
    setup,     \* family, shared, critic, planned and round of this behaviour
    at,        \* cell, candidate and repair that are in progress
    pc,
    raw,       \* what the generator returns
    call,      \* trace and results of the generator's call in progress
    gen,       \* trace and results that the generator keeps (_last_generation_trace)
    agg,       \* the same, collected over the candidates of a cell
    attempts,  \* the attempts of the cell
    frozen,    \* evidence of the cell that was frozen last
    faults

vars == <<setup, at, pc, raw, call, gen, agg, attempts, frozen, faults>>

family == setup.family
Nothing == [trace |-> << >>, results |-> << >>]

-----------------------------------------------------------------------------
(* What is checked.                                                        *)

\* A check of the generator (from which round on it rejects the answer, and whether a
\* repair is worth while) and of the adapter (its failure reason, from which round on).
Check(gate, from, reason, since) ==
    [gate |-> gate, from |-> from, reason |-> reason, since |-> since]
Adapter(reason) == Check("passes", 0, reason, 0)
Both(reason) == Check("repair", 0, reason, 0)
Later(reason, since) == Check("passes", 0, reason, since)

StructuredChecks ==
    [empty |-> Both("no-diff"), prose |-> Both("reasoning-only"),
     fileBlock |-> Adapter("full-file"), header |-> Adapter("bad-header"),
     malformed |-> Both("malformed-hunk"), target |-> Both("wrong-target"),
     testFile |-> Adapter("wrong-target"), selector |-> Both("apply-fail"),
     repeats |-> Both("none"), patch |-> Adapter("apply-fail")]

HunkChecks ==
    [empty |-> Adapter("no-diff"), prose |-> Adapter("reasoning-only"),
     fileBlock |-> Adapter("full-file"), malformed |-> Adapter("malformed-hunk"),
     target |-> Adapter("wrong-target"), large |-> Adapter("malformed-hunk"),
     patch |-> Adapter("apply-fail")]

SymbolChecks ==
    [empty |-> Adapter("no-diff"), prose |-> Adapter("reasoning-only"),
     malformed |-> Adapter("malformed-hunk"), target |-> Adapter("wrong-target"),
     symbol |-> Adapter("apply-fail"), syntax |-> Adapter("apply-fail"),
     patch |-> Adapter("apply-fail")]

BlockChecks ==
    [empty |-> Adapter("no-diff"), prose |-> Adapter("reasoning-only"),
     malformed |-> Adapter("malformed-hunk"), target |-> Adapter("wrong-target"),
     symbol |-> Adapter("apply-fail"), unchanged |-> Adapter("apply-fail"),
     syntax |-> Adapter("apply-fail"), patch |-> Adapter("apply-fail")]

OperatorChecks ==
    [large |-> Adapter("plan-too-large"), unresolved |-> Check("stop", 0, "unresolved", 0),
     empty |-> Both("no-diff"), prose |-> Both("reasoning-only"),
     malformed |-> Both("json-malformed"), schema |-> Both("malformed-hunk"),
     constant |-> Adapter("constant-condition"), hashId |-> Adapter("hash-id-anti-pattern"),
     inconsistent |-> Later("inconsistent-plan", 19),
     ungrounded |-> Later("identifier-drift", 19), boundary |-> Later("boundary-collapse", 20),
     oracle |-> Check("repair", 23, "semantic-oracle-mismatch", 23),
     target |-> Check("final", 0, "wrong-target", 0), moved |-> Adapter("none"),
     symbol |-> Both("unrelated-symbol"), selector |-> Both("selector-no-match"),
     class |-> Check("final", 0, "operator-class-mismatch", 0),
     syntax |-> Both("apply-fail"), unbound |-> Both("unbound-name"), noop |-> Both("no-op"),
     emptySequence |-> Later("unsafe-empty-sequence", 12), patch |-> Adapter("apply-fail")]

SpanChecks ==
    [large |-> Adapter("plan-too-large"), typed |-> Check("repair", 39, "schema-invalid", 39),
     inactive |-> Check("repair", 39, "semantic-overbroad", 39),
     unresolved |-> Check("stop", 0, "unresolved", 0),
     empty |-> Both("no-diff"), prose |-> Both("reasoning-only"),
     malformed |-> Both("json-malformed"), schema |-> Both("malformed-hunk"),
     duplicate |-> Both("duplicate-file"), unchanged |-> Check("final", 0, "no-op", 0),
     notEnumerated |-> Check("final", 0, "selector-not-enumerated", 25),
     inserted |-> Later("non-executable-insertion", 12),
     comment |-> Later("semantic-noop", 12),
     overwrites |-> Check("repair", 34, "semantic-overbroad", 34),
     target |-> Check("final", 0, "wrong-target", 0), moved |-> Adapter("none"),
     selector |-> Both("selector-no-match"), patch |-> Adapter("apply-fail")]

Tables == {StructuredChecks, HunkChecks, SymbolChecks, BlockChecks, OperatorChecks, SpanChecks}
AnswerRecords ==
    [flaw : {"none"} \cup UNION {DOMAIN t : t \in Tables}, size : Nat, short : BOOLEAN]

StudentAttemptsAssumption ==
    /\ Families \subseteq {"structured", "hunk", "symbol", "block", "operator", "span"}
    /\ Rounds \subseteq Nat /\ Sizes \subseteq Nat \ {0} /\ Sizes # {}
    /\ MaxRepairs \in Nat /\ MaxCandidates \in 1 .. 8 /\ MaxFaults \in Nat
    /\ None \notin AnswerRecords

Checks ==
    CASE family = "structured" -> StructuredChecks
      [] family = "hunk" -> HunkChecks
      [] family = "symbol" -> SymbolChecks
      [] family = "block" -> BlockChecks
      [] family = "operator" -> OperatorChecks
      [] family = "span" -> SpanChecks

\* FAILURE_REASON_CODES, as far as adapters give them; and those they give beside.
KnownReasons ==
    {"no-diff", "bad-header", "malformed-hunk", "apply-fail", "reasoning-only", "full-file",
     "wrong-target", "eval-infra", "json-malformed", "selector-no-match", "no-op",
     "duplicate-file", "unrelated-symbol", "plan-too-large", "unresolved",
     "inconsistent-plan", "identifier-drift", "boundary-collapse",
     "semantic-oracle-mismatch", "non-executable-insertion", "schema-invalid",
     "selector-not-enumerated", "semantic-overbroad", "unbound-name",
     "unsafe-empty-sequence"}

\* Answers from which no plan is parsed.
Unparsed == {"empty", "prose", "malformed", "schema", "duplicate", "unchanged", "unresolved",
             "typed", "inactive"}

-----------------------------------------------------------------------------
(* Answers.                                                                *)

\* A short answer leaves out what the framework knows; it is completed, when there is
\* nothing else against it.
Answer(flaw, size, short) == [flaw |-> flaw, size |-> size, short |-> short]
Flaws ==
    {x \in DOMAIN Checks :
       /\ setup.shared => x \in SharedFlaws
       /\ \/ Checks[x].gate # "passes" /\ setup.round >= Checks[x].from
          \/ setup.round >= Checks[x].since}
Answers ==
    [flaw : {"none"}, size : Sizes, short : IF family \in Shareable THEN BOOLEAN ELSE {FALSE}]
        \cup {Answer(x, Min(Sizes), FALSE) : x \in Flaws}
Completed(a) == [a EXCEPT !.short = FALSE]

Applies(a) == a.flaw # "none"
Rejects(a) == /\ Applies(a) /\ Checks[a.flaw].gate \in {"repair", "final"}
              /\ setup.round >= Checks[a.flaw].from
Stops(a) == Applies(a) /\ Checks[a.flaw].gate = "stop"
Gated == family \in {"structured", "operator", "span"}

Status(a) ==
    CASE ~Gated -> "generated"
      [] Stops(a) -> "unresolved"
      [] Rejects(a) -> "structural-rejected"
      [] OTHER -> "structural-valid"

Reason(a) ==
    IF Applies(a) /\ setup.round >= Checks[a.flaw].since THEN Checks[a.flaw].reason
    ELSE "none"

-----------------------------------------------------------------------------
(* Traces.  An entry knows, beyond what the code keeps, when it was made.  *)

Entry(kind, a) ==
    [cell |-> at.cell, candidate |-> at.candidate, kind |-> kind, answer |-> a]
Log(l, kind, a, status) ==
    [trace |-> Append(l.trace, Entry(kind, a)), results |-> Append(l.results, status)]

\* Mutant: a completed answer is traced without a result of its own.
LogAnswerUnaligned(l, a, status) ==
    IF family = "operator" /\ a.short
    THEN [trace |-> l.trace \o <<Entry("attempt", a), Entry("canonical", Completed(a))>>,
          results |-> Append(l.results, status)]
    ELSE Log(l, "attempt", a, status)

\* The operator generator traces a completed answer beside the one it completes.
LogAnswer(l, a, status) ==
    IF family = "operator" /\ a.short
    THEN Log(Log(l, "attempt", a, "canonicalized"), "canonical", Completed(a), status)
    ELSE Log(l, "attempt", a, status)

Init ==
    /\ \E f \in Families, r \in Rounds, shared, critic, planned \in BOOLEAN :
         /\ shared => f \in Shareable
         /\ critic => f \in {"structured", "operator"}
         /\ planned => f = "structured"
         /\ setup = [family |-> f, round |-> r, shared |-> shared, critic |-> critic,
                     planned |-> planned]
    /\ at = [cell |-> 1, candidate |-> 0, repair |-> 0]
    /\ pc = "idle" /\ raw = None
    /\ call = Nothing /\ gen = Nothing /\ agg = Nothing
    /\ attempts = << >> /\ frozen = None /\ faults = 0

-----------------------------------------------------------------------------
(* The generator.                                                          *)

\* Candidate 0 is the neutral run that prepares the shared context of the task, when
\* the baseline arm has it to prepare.
StartCell ==
    /\ pc = "idle" /\ at.cell <= MaxCells
    /\ \E first \in IF setup.shared THEN {0, 1} ELSE {1} :
         at' = [at EXCEPT !.candidate = first, !.repair = 0]
    /\ pc' = "call" /\ attempts' = << >> /\ agg' = Nothing /\ frozen' = None
    /\ UNCHANGED <<setup, raw, call, gen, faults>>

\* Mutant: the operator generator does not clear what it keeps.
CallKeeping ==
    /\ pc = "call"
    /\ call' = IF setup.planned THEN Log(Nothing, "plan", None, "generated") ELSE Nothing
    /\ at' = [at EXCEPT !.repair = 0] /\ pc' = "decode"
    /\ UNCHANGED <<setup, raw, gen, agg, attempts, frozen, faults>>

\* Only the operator generator clears the trace of the call before.
Call ==
    /\ pc = "call"
    /\ gen' = IF family = "operator" THEN Nothing ELSE gen
    /\ call' = IF setup.planned THEN Log(Nothing, "plan", None, "generated") ELSE Nothing
    /\ at' = [at EXCEPT !.repair = 0] /\ pc' = "decode"
    /\ UNCHANGED <<setup, raw, agg, attempts, frozen, faults>>

Decode ==
    /\ pc = "decode"
    /\ \E a \in Answers :
         LET status == Status(IF Gated THEN Completed(a) ELSE a) IN
         /\ call' = LogAnswer(call, a, status)
         /\ raw' = IF family = "operator" THEN Completed(a) ELSE a
         /\ pc' = CASE status = "structural-rejected" -> "rejected"
                    [] status = "structural-valid" /\ setup.critic -> "critic"
                    [] OTHER -> "return"
    /\ UNCHANGED <<setup, at, gen, agg, attempts, frozen, faults>>

\* A selector of an operator plan that matches nothing is pointed to the nearest
\* candidate of the framework; the plan is not shown to the critic.
Ground ==
    /\ pc = "rejected" /\ family = "operator" /\ raw.flaw = "selector"
    /\ \E a \in Answers :
         /\ ~a.short /\ Status(a) = "structural-valid"
         /\ call' = Log(call, "grounded", a, "selector-grounded") /\ raw' = a
    /\ pc' = "return"
    /\ UNCHANGED <<setup, at, gen, agg, attempts, frozen, faults>>

Repairs == at.repair < MaxRepairs
AskAgain == at' = [at EXCEPT !.repair = @ + 1] /\ pc' = "decode"

Replan ==
    /\ pc = "rejected" /\ Repairs /\ Checks[raw.flaw].gate = "repair"
    /\ AskAgain
    /\ UNCHANGED <<setup, raw, call, gen, agg, attempts, frozen, faults>>

GiveUp ==
    /\ pc = "rejected" /\ ~(Repairs /\ Checks[raw.flaw].gate = "repair")
    /\ pc' = "return"
    /\ UNCHANGED <<setup, at, raw, call, gen, agg, attempts, frozen, faults>>

\* Mutant: the edit that the critic rejected last is returned all the same.
CriticizeInVain ==
    /\ pc = "critic"
    /\ \E accepted \in BOOLEAN :
         /\ call' = Log(call, "critic", raw, IF accepted THEN "accepted" ELSE "rejected")
         /\ IF ~accepted /\ Repairs THEN AskAgain
            ELSE pc' = "return" /\ UNCHANGED at
    /\ UNCHANGED <<setup, raw, gen, agg, attempts, frozen, faults>>

\* The critic of meaning (structured) or of clauses (operator); an answer of the critic
\* that does not parse rejects.  After the last repair a text without a plan is returned.
Criticize ==
    /\ pc = "critic"
    /\ \E accepted \in BOOLEAN :
         /\ call' = Log(call, "critic", raw, IF accepted THEN "accepted" ELSE "rejected")
         /\ IF ~accepted /\ Repairs THEN AskAgain /\ UNCHANGED raw
            ELSE /\ raw' = IF accepted THEN raw ELSE [raw EXCEPT !.flaw = "prose"]
                 /\ pc' = "return" /\ UNCHANGED at
    /\ UNCHANGED <<setup, gen, agg, attempts, frozen, faults>>

Return ==
    /\ pc = "return" /\ gen' = call /\ call' = Nothing /\ pc' = "render"
    /\ UNCHANGED <<setup, at, raw, agg, attempts, frozen, faults>>

\* Whatever raises in the generator leaves what it keeps as it was.
TransportFails ==
    /\ pc \in {"decode", "critic"} /\ faults < MaxFaults
    /\ raw' = None /\ call' = Nothing /\ pc' = "render" /\ faults' = faults + 1
    /\ UNCHANGED <<setup, at, gen, agg, attempts, frozen>>

-----------------------------------------------------------------------------
(* The adapter.                                                            *)

Failed(reason, a) == [valid |-> FALSE, reason |-> reason, raw |-> a]

\* The span adapter completes a short answer itself.
Attempt ==
    IF raw = None THEN Failed("eval-infra", None)
    ELSE LET a == Completed(raw)  r == Reason(a) IN
         IF r = "none" THEN [valid |-> TRUE, reason |-> "none", raw |-> a] ELSE Failed(r, a)

\* Mutant: a candidate is not compared with the shared localization.
AnyLocation(t) == t

\* A candidate from which no plan is parsed, or one that changed the location, counts
\* as unresolved, whatever its own reason was.
AtSharedLocation(t) ==
    IF t.reason # "eval-infra" /\ t.raw.flaw \in Unparsed \cup {"target", "moved"}
    THEN Failed("unresolved", t.raw) ELSE t

Render ==
    /\ pc = "render" /\ ~setup.shared
    /\ attempts' = <<Attempt>> /\ raw' = None /\ pc' = "freeze"
    /\ UNCHANGED <<setup, at, call, gen, agg, frozen, faults>>

Prepare ==
    /\ pc = "render" /\ setup.shared /\ at.candidate = 0
    /\ at' = [at EXCEPT !.candidate = 1] /\ raw' = None /\ pc' = "call"
    /\ UNCHANGED <<setup, call, gen, agg, attempts, frozen, faults>>

\* The trace of a candidate is what the generator keeps, or the attempt when that is
\* nothing.
Realize ==
    /\ pc = "render" /\ setup.shared /\ at.candidate > 0
    /\ agg' = IF gen # Nothing
              THEN [trace |-> agg.trace \o gen.trace, results |-> agg.results \o gen.results]
              ELSE Log(agg, "candidate", raw, "structural-rejected")
    /\ attempts' = Append(attempts, AtSharedLocation(Attempt))
    /\ IF at.candidate < MaxCandidates
       THEN at' = [at EXCEPT !.candidate = @ + 1] /\ pc' = "call"
       ELSE pc' = "select" /\ UNCHANGED at
    /\ raw' = None
    /\ UNCHANGED <<setup, call, gen, frozen, faults>>

\* Candidates that are valid, each patch once.
Eligible ==
    {i \in DOMAIN attempts :
       attempts[i].valid /\ \A j \in 1 .. i - 1 :
           ~(attempts[j].valid /\ attempts[j].raw.size = attempts[i].raw.size)}

\* Mutant: the first candidate of all is selected, as long as one is valid.
FirstOf(s) == 1

\* The patch with the fewest changed lines.
Smallest(s) ==
    CHOOSE i \in s : \A j \in s \ {i} :
        \/ attempts[i].raw.size < attempts[j].raw.size
        \/ attempts[i].raw.size = attempts[j].raw.size /\ i < j

Selected == IF Eligible = {} THEN 0 ELSE Smallest(Eligible)

Known == \A i \in DOMAIN attempts : attempts[i].reason \in KnownReasons \cup {"none"}

Select ==
    /\ pc = "select" /\ Known /\ pc' = "freeze"
    /\ UNCHANGED <<setup, at, raw, call, gen, agg, attempts, frozen, faults>>

\* A reason that is not one of FAILURE_REASON_CODES ends the run without a cell, also
\* when another candidate is valid; the next run is a new process at the same cell.
SelectRaises ==
    /\ pc = "select" /\ ~Known
    /\ pc' = "idle" /\ gen' = Nothing /\ agg' = Nothing /\ attempts' = << >>
    /\ at' = [at EXCEPT !.candidate = 0, !.repair = 0]
    /\ UNCHANGED <<setup, raw, call, frozen, faults>>

-----------------------------------------------------------------------------
(* The experiment.                                                         *)

\* The trace and the results that the cell is frozen with.
Kept == IF setup.shared THEN agg ELSE gen

Freeze ==
    /\ pc = "freeze"
    /\ LET chosen == IF setup.shared THEN Selected ELSE 1 IN
       frozen' = [cell |-> at.cell, attempts |-> attempts, chosen |-> chosen,
                  trace |-> Kept.trace, results |-> Kept.results]
    /\ at' = [cell |-> at.cell + 1, candidate |-> 0, repair |-> 0]
    /\ pc' = "idle" /\ agg' = Nothing /\ attempts' = << >>
    /\ UNCHANGED <<setup, raw, call, gen, faults>>

Next ==
    \/ StartCell \/ Call \/ Decode \/ Ground \/ Replan \/ GiveUp \/ Criticize \/ Return
    \/ TransportFails \/ Render \/ Prepare \/ Realize \/ Select \/ SelectRaises \/ Freeze

Spec == Init /\ [][Next]_vars

-----------------------------------------------------------------------------
(* Properties.                                                             *)

\* Places in the frozen trace that candidate i of the frozen cell made.
Own(i) ==
    {n \in DOMAIN frozen.trace :
       frozen.trace[n].cell = frozen.cell /\ frozen.trace[n].candidate = i}
Last(s) == Max(s)
Answered(i) == frozen.attempts[i].raw # None
LastResult(i) == frozen.results[Last(Own(i))]
CriticRefused(i) == LastResult(i) = "rejected"

\* "Expose every bounded local attempt" and "stage outcomes aligned with prompts and
\* outputs" (generation_trace, generation_trace_results): every candidate that was
\* answered has its part in the trace of its cell, entry by entry with a result, and
\* was made of the last answer in it, unless the critic refused that.  Of a candidate
\* that was not answered this says nothing, but for the operator family, which clears its
\* trace first: nothing else is in it then, whatever failed.
AttemptIsTraced ==
    frozen # None =>
        /\ Len(frozen.results) = Len(frozen.trace)
        /\ \A i \in DOMAIN frozen.attempts : Answered(i) =>
              /\ Own(i) # {}
              /\ \/ CriticRefused(i)
                 \/ Completed(frozen.trace[Last(Own(i))].answer) = frozen.attempts[i].raw
        /\ family = "operator" =>
              \A n \in DOMAIN frozen.trace : frozen.trace[n].cell = frozen.cell

\* Checks of a generator that its adapter does not repeat: of lines that are there
\* already (structured), and of the frozen candidates (span, before round 25).
Unrepeated == {"repeats", "notEnumerated"}

\* What the critic refused last is not an edit.  What the generator rejected last may be
\* one: the adapter checks the answer again, but for Unrepeated.  And what is selected
\* among candidates is a valid edit at the shared location, none of the others smaller.
AttemptIsEarned ==
    frozen # None =>
        /\ \A i \in DOMAIN frozen.attempts : frozen.attempts[i].valid =>
              /\ Answered(i) /\ ~CriticRefused(i)
              /\ LastResult(i) = "structural-rejected" =>
                    frozen.attempts[i].raw.flaw \in Unrepeated
        /\ setup.shared =>
              LET valid == {i \in DOMAIN frozen.attempts : frozen.attempts[i].valid} IN
              IF frozen.chosen = 0 THEN valid = {}
              ELSE /\ frozen.chosen \in valid
                   /\ frozen.attempts[frozen.chosen].raw.flaw # "moved"
                   /\ \A i \in valid : frozen.attempts[frozen.chosen].raw.size
                                         <= frozen.attempts[i].raw.size

\* "Expose every bounded local attempt for append-only cell evidence" (generation_trace).
\* Only the operator generator clears what it keeps: when another one raises, the trace of
\* the call before, of another cell, is frozen as that of the cell that failed.
TraceIsOfItsCell ==
    frozen # None => \A n \in DOMAIN frozen.trace : frozen.trace[n].cell = frozen.cell
=============================================================================
