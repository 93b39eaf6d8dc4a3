-------------------------- MODULE PairedExperiment --------------------------
(***************************************************************************)
(* PairedExperimentRunner of engine/skill_evolution_loop: every task is    *)
(* attempted by the baseline and by the taught arm of every mechanism, one *)
(* frozen cell for each.  A run may be filtered, cut short and killed; the *)
(* next one goes on from the cells it finds.  Both arms of a mechanism     *)
(* work on one shared context, which the baseline prepares.  A futility    *)
(* gate stops a mechanism whose attempts are too often malformed.  The     *)
(* experiment root has one writer at a time (ExperimentRootLease).         *)
(***************************************************************************)
EXTENDS Sequences, FiniteSetsExt

CONSTANTS
    Procs,
    TaskOrder,     \* the tasks of the task set, in order
    Arms,          \* the conditions in order: mechanism and teaching
    Contextual,    \* mechanisms whose adapter shares a context
    Contexts,      \* what an adapter may prepare
    Inherited,     \* tasks whose contexts the source root holds
    Options,       \* what an operator may ask of a run: arms, limit, window, floor
    None, Torn,
    MaxKills

Cells == {TaskOrder[i] : i \in DOMAIN TaskOrder} \X {Arms[i] : i \in DOMAIN Arms}
Slots == {[task |-> c[1], mechanism |-> c[2].mechanism] : c \in Cells}
SlotOf(c) == [task |-> c[1], mechanism |-> c[2].mechanism]
Plan == [i \in 1 .. Len(TaskOrder) * Len(Arms) |->
           <<TaskOrder[1 + (i - 1) \div Len(Arms)], Arms[((i - 1) % Len(Arms)) + 1]>>]

PairedExperimentAssumption ==
    /\ TaskOrder \in Seq({TaskOrder[i] : i \in DOMAIN TaskOrder})
    /\ Arms \in Seq({Arms[i] : i \in DOMAIN Arms})
    /\ \A i \in DOMAIN Arms : Arms[i].teaching \in {"baseline", "taught"}
    /\ \A o \in Options : o.limit \in Nat /\ o.window \in Nat /\ o.floor \in 0 .. 100
    /\ None # Torn /\ None \notin Contexts \cup {"inherited"} \cup Procs /\ MaxKills \in Nat

VARIABLES
    cells,         \* cell -> its frozen attempt
    contexts,      \* task and mechanism -> the shared context on disk
    summary,       \* SUMMARY.json
    holder,        \* the process that holds the lease of the root
    job,           \* process -> its run
    kills

vars == <<cells, contexts, summary, holder, job, kills>>

Idle == [pc |-> "idle", options |-> None, at |-> 0, executed |-> 0, stopped |-> {},
         context |-> None]

Init ==
    /\ cells = [c \in Cells |-> None]
    /\ contexts = [s \in Slots |-> None]
    /\ summary = None /\ holder = None
    /\ job = [p \in Procs |-> Idle]
    /\ kills = 0

Go(p, place) == job' = [job EXCEPT ![p].pc = place]
End(p) == job' = [job EXCEPT ![p] = Idle] /\ holder' = None

\* _load_cell: the context a cell was bound to is the one on disk.
Loads(c) == cells[c].context # None => cells[c].context = contexts[SlotOf(c)]

-----------------------------------------------------------------------------
(* The futility gate.                                                      *)

\* The attempts of a mechanism among the cells a run may look at are too often
\* malformed: what the gate records of it.
Gate(o, m, now) ==
    LET seen == {c \in Cells : c[2].mechanism = m /\ c[2] \in o.arms /\ now[c] # None} IN
    IF o.window > 0 /\ Cardinality(seen) >= o.window
       /\ Cardinality({c \in seen : now[c].valid}) * 100 < o.floor * Cardinality(seen)
    THEN {[mechanism |-> m, seen |-> seen]} ELSE {}

Stopped(p, m) == \E s \in job[p].stopped : s.mechanism = m

-----------------------------------------------------------------------------
(* A run.                                                                  *)

\* Mutant: the root is not leased.
StartUnleased(p) ==
    /\ job[p].pc = "idle"
    /\ holder' = p
    /\ \E o \in Options :
         job' = [job EXCEPT ![p] = [Idle EXCEPT !.pc = "next", !.options = o, !.at = 1,
                   !.stopped = UNION {Gate(o, s.mechanism, cells) : s \in Slots}]]
    /\ UNCHANGED <<cells, contexts, summary, kills>>

\* A root that is leased refuses the run.  The gate is applied to what is there.
Start(p) ==
    /\ job[p].pc = "idle" /\ holder = None
    /\ holder' = p
    /\ \E o \in Options :
         job' = [job EXCEPT ![p] = [Idle EXCEPT !.pc = "next", !.options = o, !.at = 1,
                   !.stopped = UNION {Gate(o, s.mechanism, cells) : s \in Slots}]]
    /\ UNCHANGED <<cells, contexts, summary, kills>>

\* Cells that a run passes over: filtered, stopped, there already, or beyond its limit.
Passed(p, c) ==
    \/ Stopped(p, c[2].mechanism)
    \/ c[2] \notin job[p].options.arms
    \/ cells[c] # None
    \/ job[p].options.limit > 0 /\ job[p].executed >= job[p].options.limit

\* A cell that is there is loaded; one that does not load ends the run.
Advance(p) ==
    /\ job[p].pc = "next"
    /\ LET i == job[p].at IN
         IF i > Len(Plan) THEN Go(p, "summary") /\ UNCHANGED holder
         ELSE LET c == Plan[i] IN
              IF ~Passed(p, c) THEN Go(p, "context") /\ UNCHANGED holder
              ELSE IF /\ cells[c] # None /\ ~Loads(c)
                      /\ ~Stopped(p, c[2].mechanism) /\ c[2] \in job[p].options.arms
              THEN End(p)
              ELSE job' = [job EXCEPT ![p].at = i + 1] /\ UNCHANGED holder
    /\ UNCHANGED <<cells, contexts, summary, kills>>

\* The context on disk, the one of the source root, or one the baseline prepares.
Available(c) ==
    IF c[2].mechanism \notin Contextual THEN {None}
    ELSE IF contexts[SlotOf(c)] # None THEN {contexts[SlotOf(c)]}
    ELSE IF c[1] \in Inherited THEN {"inherited"}
    ELSE IF c[2].teaching = "baseline" THEN Contexts ELSE {}

PrepareContext(p) ==
    /\ job[p].pc = "context"
    /\ LET c == Plan[job[p].at] IN
         \/ /\ \E x \in Available(c) :
                  job' = [job EXCEPT ![p].pc = "bind", ![p].context = x]
            /\ UNCHANGED holder
         \/ Available(c) = {} /\ End(p)
    /\ UNCHANGED <<cells, contexts, summary, kills>>

BindContext(p) ==
    /\ job[p].pc = "bind"
    /\ contexts' = [contexts EXCEPT ![SlotOf(Plan[job[p].at])] =
                      IF job[p].context = None THEN @ ELSE job[p].context]
    /\ Go(p, "attempt")
    /\ UNCHANGED <<cells, summary, holder, kills>>

\* The attempt is frozen by a rename, then the gate is applied to its mechanism.
Attempt(p) ==
    /\ job[p].pc = "attempt"
    /\ LET c == Plan[job[p].at]  o == job[p].options IN
         IF cells[c] # None THEN End(p) /\ UNCHANGED cells
         ELSE \E valid \in BOOLEAN :
                /\ cells' = [cells EXCEPT ![c] = [valid |-> valid, context |-> job[p].context]]
                /\ job' = [job EXCEPT ![p].pc = "progress", ![p].executed = @ + 1,
                             ![p].stopped = @ \cup Gate(o, c[2].mechanism, cells')]
                /\ UNCHANGED holder
    /\ UNCHANGED <<contexts, summary, kills>>

\* summarize loads every cell; a summary that is complete is frozen and must match.
Complete == \A c \in Cells : cells[c] # None
SummaryOf(p) == [cells |-> cells, stopped |-> job[p].stopped, options |-> job[p].options]
Matches(p) == summary # Torn /\ summary.cells = cells /\ summary.stopped = job[p].stopped

Summarize(p) ==
    /\ job[p].pc \in {"progress", "summary"}
    /\ LET refused == \/ \E c \in Cells : cells[c] # None /\ ~Loads(c)
                      \/ Complete /\ summary # None /\ ~Matches(p) IN
         /\ summary' = IF Complete /\ ~refused /\ summary = None
                       THEN SummaryOf(p) ELSE summary
         /\ IF refused \/ job[p].pc = "summary" THEN End(p)
            ELSE job' = [job EXCEPT ![p].pc = "next", ![p].context = None] /\ UNCHANGED holder
    /\ UNCHANGED <<cells, contexts, kills>>

\* The lease ends with the process; SUMMARY.json is written in place.
Kill(p) ==
    /\ job[p].pc # "idle" /\ kills < MaxKills /\ kills' = kills + 1
    /\ summary' \in {summary} \cup
         IF job[p].pc \in {"progress", "summary"} /\ Complete /\ summary = None
         THEN {Torn} ELSE {}
    /\ End(p)
    /\ UNCHANGED <<cells, contexts>>

Step(p) == \/ Start(p) \/ Advance(p) \/ PrepareContext(p) \/ BindContext(p)
           \/ Attempt(p) \/ Summarize(p)

Next == \E p \in Procs : Step(p) \/ Kill(p)
Spec == Init /\ [][Next]_vars

-----------------------------------------------------------------------------
(* Properties.                                                             *)

\* However often the experiment is stopped and gone on with, the arms of a mechanism
\* were given the same context for a task, the one on disk, and every cell loads.
PairsShareTheirContext ==
    \A c, d \in Cells : (SlotOf(c) = SlotOf(d) /\ cells[c] # None /\ cells[d] # None) =>
        cells[c].context = cells[d].context /\ Loads(c)

\* A cell that is frozen stays as it is, and so does a summary.
KeepsEvidence ==
    /\ \A c \in Cells : cells[c] # None => cells'[c] = cells[c]
    /\ summary # None => summary' = summary

\* A complete experiment that is run again with the options of the run that froze its
\* summary finds the same summary, whatever stopped and filtered runs made the cells:
\* the gate says of the cells it finds what it said when they were made.
SummaryIsReproduced ==
    \A p \in Procs :
        (job[p].pc = "summary" /\ summary \notin {None, Torn}
         /\ job[p].options = summary.options) => Matches(p)
=============================================================================
