---------------------------- MODULE ContinuousAB ----------------------------
(***************************************************************************)
(* ContinuousABService: rounds in which a frozen baseline and an evolved   *)
(* agent attempt the same task, in the order of a declared schedule: per   *)
(* cycle search rounds, a ChangeSet proposal, promotion rounds and a       *)
(* decision; at the end the sealed tasks, opened once.  The round ledgers, *)
(* the task pool, the ChangeSet registry and the manifest are files that   *)
(* are written one after the other; a kill may fall between two writes,    *)
(* and a kill while the pool is written leaves a pool that no longer       *)
(* loads, for it is not written atomically.  One caller at a time.         *)
(***************************************************************************)
EXTENDS PromotionGate, SequencesExt

CONSTANTS
    Cycles, SearchRounds,   \* 8 cycles of 20 search and Block promotion rounds
    SealedTasks,            \* 60
    Interval,               \* rounds between two proposals (10)
    Agents, InitialAgent, None,
    Pairs,                  \* partition -> what its matched rounds may measure
    MaxOpen,                \* bound on rounds that are planned and not retired
    MaxKills, MaxRollbacks

Partitions == {"search", "promotion", "final_sealed"}

ContinuousABAssumption ==
    /\ PromotionGateAssumption
    /\ Cycles \in Nat \ {0} /\ SearchRounds \in Nat \ {0} /\ SealedTasks \in Nat \ {0}
    /\ Interval \in 1 .. SearchRounds + Block
    /\ InitialAgent \in Agents /\ None \notin Agents
    /\ \A partition \in Partitions : \A pair \in Pairs[partition] :
         pair # None /\ pair.baseline \in BOOLEAN /\ pair.evolved \in BOOLEAN
    /\ MaxOpen \in Nat \ {0} /\ MaxKills \in Nat /\ MaxRollbacks \in Nat

CycleLength == SearchRounds + Block
Rounds == Cycles * CycleLength + SealedTasks

\* Partition of the n-th round of the schedule, and of the n-th task of the pool.
Partition(n) ==
    IF n > Cycles * CycleLength THEN "final_sealed"
    ELSE IF (n - 1) % CycleLength < SearchRounds THEN "search" ELSE "promotion"
Cycle(n) == (n - 1) \div CycleLength + 1

VARIABLES
    pool,       \* task -> unopened, opened (in its partition) or retired
    torn,       \* TASK_POOL.json does not load
    rounds,     \* round ledgers in the order of their identifiers
    frozen,     \* cycle -> the agent its search rounds evolve
    proposals,  \* ChangeSet registry: proposals, active agent, last boundary
    active, lastProposal,
    audit,      \* agent frozen by the final sealed audit
    op,         \* the running call
    kills, rollbacks

vars == <<pool, torn, rounds, frozen, proposals, active, lastProposal, audit, op,
          kills, rollbacks>>
registry == <<proposals, active, lastProposal>>

Idle == [call |-> "none", place |-> "none", round |-> 0, agent |-> None]

Init ==
    /\ pool = [t \in 1 .. Rounds |-> "unopened"] /\ torn = FALSE
    /\ rounds = <<>> /\ frozen = [c \in 1 .. Cycles |-> None]
    /\ proposals = <<>> /\ active = InitialAgent /\ lastProposal = 0
    /\ audit = None /\ op = Idle /\ kills = 0 /\ rollbacks = 0

At(call, place) == op.call = call /\ op.place = place
To(place) == op' = [op EXCEPT !.place = place]
Return == op' = Idle
Bounds == UNCHANGED <<kills, rollbacks>>

Pending == {p \in DOMAIN proposals : proposals[p].status = "proposed"}
Retired == {i \in DOMAIN rounds : rounds[i].phase = "retired"}
NextRound == Len(rounds) + 1

-----------------------------------------------------------------------------
(* Calls that start with reconciling every round.                          *)

\* What the operator calls; deciding takes no agent.
Asks == [call : {"plan", "propose"}, place : {"none"}, round : {0}, agent : Agents]
          \cup {[Idle EXCEPT !.call = "decide"]}

\* Mutant: planning trusts the pool.
CallWithoutReconcile ==
    /\ op = Idle /\ ~torn
    /\ \E ask \in Asks : op' = [ask EXCEPT !.place = "act"]
    /\ UNCHANGED <<pool, torn, rounds, frozen, registry, audit>> /\ Bounds

Call ==
    /\ op = Idle /\ ~torn
    /\ \E ask \in Asks : op' = [ask EXCEPT !.place = "reconcile"]
    /\ UNCHANGED <<pool, torn, rounds, frozen, registry, audit>> /\ Bounds

TaskIs(i, state) == pool[rounds[i].task] = state
Unsettled == {i \in DOMAIN rounds :
                \/ TaskIs(i, "unopened")
                \/ rounds[i].phase \in {"evaluated", "retired"} /\ TaskIs(i, "opened")
                \/ rounds[i].phase = "evaluated"}

\* The windows between ledger and pool, one durable write at a time.
Reconcile ==
    /\ op.place = "reconcile"
    /\ IF Unsettled = {}
       THEN To("act") /\ UNCHANGED <<pool, rounds>>
       ELSE LET i == Min(Unsettled) IN
            /\ UNCHANGED op
            /\ CASE TaskIs(i, "unopened") ->
                      /\ pool' = [pool EXCEPT ![rounds[i].task] = "opened"]
                      /\ UNCHANGED rounds
                 [] TaskIs(i, "opened") ->
                      /\ pool' = [pool EXCEPT ![rounds[i].task] = "retired"]
                      /\ UNCHANGED rounds
                 [] OTHER ->
                      /\ rounds' = [rounds EXCEPT ![i].phase = "retired"]
                      /\ UNCHANGED pool
    /\ UNCHANGED <<torn, frozen, registry, audit>> /\ Bounds

Available(partition) == {t \in 1 .. Rounds : Partition(t) = partition /\ pool[t] = "unopened"}

\* What plan_round asks of the agent, by partition.
MayPlan(agent) ==
    LET n == NextRound IN
    CASE Partition(n) = "search" ->
           Pending = {} /\ frozen[Cycle(n)] \in {None, agent}
      [] Partition(n) = "promotion" ->
           \E p \in Pending : Pending = {p} /\ proposals[p].candidate = agent
      [] OTHER -> audit = agent

\* The search candidate of a cycle is frozen with its first round; then the round's
\* ledger is created for the first unopened task.
PlanRound ==
    /\ At("plan", "act")
    /\ NextRound <= Rounds => Cardinality(DOMAIN rounds \ Retired) < MaxOpen
    /\ IF NextRound <= Rounds /\ MayPlan(op.agent)
       THEN IF Partition(NextRound) = "search" /\ frozen[Cycle(NextRound)] = None
            THEN /\ frozen' = [frozen EXCEPT ![Cycle(NextRound)] = op.agent]
                 /\ UNCHANGED <<rounds, op>>
            ELSE IF Available(Partition(NextRound)) # {}
            THEN /\ rounds' = Append(rounds,
                        [task |-> Min(Available(Partition(NextRound))),
                         evolved |-> op.agent, phase |-> "planned", pair |-> None])
                 /\ op' = [op EXCEPT !.place = "claim", !.round = NextRound]
                 /\ UNCHANGED frozen
            ELSE Return /\ UNCHANGED <<rounds, frozen>>
       ELSE Return /\ UNCHANGED <<rounds, frozen>>
    /\ UNCHANGED <<pool, torn, registry, audit>> /\ Bounds

ClaimTask ==
    /\ At("plan", "claim")
    /\ pool' = [pool EXCEPT ![rounds[op.round].task] = "opened"] /\ Return
    /\ UNCHANGED <<torn, rounds, frozen, registry, audit>> /\ Bounds

\* A proposal falls between the search and the promotion rounds of a cycle, once
\* every planned round has retired.
Propose ==
    /\ At("propose", "act") /\ Return
    /\ IF /\ Retired = DOMAIN rounds
          /\ NextRound <= Rounds /\ Partition(NextRound) = "promotion"
          /\ Len(rounds) >= lastProposal + Interval
       THEN /\ proposals' = Append(proposals,
                   [at |-> Len(rounds), parent |-> active, candidate |-> op.agent,
                    status |-> "proposed"])
            /\ lastProposal' = Len(rounds)
       ELSE UNCHANGED <<proposals, lastProposal>>
    /\ UNCHANGED <<pool, torn, rounds, frozen, active, audit>> /\ Bounds

\* The promotion rounds planned after a proposal.
BlockOf(p) == {i \in DOMAIN rounds : i > proposals[p].at
                                       /\ Partition(rounds[i].task) = "promotion"}
PairsOf(p) == [i \in BlockOf(p) |-> rounds[i].pair]

Settle(p, status) ==
    /\ proposals' = [proposals EXCEPT ![p].status = status]
    /\ active' = IF status = "promoted" THEN proposals[p].candidate ELSE active

\* A proposal is decided from exactly one block of retired rounds of its candidate;
\* an approved one whose parent is no longer active is refused.
Decide ==
    /\ At("decide", "act") /\ Return
    /\ \/ \E p \in Pending :
            /\ BlockOf(p) \subseteq Retired /\ Cardinality(BlockOf(p)) = Block
            /\ \A i \in BlockOf(p) : rounds[i].evolved = proposals[p].candidate
            /\ IF Approves(PairsOf(p))
               THEN proposals[p].parent = active /\ Settle(p, "promoted")
               ELSE Settle(p, "rejected")
       \/ UNCHANGED <<proposals, active>>
    /\ UNCHANGED <<pool, torn, rounds, frozen, lastProposal, audit>> /\ Bounds

-----------------------------------------------------------------------------
(* A round's predictions and results, and the other calls.                 *)

FreezePredictions ==
    /\ op = Idle /\ ~torn
    /\ \E i \in DOMAIN rounds :
         /\ rounds[i].phase = "planned"
         /\ rounds' = [rounds EXCEPT ![i].phase = "frozen"]
    /\ UNCHANGED <<pool, torn, frozen, registry, audit, op>> /\ Bounds

\* Native evidence is frozen in the ledger before the results; only once.
RecordNative ==
    /\ op = Idle /\ ~torn
    /\ \E i \in DOMAIN rounds :
         /\ rounds[i].phase = "frozen"
         /\ rounds' = [rounds EXCEPT ![i].phase = "frozen with evidence"]
         /\ op' = [Idle EXCEPT !.call = "record", !.place = "results", !.round = i]
    /\ UNCHANGED <<pool, torn, frozen, registry, audit>> /\ Bounds

\* record_results, which native evidence does not stand in the way of.
RecordPlain ==
    /\ op = Idle /\ ~torn
    /\ \E i \in DOMAIN rounds :
         /\ rounds[i].phase \in {"frozen", "frozen with evidence"}
         /\ op' = [Idle EXCEPT !.call = "record", !.place = "results", !.round = i]
    /\ UNCHANGED <<pool, torn, rounds, frozen, registry, audit>> /\ Bounds

RecordResults ==
    /\ At("record", "results") /\ To("retire task")
    /\ \E pair \in Pairs[Partition(op.round)] :
         rounds' = [rounds EXCEPT ![op.round].phase = "evaluated", ![op.round].pair = pair]
    /\ UNCHANGED <<pool, torn, frozen, registry, audit>> /\ Bounds

\* A task that was never claimed is refused here and left to reconciling.
RetireTask ==
    /\ At("record", "retire task")
    /\ IF TaskIs(op.round, "opened")
       THEN pool' = [pool EXCEPT ![rounds[op.round].task] = "retired"] /\ To("retire round")
       ELSE Return /\ UNCHANGED pool
    /\ UNCHANGED <<torn, rounds, frozen, registry, audit>> /\ Bounds

RetireRound ==
    /\ At("record", "retire round") /\ Return
    /\ rounds' = [rounds EXCEPT ![op.round].phase = "retired"]
    /\ UNCHANGED <<pool, torn, frozen, registry, audit>> /\ Bounds

\* The sealed tasks are opened once, for one agent, when every other task has retired.
OpenFinal ==
    /\ op = Idle /\ ~torn /\ audit = None
    /\ \A t \in 1 .. Rounds : Partition(t) # "final_sealed" => pool[t] = "retired"
    /\ Cardinality(Available("final_sealed")) >= SealedTasks
    /\ \A i \in DOMAIN rounds : rounds[i].task \notin Available("final_sealed")
    /\ audit' \in Agents
    /\ UNCHANGED <<pool, torn, rounds, frozen, registry, op>> /\ Bounds

\* A promoted ChangeSet that is the active agent is rolled back to its parent.
Rollback ==
    /\ op = Idle /\ rollbacks < MaxRollbacks /\ rollbacks' = rollbacks + 1
    /\ \E p \in DOMAIN proposals :
         /\ proposals[p].status = "promoted" /\ active = proposals[p].candidate
         /\ proposals' = [proposals EXCEPT ![p].status = "rolled_back"]
         /\ active' = proposals[p].parent
    /\ UNCHANGED <<pool, torn, rounds, frozen, lastProposal, audit, op, kills>>

\* TASK_POOL.json is being written.
SavingPool ==
    \/ At("plan", "claim") \/ At("record", "retire task")
    \/ op.place = "reconcile" /\ Unsettled # {} /\ ~TaskIs(Min(Unsettled), "retired")

Kill ==
    /\ op # Idle /\ kills < MaxKills /\ kills' = kills + 1 /\ Return
    /\ torn' \in (IF SavingPool THEN BOOLEAN ELSE {torn})
    /\ UNCHANGED <<pool, rounds, frozen, registry, audit, rollbacks>>

Step == \/ Reconcile \/ PlanRound \/ ClaimTask \/ Propose \/ Decide
        \/ RecordResults \/ RetireTask \/ RetireRound

Next == \/ Call \/ FreezePredictions \/ RecordNative \/ RecordPlain \/ OpenFinal
        \/ Rollback \/ Step \/ Kill
Spec == Init /\ [][Next]_vars

-----------------------------------------------------------------------------
(* Properties.                                                             *)

\* A task is measured in one round only, whatever write a kill fell between, and a
\* round is retired only with its task, and with results.
TaskIsMeasuredOnce ==
    /\ \A i, j \in DOMAIN rounds : rounds[i].task = rounds[j].task => i = j
    /\ \A i \in Retired : TaskIs(i, "retired") /\ rounds[i].pair # None

\* The active agent is the initial one or one that was promoted, and every promoted
\* ChangeSet won its own block: all of its pairs measured its candidate after it was
\* proposed, and the candidate resolved more tasks and no fewer in any family.
PromotionIsEarned ==
    /\ active = InitialAgent
       \/ \E p \in DOMAIN proposals : /\ proposals[p].status = "promoted"
                                      /\ proposals[p].candidate = active
    /\ \A p \in DOMAIN proposals :
         proposals[p].status \in {"promoted", "rolled_back"} =>
             LET own == {i \in DOMAIN rounds : /\ i > proposals[p].at
                                               /\ i <= proposals[p].at + Block}
                 resolved(arm, family) ==
                     Cardinality({i \in own : rounds[i].pair[arm]
                                                /\ rounds[i].pair.family \in family})
                 families == {rounds[i].pair.family : i \in own}
             IN /\ Cardinality(own) = Block /\ own \subseteq Retired
                /\ \A i \in own : rounds[i].evolved = proposals[p].candidate
                /\ resolved("evolved", families) > resolved("baseline", families)
                /\ \A f \in families : resolved("evolved", {f}) >= resolved("baseline", {f})
=============================================================================
