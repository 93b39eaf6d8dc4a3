--------------------------- MODULE EngineServices ---------------------------
(***************************************************************************)
(* The durable services of engine/, the earlier generation of the program. *)
(* They share no state: each is started on directories of its own.  A      *)
(* behaviour is one of a service, which is chosen with the initial state;  *)
(* the variables of the others are None.                                   *)
(***************************************************************************)
EXTENDS Naturals

CONSTANTS Workers, Foreign, LeaseTime, None, MaxTime, MaxAttempts, MaxFaults
CONSTANTS Cycles, SearchRounds, Block, Margin, Significance, SealedTasks, Interval,
          Agents, InitialAgent, Pairs, MaxOpen, MaxKills, MaxRollbacks
CONSTANTS Generations, MaxCandidates, MaxFinalists, Tasks, Programs, Original, Seed, CallCap,
          MaxSearchFaults, MaxActs

VARIABLES
    service,    \* the service that runs
    row, file, worker, usurped, now, faults,
    pool, torn, rounds, frozen, proposals, active, lastProposal, audit, op, kills, rollbacks,
    claims, calls, evidence, asked, charged, history, receipts, artifacts, raws, outcome,
    wanted, registered, rolledBack, lineage, damaged, run, thread, dispatched, retracted,
    reopened, searchFaults, acts

Durable == INSTANCE DurableOperation
AB == INSTANCE ContinuousAB
Search == INSTANCE EvolutionSearch WITH MaxFaults <- MaxSearchFaults, faults <- searchFaults

ASSUME EngineAssumption ==
    /\ Durable!DurableOperationAssumption
    /\ AB!ContinuousABAssumption
    /\ Search!EvolutionSearchAssumption

durable == <<row, file, worker, usurped, now, faults>>
ab == <<pool, torn, rounds, frozen, proposals, active, lastProposal, audit, op,
        kills, rollbacks>>
search == <<claims, calls, evidence, asked, charged, history, receipts, artifacts, raws,
            outcome, wanted, registered, rolledBack, lineage, damaged, run, thread,
            dispatched, retracted, reopened, searchFaults, acts>>
vars == <<service, durable, ab, search>>

NoDurable ==
    /\ row = None /\ file = None /\ worker = None /\ usurped = None /\ now = None
    /\ faults = None

NoAB ==
    /\ pool = None /\ torn = None /\ rounds = None /\ frozen = None /\ proposals = None
    /\ active = None /\ lastProposal = None /\ audit = None /\ op = None /\ kills = None
    /\ rollbacks = None

NoSearch ==
    /\ claims = None /\ calls = None /\ evidence = None /\ asked = None
    /\ charged = None /\ history = None /\ receipts = None /\ artifacts = None
    /\ raws = None /\ outcome = None /\ wanted = None /\ registered = None
    /\ rolledBack = None /\ lineage = None /\ damaged = None /\ run = None
    /\ thread = None /\ dispatched = None /\ retracted = None /\ reopened = None
    /\ searchFaults = None /\ acts = None

InitDurable == Durable!Init /\ NoAB /\ NoSearch
InitAB == AB!Init /\ NoDurable /\ NoSearch
InitSearch == Search!Init /\ NoDurable /\ NoAB

Init ==
    \/ service = "durable operation" /\ InitDurable
    \/ service = "continuous ab" /\ InitAB
    \/ service = "evolution search" /\ InitSearch

Next ==
    /\ UNCHANGED service
    /\ \/ service = "durable operation" /\ Durable!Next /\ UNCHANGED <<ab, search>>
       \/ service = "continuous ab" /\ AB!Next /\ UNCHANGED <<durable, search>>
       \/ service = "evolution search" /\ Search!Next /\ UNCHANGED <<durable, ab>>

Spec == Init /\ [][Next]_vars

\* Durable operations: a worker that executes under a lease that still runs is alone in
\* the operation.
LeaseExcludes == service = "durable operation" => Durable!LeaseExcludes

\* A completed operation stays as it is, whoever ends it again.
KeepsCompletion == service = "durable operation" => Durable!KeepsCompletion
CompletedIsKept == [][KeepsCompletion]_vars

\* Matched rounds: a task is measured once, and a promotion is earned by the block that
\* follows the proposal.
PromotionIsEarned ==
    service = "continuous ab" => AB!TaskIsMeasuredOnce /\ AB!PromotionIsEarned

\* Paid calls: the search dispatches none without a charge.
CallsAreCharged == service = "evolution search" => Search!CallsAreCharged

\* The search parents of controller and archive are the winners of confirmations, and a
\* search that is started again agrees with both.
LineageIsEarned ==
    service = "evolution search" => Search!LineageIsEarned /\ Search!ResumeIsConsistent
=============================================================================
