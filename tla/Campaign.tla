------------------------------ MODULE Campaign ------------------------------
(***************************************************************************)
(* One campaign: CampaignRunner.run driving a CampaignController over the  *)
(* plans of its strategy, in order.  The controller lives in memory; every *)
(* change it makes is saved before the next step by an atomic replacement  *)
(* of the checkpoint file, so a crash leaves the last saved controller.    *)
(* Executions are those of ExecutionRuntime and assumed to be what it      *)
(* implements, PlanOutcome: a plan that has ended is replayed, another one *)
(* ends or is interrupted.  One process owns the campaign.                 *)
(***************************************************************************)
EXTENDS Amounts, Sequences, FiniteSetsExt

CONSTANTS
    PlanOrder,     \* the plans of the strategy, in the order they are run
    ReserveOf,     \* what submit reserves for each plan
    Authorized,    \* the authorization of the campaign
    Costs,         \* what an execution may cost
    EndStatuses,   \* statuses of a terminal receipt
    NotEnded,
    MaxIncidents   \* bound on exceptions and kills, and on interruptions

StrategyPlans == {PlanOrder[i] : i \in DOMAIN PlanOrder}

Terminal == {"completed", "failed", "blocked", "cancelled", "partial"}
Recorded == {"completed", "failed"}

Controllers ==
    [status : Terminal \cup {"created", "running", "paused"}, reserved : Amount, spent : Amount,
     items : [StrategyPlans -> [status : Recorded \cup {"none", "pending"}, actual : Amount]]]

ASSUME CampaignAssumption ==
    /\ PlanOrder \in Seq(StrategyPlans) /\ PlanOrder # <<>>
    /\ \A i, j \in DOMAIN PlanOrder : PlanOrder[i] = PlanOrder[j] => i = j
    /\ Authorized \in Amount /\ ReserveOf \in [StrategyPlans -> Amount]
    /\ Costs \subseteq Nat /\ "completed" \in EndStatuses
    /\ NotEnded \notin Controllers \cup [status : EndStatuses, cost : Costs]
    /\ MaxIncidents \in Nat

VARIABLES
    checkpoint,   \* the saved controller, or NotEnded when there is none
    controller,   \* the controller in memory
    executed,     \* plan -> its outcome, once it has a terminal receipt
    point,        \* where CampaignRunner.run is
    next,         \* index of the plan it is at
    execution,    \* the execution result it has in hand
    reported,     \* what the last run returned
    incidents

campaignVars ==
    <<checkpoint, controller, executed, point, next, execution, reported, incidents>>

Fresh == [status |-> "created", reserved |-> Nothing, spent |-> Nothing,
          items |-> [p \in StrategyPlans |-> [status |-> "none", actual |-> Nothing]]]

CampaignInit ==
    /\ checkpoint = NotEnded /\ controller = NotEnded
    /\ executed = [p \in StrategyPlans |-> NotEnded]
    /\ point = "idle" /\ next = 1 /\ execution = NotEnded
    /\ reported = "none" /\ incidents = 0

Plan == PlanOrder[next]
Item == controller.items[Plan]

-----------------------------------------------------------------------------
(* The controller.                                                         *)

\* _save: the temporary file is written and synced, then replaces the checkpoint.
Save(c) == controller' = c /\ checkpoint' = c

RaiseError ==
    /\ point' = "idle" /\ reported' = "error"
    /\ UNCHANGED <<checkpoint, controller, executed, next, execution, incidents>>

\* create when there is no checkpoint, from_checkpoint otherwise.
Open ==
    /\ point = "idle"
    /\ IF checkpoint = NotEnded THEN Save(Fresh)
       ELSE controller' = checkpoint /\ UNCHANGED checkpoint
    /\ point' = "start" /\ next' = 1 /\ execution' = NotEnded
    /\ UNCHANGED <<executed, reported, incidents>>

Start ==
    /\ point = "start"
    /\ CASE controller.status \in {"created", "paused"} ->
              /\ Save([controller EXCEPT !.status = "running"])
              /\ point' = "submit"
              /\ UNCHANGED <<executed, next, execution, reported, incidents>>
         [] controller.status \in {"running", "completed"} ->
              /\ point' = IF controller.status = "running" THEN "submit" ELSE "execute"
              /\ UNCHANGED <<checkpoint, controller, executed, next, execution,
                             reported, incidents>>
         [] OTHER -> RaiseError

\* Mutant: a resumed campaign reserves again for a pending plan.
SubmitAgain ==
    /\ point = "submit"
    /\ IF Item.status \in Recorded
       THEN UNCHANGED <<checkpoint, controller>>
       ELSE /\ Within(Plus(Plus(controller.spent, controller.reserved),
                           ReserveOf[Plan]), Authorized)
            /\ Save([controller EXCEPT !.items[Plan].status = "pending",
                                       !.reserved = Plus(@, ReserveOf[Plan])])
    /\ point' = "execute"
    /\ UNCHANGED <<executed, next, execution, reported, incidents>>

\* submit: a plan that is already there is not reserved again.
Submit ==
    /\ point = "submit"
    /\ CASE Item.status # "none" ->
              /\ point' = "execute"
              /\ UNCHANGED <<checkpoint, controller, executed, next, execution,
                             reported, incidents>>
         [] Item.status = "none"
              /\ ~Within(Plus(Plus(controller.spent, controller.reserved),
                              ReserveOf[Plan]), Authorized) -> RaiseError
         [] OTHER ->
              /\ Save([controller EXCEPT
                         !.items[Plan].status = "pending",
                         !.reserved = Plus(@, ReserveOf[Plan])])
              /\ point' = "execute"
              /\ UNCHANGED <<executed, next, execution, reported, incidents>>

\* The result of a plan that has ended; it called the model once.
Ended(outcome) == [status |-> outcome.status, cost |-> outcome.cost, calls |-> 1]

\* What an interruption may have left behind: nothing, a model receipt, or a
\* model receipt and a cost receipt.
Interrupted ==
    {[status |-> "partial", cost |-> 0, calls |-> n] : n \in {0, 1}}
        \cup {[status |-> "partial", cost |-> c, calls |-> 1] : c \in Costs}

\* ExecutionRuntime.execute: an ended plan is replayed, another one ends now or
\* is interrupted.
Execute ==
    /\ point = "execute"
    /\ point' = "record"
    /\ \/ /\ executed[Plan] # NotEnded
          /\ execution' = Ended(executed[Plan])
          /\ UNCHANGED <<executed, incidents>>
       \/ /\ executed[Plan] = NotEnded
          /\ \E outcome \in [status : EndStatuses, cost : Costs] :
               /\ executed' = [executed EXCEPT ![Plan] = outcome]
               /\ execution' = Ended(outcome)
          /\ UNCHANGED incidents
       \/ /\ executed[Plan] = NotEnded
          /\ incidents < MaxIncidents /\ incidents' = incidents + 1
          /\ execution' \in Interrupted
          /\ UNCHANGED executed
    /\ UNCHANGED <<checkpoint, controller, next, reported>>

\* _execution_cost and _execution_model_calls.
Actual(e) == [r \in Resource |-> IF r = "cost_cny" THEN e.cost ELSE e.calls]

\* Mutant: the loop ends one plan early.
AdvanceOffByOne ==
    /\ IF execution.status # "completed"
       THEN point' = IF controller.status = "completed" THEN "finish" ELSE "partial"
       ELSE point' = IF next + 1 >= Len(PlanOrder) THEN "finish"
                  ELSE IF controller.status = "completed" THEN "execute" ELSE "submit"
    /\ next' = IF point' \in {"submit", "execute"} THEN next + 1 ELSE next

\* After the result: the next plan, the end, or out of the loop.
Advance ==
    /\ IF execution.status # "completed"
       THEN point' = IF controller.status = "completed" THEN "finish" ELSE "partial"
       ELSE point' = IF next = Len(PlanOrder) THEN "finish"
                  ELSE IF controller.status = "completed" THEN "execute" ELSE "submit"
    /\ next' = IF point' \in {"submit", "execute"} THEN next + 1 ELSE next

\* Mutant: a result is charged whatever it cost, and refused when it was recorded
\* before a crash.
RecordResultOnce ==
    LET status == IF execution.status = "completed" THEN "completed" ELSE "failed"
        fact == [status |-> status, actual |-> Actual(execution)]
    IN  /\ point = "record"
        /\ IF Item.status = "pending"
           THEN /\ Save([controller EXCEPT
                             !.items[Plan] = fact,
                             !.reserved = Minus(@, ReserveOf[Plan]),
                             !.spent = Plus(@, fact.actual)])
                /\ Advance
                /\ UNCHANGED <<executed, execution, reported, incidents>>
           ELSE RaiseError

\* record_result; not called in a replay of a completed campaign.
RecordResult ==
    LET status == IF execution.status = "completed" THEN "completed" ELSE "failed"
        fact == [status |-> status, actual |-> Actual(execution)]
    IN  /\ point = "record"
        /\ CASE controller.status = "completed" \/ Item = fact ->
                  Advance /\ UNCHANGED <<checkpoint, controller, executed,
                                         execution, reported, incidents>>
             [] controller.status # "completed" /\ Item.status = "pending"
                  /\ Within(ReserveOf[Plan], controller.reserved)
                  /\ Within(Plus(controller.spent, fact.actual), Authorized) ->
                  /\ Save([controller EXCEPT
                             !.items[Plan] = fact,
                             !.reserved = Minus(@, ReserveOf[Plan]),
                             !.spent = Plus(@, fact.actual)])
                  /\ Advance
                  /\ UNCHANGED <<executed, execution, reported, incidents>>
             [] OTHER -> RaiseError

\* finalize(COMPLETED), or the return of a replay.
Finish ==
    /\ point = "finish"
    /\ CASE controller.status = "completed" ->
              /\ point' = "idle" /\ reported' = "completed"
              /\ UNCHANGED <<checkpoint, controller, executed, next, execution,
                             incidents>>
         [] controller.status # "completed"
              /\ \E p \in StrategyPlans :
                    controller.items[p].status \notin {"none", "completed"} ->
              RaiseError
         [] OTHER ->
              /\ Save([controller EXCEPT !.status = "completed"])
              /\ point' = "idle" /\ reported' = "completed"
              /\ UNCHANGED <<executed, next, execution, incidents>>

MarkPartial ==
    /\ point = "partial"
    /\ Save([controller EXCEPT !.status = "partial"])
    /\ point' = "idle" /\ reported' = "partial"
    /\ UNCHANGED <<executed, next, execution, incidents>>

\* Between runs a client may load the controller and pause or close it.
Pause ==
    /\ point = "idle" /\ checkpoint # NotEnded
    /\ checkpoint.status = "running"
    /\ incidents < MaxIncidents /\ incidents' = incidents + 1
    /\ Save([checkpoint EXCEPT !.status = "paused"])
    /\ UNCHANGED <<executed, point, next, execution, reported>>

Close(status) ==
    /\ point = "idle" /\ checkpoint # NotEnded
    /\ checkpoint.status \notin Terminal
    /\ incidents < MaxIncidents /\ incidents' = incidents + 1
    /\ Save([checkpoint EXCEPT !.status = status])
    /\ UNCHANGED <<executed, point, next, execution, reported>>

\* Any other exception, or a kill.
CampaignAbort ==
    /\ point # "idle"
    /\ incidents < MaxIncidents /\ incidents' = incidents + 1
    /\ point' = "idle" /\ reported' = "error"
    /\ UNCHANGED <<checkpoint, controller, executed, next, execution>>

CampaignStep == Start \/ Submit \/ Execute \/ RecordResult \/ Finish \/ MarkPartial

CampaignNext ==
    \/ Open \/ CampaignStep \/ Pause \/ CampaignAbort
    \/ \E status \in {"failed", "blocked", "cancelled"} : Close(status)

CampaignSpec == CampaignInit /\ [][CampaignNext]_campaignVars

\* A live process keeps executing, and the command is run again while the
\* campaign has not ended.
RerunCampaign == Open /\ (checkpoint = NotEnded \/ checkpoint.status \notin Terminal)

FairCampaignSpec ==
    /\ CampaignSpec
    /\ WF_campaignVars(CampaignStep) /\ WF_campaignVars(RerunCampaign)

-----------------------------------------------------------------------------
(* Properties.                                                             *)

Saved == IF checkpoint = NotEnded THEN Fresh ELSE checkpoint

SumOver(S, amountOf(_)) ==
    [r \in Resource |-> MapThenSumSet(LAMBDA p : amountOf(p)[r], S)]

\* Every variable has its type; a controller is in memory while a run is under
\* way, and it is the saved one.
CampaignTypeOK ==
    /\ checkpoint \in Controllers \cup {NotEnded}
    /\ executed \in [StrategyPlans -> [status : EndStatuses, cost : Costs] \cup {NotEnded}]
    /\ point \in {"idle", "start", "submit", "execute", "record", "finish", "partial"}
    /\ point # "idle" => controller = checkpoint /\ checkpoint # NotEnded
    /\ next \in DOMAIN PlanOrder
    /\ incidents \in 0 .. MaxIncidents

\* The counters of the budget are what the work items say: the reservations of
\* the pending plans and the charges of the recorded ones, after any crash,
\* resume or repeated submission.
BudgetMatchesItems ==
    /\ Saved.reserved =
         SumOver({p \in StrategyPlans : Saved.items[p].status = "pending"},
                 LAMBDA p : ReserveOf[p])
    /\ Saved.spent =
         SumOver({p \in StrategyPlans : Saved.items[p].status \in Recorded},
                 LAMBDA p : Saved.items[p].actual)

\* A completed campaign has a completed execution for every plan, at the cost
\* that was recorded.
CompletedMeansEveryPlanCompleted ==
    Saved.status = "completed" =>
        \A p \in StrategyPlans :
            /\ executed[p] # NotEnded /\ executed[p].status = "completed"
            /\ Saved.items[p] = [status |-> "completed",
                                 actual |-> Actual(Ended(executed[p]))]

\* The checkpoint follows the in-memory accounting of BudgetManager.
Budget == INSTANCE BudgetManager
    WITH reserved <- Saved.reserved, spent <- Saved.spent,
         ReserveAmounts <- {ReserveOf[p] : p \in StrategyPlans},
         ChargeAmounts <- {Actual(e) : e \in Interrupted
                             \cup {Ended(o) : o \in [status : EndStatuses, cost : Costs]}}

\* After any crash, pause and resume the saved counters move as those of one
\* uninterrupted BudgetManager: a submission reserves within the authorization, a
\* result settles a reservation and is charged within it, and nothing else moves them.
ImplementsBudgetManager == Budget!BMSpec

\* What is about to be reserved or recorded fits what the campaign has left.
BudgetSuffices ==
    /\ point = "submit" /\ Item.status = "none" =>
          Within(Plus(Plus(controller.spent, controller.reserved), ReserveOf[Plan]),
                 Authorized)
    /\ point = "record" => Within(Plus(controller.spent, Actual(execution)), Authorized)

\* While the budget suffices and executions are not interrupted, running the
\* command again ends the campaign, wherever it was killed or paused before.
RerunEndsTheCampaign ==
    []( /\ BudgetSuffices
        /\ execution = NotEnded \/ execution.status # "partial") =>
        <>(Saved.status \in Terminal)
=============================================================================
