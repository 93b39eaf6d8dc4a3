--------------------------- MODULE CampaignProofs ---------------------------
(***************************************************************************)
(* A campaign of any plans, reservations, authorization and costs, with    *)
(* any number of crashes, interruptions, pauses and resumes: it is         *)
(* completed only with a completed execution of every plan, and its budget *)
(* is that of BudgetManager and the sum of its items.  What carries the    *)
(* first is the order of the plans: those the loop has passed are on       *)
(* record as completed.                                                    *)
(***************************************************************************)
EXTENDS Campaign, FiniteSetTheorems, WellFoundedInduction, TLAPS

Outcomes == [status : EndStatuses, cost : Costs]
Executions == Interrupted \cup {Ended(o) : o \in Outcomes}

Types ==
    /\ checkpoint \in Controllers \cup {NotEnded}
    /\ executed \in [StrategyPlans -> Outcomes \cup {NotEnded}]
    /\ point \in {"idle", "start", "submit", "execute", "record", "finish", "partial"}
    /\ point # "idle" => controller = checkpoint /\ checkpoint # NotEnded
    /\ next \in DOMAIN PlanOrder
    /\ point = "record" => execution \in Executions

Completed(p) == Saved.items[p].status = "completed"

\* A result on record is that of the plan's execution, and so is the one in hand.
ResultInv ==
    /\ \A p \in StrategyPlans : Completed(p) =>
          /\ executed[p] # NotEnded /\ executed[p].status = "completed"
          /\ Saved.items[p].actual = Actual(Ended(executed[p]))
    /\ point = "record" /\ execution.status = "completed" =>
          executed[Plan] # NotEnded /\ execution = Ended(executed[Plan])

\* The loop passes a plan only when its result is on record as completed.
LoopInv ==
    /\ Saved.status = "completed" => \A p \in StrategyPlans : Completed(p)
    /\ point = "start" => next = 1
    /\ point \in {"submit", "execute", "record"} =>
          \A i \in DOMAIN PlanOrder : i < next => Completed(PlanOrder[i])
    /\ point \in {"execute", "record"} => Saved.items[Plan].status # "none"
    /\ point = "finish" => \A p \in StrategyPlans : Saved.items[p].status # "none"

Inv == Types /\ ResultInv /\ LoopInv

-----------------------------------------------------------------------------
LEMMA PlanFacts ==
    /\ StrategyPlans # {} /\ Len(PlanOrder) \in DOMAIN PlanOrder /\ 1 \in DOMAIN PlanOrder
    /\ DOMAIN PlanOrder = 1 .. Len(PlanOrder) /\ Len(PlanOrder) \in Nat
    /\ \A i \in DOMAIN PlanOrder : PlanOrder[i] \in StrategyPlans
    /\ \A p \in StrategyPlans : \E i \in DOMAIN PlanOrder : PlanOrder[i] = p
BY CampaignAssumption DEF StrategyPlans

LEMMA AmountFacts ==
    /\ Nothing \in Amount
    /\ \A a, b \in Amount : Plus(a, b) \in Amount
    /\ \A a, b \in Amount : Within(a, b) => Minus(b, a) \in Amount
BY DEF Nothing, Amount, Plus, Minus, Within

LEMMA FreshFacts ==
    /\ Fresh \in Controllers /\ Fresh.status = "created"
    /\ Fresh.reserved = Nothing /\ Fresh.spent = Nothing
    /\ \A p \in StrategyPlans : Fresh.items[p].status = "none"
BY AmountFacts DEF Fresh, Controllers

\* Executions cost natural amounts.
LEMMA ActualIsAmount == ASSUME NEW e \in Executions PROVE Actual(e) \in Amount
<1>1. e.cost \in Nat /\ e.calls \in Nat
    <2>1. CASE e \in Interrupted
        BY <2>1, CampaignAssumption DEF Interrupted
    <2>2. ASSUME NEW o \in Outcomes, e = Ended(o) PROVE e.cost \in Nat /\ e.calls \in Nat
        BY <2>2, CampaignAssumption DEF Ended, Outcomes
    <2> QED
        BY <2>1, <2>2 DEF Executions
<1> QED
    BY <1>1 DEF Actual, Amount, Resource

LEMMA InitInv == CampaignInit => Inv
<1> SUFFICES ASSUME CampaignInit PROVE Inv
    OBVIOUS
<1>1. Saved = Fresh
    BY DEF CampaignInit, Saved
<1> QED
    BY <1>1, PlanFacts, FreshFacts DEF CampaignInit, Inv, Types, ResultInv, LoopInv, Completed

\* What is saved is in memory while a run is under way.
LEMMA InMemory ==
    ASSUME Inv, point # "idle"
    PROVE  Saved = controller /\ checkpoint = controller /\ controller \in Controllers
BY DEF Inv, Types, Saved

LEMMA SaveMeaning ==
    ASSUME NEW c \in Controllers, Save(c)
    PROVE  checkpoint' = c /\ controller' = c /\ Saved' = c /\ c # NotEnded
BY CampaignAssumption DEF Save, Saved

\* The plan the loop is at, in a new state of the controller.
LEMMA ItemType ==
    ASSUME Inv, point # "idle" PROVE Plan \in StrategyPlans /\ Item = Saved.items[Plan]
BY InMemory, PlanFacts DEF Inv, Types, Plan, Item

LEMMA OpenStep == ASSUME Inv, Open PROVE Inv'
<1>1. /\ Saved' = Saved /\ controller' = checkpoint' /\ checkpoint' \in Controllers
      /\ checkpoint' # NotEnded
    <2>1. CASE checkpoint = NotEnded
        BY <2>1, FreshFacts, SaveMeaning DEF Open, Saved
    <2>2. CASE checkpoint # NotEnded
        BY <2>2 DEF Open, Saved, Inv, Types
    <2> QED
        BY <2>1, <2>2
<1>2. point' = "start" /\ next' = 1 /\ executed' = executed
    BY DEF Open
<1> QED
    BY <1>1, <1>2, PlanFacts DEF Inv, Types, ResultInv, LoopInv, Completed

\* The run ends, or its program counter moves, and nothing is saved.
LEMMA EndRun ==
    ASSUME Inv, point' = "idle", checkpoint' = checkpoint, executed' = executed, next' = next
    PROVE  Inv'
BY DEF Inv, Types, ResultInv, LoopInv, Completed, Saved

LEMMA StartStep == ASSUME Inv, Start PROVE Inv'
<1>1. CASE RaiseError
    BY <1>1, EndRun DEF RaiseError
<1>2. CASE Save([controller EXCEPT !.status = "running"]) /\ point' = "submit"
           /\ controller.status \in {"created", "paused"}
           /\ UNCHANGED <<executed, next, execution, reported, incidents>>
    <2>1. [controller EXCEPT !.status = "running"] \in Controllers
        BY InMemory DEF Start, Controllers
    <2>2. /\ checkpoint' \in Controllers /\ controller' = checkpoint' /\ checkpoint' # NotEnded
          /\ Saved'.status = "running" /\ Saved'.items = Saved.items
        BY <1>2, <2>1, SaveMeaning, InMemory DEF Start, Controllers
    <2>3. point = "start" /\ next = 1
        BY DEF Start, Inv, LoopInv
    <2> QED
        BY <1>2, <2>2, <2>3, PlanFacts DEF Inv, Types, ResultInv, LoopInv, Completed
<1>3. CASE /\ controller.status \in {"running", "completed"}
           /\ point' = IF controller.status = "running" THEN "submit" ELSE "execute"
           /\ UNCHANGED <<checkpoint, controller, executed, next, execution, reported, incidents>>
    <2>1. point = "start" /\ Saved' = Saved /\ Saved = controller /\ Plan \in StrategyPlans
        BY <1>3, InMemory, ItemType DEF Start, Saved
    <2> QED
        BY <1>3, <2>1, PlanFacts DEF Inv, Types, ResultInv, LoopInv, Completed, Plan
<1> QED
    BY <1>1, <1>2, <1>3 DEF Start

LEMMA SubmitStep == ASSUME Inv, Submit PROVE Inv'
<1>0. /\ point = "submit" /\ Saved = controller /\ controller \in Controllers
      /\ Plan \in StrategyPlans /\ Item = Saved.items[Plan]
    BY InMemory, ItemType DEF Submit
<1>1. CASE RaiseError
    BY <1>1, EndRun DEF RaiseError
<1>2. CASE /\ Item.status # "none" /\ point' = "execute"
           /\ UNCHANGED <<checkpoint, controller, executed, next, execution, reported, incidents>>
    BY <1>0, <1>2 DEF Inv, Types, ResultInv, LoopInv, Completed, Plan, Saved
<1>3. CASE /\ Item.status = "none"
           /\ Save([controller EXCEPT !.items[Plan].status = "pending",
                                      !.reserved = Plus(@, ReserveOf[Plan])])
           /\ point' = "execute" /\ UNCHANGED <<executed, next, execution, reported, incidents>>
    <2> DEFINE c == [controller EXCEPT !.items[Plan].status = "pending",
                                       !.reserved = Plus(@, ReserveOf[Plan])]
    <2>1. Plus(controller.reserved, ReserveOf[Plan]) \in Amount
        BY <1>0, AmountFacts, CampaignAssumption DEF Controllers
    <2>2. /\ c \in Controllers /\ c.status = controller.status
          /\ c.items[Plan].status = "pending"
          /\ \A p \in StrategyPlans : p # Plan => c.items[p] = controller.items[p]
        BY <1>0, <2>1 DEF Controllers
    <2> HIDE DEF c
    <2>3. /\ checkpoint' \in Controllers /\ controller' = checkpoint' /\ checkpoint' # NotEnded
          /\ Saved' = c
        BY <1>3, <2>2, SaveMeaning DEF c
    <2>4. Plan' = Plan /\ ~Completed(Plan)
        BY <1>0, <1>3 DEF Plan, Completed
    <2>5. \A p \in StrategyPlans : Completed(p)' => Completed(p) /\ Saved'.items[p] = Saved.items[p]
        BY <1>0, <2>2, <2>3 DEF Completed
    <2>6. \A p \in StrategyPlans : Completed(p) => Completed(p)'
        BY <1>0, <2>2, <2>3, <2>4 DEF Completed
    <2>7. Types'
        BY <1>3, <2>3 DEF Inv, Types
    <2>8. ResultInv'
        BY <1>3, <2>5 DEF Inv, ResultInv
    <2>9. LoopInv'
        BY <1>0, <1>3, <2>2, <2>3, <2>4, <2>6, PlanFacts DEF Inv, LoopInv
    <2> QED
        BY <2>7, <2>8, <2>9 DEF Inv
<1> QED
    BY <1>1, <1>2, <1>3 DEF Submit

LEMMA ExecuteStep == ASSUME Inv, Execute PROVE Inv'
<1>0. /\ point = "execute" /\ point' = "record" /\ Plan \in StrategyPlans
      /\ UNCHANGED <<checkpoint, controller, next, reported>> /\ Saved' = Saved
      /\ Plan' = Plan
    BY ItemType DEF Execute, Saved, Plan
<1>1. executed \in [StrategyPlans -> Outcomes \cup {NotEnded}]
    BY DEF Inv, Types
<1>2. CASE executed[Plan] # NotEnded /\ execution' = Ended(executed[Plan]) /\ executed' = executed
    BY <1>0, <1>1, <1>2 DEF Inv, Types, ResultInv, LoopInv, Completed, Executions
<1>3. ASSUME NEW outcome \in Outcomes, executed[Plan] = NotEnded,
             executed' = [executed EXCEPT ![Plan] = outcome], execution' = Ended(outcome)
      PROVE  Inv'
    <2>1. /\ executed'[Plan] = outcome /\ outcome # NotEnded
          /\ \A p \in StrategyPlans : p # Plan => executed'[p] = executed[p]
          /\ executed' \in [StrategyPlans -> Outcomes \cup {NotEnded}]
        BY <1>0, <1>1, <1>3, CampaignAssumption DEF Outcomes
    <2>2. \A p \in StrategyPlans : Completed(p) => p # Plan
        BY <1>3 DEF Inv, ResultInv
    <2>3. Types'
        BY <1>0, <1>3, <2>1 DEF Inv, Types, Executions
    <2>4. ResultInv'
        BY <1>0, <1>3, <2>1, <2>2 DEF Inv, ResultInv, Completed
    <2>5. LoopInv'
        BY <1>0 DEF Inv, LoopInv, Completed
    <2> QED
        BY <2>3, <2>4, <2>5 DEF Inv
<1>4. CASE execution' \in Interrupted /\ executed' = executed
    <2>1. execution'.status # "completed" /\ execution' \in Executions
        BY <1>4 DEF Interrupted, Executions
    <2> QED
        BY <1>0, <1>4, <2>1 DEF Inv, Types, ResultInv, LoopInv, Completed
<1> QED
    BY <1>2, <1>3, <1>4 DEF Execute, Outcomes

\* The loop moves on, past a plan that is on record as completed.
LEMMA AdvanceStep ==
    ASSUME Inv, point = "record", Advance, executed' = executed,
           checkpoint' \in Controllers, controller' = checkpoint', Saved' = checkpoint',
           checkpoint' # NotEnded, Saved'.status = Saved.status, ResultInv',
           \A p \in StrategyPlans : Completed(p) => Completed(p)',
           \A p \in StrategyPlans : Saved.items[p].status # "none" => Saved'.items[p].status # "none",
           execution.status = "completed" => Saved'.items[Plan].status = "completed"
    PROVE  Inv'
<1>0. /\ Saved = controller /\ Plan \in StrategyPlans /\ next \in DOMAIN PlanOrder
      /\ Saved.items[Plan].status # "none"
      /\ \A i \in DOMAIN PlanOrder : i < next => Completed(PlanOrder[i])
    BY InMemory, ItemType DEF Inv, Types, LoopInv
<1>1. execution.status = "completed" =>
          \A i \in DOMAIN PlanOrder : i <= next => Saved'.items[PlanOrder[i]].status = "completed"
    <2> SUFFICES ASSUME execution.status = "completed", NEW i \in DOMAIN PlanOrder, i <= next
                 PROVE  Saved'.items[PlanOrder[i]].status = "completed"
        OBVIOUS
    <2>1. CASE i = next
        BY <2>1 DEF Plan
    <2>2. CASE i < next
        BY <1>0, <2>2, PlanFacts DEF Completed
    <2> QED
        BY <1>0, <2>1, <2>2, PlanFacts
<1>2. point' \in {"finish", "partial", "submit", "execute"}
    BY DEF Advance
<1>3. next' \in DOMAIN PlanOrder /\ (point' \in {"submit", "execute"} => next' = next + 1)
    BY <1>0, <1>2, PlanFacts DEF Advance
<1>4. Types'
    BY <1>2, <1>3 DEF Inv, Types
<1>5. LoopInv'
    <2>1. (Saved.status = "completed" => \A p \in StrategyPlans : Completed(p))'
        BY DEF Inv, LoopInv
    <2>2. point' \in {"submit", "execute"} =>
              \A i \in DOMAIN PlanOrder : i < next' => Completed(PlanOrder[i])'
        BY <1>0, <1>1, <1>3, PlanFacts DEF Advance, Completed
    <2>3. point' = "execute" => Saved'.items[Plan'].status # "none"
        BY <1>0, <1>3, <2>1, PlanFacts DEF Advance, Completed, Plan
    <2>4. point' = "finish" => \A p \in StrategyPlans : Saved'.items[p].status # "none"
        <3>1. CASE Saved.status = "completed"
            BY <2>1, <3>1 DEF Completed
        <3>2. CASE Saved.status # "completed" /\ point' = "finish"
            <4>1. execution.status = "completed" /\ next = Len(PlanOrder)
                BY <1>0, <3>2 DEF Advance
            <4> QED
                BY <1>1, <4>1, PlanFacts
        <3> QED
            BY <3>1, <3>2
    <2> QED
        BY <1>2, <2>1, <2>2, <2>3, <2>4 DEF LoopInv
<1> QED
    BY <1>4, <1>5 DEF Inv

LEMMA RecordResultStep == ASSUME Inv, RecordResult PROVE Inv'
<1>0. /\ point = "record" /\ Saved = controller /\ controller \in Controllers
      /\ checkpoint = controller /\ checkpoint # NotEnded
      /\ Plan \in StrategyPlans /\ Item = Saved.items[Plan] /\ execution \in Executions
    BY InMemory, ItemType DEF RecordResult, Inv, Types
<1> DEFINE status == IF execution.status = "completed" THEN "completed" ELSE "failed"
           fact == [status |-> status, actual |-> Actual(execution)]
           c == [controller EXCEPT !.items[Plan] = fact,
                                   !.reserved = Minus(@, ReserveOf[Plan]),
                                   !.spent = Plus(@, fact.actual)]
<1>1. CASE RaiseError
    BY <1>1, EndRun DEF RaiseError
<1>2. CASE /\ controller.status = "completed" \/ Item = fact
           /\ Advance
           /\ UNCHANGED <<checkpoint, controller, executed, execution, reported, incidents>>
    <2>1. Saved' = Saved /\ \A p \in StrategyPlans : Completed(p)' = Completed(p)
        BY <1>2 DEF Saved, Completed
    <2>2. execution.status = "completed" => Saved.items[Plan].status = "completed"
        BY <1>0, <1>2 DEF Inv, LoopInv, Completed
    <2>3. ResultInv'
        BY <1>0, <1>2, <2>1 DEF Inv, ResultInv, Advance
    <2> QED
        BY <1>0, <1>2, <2>1, <2>2, <2>3, AdvanceStep DEF Completed
<1>3. CASE /\ Item.status = "pending" /\ Within(ReserveOf[Plan], controller.reserved)
           /\ Save(c) /\ Advance
           /\ UNCHANGED <<executed, execution, reported, incidents>>
    <2>1. /\ Actual(execution) \in Amount
          /\ Minus(controller.reserved, ReserveOf[Plan]) \in Amount
          /\ Plus(controller.spent, Actual(execution)) \in Amount
        BY <1>0, <1>3, ActualIsAmount, AmountFacts, CampaignAssumption DEF Controllers
    <2>2. /\ c \in Controllers /\ c.status = controller.status /\ c.items[Plan] = fact
          /\ \A p \in StrategyPlans : p # Plan => c.items[p] = controller.items[p]
        BY <1>0, <2>1 DEF Controllers, Recorded
    <2> HIDE DEF c
    <2>3. /\ checkpoint' \in Controllers /\ controller' = checkpoint' /\ checkpoint' # NotEnded
          /\ Saved' = c /\ Saved' = checkpoint'
        BY <1>3, <2>2, SaveMeaning
    <2>4. \A p \in StrategyPlans : Completed(p) => Completed(p)' /\ p # Plan
        BY <1>0, <1>3, <2>2, <2>3 DEF Completed
    <2>5. execution.status = "completed" => Saved'.items[Plan].status = "completed"
        BY <2>2, <2>3
    <2>6. \A p \in StrategyPlans : Saved.items[p].status # "none" => Saved'.items[p].status # "none"
        BY <1>0, <2>2, <2>3
    <2>7. ResultInv'
        <3> SUFFICES ASSUME NEW p \in StrategyPlans, Saved'.items[p].status = "completed"
                     PROVE  /\ executed[p] # NotEnded /\ executed[p].status = "completed"
                            /\ Saved'.items[p].actual = Actual(Ended(executed[p]))
            BY <1>0, <1>3 DEF ResultInv, Completed, Advance
        <3>1. CASE p = Plan
            BY <1>0, <2>2, <2>3, <3>1 DEF Inv, ResultInv, Ended
        <3>2. CASE p # Plan
            BY <1>0, <2>2, <2>3, <3>2 DEF Inv, ResultInv, Completed
        <3> QED
            BY <3>1, <3>2
    <2> QED
        BY <1>0, <1>3, <2>2, <2>3, <2>4, <2>5, <2>6, <2>7, AdvanceStep DEF Completed
<1> QED
    BY <1>1, <1>2, <1>3 DEF RecordResult

\* A status is saved, of which only "completed" says something about the plans.
LEMMA StatusStep ==
    ASSUME Inv, checkpoint # NotEnded, NEW status \in Terminal \cup {"paused"},
           Save([checkpoint EXCEPT !.status = status]), point' = "idle",
           UNCHANGED <<executed, next>>,
           status = "completed" => \A p \in StrategyPlans : Completed(p)
    PROVE  Inv'
<1> DEFINE c == [checkpoint EXCEPT !.status = status]
<1>1. checkpoint \in Controllers /\ Saved = checkpoint
    BY DEF Inv, Types, Saved
<1>2. c \in Controllers /\ c.status = status /\ c.items = checkpoint.items
    BY <1>1 DEF Controllers
<1> HIDE DEF c
<1>3. checkpoint' = c /\ Saved' = c
    BY <1>2, SaveMeaning DEF c
<1> QED
    BY <1>1, <1>2, <1>3 DEF Inv, Types, ResultInv, LoopInv, Completed

LEMMA FinishStep == ASSUME Inv, Finish \/ MarkPartial PROVE Inv'
<1>0. /\ point # "idle" /\ Saved = controller /\ checkpoint = controller
      /\ controller \in Controllers /\ checkpoint # NotEnded
    BY InMemory DEF Finish, MarkPartial, Inv, Types
<1>1. CASE MarkPartial
    BY <1>0, <1>1, StatusStep DEF MarkPartial, Terminal
<1>2. CASE Finish /\ Save([controller EXCEPT !.status = "completed"])
           /\ \A p \in StrategyPlans : controller.items[p].status \in {"none", "completed"}
    <2>1. \A p \in StrategyPlans : Completed(p)
        BY <1>0, <1>2 DEF Finish, Inv, LoopInv, Completed
    <2>2. CASE RaiseError
        BY <2>2, EndRun DEF RaiseError
    <2>3. CASE ~RaiseError
        BY <1>0, <1>2, <2>1, <2>3, EndRun, StatusStep DEF Finish, Terminal
    <2> QED
        BY <2>2, <2>3
<1>3. CASE RaiseError \/ (point' = "idle" /\ UNCHANGED <<checkpoint, executed, next>>)
    BY <1>3, EndRun DEF RaiseError
<1> QED
    BY <1>1, <1>2, <1>3 DEF Finish

LEMMA NextInv == ASSUME Inv, [CampaignNext]_campaignVars PROVE Inv'
<1>1. CASE Pause
    BY <1>1, StatusStep DEF Pause
<1>2. ASSUME NEW status \in {"failed", "blocked", "cancelled"}, Close(status) PROVE Inv'
    BY <1>2, StatusStep DEF Close, Terminal
<1>3. CASE CampaignAbort
    BY <1>3, EndRun DEF CampaignAbort
<1>4. CASE UNCHANGED campaignVars
    BY <1>4 DEF campaignVars, Inv, Types, ResultInv, LoopInv, Completed, Saved, Plan
<1> QED
    BY <1>1, <1>2, <1>3, <1>4, OpenStep, StartStep, SubmitStep, ExecuteStep, RecordResultStep,
       FinishStep DEF CampaignNext, CampaignStep

LEMMA Invariance == CampaignSpec => []Inv
BY InitInv, NextInv, PTL DEF CampaignSpec

-----------------------------------------------------------------------------
IncidentsBounded == incidents \in 0 .. MaxIncidents

LEMMA IncidentsStep == ASSUME IncidentsBounded, [CampaignNext]_campaignVars PROVE IncidentsBounded'
BY SMTT(30), CampaignAssumption
   DEF IncidentsBounded, CampaignNext, campaignVars, CampaignStep, Open, Start, Submit,
       Execute, RecordResult, Finish,
       MarkPartial, Pause, Close, CampaignAbort, RaiseError

\* Whatever is saved, and whatever a process has in hand, is a controller with statuses
\* and amounts of the right kind, which is what from_checkpoint insists on.
THEOREM CampaignTypes == CampaignSpec => []CampaignTypeOK
<1>1. CampaignInit => IncidentsBounded
    BY CampaignAssumption DEF CampaignInit, IncidentsBounded
<1>2. Inv /\ IncidentsBounded => CampaignTypeOK
    BY DEF Inv, Types, CampaignTypeOK, Outcomes, IncidentsBounded
<1> QED
    BY <1>1, <1>2, IncidentsStep, Invariance, PTL DEF CampaignSpec

-----------------------------------------------------------------------------
\* A campaign is completed only with a completed execution of every plan, at the cost
\* that is on record, wherever it was killed, paused and resumed (finalize).
THEOREM CompletedIsComplete == CampaignSpec => []CompletedMeansEveryPlanCompleted
<1>1. ASSUME Inv PROVE CompletedMeansEveryPlanCompleted
    <2> SUFFICES ASSUME Saved.status = "completed", NEW p \in StrategyPlans
                 PROVE  /\ executed[p] # NotEnded /\ executed[p].status = "completed"
                        /\ Saved.items[p] = [status |-> "completed",
                                             actual |-> Actual(Ended(executed[p]))]
        BY DEF CompletedMeansEveryPlanCompleted
    <2>1. Saved \in Controllers
        BY <1>1, FreshFacts DEF Inv, Types, Saved
    <2>2. Completed(p)
        BY <1>1 DEF Inv, LoopInv
    <2> QED
        BY <1>1, <2>1, <2>2 DEF Inv, ResultInv, Completed, Controllers
<1> QED
    BY <1>1, Invariance, PTL

\* The saved controller changes its counters as BudgetManager does: by a reservation
\* that fits, by the charge of a reserved plan that fits, and in no other way.
LEMMA BudgetStep ==
    ASSUME Inv, [CampaignNext]_campaignVars
    PROVE  [Budget!BMNext]_<<Saved.reserved, Saved.spent>>
<1> DEFINE Same == Saved'.reserved = Saved.reserved /\ Saved'.spent = Saved.spent
<1>1. ASSUME checkpoint' = checkpoint PROVE Same
    BY <1>1 DEF Saved
<1>2. ASSUME NEW status, checkpoint # NotEnded, Save([checkpoint EXCEPT !.status = status]),
             status \in Terminal \cup {"running", "paused"}
      PROVE  Same
    <2>1. checkpoint \in Controllers /\ Saved = checkpoint
        BY <1>2 DEF Inv, Types, Saved
    <2>2. [checkpoint EXCEPT !.status = status] \in Controllers
        BY <1>2, <2>1 DEF Controllers
    <2>3. Saved' = [checkpoint EXCEPT !.status = status]
        BY <1>2, <2>2, SaveMeaning
    <2> QED
        BY <2>1, <2>3 DEF Controllers
<1>3. CASE Open
    <2>1. CASE checkpoint = NotEnded
        BY <1>3, <2>1, FreshFacts, SaveMeaning DEF Open, Saved
    <2>2. CASE checkpoint # NotEnded
        BY <1>1, <1>3, <2>2 DEF Open
    <2> QED
        BY <2>1, <2>2
<1>4. CASE Start \/ Finish \/ MarkPartial
    <2>1. checkpoint = controller /\ checkpoint # NotEnded
        BY <1>4 DEF Start, Finish, MarkPartial, Inv, Types
    <2>2. \/ checkpoint' = checkpoint
          \/ \E status \in {"running", "completed", "partial"} :
                Save([checkpoint EXCEPT !.status = status])
        BY <1>4, <2>1 DEF Start, Finish, MarkPartial, RaiseError
    <2> QED
        BY <1>1, <1>2, <2>1, <2>2 DEF Terminal
<1>5. CASE Submit
    <2>0. /\ Saved = controller /\ controller \in Controllers
          /\ Plan \in StrategyPlans /\ Item = Saved.items[Plan]
        BY <1>5, InMemory, ItemType DEF Submit
    <2>1. CASE checkpoint' = checkpoint
        BY <1>1, <2>1
    <2>2. CASE checkpoint' # checkpoint
        <3> DEFINE c == [controller EXCEPT !.items[Plan].status = "pending",
                                           !.reserved = Plus(@, ReserveOf[Plan])]
        <3>1. /\ Within(Plus(Plus(controller.spent, controller.reserved), ReserveOf[Plan]),
                        Authorized)
              /\ Save(c)
            BY <1>5, <2>2 DEF Submit, RaiseError
        <3>2. Plus(controller.reserved, ReserveOf[Plan]) \in Amount
            BY <2>0, AmountFacts, CampaignAssumption DEF Controllers
        <3>3. /\ c \in Controllers /\ c.spent = controller.spent
              /\ c.reserved = Plus(controller.reserved, ReserveOf[Plan])
            BY <2>0, <3>2 DEF Controllers
        <3> HIDE DEF c
        <3>4. Saved' = c
            BY <3>1, <3>3, SaveMeaning
        <3>5. Budget!Reserve(ReserveOf[Plan])
            BY <2>0, <3>1, <3>3, <3>4 DEF Budget!Reserve, Budget!Within, Budget!Plus, Budget!Resource,
                   Within, Plus, Resource
        <3> QED
            BY <2>0, <3>5 DEF Budget!BMNext
    <2> QED
        BY <2>1, <2>2
<1>6. CASE RecordResult
    <2>0. /\ Saved = controller /\ controller \in Controllers
          /\ Plan \in StrategyPlans /\ Item = Saved.items[Plan] /\ execution \in Executions
        BY <1>6, InMemory, ItemType DEF RecordResult, Inv, Types
    <2>1. CASE checkpoint' = checkpoint
        BY <1>1, <2>1
    <2>2. CASE checkpoint' # checkpoint
        <3> DEFINE fact == [status |-> IF execution.status = "completed"
                                       THEN "completed" ELSE "failed",
                            actual |-> Actual(execution)]
                   c == [controller EXCEPT !.items[Plan] = fact,
                                           !.reserved = Minus(@, ReserveOf[Plan]),
                                           !.spent = Plus(@, fact.actual)]
        <3>1. /\ Within(ReserveOf[Plan], controller.reserved)
              /\ Within(Plus(controller.spent, Actual(execution)), Authorized)
              /\ Save(c)
            BY <1>6, <2>2 DEF RecordResult, RaiseError
        <3>2. /\ Minus(controller.reserved, ReserveOf[Plan]) \in Amount
              /\ Plus(controller.spent, Actual(execution)) \in Amount
              /\ Actual(execution) \in Amount
            BY <2>0, <3>1, ActualIsAmount, AmountFacts, CampaignAssumption DEF Controllers
        <3>3. /\ c \in Controllers /\ c.spent = Plus(controller.spent, Actual(execution))
              /\ c.reserved = Minus(controller.reserved, ReserveOf[Plan])
            BY <2>0, <3>2 DEF Controllers, Recorded
        <3> HIDE DEF c
        <3>4. Saved' = c
            BY <3>1, <3>3, SaveMeaning
        <3>5. Budget!Record(ReserveOf[Plan], Actual(execution))
            BY <2>0, <3>1, <3>3, <3>4 DEF Budget!Record, Budget!Within, Budget!Plus, Budget!Minus,
                   Budget!Resource, Within, Plus, Minus, Resource
        <3> QED
            BY <2>0, <3>5 DEF Budget!BMNext, Executions, Outcomes
    <2> QED
        BY <2>1, <2>2
<1>7. CASE Execute \/ CampaignAbort \/ UNCHANGED campaignVars
    BY <1>1, <1>7 DEF Execute, CampaignAbort, campaignVars
<1>8. CASE Pause \/ \E status \in {"failed", "blocked", "cancelled"} : Close(status)
    BY <1>2, <1>8 DEF Pause, Close, Terminal
<1> QED
    BY <1>3, <1>4, <1>5, <1>6, <1>7, <1>8 DEF CampaignNext, CampaignStep

\* The checkpoint of a campaign, through crashes and resumes, implements the in-memory
\* budget accounting.
THEOREM CampaignKeepsTheBudget == CampaignSpec => ImplementsBudgetManager
<1>1. CampaignInit => Budget!BMInit
    BY FreshFacts DEF CampaignInit, Budget!BMInit, Budget!Nothing, Budget!Resource, Nothing, Resource,
                     Saved
<1> QED
    BY <1>1, BudgetStep, Invariance, PTL
       DEF CampaignSpec, ImplementsBudgetManager, Budget!BMSpec, Budget!bmVars

-----------------------------------------------------------------------------
(* Sums over finite sets.  FoldSet and its kin are recursive functions on    *)
(* the subsets of a set; that one exists is shown from smaller to larger     *)
(* subsets, and what it yields by a smallest subset for which it would not.  *)

Least(s) == CHOOSE x \in s : TRUE

\* h sums g over every subset of S as MapThenFoldSet does.
Sums(g, S, h) ==
    h = [s \in SUBSET S |-> IF s = {} THEN 0 ELSE g[Least(s)] + h[s \ {Least(s)}]]
Total(g, S) == MapThenSumSet(LAMBDA p : g[p], S)

LEMMA LeastIn == \A s : s # {} => Least(s) \in s
BY DEF Least

LEMMA TotalUnfolds ==
    ASSUME NEW g, NEW S
    PROVE  Total(g, S) = (CHOOSE h : Sums(g, S, h))[S]
BY DEF Total, MapThenSumSet, MapThenFoldSet, Sums, Least

\* Every set of numbers that is not empty has a least element.
LEMMA LeastNumber ==
    ASSUME NEW T \in SUBSET Nat, T # {}
    PROVE  \E n \in T : \A m \in T : n <= m
<1>1. PICK n \in T : \A m \in T : ~(<<m, n>> \in OpToRel(<, Nat))
    BY NatLessThanWellFounded, WFMin
<1>2. \A m \in T : <<m, n>> \in OpToRel(<, Nat) <=> m < n
    BY DEF OpToRel
<1>3. \A m \in T : ~(m < n)
    BY <1>1, <1>2, Zenon
<1> QED
    BY <1>3

\* A set of finite sets that is not empty has one with the fewest elements.
LEMMA Smallest ==
    ASSUME NEW S, IsFiniteSet(S), NEW B \in SUBSET (SUBSET S), B # {}
    PROVE  \E s \in B : \A x \in s : s \ {x} \notin B
<1> DEFINE Sizes == {Cardinality(s) : s \in B}
<1>1. \A s \in SUBSET S : IsFiniteSet(s) /\ Cardinality(s) \in Nat
    BY FS_Subset, FS_CardinalityType
<1>2. PICK n \in Sizes : \A m \in Sizes : n <= m
    <2>1. Sizes \in SUBSET Nat /\ Sizes # {}
        BY <1>1
    <2> HIDE DEF Sizes
    <2> QED
        BY <2>1, LeastNumber
<1>3. PICK s \in B : n = Cardinality(s)
    BY <1>2
<1>4. ASSUME NEW x \in s, s \ {x} \in B PROVE FALSE
    <2>1. Cardinality(s \ {x}) = Cardinality(s) - 1
        BY <1>1, FS_RemoveElement
    <2>2. Cardinality(s \ {x}) \in Sizes
        BY <1>4
    <2> QED
        BY <1>1, <1>2, <1>3, <2>1, <2>2
<1> QED
    BY <1>3, <1>4

\* Two such functions agree where both are defined.
LEMMA SumsAgree ==
    ASSUME NEW g, NEW S, IsFiniteSet(S), NEW T, NEW h, NEW k, Sums(g, S, h), Sums(g, T, k)
    PROVE  \A s \in SUBSET (S \cap T) : h[s] = k[s]
<1> DEFINE B == {s \in SUBSET (S \cap T) : h[s] # k[s]}
<1>1. SUFFICES ASSUME B # {} PROVE FALSE
    OBVIOUS
<1>2. PICK s \in B : \A x \in s : s \ {x} \notin B
    BY <1>1, Smallest
<1>3. s \in SUBSET S /\ s \in SUBSET T /\ h[s] # k[s]
    OBVIOUS
<1>4. /\ h[s] = IF s = {} THEN 0 ELSE g[Least(s)] + h[s \ {Least(s)}]
      /\ k[s] = IF s = {} THEN 0 ELSE g[Least(s)] + k[s \ {Least(s)}]
    BY <1>3 DEF Sums
<1>5. s # {} => h[s \ {Least(s)}] = k[s \ {Least(s)}]
    BY <1>2, LeastIn
<1> QED
    BY <1>3, <1>4, <1>5

LEMMA SumsExist == ASSUME NEW g, NEW S, IsFiniteSet(S) PROVE \E h : Sums(g, S, h)
<1> DEFINE Upto(n) == {s \in SUBSET S : Cardinality(s) <= n}
           Level(n, h) == [s \in Upto(n) |-> IF s = {} THEN 0 ELSE g[Least(s)] + h[s \ {Least(s)}]]
           Exist(n) == \E h : h = Level(n, h)
           Bad == {n \in Nat : ~Exist(n)}
<1>1. \A s \in SUBSET S : /\ IsFiniteSet(s) /\ Cardinality(s) \in Nat
                          /\ Cardinality(s) = 0 => s = {}
                          /\ s # {} => Cardinality(s \ {Least(s)}) = Cardinality(s) - 1
    BY FS_Subset, FS_CardinalityType, FS_EmptySet, FS_RemoveElement, LeastIn
<1>2. Exist(0)
    <2>1. ASSUME NEW s \in Upto(0) PROVE s = {}
        <3>1. s \in SUBSET S /\ Cardinality(s) <= 0
            BY <2>1
        <3>2. Cardinality(s) \in Nat /\ (Cardinality(s) = 0 => s = {})
            BY <1>1, <3>1
        <3> QED
            BY <3>1, <3>2
    <2>2. \A h : Level(0, h) = [s \in Upto(0) |-> 0]
        BY <2>1
    <2> QED
        BY <2>2
<1>3. ASSUME NEW n \in Nat \ {0}, Exist(n - 1) PROVE Exist(n)
    <2>1. PICK h : h = Level(n - 1, h)
        BY <1>3
    <2>2. ASSUME NEW s \in Upto(n - 1) PROVE s \in Upto(n) /\ h[s] = Level(n, h)[s]
        <3>1. Cardinality(s) \in Nat /\ Cardinality(s) <= n - 1
            BY <1>1, <2>2
        <3>2. s \in Upto(n)
            BY <2>2, <3>1
        <3>3. h[s] = IF s = {} THEN 0 ELSE g[Least(s)] + h[s \ {Least(s)}]
            BY <2>1, <2>2
        <3> QED
            BY <3>2, <3>3
    <2>3. ASSUME NEW s \in Upto(n), s # {} PROVE s \ {Least(s)} \in Upto(n - 1)
        <3>1. Cardinality(s) \in Nat /\ Cardinality(s) <= n
            BY <1>1, <2>3
        <3>2. Cardinality(s \ {Least(s)}) = Cardinality(s) - 1
            BY <1>1, <2>3
        <3> QED
            BY <2>3, <3>1, <3>2
    <2>4. \A s \in Upto(n) : s # {} => h[s \ {Least(s)}] = Level(n, h)[s \ {Least(s)}]
        BY <2>2, <2>3
    <2>5. Level(n, h) = Level(n, Level(n, h))
        BY <2>4
    <2> QED
        BY <2>5
<1>4. Exist(Cardinality(S))
    <2> HIDE DEF Exist
    <2>1. SUFFICES ASSUME Bad # {} PROVE FALSE
        BY <1>1
    <2>2. PICK n \in Bad : \A m \in Bad : n <= m
        BY <2>1, LeastNumber
    <2>3. n \in Nat \ {0} /\ n - 1 \in Nat /\ ~(n <= n - 1)
        BY <1>2
    <2>4. Exist(n - 1)
        BY <2>2, <2>3
    <2> QED
        BY <1>3, <2>3, <2>4
<1>5. Upto(Cardinality(S)) = SUBSET S
    BY FS_Subset
<1> QED
    BY <1>4, <1>5 DEF Sums

LEMMA TotalIs ==
    ASSUME NEW g, NEW S, IsFiniteSet(S)
    PROVE  Total(g, S) = IF S = {} THEN 0 ELSE g[Least(S)] + Total(g, S \ {Least(S)})
<1>1. \A T \in SUBSET S : IsFiniteSet(T)
    BY FS_Subset
<1>2. PICK h : h = (CHOOSE k : Sums(g, S, k)) /\ Sums(g, S, h) /\ Total(g, S) = h[S]
    BY SumsExist, TotalUnfolds
<1>3. \A T \in SUBSET S : Total(g, T) = h[T]
    <2> SUFFICES ASSUME NEW T \in SUBSET S PROVE Total(g, T) = h[T]
        OBVIOUS
    <2>1. PICK k : Sums(g, T, k) /\ Total(g, T) = k[T]
        BY <1>1, SumsExist, TotalUnfolds
    <2> QED
        BY <1>2, <2>1, SumsAgree
<1>4. h[S] = IF S = {} THEN 0 ELSE g[Least(S)] + h[S \ {Least(S)}]
    BY <1>2 DEF Sums
<1> QED
    BY <1>2, <1>3, <1>4

\* The sum is that of the values on the set.
LEMMA TotalSame ==
    ASSUME NEW S, IsFiniteSet(S), NEW g, NEW k, \A p \in S : g[p] = k[p]
    PROVE  Total(g, S) = Total(k, S)
<1> DEFINE B == {T \in SUBSET S : Total(g, T) # Total(k, T)}
<1>1. SUFFICES ASSUME B # {} PROVE FALSE
    OBVIOUS
<1>2. PICK T \in B : \A x \in T : T \ {x} \notin B
    BY <1>1, Smallest
<1>3. T \in SUBSET S /\ IsFiniteSet(T)
    BY FS_Subset
<1>4. T # {} => /\ Total(g, T \ {Least(T)}) = Total(k, T \ {Least(T)})
               /\ g[Least(T)] = k[Least(T)]
    BY <1>2, LeastIn
<1>5. /\ Total(g, T) = IF T = {} THEN 0 ELSE g[Least(T)] + Total(g, T \ {Least(T)})
      /\ Total(k, T) = IF T = {} THEN 0 ELSE k[Least(T)] + Total(k, T \ {Least(T)})
    BY <1>3, TotalIs
<1> QED
    BY <1>2, <1>4, <1>5

\* Naturals sum to a natural.
LEMMA TotalIsNat ==
    ASSUME NEW S, IsFiniteSet(S), NEW g, \A p \in S : g[p] \in Nat
    PROVE  Total(g, S) \in Nat
<1> DEFINE B == {T \in SUBSET S : Total(g, T) \notin Nat}
<1>1. SUFFICES ASSUME B # {} PROVE FALSE
    OBVIOUS
<1>2. PICK T \in B : \A x \in T : T \ {x} \notin B
    BY <1>1, Smallest
<1>3. T \in SUBSET S /\ IsFiniteSet(T)
    BY FS_Subset
<1>4. T # {} => Total(g, T \ {Least(T)}) \in Nat /\ g[Least(T)] \in Nat
    BY <1>2, LeastIn
<1> QED
    BY <1>2, <1>3, <1>4, TotalIs

\* Any element may be taken out first.
LEMMA TotalLess ==
    ASSUME NEW S, IsFiniteSet(S), NEW g, \A p \in S : g[p] \in Nat
    PROVE  \A x \in S : Total(g, S) = g[x] + Total(g, S \ {x})
<1> DEFINE Splits(T) == \A x \in T : Total(g, T) = g[x] + Total(g, T \ {x})
           B == {T \in SUBSET S : ~Splits(T)}
<1>1. SUFFICES ASSUME B # {} PROVE FALSE
    OBVIOUS
<1>2. PICK T \in B : \A y \in T : T \ {y} \notin B
    BY <1>1, Smallest
<1>3. \A R \in SUBSET S : IsFiniteSet(R) /\ Total(g, R) \in Nat
    BY FS_Subset, TotalIsNat
<1>4. ASSUME NEW x \in T PROVE Total(g, T) = g[x] + Total(g, T \ {x})
    <2> DEFINE y == Least(T)
    <2>1. y \in T /\ Total(g, T) = g[y] + Total(g, T \ {y})
        BY <1>3, TotalIs, LeastIn
    <2>2. CASE y = x
        BY <2>1, <2>2
    <2>3. CASE y # x
        <3>1. Splits(T \ {x}) /\ Splits(T \ {y})
            BY <1>2, <2>1
        <3>2. /\ Total(g, T \ {x}) = g[y] + Total(g, (T \ {x}) \ {y})
              /\ Total(g, T \ {y}) = g[x] + Total(g, (T \ {y}) \ {x})
            BY <2>1, <2>3, <3>1
        <3>3. (T \ {x}) \ {y} = (T \ {y}) \ {x}
            OBVIOUS
        <3>4. g[x] \in Nat /\ g[y] \in Nat /\ Total(g, (T \ {x}) \ {y}) \in Nat
            BY <1>3, <2>1
        <3>5. g[x] + (g[y] + Total(g, (T \ {x}) \ {y})) = g[y] + (g[x] + Total(g, (T \ {x}) \ {y}))
            BY <3>4
        <3> QED
            BY <2>1, <3>2, <3>3, <3>5
    <2> QED
        BY <2>2, <2>3
<1> QED
    BY <1>2, <1>4

-----------------------------------------------------------------------------
(* The sums of the budget.                                                   *)

ReserveFor(r) == [p \in StrategyPlans |-> ReserveOf[p][r]]
ActualFor(c, r) == [p \in StrategyPlans |-> c.items[p].actual[r]]
PendingOf(c) == {p \in StrategyPlans : c.items[p].status = "pending"}
RecordedOf(c) == {p \in StrategyPlans : c.items[p].status \in Recorded}

\* The counters of a controller are the sums of its items, for each resource.
Adds(c) ==
    \A r \in Resource : /\ c.reserved[r] = Total(ReserveFor(r), PendingOf(c))
                        /\ c.spent[r] = Total(ActualFor(c, r), RecordedOf(c))

LEMMA PlansAreFinite == IsFiniteSet(StrategyPlans)
<1>1. StrategyPlans = {PlanOrder[i] : i \in 1 .. Len(PlanOrder)} /\ Len(PlanOrder) \in Nat
    BY PlanFacts DEF StrategyPlans
<1>2. [i \in 1 .. Len(PlanOrder) |-> PlanOrder[i]] \in Surjection(1 .. Len(PlanOrder), StrategyPlans)
    BY <1>1 DEF Surjection
<1> QED
    BY <1>1, <1>2, FS_Interval, FS_Surjection

\* What SumOver is of the reservations, and of the charges of the saved items.
LEMMA ReservedIs ==
    ASSUME NEW S \in SUBSET StrategyPlans, NEW r \in Resource
    PROVE  SumOver(S, LAMBDA p : ReserveOf[p])[r] = Total(ReserveFor(r), S)
<1> DEFINE D(h) == h = [s \in SUBSET S |-> IF s = {} THEN 0
                                           ELSE ReserveOf[Least(s)][r] + h[s \ {Least(s)}]]
<1>1. SumOver(S, LAMBDA p : ReserveOf[p])[r] = (CHOOSE h : D(h))[S]
    BY DEF SumOver, MapThenSumSet, MapThenFoldSet, Least
<1>2. \A s \in SUBSET S : s # {} => ReserveOf[Least(s)][r] = ReserveFor(r)[Least(s)]
    BY LeastIn DEF ReserveFor
<1>3. \A h : D(h) <=> Sums(ReserveFor(r), S, h)
    BY <1>2 DEF Sums
<1> HIDE DEF D
<1>4. (CHOOSE h : D(h)) = CHOOSE h : Sums(ReserveFor(r), S, h)
    BY <1>3
<1> QED
    BY <1>1, <1>4, TotalUnfolds

LEMMA SpentIs ==
    ASSUME NEW S \in SUBSET StrategyPlans, NEW r \in Resource
    PROVE  SumOver(S, LAMBDA p : Saved.items[p].actual)[r] = Total(ActualFor(Saved, r), S)
<1> DEFINE D(h) == h = [s \in SUBSET S |-> IF s = {} THEN 0
                                           ELSE Saved.items[Least(s)].actual[r] + h[s \ {Least(s)}]]
<1>1. SumOver(S, LAMBDA p : Saved.items[p].actual)[r] = (CHOOSE h : D(h))[S]
    BY DEF SumOver, MapThenSumSet, MapThenFoldSet, Least
<1>2. \A s \in SUBSET S : s # {} =>
        Saved.items[Least(s)].actual[r] = ActualFor(Saved, r)[Least(s)]
    BY LeastIn DEF ActualFor
<1>3. \A h : D(h) <=> Sums(ActualFor(Saved, r), S, h)
    BY <1>2 DEF Sums
<1> HIDE DEF D
<1>4. (CHOOSE h : D(h)) = CHOOSE h : Sums(ActualFor(Saved, r), S, h)
    BY <1>3
<1> QED
    BY <1>1, <1>4, TotalUnfolds

LEMMA SameItems ==
    ASSUME NEW c, NEW d, Adds(c), d.items = c.items, d.reserved = c.reserved, d.spent = c.spent
    PROVE  Adds(d)
BY DEF Adds, PendingOf, RecordedOf, ActualFor

LEMMA ItemsTyped ==
    ASSUME NEW c \in Controllers
    PROVE  /\ IsFiniteSet(PendingOf(c)) /\ IsFiniteSet(RecordedOf(c))
           /\ \A r \in Resource : \A p \in StrategyPlans :
                  /\ ReserveFor(r)[p] = ReserveOf[p][r] /\ ReserveOf[p][r] \in Nat
                  /\ ActualFor(c, r)[p] = c.items[p].actual[r] /\ c.items[p].actual[r] \in Nat
<1>1. IsFiniteSet(PendingOf(c)) /\ IsFiniteSet(RecordedOf(c))
    BY PlansAreFinite, FS_Subset DEF PendingOf, RecordedOf
<1> QED
    BY <1>1, CampaignAssumption DEF ReserveFor, ActualFor, Controllers, Amount

\* submit: a plan that is there the first time is pending, and its reservation is added.
LEMMA SubmitAdds ==
    ASSUME NEW c \in Controllers, NEW d \in Controllers, Adds(c), NEW p \in StrategyPlans,
           c.items[p].status = "none", d.items[p].status = "pending",
           \A q \in StrategyPlans : q # p => d.items[q] = c.items[q],
           d.reserved = Plus(c.reserved, ReserveOf[p]), d.spent = c.spent
    PROVE  Adds(d)
<1>1. PendingOf(d) \ {p} = PendingOf(c) /\ p \in PendingOf(d) /\ RecordedOf(d) = RecordedOf(c)
      /\ p \notin RecordedOf(c)
    BY DEF PendingOf, RecordedOf, Recorded
<1> SUFFICES ASSUME NEW r \in Resource
             PROVE  /\ d.reserved[r] = Total(ReserveFor(r), PendingOf(d))
                    /\ d.spent[r] = Total(ActualFor(d, r), RecordedOf(d))
    BY DEF Adds
<1>2. Total(ReserveFor(r), PendingOf(d)) = ReserveOf[p][r] + Total(ReserveFor(r), PendingOf(c))
    <2>1. \A q \in PendingOf(d) : ReserveFor(r)[q] \in Nat
        BY ItemsTyped DEF PendingOf
    <2>2. IsFiniteSet(PendingOf(d)) /\ ReserveFor(r)[p] = ReserveOf[p][r]
        BY ItemsTyped
    <2>3. Total(ReserveFor(r), PendingOf(d)) =
              ReserveFor(r)[p] + Total(ReserveFor(r), PendingOf(d) \ {p})
        BY <1>1, <2>1, <2>2, TotalLess
    <2> QED
        BY <1>1, <2>2, <2>3
<1>3. Total(ActualFor(d, r), RecordedOf(c)) = Total(ActualFor(c, r), RecordedOf(c))
    <2>1. \A q \in RecordedOf(c) : ActualFor(d, r)[q] = ActualFor(c, r)[q]
        BY <1>1 DEF ActualFor, RecordedOf
    <2> QED
        BY <2>1, ItemsTyped, TotalSame
<1>4. /\ c.reserved[r] = Total(ReserveFor(r), PendingOf(c)) /\ c.reserved[r] \in Nat
      /\ c.spent[r] = Total(ActualFor(c, r), RecordedOf(c))
      /\ d.reserved[r] = c.reserved[r] + ReserveOf[p][r] /\ ReserveOf[p][r] \in Nat
    BY ItemsTyped DEF Adds, Plus, Controllers, Amount
<1> QED
    BY <1>1, <1>2, <1>3, <1>4

\* record_result: the plan is no longer pending, and its cost is on record.
LEMMA RecordAdds ==
    ASSUME NEW c \in Controllers, NEW d \in Controllers, Adds(c), NEW p \in StrategyPlans,
           c.items[p].status = "pending", d.items[p].status \in Recorded,
           \A q \in StrategyPlans : q # p => d.items[q] = c.items[q],
           d.reserved = Minus(c.reserved, ReserveOf[p]),
           d.spent = Plus(c.spent, d.items[p].actual)
    PROVE  Adds(d)
<1>1. /\ PendingOf(d) = PendingOf(c) \ {p} /\ p \in PendingOf(c)
      /\ RecordedOf(d) \ {p} = RecordedOf(c) /\ p \in RecordedOf(d) /\ p \notin RecordedOf(c)
    BY DEF PendingOf, RecordedOf, Recorded
<1> SUFFICES ASSUME NEW r \in Resource
             PROVE  /\ d.reserved[r] = Total(ReserveFor(r), PendingOf(d))
                    /\ d.spent[r] = Total(ActualFor(d, r), RecordedOf(d))
    BY DEF Adds
<1>2. /\ Total(ReserveFor(r), PendingOf(c)) = ReserveOf[p][r] + Total(ReserveFor(r), PendingOf(d))
      /\ Total(ReserveFor(r), PendingOf(d)) \in Nat
    <2>1. \A q \in StrategyPlans : ReserveFor(r)[q] \in Nat
        BY ItemsTyped
    <2>2. IsFiniteSet(PendingOf(c)) /\ ReserveFor(r)[p] = ReserveOf[p][r]
        BY ItemsTyped
    <2>3. IsFiniteSet(PendingOf(d))
        BY ItemsTyped
    <2>4. PendingOf(c) \subseteq StrategyPlans /\ PendingOf(d) \subseteq StrategyPlans
        BY DEF PendingOf
    <2>5. Total(ReserveFor(r), PendingOf(c)) =
              ReserveFor(r)[p] + Total(ReserveFor(r), PendingOf(c) \ {p})
        BY <1>1, <2>1, <2>2, <2>4, TotalLess
    <2>6. Total(ReserveFor(r), PendingOf(d)) \in Nat
        BY <2>1, <2>3, <2>4, TotalIsNat
    <2> QED
        BY <1>1, <2>2, <2>5, <2>6
<1>3. Total(ActualFor(d, r), RecordedOf(d)) =
          d.items[p].actual[r] + Total(ActualFor(d, r), RecordedOf(c))
    <2>1. \A q \in RecordedOf(d) : ActualFor(d, r)[q] \in Nat
        BY ItemsTyped DEF RecordedOf
    <2>2. IsFiniteSet(RecordedOf(d)) /\ ActualFor(d, r)[p] = d.items[p].actual[r]
        BY ItemsTyped
    <2>3. Total(ActualFor(d, r), RecordedOf(d)) =
              ActualFor(d, r)[p] + Total(ActualFor(d, r), RecordedOf(d) \ {p})
        BY <1>1, <2>1, <2>2, TotalLess
    <2> QED
        BY <1>1, <2>2, <2>3
<1>4. Total(ActualFor(d, r), RecordedOf(c)) = Total(ActualFor(c, r), RecordedOf(c))
    <2>1. \A q \in RecordedOf(c) : ActualFor(d, r)[q] = ActualFor(c, r)[q]
        BY <1>1 DEF ActualFor, RecordedOf
    <2> QED
        BY <2>1, ItemsTyped, TotalSame
<1>5. /\ c.reserved[r] = Total(ReserveFor(r), PendingOf(c))
      /\ c.spent[r] = Total(ActualFor(c, r), RecordedOf(c)) /\ c.spent[r] \in Nat
      /\ d.reserved[r] = c.reserved[r] - ReserveOf[p][r] /\ ReserveOf[p][r] \in Nat
      /\ d.spent[r] = c.spent[r] + d.items[p].actual[r] /\ d.items[p].actual[r] \in Nat
    BY ItemsTyped DEF Adds, Plus, Minus, Controllers, Amount
<1> QED
    BY <1>2, <1>3, <1>4, <1>5
-----------------------------------------------------------------------------
\* Nothing is reserved or charged in a new campaign, and every step keeps the sums.
LEMMA InitAdds == CampaignInit => Adds(Saved)
<1> SUFFICES ASSUME CampaignInit, NEW r \in Resource
             PROVE  /\ Saved.reserved[r] = Total(ReserveFor(r), PendingOf(Saved))
                    /\ Saved.spent[r] = Total(ActualFor(Saved, r), RecordedOf(Saved))
    BY DEF Adds
<1>1. Saved = Fresh /\ PendingOf(Saved) = {} /\ RecordedOf(Saved) = {}
    BY FreshFacts DEF CampaignInit, Saved, PendingOf, RecordedOf, Recorded
<1>2. Total(ReserveFor(r), {}) = 0 /\ Total(ActualFor(Saved, r), {}) = 0
    BY TotalIs, FS_EmptySet
<1>3. Saved.reserved[r] = 0 /\ Saved.spent[r] = 0
    BY <1>1, FreshFacts DEF Nothing
<1> QED
    BY <1>1, <1>2, <1>3

LEMMA AddsStep == ASSUME Inv, Adds(Saved), [CampaignNext]_campaignVars PROVE Adds(Saved)'
<1>1. ASSUME checkpoint' = checkpoint PROVE Adds(Saved)'
    <2>1. Saved' = Saved
        BY <1>1 DEF Saved
    <2> QED
        BY <2>1, SameItems DEF Adds, PendingOf, RecordedOf, ActualFor, ReserveFor
<1>2. ASSUME NEW status, checkpoint # NotEnded, Save([checkpoint EXCEPT !.status = status]),
             status \in Terminal \cup {"running", "paused"}
      PROVE  Adds(Saved)'
    <2>1. checkpoint \in Controllers /\ Saved = checkpoint
        BY <1>2 DEF Inv, Types, Saved
    <2>2. [checkpoint EXCEPT !.status = status] \in Controllers
        BY <1>2, <2>1 DEF Controllers
    <2>3. Saved' = [checkpoint EXCEPT !.status = status]
        BY <1>2, <2>2, SaveMeaning
    <2>4. /\ Saved'.items = Saved.items /\ Saved'.reserved = Saved.reserved
          /\ Saved'.spent = Saved.spent
        BY <2>1, <2>3 DEF Controllers
    <2> QED
        BY <2>4 DEF Adds, PendingOf, RecordedOf, ActualFor, ReserveFor
<1>3. CASE Open
    <2>1. CASE checkpoint = NotEnded
        BY <1>3, <2>1, FreshFacts, SaveMeaning, SameItems DEF Open, Saved
    <2>2. CASE checkpoint # NotEnded
        BY <1>1, <1>3, <2>2 DEF Open
    <2> QED
        BY <2>1, <2>2
<1>4. CASE Start \/ Finish \/ MarkPartial
    <2>1. checkpoint = controller /\ checkpoint # NotEnded
        BY <1>4 DEF Start, Finish, MarkPartial, Inv, Types
    <2>2. \/ checkpoint' = checkpoint
          \/ \E status \in {"running", "completed", "partial"} :
                Save([checkpoint EXCEPT !.status = status])
        BY <1>4, <2>1 DEF Start, Finish, MarkPartial, RaiseError
    <2> QED
        BY <1>1, <1>2, <2>1, <2>2 DEF Terminal
<1>5. CASE Submit
    <2>0. /\ Saved = controller /\ controller \in Controllers
          /\ Plan \in StrategyPlans /\ Item = Saved.items[Plan]
        BY <1>5, InMemory, ItemType DEF Submit
    <2>1. CASE checkpoint' = checkpoint
        BY <1>1, <2>1
    <2>2. CASE checkpoint' # checkpoint
        <3> DEFINE c == [controller EXCEPT !.items[Plan].status = "pending",
                                           !.reserved = Plus(@, ReserveOf[Plan])]
        <3>1. Item.status = "none" /\ Save(c)
            BY <1>5, <2>2 DEF Submit, RaiseError
        <3>2. Plus(controller.reserved, ReserveOf[Plan]) \in Amount
            BY <2>0, AmountFacts, CampaignAssumption DEF Controllers
        <3>3. /\ c \in Controllers /\ c.spent = controller.spent
              /\ c.reserved = Plus(controller.reserved, ReserveOf[Plan])
              /\ c.items[Plan].status = "pending"
              /\ \A q \in StrategyPlans : q # Plan => c.items[q] = controller.items[q]
            BY <2>0, <3>2 DEF Controllers
        <3> HIDE DEF c
        <3>4. Saved' = c
            BY <3>1, <3>3, SaveMeaning
        <3>5. Adds(c)
            BY <2>0, <3>1, <3>3, SubmitAdds
        <3> QED
            BY <3>4, <3>5 DEF Adds, PendingOf, RecordedOf, ActualFor, ReserveFor
    <2> QED
        BY <2>1, <2>2
<1>6. CASE RecordResult
    <2>0. /\ Saved = controller /\ controller \in Controllers
          /\ Plan \in StrategyPlans /\ Item = Saved.items[Plan] /\ execution \in Executions
        BY <1>6, InMemory, ItemType DEF RecordResult, Inv, Types
    <2>1. CASE checkpoint' = checkpoint
        BY <1>1, <2>1
    <2>2. CASE checkpoint' # checkpoint
        <3> DEFINE fact == [status |-> IF execution.status = "completed"
                                       THEN "completed" ELSE "failed",
                            actual |-> Actual(execution)]
                   c == [controller EXCEPT !.items[Plan] = fact,
                                           !.reserved = Minus(@, ReserveOf[Plan]),
                                           !.spent = Plus(@, fact.actual)]
        <3>1. /\ Item.status = "pending" /\ Within(ReserveOf[Plan], controller.reserved)
              /\ Save(c)
            BY <1>6, <2>2 DEF RecordResult, RaiseError
        <3>2. /\ Minus(controller.reserved, ReserveOf[Plan]) \in Amount
              /\ Plus(controller.spent, Actual(execution)) \in Amount
              /\ Actual(execution) \in Amount
            BY <2>0, <3>1, ActualIsAmount, AmountFacts, CampaignAssumption DEF Controllers
        <3>3. /\ c \in Controllers /\ c.spent = Plus(controller.spent, Actual(execution))
              /\ c.reserved = Minus(controller.reserved, ReserveOf[Plan])
              /\ c.items[Plan].status \in Recorded /\ c.items[Plan].actual = Actual(execution)
              /\ \A q \in StrategyPlans : q # Plan => c.items[q] = controller.items[q]
            BY <2>0, <3>2 DEF Controllers, Recorded
        <3> HIDE DEF c
        <3>4. Saved' = c
            BY <3>1, <3>3, SaveMeaning
        <3>5. Adds(c)
            BY <2>0, <3>1, <3>3, RecordAdds
        <3> QED
            BY <3>4, <3>5 DEF Adds, PendingOf, RecordedOf, ActualFor, ReserveFor
    <2> QED
        BY <2>1, <2>2
<1>7. CASE Execute \/ CampaignAbort \/ UNCHANGED campaignVars
    BY <1>1, <1>7 DEF Execute, CampaignAbort, campaignVars
<1>8. CASE Pause \/ \E status \in {"failed", "blocked", "cancelled"} : Close(status)
    BY <1>2, <1>8 DEF Pause, Close, Terminal
<1> QED
    BY <1>3, <1>4, <1>5, <1>6, <1>7, <1>8 DEF CampaignNext, CampaignStep

\* The counters of the saved budget are the sums of the reservations of the pending plans
\* and of the charges of the recorded ones, after any crash, pause, resume and repeated
\* submission (CampaignController).
THEOREM CountersAreSums == CampaignSpec => []BudgetMatchesItems
<1>1. ASSUME Inv, Adds(Saved) PROVE BudgetMatchesItems
    <2>1. Saved \in Controllers
        BY <1>1, FreshFacts DEF Inv, Types, Saved
    <2>2. /\ Saved.reserved = [r \in Resource |-> Saved.reserved[r]]
          /\ Saved.spent = [r \in Resource |-> Saved.spent[r]]
        BY <2>1 DEF Controllers, Amount
    <2>3. \A r \in Resource :
              Saved.reserved[r] = SumOver(PendingOf(Saved), LAMBDA p : ReserveOf[p])[r]
        BY <1>1, ReservedIs DEF Adds, PendingOf
    <2>4. \A r \in Resource :
              Saved.spent[r] = SumOver(RecordedOf(Saved), LAMBDA p : Saved.items[p].actual)[r]
        BY <1>1, SpentIs DEF Adds, RecordedOf
    <2>5. Saved.reserved = SumOver(PendingOf(Saved), LAMBDA p : ReserveOf[p])
        BY <2>2, <2>3 DEF SumOver
    <2>6. Saved.spent = SumOver(RecordedOf(Saved), LAMBDA p : Saved.items[p].actual)
        BY <2>2, <2>4 DEF SumOver
    <2> QED
        BY <2>5, <2>6 DEF BudgetMatchesItems, PendingOf, RecordedOf
<1>2. Inv /\ Adds(Saved) /\ [CampaignNext]_campaignVars => Adds(Saved)'
    BY AddsStep
<1> QED
    BY <1>1, <1>2, InitAdds, Invariance, PTL DEF CampaignSpec
=============================================================================
