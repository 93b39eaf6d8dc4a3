SPECIFICATION FairPartSpec
CONSTANTS
  p1 = p1
  p2 = p2
  p3 = p3
  PlanOrder <- ThreePlans
  ReserveOf <- MCReserveOf
  Authorized <- MCAuthorized
  Costs = {0, 2, 3}
  EndStatuses = {"completed", "budget_exhausted", "infra_failure"}
  NotEnded = NotEnded
  MaxIncidents = 3
  Executors = {x1}
  Plans <- MCPlans
  LimitOf <- MCLimitOf
  Prescreen = {prescreen}
  Predictions = {m1, m2}
  Asked = {m1, m2, None}
  None = None
  Outputs <- MCOutputs
  CostOf <- MCCostOf
  Traced <- MCTraced
  RefusedAt <- MCRefusedAt
  MaxFaults = 2
  full = full
  prescreen = prescreen
  cheap = cheap
  traced = traced
  dear = dear
  misHashed = misHashed
  lostTrace = lostTrace
  unpriced = unpriced
  patchless = patchless
  a = a
  b = b
  i1 = i1
  i2 = i2
  c1 = c1
  c2 = c2
  Procs = {a, b}
  RequestIds = {i1, i2}
  Contents = {c1, c2}
  Answers <- MCAnswers
  Reservation = 2
  HardBudget = 4
  Missing = Missing
  MaxFailures = 2
INVARIANTS BudgetMatchesItems CompletedMeansEveryPlanCompleted PredictionBeforeModel TerminalFitsReceipts PaidOnce ReturnedIsPaidAnswer
PROPERTIES ImplementsBudgetManager CompletedWorkIsNotRepeated ImplementsPlanOutcome  PlanEnds StoredAnswerIsUsed
