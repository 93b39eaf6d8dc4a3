SPECIFICATION Spec
CONSTANTS
  Executors = {x1}
  Plans <- OneFullPlan
  LimitOf <- FullLimitOf
  Prescreen = {}
  Predictions = {m1}
  Asked = {m1, None}
  None = None
  Outputs <- MCOutputs
  CostOf <- MCCostOf
  Traced <- MCTraced
  RefusedAt <- MCRefusedAt
  MaxFaults = 1
  full = full
  prescreen = prescreen
  cheap = cheap
  traced = traced
  dear = dear
  misHashed = misHashed
  lostTrace = lostTrace
  unpriced = unpriced
  patchless = patchless
INVARIANTS CompletedMeansEvaluated
