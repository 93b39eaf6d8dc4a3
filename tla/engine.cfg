\* Every bound is named in the README.
SPECIFICATION Spec
CONSTANTS
  w1 = w1
  w2 = w2
  Workers = {w1, w2, w3}
  Foreign = {w3}
  LeaseTime = 1
  None = None
  MaxTime = 2
  MaxAttempts = 3
  MaxFaults = 2
  Cycles = 2
  SearchRounds = 1
  Block = 3
  Margin = 1
  Significance = 1
  SealedTasks = 1
  Interval = 1
  Agents = {a, b}
  InitialAgent = a
  Pairs <- MCPairs
  MaxOpen = 2
  MaxKills = 1
  MaxRollbacks = 1
  Generations = 2
  MaxCandidates = 2
  MaxFinalists = 1
  Tasks = {t1}
  Programs = {o, s, p}
  Original = o
  Seed = s
  CallCap = 22
  MaxSearchFaults = 1
  MaxActs = 1
SYMMETRY Symmetry
CHECK_DEADLOCK FALSE
INVARIANTS LeaseExcludes PromotionIsEarned CallsAreCharged LineageIsEarned
PROPERTIES CompletedIsKept
