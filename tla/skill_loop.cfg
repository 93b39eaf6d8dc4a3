\* Every bound is named in the README.
SPECIFICATION Spec
CONSTANTS
  w1 = w1
  w2 = w2
  k1 = k1
  k2 = k2
  None = None
  Torn = Torn
  Procs = {w1, w2}
  Dispatchers = {"revision", "realization", "localization", "feedback"}
  CallIds = {k1, k2}
  CallRequests = {"r1", "r2"}
  ParentAnswers <- MCAnswers
  MaxCalls = 1
  MaxParentFaults = 1
  TaskOrder <- MCTaskOrder
  Arms <- MCArms
  Contextual = {"m"}
  Contexts = {k1, k2}
  Inherited = {"t2"}
  Options <- MCOptions
  MaxKills = 1
  Families = {"structured", "hunk", "symbol", "block", "operator", "span"}
  Rounds = {11, 39}
  SharedFlaws = {"prose", "unresolved", "target", "moved", "repeats", "comment"}
  Sizes = {1, 2}
  MaxRepairs = 1
  MaxCandidates = 2
  MaxCells = 2
  MaxModelFaults = 1
  Feedback <- MCFeedback
  Holdout <- MCHoldout
  MinPairs = 1
  Setups <- MCSetups
  MaxJudgeKills = 1
SYMMETRY Symmetry
CHECK_DEADLOCK FALSE
INVARIANTS CallsAreReserved ResumeIsConsistent AttemptsAreEarned
PROPERTIES EvidenceIsKept
