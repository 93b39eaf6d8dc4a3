SPECIFICATION PartSpec
CONSTANTS
  a = a
  b = b
  i = i
  j = j
  v1 = v1
  v2 = v2
  None = None
  Trips = {a, b}
  Revisions = {i, j}
  Contents = {1, 2}
  Outcomes = {"gain", "neutral"}
  Approvals = {1}
  MaxDepth = 2
  MaxFaults = 1
  Kinds = {"receipts", "evidence", "registry", "decisions", "portfolio", "tasks", "index", "search_parent", "live_parent",
           "freeze_json"}
  Procs = {a, b}
  Ids = {i, j}
  Values = {v1, v2}
  Nobody = Nobody
  Dead = Dead
  Absent = Absent
  Partial = Partial
  Torn = Torn
  Garbage = Garbage
  MaxStoreFaults = 2
SYMMETRY Symmetry
INVARIANTS DecisionIsSound DecidedIsReplayed AcknowledgedIsFound StoredIsSound
