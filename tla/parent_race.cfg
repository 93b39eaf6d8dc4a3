\* Every bound is named in the README.
SPECIFICATION Spec
CONSTANTS
  Dispatchers = {"revision"}
  Procs = {p1, p2}
  CallIds = {k1}
  Requests = {"r1"}
  Answers <- MCAnswers
  MaxCalls = 1
  None = None
  Torn = Torn
  MaxFaults = 0
INVARIANT DispatchedOnce
