\* Every bound is named in the README.
SPECIFICATION Spec
CONSTANTS
  Dispatchers = {"localization"}
  Procs = {p1}
  CallIds = {k1}
  Requests = {"r1", "r2"}
  Answers <- MCAnswers
  MaxCalls = 1
  None = None
  Torn = Torn
  MaxFaults = 1
INVARIANT AbortedIsNotResent
