\* Every bound is named in the README.
SPECIFICATION Spec
CONSTANTS
  Families = {"structured"}
  Rounds = {11}
  SharedFlaws = {}
  Sizes = {1}
  MaxRepairs = 0
  MaxCandidates = 1
  MaxCells = 2
  None = None
  MaxFaults = 1
CHECK_DEADLOCK FALSE
INVARIANT TraceIsOfItsCell
