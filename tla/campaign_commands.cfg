SPECIFICATION CommandSpec
CONSTANTS
  t1 = t1
  t2 = t2
  t3 = t3
  TaskOrder <- MCTaskOrder
  ProjectOf <- MCProjectOf
  Setups <- MCSetups
  Anomalies <- MCAnomalies
  Candidate = Candidate
  NoCandidate = NoCandidate
  NotRun = NotRun
  MaxFaults = 1
  Profiles = {"fixture", "live"}
  Parent = 2
  Candidates = {1, 3}
  FixtureScores <- MCScores
  MaxAgentFaults = 2
INVARIANTS CapabilityIsEarned ClaimsAreCausal SealedIsComplete SelectionIsEarned
PROPERTIES CommandAnswers
