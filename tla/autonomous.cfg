SPECIFICATION FairSpec
CONSTANTS
  t1 = t1
  t2 = t2
  t3 = t3
  t4 = t4
  e1 = e1
  e2 = e2
  f1 = f1
  p1 = p1
  p2 = p2
  Tasks = {t1, t2, t3, t4}
  ProjectOf <- TwoProjects
  Count = 2
  TargetGains = 2
  MaxRounds = 3
  Patience = 2
  MaxInfra = 2
  MaxSame = 2
  MaxFailed = 1
  InfraReasons = TRUE
  TeacherAnswers = {"compiled", "invalid", "exceeded"}
  CampaignKinds = {"completed", "screened", "raised", "lost", "partial", "unverified", "unlinked"}
  Facts = {f1}
  Errors = {e1, e2}
  DiskMayFill = TRUE
  StopPoints <- AnyPoint
  MaxStops = 1
INVARIANTS CountersAreRebuilt BestIsAccepted AcceptedIsProgress
PROPERTIES RunEnds
