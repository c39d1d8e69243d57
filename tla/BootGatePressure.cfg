SPECIFICATION Spec
CONSTANTS
  HostOf <- MCHostOf
  None = None
  Hosts = {m1}
  Sessions = {s1, s2}
  Requests = {r1, r2}
  BootMs = 1
  SettleCapMs = 1
  NoSampleMs = 1
  HumanWaitMs = 1
  ReboundMs = 1
  AgingCount = 1
  AgingWindowMs = 1
  RecentRefusalMs = 2
  SettleSamples = 1
  SettleSpread = 10
  SettleCeiling = 90
  FreshMs = 1
  MinSampleGapMs = 1
  Cpu = {20}
  Pressure = {"critical", "normal"}
  TimerLag = 1
  MaxTime = 2
SYMMETRY Symmetric
INVARIANTS
  TypeOK
  TimerCoversDeadlines
  ToldReasonIsCurrent
  LeaseMirrorsAdmit
PROPERTIES
  SettleTakesItsTime
