SPECIFICATION TurnSpec
CONSTANTS
  HostOf <- MCHostOf
  None = None
  Hosts = {m1}
  Sessions = {s1, s2, s3}
  Requests = {r1, r2, r3}
  BootMs = 3
  SettleCapMs = 2
  NoSampleMs = 1
  HumanWaitMs = 2
  ReboundMs = 1
  AgingCount = 1
  AgingWindowMs = 2
  RecentRefusalMs = 2
  SettleSamples = 1
  SettleSpread = 10
  SettleCeiling = 90
  FreshMs = 2
  MinSampleGapMs = 1
  Cpu = {}
  Pressure = {}
  TimerLag = 0
  MaxTime = 4
SYMMETRY Symmetric
INVARIANTS
  HumanWaitBounded
  SlotBounded
  BootsAreAccounted
  WaitHasCause
PROPERTIES
  WindowIsForAutomation
  TickNeverSpins
  AutomationHasItsTurn
