SPECIFICATION FairSpec
CONSTANTS
  a1 = a1
  a2 = a2
  b = b
  c = c
  ka = ka
  kb = kb
  kc = kc
  ua = ua
  ub = ub
  s1 = s1
  None = None
  Sessions = {s1}
  Sockets = {a1, b, c}
  KeyOf <- MCKeyOf
  UserOf <- MCUserOf
  Ai = {c}
  Minted = {}
  MayWatch = {}
  Flaky = {}
  MaxWatchers = 0
  IdleTimeout = 0
  MaxAsked = 1
  MaxTime = 1
PROPERTY LeftDeviceIsShutDown
