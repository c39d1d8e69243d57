SPECIFICATION Spec
CONSTANTS
  a1 = a1
  a2 = a2
  b = b
  c = c
  ka = ka
  kb = kb
  kc = kc
  ua = ua
  ub = ub
  s1 = s1
  None = None
  Sessions = {s1}
  Sockets = {a1, a2, b, c}
  KeyOf <- MCKeyOf
  UserOf <- MCUserOf
  Ai = {c}
  Minted = {kc}
  MayWatch = {b, c}
  Flaky = {s1}
  MaxWatchers = 1
  IdleTimeout = 0
  MaxAsked = 1
  MaxTime = 0
INVARIANTS
  TypeOK
  HoldersAgree
  CountdownIsRight
  NotToldBoth
  WatchesFollow
PROPERTIES
  KeepsPromise
