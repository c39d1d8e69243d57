SPECIFICATION FairSpec
CONSTANTS
  Devices = {d1}
  Reports <- Details
  NoVer = NoVer
  Absent = Absent
  None = None
  n1 = n1
  n2 = n2
  v1 = v1
  MaxChanges = 2
  MaxGlitches = 2
  MaxConnects = 2
  MaxWire = 2
INVARIANTS
  TypeOK
  SentListIsReal
  ListsAgree
PROPERTIES
  EndsAreJust
  ListCatchesUp
CHECK_DEADLOCK FALSE
