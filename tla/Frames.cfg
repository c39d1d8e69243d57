SPECIFICATION FairSpec
CONSTANTS
  Viewers = {v1, v2}
  None = None
  MaxUp = 2
  Cap = 1
  KeepAlive = TRUE
INVARIANTS
  StreamInv
  NoBrokenReference
PROPERTIES
  StalledViewerResumes
