SPECIFICATION Spec
CONSTANTS
  Starters = {p1, p2}
  Empty = Empty
  Corpse = Corpse
  Foreign = Foreign
SYMMETRY Symmetric
INVARIANTS
  OneAgentPerMac
