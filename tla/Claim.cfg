SPECIFICATION Spec
CONSTANTS
  Starters = {p1, p2, p3}
  Empty = Empty
  Corpse = Corpse
  Foreign = Foreign
SYMMETRY Symmetric
INVARIANTS
  ClaimInv
  OneAgentApart
  RefusedByAnAgent
