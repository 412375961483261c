SPECIFICATION Spec
CONSTANTS
  Process = {p1, p2, p3}
  Key = {k1, k2, k3}
  Scenes <- Sound
  p1 = p1 p2 = p2 p3 = p3 k1 = k1 k2 = k2 k3 = k3
INVARIANTS TypeOK MarkedIsWhole UsesWhole Recovers
CHECK_DEADLOCK FALSE
