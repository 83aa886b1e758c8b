SPECIFICATION Spec
CONSTANTS
  NLinks = 2
  NConns = 2
  p1 = p1
  p2 = p2
  Peers = {p1, p2}
  None = None
  Uses <- TwoUses
INVARIANT OneAdvertiser
CHECK_DEADLOCK FALSE
