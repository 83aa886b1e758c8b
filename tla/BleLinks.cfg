SPECIFICATION Liveness
CONSTANTS
  NLinks = 2
  NConns = 2
  p1 = p1
  p2 = p2
  Peers = {p1, p2}
  None = None
  Uses <- LinkUses
INVARIANTS TypeOK HeadServed InTurn OwnBond
PROPERTY Answered
CHECK_DEADLOCK FALSE
