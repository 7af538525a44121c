SPECIFICATION Spec
CONSTANTS
  Peers = {p1, p2}
  p1 = p1
  p2 = p2
  MaxConns = 2
  MaxEvents = 4
INVARIANT IdentifiedListed
