SPECIFICATION FairSpec
CONSTANTS
  Peers = {p1, p2}
  p1 = p1
  p2 = p2
  MaxConns = 2
  MaxEvents = 4
INVARIANT TypeOK
INVARIANT NoDuplicates
INVARIANT CounterNotAhead
INVARIANT GoneUnlisted
PROPERTY ConnectedListed
