SPECIFICATION FairSpec
CONSTANTS
  N = 3
  Quorum = 2
  Late = {}
  Callers <- OneCaller
  Seconds = {1}
  Rounds <- TwoKinds
  Meshed = TRUE
PROPERTY EveryRunEnds
CHECK_DEADLOCK FALSE
