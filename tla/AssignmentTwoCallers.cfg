SPECIFICATION FairSpec
CONSTANTS
  Nodes = {n1, n2}
  n1 = n1
  n2 = n2
  Callers = {n1, n2}
  Calls = {c1, c2}
  c1 = c1
  c2 = c2
  MaxSec = 1
  Lossy = FALSE
  None = None
INVARIANT RestMeansInitialised
PROPERTY EveryAssignmentReady
PROPERTY CoordinatorInitialised
CHECK_DEADLOCK FALSE
