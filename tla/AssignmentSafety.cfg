SPECIFICATION Spec
CONSTANTS
  Nodes = {n1, n2, n3}
  n1 = n1
  n2 = n2
  n3 = n3
  Callers = {n1}
  Calls = {c1, c2}
  c1 = c1
  c2 = c2
  MaxSec = 1
  Lossy = TRUE
  None = None
SYMMETRY Symmetry
INVARIANT TypeOK
INVARIANT CurrentSessionKnown
PROPERTY ImplementsSession
INVARIANT OnlyCoordinatorReady
INVARIANT ReadyMeansInitialised
INVARIANT OrchestratorsAgree
CHECK_DEADLOCK FALSE
