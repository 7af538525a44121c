SPECIFICATION FairSpec
CONSTANTS
  Calls = {c1, c2}
  c1 = c1
  c2 = c2
  MaxGen = 2
  Initiations = 1
INVARIANT TypeOK
INVARIANT AnswerIsOwn
PROPERTY TimeoutHasCause
PROPERTY EveryCallReturns
PROPERTY LoopComesBack
CHECK_DEADLOCK FALSE
