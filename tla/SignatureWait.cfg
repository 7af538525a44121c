SPECIFICATION FairSpec
CONSTANTS
  Calls = {c1}
  c1 = c1
  MaxGen = 1
  Initiations = 1
PROPERTY WaitLetsRunGoOn
CHECK_DEADLOCK FALSE
