SPECIFICATION Spec
CONSTANT MaxGen = 1
INVARIANT MissingShareMeansNoKeygen
CHECK_DEADLOCK FALSE
