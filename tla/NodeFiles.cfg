SPECIFICATION Spec
CONSTANTS
  Nodes = {n1, n2}
  n1 = n1
  n2 = n2
  Indices = {i0, i1}
  i0 = i0
  i1 = i1
  Generations = {1, 2}
  MaxKeys = 2
  MaxPrimes = 3
  ReadErrors = TRUE
SYMMETRY Symmetry
INVARIANT TypeOK
INVARIANT SeenIdentityOnDisk
INVARIANT SamePeerIdAgain
INVARIANT RefusesOnlyUnseen
INVARIANT OwnPrimes
