SPECIFICATION Spec
CONSTANTS
  o1 = o1  o2 = o2  o3 = o3
  Ops <- MCOps
  Requests <- MCRequests
  Keys <- MCKeys
  Ancestors <- MCAncestors
  Old = Old  None = None  Dir = Dir  Torn = Torn
  MaxLosses = 0
SYMMETRY OpSymmetry
INVARIANTS
  MissingIsNoError
