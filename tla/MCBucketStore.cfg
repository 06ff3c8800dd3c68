SPECIFICATION Spec
CONSTANTS
  o1 = o1  o2 = o2  o3 = o3
  Ops <- MCOps
  Keys <- MCKeys
  Requests <- MCRequests
  Lossy <- MCOps
  Old = Old  None = None
SYMMETRY OpSymmetry
INVARIANTS
  TypeOK
  SaveFailsForCause
  OneExclusiveSaveWins
  AnswersWereTrue
  OnlyLostAnswersMislead
PROPERTIES
  ImplementsRemoteStore
