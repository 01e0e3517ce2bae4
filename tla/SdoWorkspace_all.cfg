SPECIFICATION FairSpec
CONSTANTS
  k1 = k1
  k2 = k2
  v1 = v1
  v2 = v2
  Keys = {k1}
  Values = {v1, v2}
  Table <- OneObject
  FirstField = v1
  Selections <- WholeTable
  None = None
  Blank = Blank
  MaxOps = 2
  MaxFailures = 1
  MaxLosses = 1
  MaxRows = 2
INVARIANTS
  TypeOK
  OkIsReadBack
  WaitingIsPending
PROPERTIES
  RowVerdictsAreTrue
  WritesAreJudged
CHECK_DEADLOCK FALSE
