SPECIFICATION FairSpec
CONSTANTS
  k1 = k1
  k2 = k2
  v1 = v1
  v2 = v2
  Keys = {k1}
  Values = {v1, v2}
  Table <- OneObject
  FirstField = v1
  Selections <- AnySelection
  None = None
  Blank = Blank
  MaxOps = 2
  MaxFailures = 0
  MaxLosses = 0
  MaxRows = 2
PROPERTY RowVerdictsAreTrue
CHECK_DEADLOCK FALSE
