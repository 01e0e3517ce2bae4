SPECIFICATION SessionSpec
CONSTANTS
  SmallLayouts = {a, b}
  LargeLayouts = {}
  None = none
  MaxObjects = 2
  MaxCrashes = 0
  ReAttach = FALSE
CHECK_DEADLOCK FALSE
INVARIANTS LayoutAgrees
