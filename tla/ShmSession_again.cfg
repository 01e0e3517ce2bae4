SPECIFICATION SessionSpec
CONSTANTS
  SmallLayouts = {a}
  LargeLayouts = {b}
  None = none
  MaxObjects = 2
  MaxCrashes = 0
  ReAttach = TRUE
CHECK_DEADLOCK FALSE
INVARIANTS AttachedIsMapped
