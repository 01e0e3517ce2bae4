SPECIFICATION SessionSpec
CONSTANTS
  SmallLayouts = {a}
  LargeLayouts = {b}
  None = none
  MaxObjects = 2
  MaxCrashes = 1
  ReAttach = FALSE
CHECK_DEADLOCK FALSE
INVARIANTS MappingFits
