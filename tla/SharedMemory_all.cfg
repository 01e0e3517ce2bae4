SPECIFICATION PartsSpec
CONSTANTS
  Readers = {r1}
  Writers = {w1, w2}
  Inputs = {i1, i2}
  Outputs = {o1}
  OutOfBounds = {e1}
  LeftOver <- Remains
  MaxAttempts = 2
  MaxCycle = 4
  MaxWrites = 3
  MaxWriteCycles = 3
  OrderedLoads = TRUE
  SmallLayouts = {a}
  LargeLayouts = {b}
  None = none
  MaxObjects = 3
  MaxCrashes = 2
  ReAttach = FALSE
CHECK_DEADLOCK FALSE
INVARIANTS TypeOK NoTornRead StoppedIsVisible QuietWritesAreSent QuietWritesAreKept
           LayoutAgreesAfterStops RunningIsLiveAfterStops NameLeadsToSession
PROPERTIES SnapshotSpec ReadReturns
