SPECIFICATION FairSpec
CONSTANTS
  m1 = m1
  m2 = m2
  s1 = s1
  s2 = s2
  Masters = {m1, m2}
  FirstMaster = m1
  Slaves = {s1, s2}
  Buses <- TwoSizes
  Projects <- Saved
  None = None
  Blank = Blank
  MaxFlight = 2
  MaxOps = 2
  MaxFailures = 1
  MaxLosses = 1
  MaxChanges = 1
INVARIANTS
  LoadedIsOfSelection
  EvidenceIsOfList
PROPERTIES
  ViewCatchesUp
CHECK_DEADLOCK FALSE
