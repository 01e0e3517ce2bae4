SPECIFICATION Spec
CONSTANTS
  m1 = m1
  m2 = m2
  s1 = s1
  s2 = s2
  Masters = {m1, m2}
  FirstMaster = m1
  Slaves = {s1, s2}
  Buses <- Swapped
  Projects = {}
  None = None
  Blank = Blank
  MaxFlight = 3
  MaxOps = 3
  MaxFailures = 0
  MaxLosses = 0
  MaxChanges = 1
INVARIANT LocalEvidenceIsOfList
CHECK_DEADLOCK FALSE
