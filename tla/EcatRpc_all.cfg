SPECIFICATION Spec
CONSTANTS
  MaxRequests = 3
  MaxDrops = 2
  Methods = {"download", "upload"}
CHECK_DEADLOCK FALSE
INVARIANTS TypeOK AnnouncedAsDone
PROPERTIES ContractSpec EveryRequestEnds
