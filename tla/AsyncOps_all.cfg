SPECIFICATION Spec
CONSTANTS
  Ops = {o1, o2, o3}
  None = none
  Limits = {1, 2}
  MaxRetained = 1
  Priorities = {1, 3}
  Budgets <- TwoCalls
  OtherThreads = FALSE
CHECK_DEADLOCK FALSE
INVARIANTS SlotsAreCounted NoIdleSlot
PROPERTIES QueuedIsServed StartedIsReported
