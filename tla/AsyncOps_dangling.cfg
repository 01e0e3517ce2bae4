SPECIFICATION Spec
CONSTANTS
  Ops = {o1, o2}
  None = none
  Limits = {1}
  MaxRetained = 1
  Priorities = {1}
  Budgets <- CancelThenAll
  OtherThreads = FALSE
CHECK_DEADLOCK FALSE
INVARIANT NoDanglingRead
