SPECIFICATION Spec
CONSTANTS
  Ops = {o1, o2, o3}
  None = none
  Limits = {1}
  MaxRetained = 1
  Priorities = {1}
  Budgets <- Undisturbed
  OtherThreads = TRUE
CHECK_DEADLOCK FALSE
INVARIANT ConcurrencyBounded
