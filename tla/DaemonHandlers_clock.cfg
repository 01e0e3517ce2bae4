SPECIFICATION Spec
CONSTANTS
  Slaves <- MCSlaves
  Values = {"a", "b"}
  Changes <- MCChanges
  Targets = {"SAFEOP"}
  Requests = {}
  Kinds = {"failover"}
  None = None
  MaxEvents = 2
  MaxHistory = 2
  Budgets <- MCBudgets
PROPERTIES EcrtRefSetIsLive
