SPECIFICATION FairSpec
CONSTANTS
  Slaves <- MCSlaves
  Values = {"a", "b"}
  Changes <- MCChanges
  Targets = {"SAFEOP"}
  Requests = {"INIT", "BOOT"}
  Kinds = {"failover"}
  None = None
  MaxEvents = 2
  MaxHistory = 2
  Budgets <- MCBudgets
INVARIANTS FaultsAreLogged
PROPERTIES ChangesAreTold FaultIsSeen ActivationIsApplied
