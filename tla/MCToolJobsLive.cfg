SPECIFICATION FairSpec
CONSTANTS
  th1 = th1
  th2 = th2
  ta = ta
  Threads <- MCOneThread
  Tenants <- MCTenants
  PerMinute = 1
  MaxConcurrency = 1
  MaxMinute = 2
  MaxRuns = 2
  FaultBudget = 1
PROPERTIES JobsEventuallyGone SlotsComeBack
CHECK_DEADLOCK FALSE
