SPECIFICATION Spec
CONSTANTS
  th1 = th1
  th2 = th2
  ta = ta
  Threads <- MCThreads
  Tenants <- MCTenants
  PerMinute = 2
  MaxConcurrency = 1
  MaxMinute = 1
  MaxRuns = 2
  FaultBudget = 2
SYMMETRY MCSymmetry
INVARIANTS AttendedWithinCap ReapedUnlessFaulted VerdictsAreTrue
PROPERTY LimSpec
CHECK_DEADLOCK FALSE
