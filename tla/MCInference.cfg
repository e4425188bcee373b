SPECIFICATION Spec
CONSTANTS
  Threads = {th1, th2}
  Tenants = {ta, tb}
  PerMinute = 1
  MaxConcurrency = 1
  MaxMinute = 2
  Surfaces <- MCSurfaces
  MaxRetries = 1
  Backoff = 1
  StreamCap = 1
  ConnectTime = 1
  AnswerTime = 2
  LineTime = 1
  WriteTime = 1
  MaxModels = 2
INVARIANTS LimiterHolds ServedOnce SlotHeldBounded OneFailureIsOne
SYMMETRY MCSymmetry
