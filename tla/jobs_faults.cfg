SPECIFICATION Spec
CONSTANTS
  j1 = j1
  j2 = j2
  s1 = s1
  w1 = w1
  w2 = w2
  Jobs = {j1, j2}
  Sources = {s1}
  SourceOf <- OneSource
  Workers = {w1, w2}
  MaxAttempts = 2
  Faults = {"worker", "abort", "producer", "scheduler", "redeliver", "late"}
  MaxFaults = 1
  NoJob = NoJob
  NoWorker = NoWorker
  Orphan = Orphan
SYMMETRY Symmetry
CHECK_DEADLOCK FALSE
INVARIANTS TypeOK MutualExclusion RetryBudget
