SPECIFICATION FairSpec
CONSTANTS
  j1 = j1
  j2 = j2
  s1 = s1
  w1 = w1
  w2 = w2
  Jobs = {j1, j2}
  Sources = {s1}
  SourceOf <- OneSource
  Workers = {w1, w2}
  MaxAttempts = 2
  Faults = {"abort"}
  MaxFaults = 1
  NoJob = NoJob
  NoWorker = NoWorker
  Orphan = Orphan
CHECK_DEADLOCK FALSE
PROPERTIES LifecycleKept EveryJobFinishes TerminalNotExecuted
