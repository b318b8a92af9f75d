SPECIFICATION Spec
CONSTANTS
  s1 = s1
  s2 = s2
  s3 = s3
  o1 = o1
  o2 = o2
  p1 = p1
  p2 = p2
  h1 = h1
  h2 = h2
  c1 = c1
  c2 = c2
  r1 = r1
  NoSnapshot = NoSnapshot
  NoConn = NoConn
  Offers = {o1, o2}
  Threshold = 2
  MinValidPercent = 60
  CapturedAt <- Captured
  Contents <- Lists
  Snapshots = {s1, s2, s3}
  Full = {s1, s2}
  RecordOf <- Separate
  Processes = {p1}
  Hosts = {h1}
  HostOf <- OneProcess
  IdlePool <- OnePool
  Callers = {"api", "import"}
  ManualStatuses = {"IN_STOCK"}
  MaxFaults = 1
INVARIANTS TypeOK LedgerOrdered AvailabilityRecounted DecidedOnce
