SPECIFICATION FairSpec
CONSTANTS
  Forms = {f1}
  Lists = {l1}
  Exports = {e1}
  MaxCalls = 3
  MaxFaults = 1
  NoBatch = NoBatch
CHECK_DEADLOCK FALSE
INVARIANTS TypeOK ShownClosedIsClosed
PROPERTIES LedgerKept FormSettles
