SPECIFICATION FairSpec
CONSTANTS
  t1 = t1
  t2 = t2
  Blank = Blank
  Texts = {t1, t2}
  MaxMessages = 3
  Limit = 2
  Modes = {"BACKFILL", "INCREMENTAL"}
  Faults = {"crash", "network", "persist", "downstream"}
  MaxFaults = 1
  MaxEdits = 2
INVARIANTS TypeOK NoneSkipped
PROPERTIES CompletedCovers EveryMessageSaved
