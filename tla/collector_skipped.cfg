SPECIFICATION Spec
CONSTANTS
  t1 = t1
  t2 = t2
  Blank = Blank
  Texts = {t1, t2}
  MaxMessages = 3
  Limit = 1
  Modes = {"INCREMENTAL"}
  Faults = {}
  MaxFaults = 0
  MaxEdits = 0
PROPERTY AdvancesAfterPersisting
