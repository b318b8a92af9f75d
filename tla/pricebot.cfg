SPECIFICATION FairSpec
CONSTANTS
  Channels = {c1}
  Suppliers = {s1}
  Pages = {p1}
  MaxUpdates = 2
  MaxEvents = 2
  Unseen = Unseen
  Refused = Refused
  NoSource = NoSource
INVARIANTS
  TypeOK
  CountedOnce
PROPERTIES
  IntakeKept
  RevisionsGrow
  QueueMoves
  BusyEnds
CHECK_DEADLOCK FALSE
