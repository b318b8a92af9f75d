SPECIFICATION Spec
CONSTANTS
  Prices = {p1, p2}
  NoPrice = NoPrice
  RowPrice = p1
  Types = {CREATE, PAUSE}
  MaxRequests = 3
INVARIANTS
  TypeOK
  OneOutcome
  AlertsMatch
  ApprovalsCurrent
  BindingTrue
PROPERTY
  PreparedApproved
CHECK_DEADLOCK FALSE
