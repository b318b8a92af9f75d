SPECIFICATION Spec
CONSTANTS
  Policies <- MCPolicies
  DefaultPolicy <- Default
  Suppliers = {a, b}
  Costs = {20, 33}
  ManualPrices = {32, 49}
  MaxRequests = 2
  MaxChanges = 1
INVARIANTS
  TypeOK
  PaysItsWay
  ManualShown
CHECK_DEADLOCK FALSE
