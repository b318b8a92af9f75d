------------------------------ MODULE MCPricing ------------------------------
EXTENDS Pricing, TLC

\* What get_or_create_default_policy creates.
Default ==
  [mode |-> "BALANCED", required |-> 0, reserve |-> 0, avito_fixed |-> 0,
   percent |-> 0, profit_fixed |-> 100000, profit_bps |-> 0, markup_fixed |-> 0,
   markup_bps |-> 500, margin |-> 0, aggressive |-> 0, clearance |-> 0,
   step |-> 10000, rounding |-> "UP"]

\* Amounts that no division leaves even, and a step that rounds down below the floor.
Odd ==
  [mode |-> "CLEARANCE", required |-> 1, reserve |-> 1, avito_fixed |-> 1,
   percent |-> 1515, profit_fixed |-> 3, profit_bps |-> 1010, markup_fixed |-> 0,
   markup_bps |-> 0, margin |-> 0, aggressive |-> 0, clearance |-> 0,
   step |-> 7, rounding |-> "NEAREST"]

MCPolicies == {Default, Odd}
=============================================================================
