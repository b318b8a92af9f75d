---------------------------- MODULE PriceFormulas ----------------------------
(***************************************************************************)
(* The integer formulas of services/pricing/formulas.py.  Amounts are in   *)
(* minor units, percentages in basis points; NULL is NoAmount.             *)
(***************************************************************************)
EXTENDS Integers

NoAmount == -1
Amount   == Nat \cup {NoAmount}

BpsDenominator == 10000

Modes == {"BALANCED", "MARGIN", "AGGRESSIVE", "CLEARANCE", "MANUAL"}

\* What PricingPolicyCreate and PricingPolicyPatch let into a policy.
PolicyType ==
  [mode : Modes, required : Nat, reserve : Nat, avito_fixed : Nat,
   percent : 0..BpsDenominator - 1, profit_fixed : Nat, profit_bps : Nat,
   markup_fixed : Nat, markup_bps : Nat, margin : Nat, aggressive : Nat,
   clearance : Nat, step : Nat \ {0}, rounding : {"UP", "NEAREST"}]

Larger(a, b) == IF a >= b THEN a ELSE b

\* -(-n // d)
CeilDiv(n, d) == -((-n) \div d)

BpsAmount(base, bps) == CeilDiv(base * bps, BpsDenominator)

RoundPrice(price, step, mode) ==
  LET remainder == price % step
      down      == price - remainder
      up        == down + step
  IN IF remainder = 0 THEN price
     ELSE IF mode = "NEAREST" /\ price - down < up - price THEN down
     ELSE up

MinimumProfit(cost, policy) ==
  Larger(policy.profit_fixed, BpsAmount(cost, policy.profit_bps))

AutomaticMarkup(cost, policy) ==
  LET base == Larger(policy.markup_fixed, BpsAmount(cost, policy.markup_bps))
  IN CASE policy.mode = "MARGIN"     -> base + policy.margin
       [] policy.mode = "AGGRESSIVE" -> policy.aggressive
       [] policy.mode = "CLEARANCE"  -> policy.clearance
       [] OTHER                      -> base

\* What a sale has to bring in besides Avito's percentage.
Outlay(cost, policy) ==
  cost + policy.required + policy.reserve + policy.avito_fixed + MinimumProfit(cost, policy)

HardFloorDown(cost, policy) ==   \* mutant: // without the two minus signs
  (Outlay(cost, policy) * BpsDenominator) \div (BpsDenominator - policy.percent)

HardFloor(cost, policy) ==
  CeilDiv(Outlay(cost, policy) * BpsDenominator, BpsDenominator - policy.percent)

\* With the costs of Avito taken at the floor, whatever the price becomes.
RawPrice(cost, policy) ==
  LET floor == HardFloor(cost, policy)
  IN Larger(floor, Outlay(cost, policy) + BpsAmount(floor, policy.percent)
                     + AutomaticMarkup(cost, policy))

Recommended(cost, policy) ==
  Larger(HardFloor(cost, policy),
         RoundPrice(RawPrice(cost, policy), policy.step, policy.rounding))

(***************************************************************************)
(* A decision: the columns of variant_pricing_states that say what is      *)
(* asked for the variant and why.                                          *)
(***************************************************************************)
Decision ==
  [cost : Amount, floor : Amount, profit : Amount, recommended : Amount,
   manual : Amount, final : Amount,
   verdict : {"ACTIVE", "REVIEW", "PAUSE", "OUT_OF_STOCK", "NONE"}]

Inactive(verdict, manual) ==
  [cost |-> NoAmount, floor |-> NoAmount, profit |-> NoAmount,
   recommended |-> NoAmount, manual |-> manual, final |-> NoAmount,
   verdict |-> verdict]

\* price_from_cost: a price by hand replaces the recommended one, and below the
\* floor it goes to review.
PriceFromCost(cost, policy, manual) ==
  LET floor == HardFloor(cost, policy) IN
  [cost |-> cost, floor |-> floor, profit |-> MinimumProfit(cost, policy),
   recommended |-> Recommended(cost, policy), manual |-> manual,
   final   |-> IF manual = NoAmount THEN Recommended(cost, policy) ELSE manual,
   verdict |-> IF manual # NoAmount /\ manual < floor THEN "REVIEW" ELSE "ACTIVE"]
=============================================================================
