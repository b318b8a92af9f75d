----------------------------- MODULE PricingProofs ----------------------------
(***************************************************************************)
(* Theorems about PriceFormulas, for all amounts and policies, and about   *)
(* Pricing, for every set of policies, suppliers and prices and any number *)
(* of requests and changes.                                                *)
(***************************************************************************)
EXTENDS Pricing, TLAPS

(***************************************************************************)
(* The formulas.                                                           *)
(***************************************************************************)

\* CeilDiv is the least integer that covers the quotient.
LEMMA CeilDivCovers ==
  ASSUME NEW n \in Int, NEW d \in Nat \ {0}
  PROVE  /\ CeilDiv(n, d) \in Int
         /\ d * CeilDiv(n, d) >= n
         /\ d * (CeilDiv(n, d) - 1) < n
  BY DEF CeilDiv

LEMMA CeilDivNat ==
  ASSUME NEW n \in Nat, NEW d \in Nat \ {0}
  PROVE  CeilDiv(n, d) \in Nat
<1> DEFINE c == CeilDiv(n, d)
<1>1. c \in Int /\ d * c >= n
  BY CeilDivCovers
<1> HIDE DEF c
<1>2. c < 0 => d * c < 0
  BY <1>1
<1> QED
  BY <1>1, <1>2 DEF c

\* Nothing depends on the value of the denominator.
LEMMA Denominator == BpsDenominator \in Nat \ {0}
  BY DEF BpsDenominator

LEMMA BpsAmountNat ==
  ASSUME NEW base \in Nat, NEW bps \in Nat
  PROVE  BpsAmount(base, bps) \in Nat
<1>1. base * bps \in Nat
  OBVIOUS
<1> QED
  BY <1>1, CeilDivNat, Denominator DEF BpsAmount

LEMMA LargerNat ==
  ASSUME NEW a \in Nat, NEW b \in Int
  PROVE  Larger(a, b) \in Nat /\ Larger(a, b) >= a /\ Larger(a, b) >= b
  BY DEF Larger

\* UP and NEAREST: the next multiple of the step, or the nearer of the two.
THEOREM RoundsToStep ==
  ASSUME NEW price \in Nat, NEW step \in Nat \ {0}, NEW mode \in {"UP", "NEAREST"}
  PROVE  LET rounded == RoundPrice(price, step, mode) IN
         /\ rounded \in Nat
         /\ \E k \in Nat : rounded = step * k
         /\ mode = "UP" => price <= rounded /\ rounded < price + step
         /\ mode = "NEAREST" => 2 * (price - rounded) < step /\ 2 * (rounded - price) <= step
<1> DEFINE quotient == price \div step
           remainder == price % step
           down == price - remainder
<1>1. /\ quotient \in Int /\ remainder \in Int
      /\ price = step * quotient + remainder
      /\ 0 <= remainder /\ remainder < step
  OBVIOUS
<1> HIDE DEF quotient
<1>2. quotient \in Nat
  <2>1. quotient < 0 => step * quotient <= -step
    BY <1>1
  <2> QED
    BY <1>1, <2>1
<1>3. RoundPrice(price, step, mode)
        = IF remainder = 0 THEN price
          ELSE IF mode = "NEAREST" /\ price - down < (down + step) - price THEN down
          ELSE down + step
  BY DEF RoundPrice
<1> HIDE DEF remainder
<1>4. down = step * quotient /\ down + step = step * (quotient + 1)
  BY <1>1, <1>2
<1>5. CASE remainder = 0
  <2>1. RoundPrice(price, step, mode) = price /\ price = step * quotient
    BY <1>1, <1>3, <1>5
  <2> QED
    BY <2>1, <1>2
<1>6. CASE remainder # 0 /\ mode = "NEAREST" /\ price - down < (down + step) - price
  <2>1. RoundPrice(price, step, mode) = down
    BY <1>3, <1>6
  <2>2. down \in Nat /\ 2 * (price - down) < step /\ 2 * (down - price) <= step
    BY <1>1, <1>6
  <2> QED
    BY <2>1, <2>2, <1>2, <1>4, <1>6
<1>7. CASE remainder # 0 /\ ~(mode = "NEAREST" /\ price - down < (down + step) - price)
  <2>1. RoundPrice(price, step, mode) = down + step
    BY <1>3, <1>7
  <2>2. /\ down + step \in Nat /\ quotient + 1 \in Nat
        /\ price <= down + step /\ down + step < price + step
        /\ mode = "NEAREST" => /\ 2 * (price - (down + step)) < step
                               /\ 2 * ((down + step) - price) <= step
    BY <1>1, <1>2, <1>7
  <2> HIDE DEF down
  <2> QED
    BY <2>1, <2>2, <1>4
<1> QED
  BY <1>5, <1>6, <1>7

LEMMA PolicyTypes ==
  ASSUME NEW policy \in PolicyType
  PROVE  /\ policy.required \in Nat /\ policy.reserve \in Nat /\ policy.avito_fixed \in Nat
         /\ policy.profit_fixed \in Nat /\ policy.profit_bps \in Nat
         /\ policy.markup_fixed \in Nat /\ policy.markup_bps \in Nat
         /\ policy.margin \in Nat /\ policy.aggressive \in Nat /\ policy.clearance \in Nat
         /\ policy.step \in Nat \ {0} /\ policy.rounding \in {"UP", "NEAREST"}
         /\ policy.percent \in Nat /\ policy.percent < BpsDenominator
<1>1. policy.percent \in 0..BpsDenominator - 1
  BY DEF PolicyType
<1>2. \A n \in 0..BpsDenominator - 1 : n \in Nat /\ n < BpsDenominator
  BY Denominator
<1>3. policy.percent \in Nat /\ policy.percent < BpsDenominator
  BY <1>1, <1>2, Zenon
<1> QED
  BY <1>3 DEF PolicyType

LEMMA FormulaTypes ==
  ASSUME NEW cost \in Nat, NEW policy \in PolicyType
  PROVE  /\ MinimumProfit(cost, policy) \in Nat
         /\ Outlay(cost, policy) \in Nat
         /\ HardFloor(cost, policy) \in Nat
         /\ RawPrice(cost, policy) \in Nat
         /\ Recommended(cost, policy) \in Nat
         /\ Recommended(cost, policy) >= HardFloor(cost, policy)
<1>1. /\ policy.required \in Nat /\ policy.reserve \in Nat /\ policy.avito_fixed \in Nat
      /\ policy.profit_fixed \in Nat /\ policy.profit_bps \in Nat
      /\ policy.markup_fixed \in Nat /\ policy.markup_bps \in Nat
      /\ policy.margin \in Nat /\ policy.aggressive \in Nat /\ policy.clearance \in Nat
      /\ policy.step \in Nat \ {0} /\ policy.rounding \in {"UP", "NEAREST"}
      /\ policy.percent \in Nat /\ policy.percent < BpsDenominator
  BY PolicyTypes
<1>2. MinimumProfit(cost, policy) \in Nat
  <2>1. BpsAmount(cost, policy.profit_bps) \in Nat
    BY <1>1, BpsAmountNat
  <2> QED
    BY <1>1, <2>1 DEF MinimumProfit, Larger
<1>3. Outlay(cost, policy) \in Nat
  BY <1>1, <1>2 DEF Outlay
<1>4. HardFloor(cost, policy) \in Nat
  <2>1. /\ Outlay(cost, policy) * BpsDenominator \in Nat
        /\ BpsDenominator - policy.percent \in Nat \ {0}
    BY <1>1, <1>3, Denominator
  <2> QED
    BY <2>1, CeilDivNat DEF HardFloor
<1>5. AutomaticMarkup(cost, policy) \in Nat
  <2> DEFINE base == Larger(policy.markup_fixed, BpsAmount(cost, policy.markup_bps))
  <2>1. base \in Nat
    <3>1. BpsAmount(cost, policy.markup_bps) \in Nat
      BY <1>1, BpsAmountNat
    <3> QED
      BY <1>1, <3>1 DEF Larger
  <2> HIDE DEF base
  <2>2. AutomaticMarkup(cost, policy) \in {base + policy.margin, policy.aggressive, policy.clearance, base}
    BY DEF AutomaticMarkup, base
  <2> QED
    BY <1>1, <2>1, <2>2
<1>6. RawPrice(cost, policy) \in Nat
  <2>1. BpsAmount(HardFloor(cost, policy), policy.percent) \in Nat
    BY <1>1, <1>4, BpsAmountNat
  <2> QED
    BY <1>3, <1>4, <1>5, <2>1 DEF RawPrice, Larger
<1>7. RoundPrice(RawPrice(cost, policy), policy.step, policy.rounding) \in Nat
  BY <1>1, <1>6, RoundsToStep
<1>8. /\ Recommended(cost, policy) \in Nat
      /\ Recommended(cost, policy) >= HardFloor(cost, policy)
  BY <1>4, <1>7, LargerNat DEF Recommended
<1> QED
  BY <1>2, <1>3, <1>4, <1>6, <1>8

\* The hard floor is exact: a price is at or above it iff what Avito leaves of the
\* price, with the percentage rounded up, pays for everything that has to be paid.
\* One unit less does not.
THEOREM FloorExact ==
  ASSUME NEW cost \in Nat, NEW policy \in PolicyType, NEW price \in Nat
  PROVE  price >= HardFloor(cost, policy) <=> Net(price, policy) >= Outlay(cost, policy)
<1> DEFINE N == Outlay(cost, policy)
           b == policy.percent
           F == HardFloor(cost, policy)
           B == BpsAmount(price, b)
           D == BpsDenominator
<1>1. N \in Nat /\ F \in Nat
  BY FormulaTypes
<1>2. b \in Nat /\ b < D /\ D \in Nat \ {0}
  BY PolicyTypes, Denominator
<1>3. (D - b) * F >= N * D /\ (D - b) * (F - 1) < N * D
  <2>1. N * D \in Int /\ D - b \in Nat \ {0}
    BY <1>1, <1>2
  <2> QED
    BY <2>1, CeilDivCovers DEF HardFloor
<1>4. B \in Int /\ D * B >= price * b /\ D * (B - 1) < price * b
  <2>1. price * b \in Int
    BY <1>2
  <2>2. B = CeilDiv(price * b, D)
    BY DEF BpsAmount
  <2> QED
    BY <1>2, <2>1, <2>2, CeilDivCovers
<1>5. Net(price, policy) = price - B
  BY DEF Net
<1> HIDE DEF N, b, F, B, D
<1>6. price * b = price * D - price * (D - b)
  BY <1>2
<1>7. ASSUME price >= F PROVE B <= price - N
  <2>1. price * (D - b) >= F * (D - b)
    BY <1>1, <1>2, <1>7
  <2>2. F * (D - b) = (D - b) * F
    BY <1>1, <1>2
  <2> QED
    BY <1>1, <1>2, <1>3, <1>4, <1>6, <2>1, <2>2
<1>8. ASSUME price < F PROVE B > price - N
  <2>1. price * (D - b) <= (F - 1) * (D - b)
    BY <1>1, <1>2, <1>8
  <2>2. (F - 1) * (D - b) = (D - b) * (F - 1)
    BY <1>1, <1>2
  <2> QED
    BY <1>1, <1>2, <1>3, <1>4, <1>6, <2>1, <2>2
<1>9. price >= F <=> price - B >= N
  BY <1>1, <1>4, <1>7, <1>8
<1> QED
  BY <1>5, <1>9 DEF N, F

-----------------------------------------------------------------------------
(***************************************************************************)
(* Types.                                                                  *)
(***************************************************************************)
LEMMA InactiveDecision ==
  ASSUME NEW verdict \in {"ACTIVE", "REVIEW", "PAUSE", "OUT_OF_STOCK", "NONE"}, NEW manual \in Amount
  PROVE  Inactive(verdict, manual) \in Decision
  BY DEF Inactive, Decision, Amount

LEMMA PricedDecision ==
  ASSUME NEW cost \in Nat, NEW policy \in PolicyType, NEW manual \in Amount
  PROVE  PriceFromCost(cost, policy, manual) \in Decision
<1>1. /\ HardFloor(cost, policy) \in Nat
      /\ MinimumProfit(cost, policy) \in Nat
      /\ Recommended(cost, policy) \in Nat
  BY FormulaTypes
<1> QED
  BY <1>1 DEF PriceFromCost, Decision, Amount

LEMMA WrittenDecision ==
  ASSUME NEW new \in Decision, NEW read \in Decision, NEW stored \in Decision
  PROVE  /\ Written(new, read, stored) \in Decision
         /\ read = stored => Written(new, read, stored) = new
<1>1. Written(new, read, stored) \in Decision
  BY DEF Written, Col, Decision
<1>2. \A a, b : Col(a, b, b) = a
  BY DEF Col
<1>3. Written(new, stored, stored)
        = [cost |-> new.cost, floor |-> new.floor, profit |-> new.profit,
           recommended |-> new.recommended, manual |-> new.manual, final |-> new.final,
           verdict |-> new.verdict]
  BY <1>2 DEF Written
<1>4. Written(new, stored, stored) = new
  BY <1>3 DEF Decision
<1> QED
  BY <1>1, <1>4

LEMMA Constants ==
  /\ NoRow \in Decision
  /\ NoCall \in CallState
  /\ ManualPrices \cup {NoAmount} \subseteq Amount
  /\ \A o \in Offer : o.kind = "selling" => o.price \in Nat
  /\ \A stock \in Inventory : stock.cost \in Amount
<1>1. NoRow \in Decision
  BY InactiveDecision DEF NoRow, Amount
<1>2. NoCall \in CallState
  BY <1>1, PricingAssumption DEF NoCall, CallState
<1>3. ManualPrices \cup {NoAmount} \subseteq Amount
  BY PricingAssumption DEF Amount
<1>4. \A o \in Offer : o.kind = "selling" => o.price \in Nat
  BY PricingAssumption DEF Offer
<1>5. \A stock \in Inventory : stock.cost \in Amount
  BY PricingAssumption DEF Inventory, Stocked, Amount
<1> QED
  BY <1>1, <1>2, <1>3, <1>4, <1>5

\* One step of a request changes its record and nobody else's.
LEMMA CallStep ==
  ASSUME TypeOK, NEW i \in CallIds, NEW from, NEW state \in CallState, Goes(i, from, state)
  PROVE  /\ call' \in [CallIds -> CallState]
         /\ call'[i] = state
         /\ \A k \in CallIds : k # i => call'[k] = call[k]
         /\ sent' = sent /\ changes' = changes
  BY DEF Goes, TypeOK

LEMMA TypeStep ==
  ASSUME TypeOK, [Next]_vars
  PROVE  TypeOK'
<1> DEFINE Kept == UNCHANGED <<inputs, override, row, history>>
<1>0. /\ call \in [CallIds -> CallState] /\ row \in Decision
      /\ override \in ManualPrices \cup {NoAmount}
      /\ sent \in 0..MaxRequests /\ changes \in 0..MaxChanges
  BY DEF TypeOK
\* Steps that only read.
<1>1. ASSUME Kept, call' \in [CallIds -> CallState], sent' \in 0..MaxRequests, changes' = changes
      PROVE  TypeOK'
  BY <1>1 DEF TypeOK, inputs, history
<1>2. ASSUME NEW i \in CallIds, NEW from, NEW state \in CallState, Goes(i, from, state), Kept
      PROVE  TypeOK'
  BY <1>0, <1>1, <1>2, CallStep
<1>3. ASSUME NEW kind \in {"recalculate", "set", "clear"},
             NEW price \in ManualPrices \cup {NoAmount}, Begin(kind, price)
      PROVE  TypeOK'
  <2>1. sent' \in 0..MaxRequests /\ changes' = changes /\ Kept
    <3>1. sent' = sent + 1 /\ sent < MaxRequests
      BY <1>3 DEF Begin
    <3>2. sent' \in 0..MaxRequests
      BY <1>0, <3>1, PricingAssumption
    <3>3. changes' = changes /\ Kept
      BY <1>3 DEF Begin
    <3> QED
      BY <3>2, <3>3
  <2>2. ASSUME NEW b \in BOOLEAN
        PROVE  [NoCall EXCEPT !.kind = kind, !.price = price, !.met = b,
                              !.at = IF kind = "recalculate" THEN "policy" ELSE "find"] \in CallState
    BY Constants DEF CallState
  <2>3. (Handling # {}) \in BOOLEAN
    OBVIOUS
  <2>4. ASSUME NEW k \in CallIds, NEW b \in BOOLEAN
        PROVE  [call[k] EXCEPT !.met = b] \in CallState
    BY <1>0 DEF CallState
  <2>5. \A k \in CallIds : (call[k].met \/ k \in Handling) \in BOOLEAN
    OBVIOUS
  <2>6. \A k \in CallIds : [call[k] EXCEPT !.met = @ \/ k \in Handling] \in CallState
    BY <2>4, <2>5
  <2>7. call' \in [CallIds -> CallState]
    BY <1>3, <2>2, <2>3, <2>6 DEF Begin
  <2> QED
    BY <1>1, <2>1, <2>7
<1>4. ASSUME NEW i \in CallIds, Find(i) PROVE TypeOK'
  <2> DEFINE state == IF call[i].kind = "clear" /\ override = NoAmount THEN NoCall
                      ELSE [call[i] EXCEPT !.at = "store", !.found = override]
  <2>1. state \in CallState
    BY <1>0, Constants DEF CallState
  <2>2. Goes(i, "find", state) /\ Kept
    BY <1>4 DEF Find
  <2> QED
    BY <1>2, <2>1, <2>2
<1>5. ASSUME NEW i \in CallIds, Store(i) PROVE TypeOK'
  <2>1. [call[i] EXCEPT !.at = "refresh"] \in CallState
    BY <1>0 DEF CallState
  <2>2. call' \in [CallIds -> CallState] /\ sent' = sent /\ changes' = changes
    BY <1>5, <2>1, CallStep DEF Store
  <2>3. override' \in ManualPrices \cup {NoAmount}
    BY <1>0, <1>5 DEF Store, Col, CallState
  <2> QED
    BY <1>0, <1>5, <2>2, <2>3 DEF Store, TypeOK, inputs, history
<1>6. ASSUME NEW i \in CallIds, Refresh(i) PROVE TypeOK'
  <2>1. [call[i] EXCEPT !.at = "policy", !.override = override] \in CallState
    BY <1>0 DEF CallState
  <2> QED
    BY <1>2, <1>6, <2>1 DEF Refresh
<1>7. ASSUME NEW i \in CallIds, Delete(i) PROVE TypeOK'
  <2>1. [call[i] EXCEPT !.at = "policy"] \in CallState
    BY <1>0 DEF CallState
  <2>2. call' \in [CallIds -> CallState] /\ sent' = sent /\ changes' = changes
    BY <1>7, <2>1, CallStep DEF Delete
  <2> QED
    BY <1>0, <1>7, <2>2 DEF Delete, TypeOK, inputs, history
<1>8. ASSUME NEW i \in CallIds, ReadPolicy(i) PROVE TypeOK'
  <2> DEFINE chosen == CHOOSE p \in policies : TRUE
             state == IF policies = {} THEN [call[i] EXCEPT !.at = "create"]
                      ELSE [call[i] EXCEPT !.at = Onward(i), !.policy = chosen]
  <2>1. policies # {} => chosen \in policies
    BY Zenon
  <2>2. policies \subseteq Policies
    BY DEF TypeOK
  <2> HIDE DEF chosen
  <2>3. state \in CallState
    BY <1>0, <2>1, <2>2 DEF CallState, Onward
  <2>4. Goes(i, "policy", state) /\ Kept
    BY <1>8 DEF ReadPolicy, chosen
  <2> QED
    BY <1>2, <2>3, <2>4
<1>9. ASSUME NEW i \in CallIds, CreatePolicy(i) PROVE TypeOK'
  <2>1. [call[i] EXCEPT !.at = Onward(i), !.policy = DefaultPolicy] \in CallState
    BY <1>0, PricingAssumption DEF CallState, Onward
  <2>2. call' \in [CallIds -> CallState] /\ sent' = sent /\ changes' = changes
    BY <1>9, <2>1, CallStep DEF CreatePolicy
  <2> QED
    BY <1>0, <1>9, <2>2, PricingAssumption DEF CreatePolicy, TypeOK, history
<1>10. ASSUME NEW i \in CallIds, ReadOverride(i) PROVE TypeOK'
  <2>1. [call[i] EXCEPT !.at = "inventory", !.override = override] \in CallState
    BY <1>0 DEF CallState
  <2> QED
    BY <1>2, <1>10, <2>1 DEF ReadOverride
<1>11. ASSUME NEW i \in CallIds, NEW decision \in Decision
       PROVE  Decided(i, decision) \in CallState
  BY <1>0, <1>11 DEF Decided, CallState
<1>12. ASSUME NEW i \in CallIds
       PROVE  call[i].policy \in PolicyType /\ call[i].override \in Amount
  BY <1>0, <1>12, Constants, PricingAssumption DEF CallState
<1>13. ASSUME NEW i \in CallIds, ReadInventory(i) PROVE TypeOK'
  <2> DEFINE state == IF own.some THEN Decided(i, OwnStock(i)) ELSE [call[i] EXCEPT !.at = "offers"]
  <2>1. own.cost \in Amount
    BY Constants DEF TypeOK
  <2>2. OwnStock(i) \in Decision
    <3>1. CASE own.cost = NoAmount
      BY <3>1, <1>12, InactiveDecision DEF OwnStock
    <3>2. CASE own.cost # NoAmount
      <4>1. own.cost \in Nat
        BY <2>1, <3>2 DEF Amount
      <4> QED
        BY <4>1, <3>2, <1>12, PricedDecision DEF OwnStock
    <3> QED
      BY <3>1, <3>2
  <2>3. [call[i] EXCEPT !.at = "offers"] \in CallState
    BY <1>0 DEF CallState
  <2>4. state \in CallState
    BY <2>2, <2>3, <1>11
  <2>5. Goes(i, "inventory", state) /\ Kept
    BY <1>13 DEF ReadInventory
  <2> HIDE DEF state
  <2> QED
    BY <1>2, <2>4, <2>5
<1>14. ASSUME NEW i \in CallIds, ReadOffers(i) PROVE TypeOK'
  <2>1. Kept
    BY <1>14 DEF ReadOffers
  <2>2. ASSUME NEW s \in Suppliers, offer[s].kind = "selling",
               Goes(i, "offers",
                    Decided(i, PriceFromCost(offer[s].price, call[i].policy, call[i].override)))
        PROVE  TypeOK'
    <3>1. offer[s].price \in Nat
      BY <2>2, Constants DEF TypeOK
    <3>2. PriceFromCost(offer[s].price, call[i].policy, call[i].override) \in Decision
      BY <3>1, <1>12, PricedDecision
    <3> QED
      BY <1>2, <1>11, <2>1, <2>2, <3>2
  <2>3. ASSUME NEW verdict \in {"REVIEW", "PAUSE", "OUT_OF_STOCK"},
               Goes(i, "offers", Decided(i, Inactive(verdict, call[i].override)))
        PROVE  TypeOK'
    <3>1. Inactive(verdict, call[i].override) \in Decision
      BY <1>12, InactiveDecision
    <3> QED
      BY <1>2, <1>11, <2>1, <2>3, <3>1
  <2> QED
    BY <1>14, <2>2, <2>3 DEF ReadOffers
<1>15. ASSUME NEW i \in CallIds, ReadRow(i) PROVE TypeOK'
  <2>1. [call[i] EXCEPT !.at = "commit", !.read = row] \in CallState
    BY <1>0 DEF CallState
  <2> QED
    BY <1>2, <1>15, <2>1 DEF ReadRow
<1>16. ASSUME NEW i \in CallIds, Commit(i) PROVE TypeOK'
  <2>1. /\ call[i].decision \in Decision /\ call[i].read \in Decision
        /\ call[i].policy \in Policies /\ call[i].met \in BOOLEAN
    BY <1>0 DEF CallState
  <2>2. row' \in Decision
    BY <1>0, <1>16, <2>1, WrittenDecision DEF Commit
  <2>3. call' \in [CallIds -> CallState] /\ sent' = sent /\ changes' = changes
    BY <1>16, Constants, CallStep DEF Commit
  <2>4. basis' \in Policies /\ disturbed' \in BOOLEAN
    BY <1>16, <2>1 DEF Commit
  <2> QED
    BY <1>0, <1>16, <2>2, <2>3, <2>4 DEF Commit, TypeOK, inputs
<1>17. ASSUME NEW i \in CallIds, Fail(i) PROVE TypeOK'
  <2>1. call' \in [CallIds -> CallState] /\ sent' = sent /\ changes' = changes
    BY <1>17, Constants, CallStep DEF Fail
  <2>2. disturbed' \in BOOLEAN
    BY <1>17 DEF Fail
  <2> QED
    BY <1>0, <1>17, <2>1, <2>2 DEF Fail, TypeOK, inputs
<1>18. ASSUME Change PROVE /\ changes' \in 0..MaxChanges
                           /\ UNCHANGED <<override, row, call, sent, history>>
  BY <1>0, <1>18, PricingAssumption DEF Change
<1>19. CASE ChangePolicy
  BY <1>18, <1>19 DEF ChangePolicy, TypeOK, history
<1>20. CASE ChangeStock
  BY <1>18, <1>20 DEF ChangeStock, TypeOK, Inventory, history
<1>21. CASE ChangeOffer
  <2>1. offer' \in [Suppliers -> Offer]
    BY <1>21 DEF ChangeOffer, TypeOK
  <2> QED
    BY <1>18, <1>21, <2>1 DEF ChangeOffer, TypeOK, history
<1>22. CASE UNCHANGED vars
  BY <1>22 DEF vars, TypeOK, inputs, history
<1> HIDE DEF Kept
<1> QED
  BY <1>3, <1>4, <1>5, <1>6, <1>7, <1>8, <1>9, <1>10, <1>13, <1>14, <1>15, <1>16, <1>17,
     <1>19, <1>20, <1>21, <1>22
  DEF Next, Step, Recalculate, SetManualPrice, ClearManual

LEMMA InitTypes ==
  ASSUME Init
  PROVE  TypeOK
<1>1. call \in [CallIds -> CallState]
  BY Constants DEF Init
<1>2. 0 \in 0..MaxRequests /\ 0 \in 0..MaxChanges
  BY PricingAssumption
<1>3. /\ policies \in {{}} \cup {{p} : p \in Policies}
      /\ override \in ManualPrices \cup {NoAmount}
      /\ row \in Decision /\ basis \in Policies /\ disturbed \in BOOLEAN
  BY Constants, PricingAssumption DEF Init
<1> QED
  BY <1>1, <1>2, <1>3 DEF Init, TypeOK

\* The types of every variable hold for any number of requests and changes; in
\* particular there is at most one default policy, and no formula leaves Nat.
THEOREM PricingTypes == Spec => []TypeOK
<1>1. Init => TypeOK
  BY InitTypes
<1>2. TypeOK /\ [Next]_vars => TypeOK'
  BY TypeStep
<1> QED
  BY <1>1, <1>2, PTL DEF Spec

-----------------------------------------------------------------------------
(***************************************************************************)
(* The inductive invariant.  Four operators say what is known of a request *)
(* by its position.                                                        *)
(***************************************************************************)

\* What PaysItsWay says of a row, of any decision and the policy it rests on.
Sound(d, policy) ==
  /\ d.verdict = "ACTIVE" => d.final # NoAmount
  /\ d.final # NoAmount =>
       (d.verdict = "ACTIVE" <=> Net(d.final, policy) >= Outlay(d.cost, policy))

\* Which requests get where.
Routed(c) ==
  /\ c.at \in {"find", "store", "refresh"} => c.kind # "recalculate"
  /\ c.at = "override" => c.kind # "set"

\* A decision is sound, and shows the price by hand its request has read.
Deciding(c) ==
  c.at \in {"row", "commit"} => Sound(c.decision, c.policy) /\ c.decision.manual = c.override

HasRead(c) ==
  \/ c.at \in {"policy", "create"} /\ c.kind = "set"
  \/ c.at \in {"inventory", "offers", "row", "commit"}

\* A request that has met nobody holds what is stored: the price by hand from the
\* time it has read it, the decision before it writes its own.
Current(c, manual, stored) ==
  ~c.met =>
    /\ HasRead(c) => c.override = manual
    /\ c.at = "commit" => c.read = stored

\* It has stored or cleared a price by hand and not recalculated yet.
Owes(c) == c.kind # "recalculate" /\ c.at \notin {"none", "find", "store"}

\* A request that has not come is not handled.
Unsent == \A i \in CallIds : i > sent => call[i].at = "none"

\* Requests that are handled at the same time have met.
Met == \A i, k \in Handling : i # k => call[i].met /\ call[k].met

Requests ==
  \A i \in CallIds :
    Routed(call[i]) /\ Deciding(call[i]) /\ Current(call[i], override, row)

Shown == ~disturbed => row.manual = override \/ \E i \in CallIds : Owes(call[i])

Priced == ~disturbed => Sound(row, basis)

IInv == TypeOK /\ Unsent /\ Met /\ Requests /\ Shown /\ Priced

\* A price from a cost is sound whatever the policy and the price by hand are.
LEMMA PricedSound ==
  ASSUME NEW cost \in Nat, NEW policy \in PolicyType, NEW manual \in Amount
  PROVE  Sound(PriceFromCost(cost, policy, manual), policy)
<1> DEFINE d == PriceFromCost(cost, policy, manual)
           floor == HardFloor(cost, policy)
<1>1. /\ floor \in Nat /\ Recommended(cost, policy) \in Nat
      /\ Recommended(cost, policy) >= floor
  BY FormulaTypes
<1>2. /\ d.cost = cost
      /\ d.final = IF manual = NoAmount THEN Recommended(cost, policy) ELSE manual
      /\ d.verdict = IF manual # NoAmount /\ manual < floor THEN "REVIEW" ELSE "ACTIVE"
  BY DEF PriceFromCost
<1>3. d.final \in Nat /\ d.final # NoAmount
  BY <1>1, <1>2 DEF Amount, NoAmount
<1>4. d.verdict = "ACTIVE" <=> d.final >= floor
  <2>1. CASE manual = NoAmount
    BY <2>1, <1>1, <1>2
  <2>2. CASE manual # NoAmount
    <3>1. manual \in Nat /\ d.final = manual
      BY <2>2, <1>2 DEF Amount
    <3> QED
      BY <3>1, <2>2, <1>1, <1>2
  <2> QED
    BY <2>1, <2>2
<1> HIDE DEF d, floor
<1>5. d.final >= floor <=> Net(d.final, policy) >= Outlay(cost, policy)
  BY <1>3, FloorExact DEF floor
<1>6. Sound(d, policy)
  BY <1>2, <1>3, <1>4, <1>5 DEF Sound
<1> QED
  BY <1>6 DEF d

LEMMA InactiveSound ==
  ASSUME NEW verdict \in {"REVIEW", "PAUSE", "OUT_OF_STOCK", "NONE"}, NEW manual, NEW policy
  PROVE  Sound(Inactive(verdict, manual), policy)
  BY DEF Inactive, Sound

\* What a step of request i owes the invariant, when it goes on to a new state.
LEMMA RequestStep ==
  ASSUME IInv, NEW i \in CallIds, NEW from, NEW state \in CallState, from # "none",
         Goes(i, from, state), state.at = "none" \/ state.met = call[i].met
  PROVE  /\ Unsent' /\ Met'
         /\ i \in Handling
         /\ \A k \in CallIds : k # i => call'[k] = call[k]
         /\ \A k \in CallIds : k # i /\ call[k].at # "none" => call[k].met /\ call[i].met
<1>1. /\ call'[i] = state /\ sent' = sent
      /\ \A k \in CallIds : k # i => call'[k] = call[k]
  BY CallStep DEF IInv
<1>2. i \in Handling
  BY DEF Goes, Handling
<1>3. Unsent'
  BY <1>1, <1>2 DEF IInv, Unsent, Handling
<1>4. \A k \in CallIds : k # i /\ call[k].at # "none" => call[k].met /\ call[i].met
  BY <1>2 DEF IInv, Met, Handling
<1>5. Met'
  BY <1>1, <1>4 DEF IInv, Met, Handling
<1> QED
  BY <1>1, <1>2, <1>3, <1>4, <1>5

\* Most steps only read.
LEMMA ReadStep ==
  ASSUME IInv, TypeOK', NEW i \in CallIds, NEW from, NEW state \in CallState, from # "none",
         Goes(i, from, state), state.at = "none" \/ state.met = call[i].met,
         UNCHANGED <<override, row, basis, disturbed>>,
         Routed(state), Deciding(state), Current(state, override, row),
         Owes(call[i]) => Owes(state)
  PROVE  IInv'
<1>1. /\ Unsent' /\ Met' /\ \A k \in CallIds : k # i => call'[k] = call[k]
  BY RequestStep
<1>2. call'[i] = state
  BY CallStep DEF IInv
<1>3. Requests'
  <2> SUFFICES ASSUME NEW k \in CallIds
               PROVE  Routed(call'[k]) /\ Deciding(call'[k]) /\ Current(call'[k], override', row')
    BY DEF Requests, Routed, Deciding, Current
  <2>1. Routed(call[k]) /\ Deciding(call[k]) /\ Current(call[k], override, row)
    BY DEF IInv, Requests
  <2> QED
    BY <1>1, <1>2, <2>1
<1>4. Shown'
  <2>1. ~disturbed' => row'.manual = override' \/ \E k \in CallIds : Owes(call'[k])
    BY <1>1, <1>2 DEF IInv, Shown
  <2> QED
    BY <2>1 DEF Shown, Owes
<1>5. Priced'
  BY DEF IInv, Priced, Sound
<1> QED
  BY <1>1, <1>3, <1>4, <1>5 DEF IInv
\* A request that comes is nobody's rival yet, but all that are handled have met it.
LEMMA BeginStep ==
  ASSUME IInv, TypeOK', NEW kind \in {"recalculate", "set", "clear"}, NEW price, Begin(kind, price)
  PROVE  IInv'
<1> DEFINE new == [NoCall EXCEPT !.kind = kind, !.price = price, !.met = Handling # {},
                                 !.at = IF kind = "recalculate" THEN "policy" ELSE "find"]
           other(k) == [call[k] EXCEPT !.met = @ \/ k \in Handling]
<1>1. /\ sent' = sent + 1 /\ sent \in Nat
      /\ \A k \in CallIds : call'[k] = IF k = sent + 1 THEN new ELSE other(k)
      /\ UNCHANGED <<override, row, basis, disturbed>>
  <2>1. sent \in Nat
    BY PricingAssumption DEF IInv, TypeOK
  <2> QED
    BY <2>1 DEF Begin, history
<1>2. /\ new.kind = kind /\ new.met = (Handling # {})
      /\ new.at = IF kind = "recalculate" THEN "policy" ELSE "find"
  BY DEF NoCall
<1>3. \A k \in CallIds :
        /\ other(k).kind = call[k].kind /\ other(k).at = call[k].at
        /\ other(k).override = call[k].override /\ other(k).policy = call[k].policy
        /\ other(k).decision = call[k].decision /\ other(k).read = call[k].read
        /\ other(k).met = (call[k].met \/ k \in Handling)
  BY DEF IInv, TypeOK, CallState
<1>4. \A k \in CallIds : k = sent + 1 => call[k].at = "none"
  <2>1. sent \in Nat
    BY <1>1
  <2>2. sent + 1 > sent
    BY <2>1
  <2> QED
    BY <2>2 DEF IInv, Unsent
<1> HIDE DEF new, other
<1>5. Unsent'
  BY <1>1, <1>3 DEF IInv, Unsent, CallIds
<1>6. Met'
  <2> SUFFICES ASSUME NEW k \in CallIds, NEW l \in CallIds, k # l,
                      call'[k].at # "none", call'[l].at # "none"
               PROVE  call'[k].met /\ call'[l].met
    BY DEF Met, Handling
  <2>1. CASE k = sent + 1
    <3>1. l # sent + 1 /\ l \in Handling
      BY <1>1, <1>3, <2>1 DEF Handling
    <3> QED
      BY <1>1, <1>2, <1>3, <2>1, <3>1
  <2>2. CASE l = sent + 1
    <3>1. k # sent + 1 /\ k \in Handling
      BY <1>1, <1>3, <2>2 DEF Handling
    <3> QED
      BY <1>1, <1>2, <1>3, <2>2, <3>1
  <2>3. CASE k # sent + 1 /\ l # sent + 1
    <3>1. k \in Handling /\ l \in Handling
      BY <1>1, <1>3, <2>3 DEF Handling
    <3> QED
      BY <1>1, <1>3, <2>3, <3>1
  <2> QED
    BY <2>1, <2>2, <2>3
<1>7. Requests'
  <2> SUFFICES ASSUME NEW k \in CallIds
               PROVE  Routed(call'[k]) /\ Deciding(call'[k]) /\ Current(call'[k], override', row')
    BY DEF Requests, Routed, Deciding, Current, HasRead
  <2>1. Routed(call[k]) /\ Deciding(call[k]) /\ Current(call[k], override, row)
    BY DEF IInv, Requests
  <2>2. CASE k = sent + 1
    <3>1. call'[k] = new
      BY <1>1, <2>2
    <3> QED
      BY <3>1, <1>2 DEF Routed, Deciding, Current, HasRead
  <2>3. CASE k # sent + 1
    <3>1. call'[k] = other(k)
      BY <1>1, <2>3
    <3>2. Routed(other(k)) /\ Deciding(other(k))
      BY <1>3, <2>1 DEF Routed, Deciding
    <3>3. Current(other(k), override, row)
      BY <1>3, <2>1 DEF Current, HasRead
    <3> QED
      BY <3>1, <3>2, <3>3, <1>1
  <2> QED
    BY <2>2, <2>3
<1>8. Shown'
  <2>1. \A k \in CallIds : Owes(call[k]) => Owes(call'[k])
    BY <1>1, <1>3, <1>4 DEF Owes
  <2>2. ~disturbed' => row'.manual = override' \/ \E k \in CallIds : Owes(call'[k])
    BY <1>1, <2>1 DEF IInv, Shown
  <2> QED
    BY <2>2 DEF Shown, Owes
<1>9. Priced'
  BY <1>1 DEF IInv, Priced, Sound
<1> QED
  BY <1>5, <1>6, <1>7, <1>8, <1>9 DEF IInv

\* Storing or clearing a price by hand outdates only what others have read, and they
\* have met; the request owes a recalculation from then on.
LEMMA OverrideStep ==
  ASSUME IInv, TypeOK', NEW i \in CallIds, NEW state \in CallState,
         Goes(i, "store", state), state.met = call[i].met, state.kind = call[i].kind,
         UNCHANGED <<row, basis, disturbed>>,
         \/ state.at = "refresh"
         \/ state.at = "policy" /\ state.kind = "clear"
  PROVE  IInv'
<1>1. /\ Unsent' /\ Met' /\ \A k \in CallIds : k # i => call'[k] = call[k]
      /\ \A k \in CallIds : k # i /\ call[k].at # "none" => call[k].met
  BY RequestStep
<1>2. call'[i] = state
  BY CallStep DEF IInv
<1>3. call[i].at = "store" /\ call[i].kind # "recalculate"
  BY DEF Goes, IInv, Requests, Routed
<1>4. Requests'
  <2> SUFFICES ASSUME NEW k \in CallIds
               PROVE  Routed(call'[k]) /\ Deciding(call'[k]) /\ Current(call'[k], override', row')
    BY DEF Requests, Routed, Deciding, Current, HasRead
  <2>1. Routed(call[k]) /\ Deciding(call[k])
    BY DEF IInv, Requests
  <2>2. CASE k = i
    BY <1>2, <1>3, <2>2 DEF Routed, Deciding, Current, HasRead
  <2>3. CASE k # i
    BY <1>1, <2>1, <2>3 DEF Current, HasRead
  <2> QED
    BY <2>2, <2>3
<1>5. Shown'
  <2>1. Owes(call'[i])
    BY <1>2, <1>3 DEF Owes
  <2> QED
    BY <2>1 DEF Shown, Owes
<1>6. Priced'
  BY DEF IInv, Priced, Sound
<1> QED
  BY <1>1, <1>4, <1>5, <1>6 DEF IInv

\* A decision committed by a request that has met nobody is the row as it was decided,
\* and shows the price by hand that is stored.
LEMMA CommitStep ==
  ASSUME IInv, TypeOK', NEW i \in CallIds, Commit(i)
  PROVE  IInv'
<1>1. /\ NoCall \in CallState /\ NoCall.at = "none"
      /\ Goes(i, "commit", NoCall) /\ call[i].at = "commit"
      /\ override' = override
  BY Constants DEF NoCall, Commit, Goes
<1>2. /\ Unsent' /\ Met' /\ \A k \in CallIds : k # i => call'[k] = call[k]
      /\ \A k \in CallIds : k # i /\ call[k].at # "none" => call[k].met
  BY <1>1, RequestStep
<1>3. call'[i] = NoCall
  BY <1>1, CallStep DEF IInv
<1>4. /\ Routed(call[i]) /\ Deciding(call[i]) /\ Current(call[i], override, row)
      /\ call[i].decision \in Decision /\ call[i].read \in Decision /\ row \in Decision
  BY DEF IInv, Requests, TypeOK, CallState
<1>5. Requests'
  <2> SUFFICES ASSUME NEW k \in CallIds
               PROVE  Routed(call'[k]) /\ Deciding(call'[k]) /\ Current(call'[k], override', row')
    BY DEF Requests, Routed, Deciding, Current, HasRead
  <2>1. Routed(call[k]) /\ Deciding(call[k]) /\ Current(call[k], override, row)
    BY DEF IInv, Requests
  <2>2. CASE k = i
    BY <1>1, <1>3, <2>2 DEF Routed, Deciding, Current, HasRead
  <2>3. CASE k # i
    BY <1>1, <1>2, <2>1, <2>3 DEF Current, HasRead
  <2> QED
    BY <2>2, <2>3
<1>6. ASSUME ~disturbed'
      PROVE  row' = call[i].decision /\ basis' = call[i].policy /\ call[i].override = override
  <2>1. ~call[i].met
    BY <1>6 DEF Commit
  <2>2. call[i].read = row /\ call[i].override = override
    BY <1>1, <1>4, <2>1 DEF Current, HasRead
  <2>3. Written(call[i].decision, call[i].read, row) = call[i].decision
    BY <1>4, <2>2, WrittenDecision
  <2> QED
    BY <2>2, <2>3 DEF Commit
<1>7. Shown'
  BY <1>1, <1>4, <1>6 DEF Shown, Deciding
<1>8. Priced'
  <2>1. ~disturbed' => Sound(row', basis')
    BY <1>1, <1>4, <1>6 DEF Deciding
  <2> QED
    BY <2>1 DEF Priced, Sound
<1> QED
  BY <1>2, <1>5, <1>7, <1>8 DEF IInv

\* A request that owed a recalculation and fails is remembered.
LEMMA FailStep ==
  ASSUME IInv, TypeOK', NEW i \in CallIds, Fail(i)
  PROVE  IInv'
<1>1. /\ NoCall \in CallState /\ NoCall.at = "none"
      /\ Goes(i, call[i].at, NoCall) /\ call[i].at # "none"
      /\ UNCHANGED <<override, row, basis>>
  BY Constants DEF NoCall, Fail
<1>2. /\ Unsent' /\ Met' /\ \A k \in CallIds : k # i => call'[k] = call[k]
  BY <1>1, RequestStep
<1>3. call'[i] = NoCall
  BY <1>1, CallStep DEF IInv
<1>4. Requests'
  <2> SUFFICES ASSUME NEW k \in CallIds
               PROVE  Routed(call'[k]) /\ Deciding(call'[k]) /\ Current(call'[k], override', row')
    BY DEF Requests, Routed, Deciding, Current, HasRead
  <2>1. Routed(call[k]) /\ Deciding(call[k]) /\ Current(call[k], override, row)
    BY DEF IInv, Requests
  <2>2. CASE k = i
    BY <1>1, <1>3, <2>2 DEF Routed, Deciding, Current, HasRead
  <2>3. CASE k # i
    BY <1>1, <1>2, <2>1, <2>3
  <2> QED
    BY <2>2, <2>3
<1>5. ~disturbed' => ~disturbed /\ ~Owes(call[i])
  BY <1>1 DEF Fail, Owes
<1>6. Shown'
  <2>1. ~disturbed' => row'.manual = override' \/ \E k \in CallIds : Owes(call'[k])
    BY <1>1, <1>2, <1>5 DEF IInv, Shown
  <2> QED
    BY <2>1 DEF Shown, Owes
<1>7. Priced'
  <2>1. ~disturbed' => Sound(row', basis')
    BY <1>1, <1>5 DEF IInv, Priced
  <2> QED
    BY <2>1 DEF Priced, Sound
<1> QED
  BY <1>2, <1>4, <1>6, <1>7 DEF IInv

\* Nothing is known of policies, stock and offers.
LEMMA ChangeStep ==
  ASSUME IInv, TypeOK', UNCHANGED <<override, row, call, sent, basis, disturbed>>
  PROVE  IInv'
<1>1. Unsent' /\ Met'
  BY DEF IInv, Unsent, Met, Handling
<1>2. Requests'
  BY DEF IInv, Requests, Routed, Deciding, Current, HasRead, Sound
<1>3. Shown' /\ Priced'
  BY DEF IInv, Shown, Owes, Priced, Sound
<1> QED
  BY <1>1, <1>2, <1>3 DEF IInv
LEMMA InvStep ==
  ASSUME IInv, [Next]_vars
  PROVE  IInv'
<1> DEFINE Same == UNCHANGED <<override, row, basis, disturbed>>
<1>1. TypeOK'
  BY TypeStep DEF IInv
<1>2. /\ call \in [CallIds -> CallState] /\ row \in Decision
      /\ override \in ManualPrices \cup {NoAmount}
      /\ \A i \in CallIds :
           Routed(call[i]) /\ Deciding(call[i]) /\ Current(call[i], override, row)
  BY DEF IInv, TypeOK, Requests
<1>3. NoCall \in CallState /\ NoCall.at = "none"
  BY Constants DEF NoCall
<1>4. ASSUME NEW i \in CallIds, Find(i) PROVE IInv'
  <2>1. CASE call[i].kind = "clear" /\ override = NoAmount
    <3>1. Goes(i, "find", NoCall) /\ Same /\ call[i].at = "find"
      BY <1>4, <2>1 DEF Find, Goes, history
    <3>2. ~Owes(call[i]) /\ Routed(NoCall) /\ Deciding(NoCall) /\ Current(NoCall, override, row)
      BY <1>3, <3>1 DEF Owes, Routed, Deciding, Current, HasRead
    <3> QED
      BY <1>1, <1>3, <3>1, <3>2, ReadStep
  <2>2. CASE ~(call[i].kind = "clear" /\ override = NoAmount)
    <3> DEFINE state == [call[i] EXCEPT !.at = "store", !.found = override]
    <3>1. /\ state \in CallState /\ state.at = "store" /\ state.met = call[i].met
          /\ state.kind = call[i].kind
      BY <1>2 DEF CallState
    <3>2. Goes(i, "find", state) /\ Same /\ call[i].at = "find"
      BY <1>4, <2>2 DEF Find, Goes, history
    <3> HIDE DEF state
    <3>3. ~Owes(call[i]) /\ Routed(state) /\ Deciding(state) /\ Current(state, override, row)
      BY <1>2, <3>1, <3>2 DEF Owes, Routed, Deciding, Current, HasRead
    <3> QED
      BY <1>1, <3>1, <3>2, <3>3, ReadStep
  <2> QED
    BY <2>1, <2>2
<1>5. ASSUME NEW i \in CallIds, Store(i) PROVE IInv'
  <2> DEFINE state == [call[i] EXCEPT !.at = "refresh"]
  <2>1. /\ state \in CallState /\ state.at = "refresh" /\ state.met = call[i].met
        /\ state.kind = call[i].kind
    BY <1>2 DEF CallState
  <2>2. Goes(i, "store", state) /\ UNCHANGED <<row, basis, disturbed>>
    BY <1>5 DEF Store, history
  <2> HIDE DEF state
  <2> QED
    BY <1>1, <2>1, <2>2, OverrideStep
<1>6. ASSUME NEW i \in CallIds, Delete(i) PROVE IInv'
  <2> DEFINE state == [call[i] EXCEPT !.at = "policy"]
  <2>1. /\ state \in CallState /\ state.at = "policy" /\ state.met = call[i].met
        /\ state.kind = call[i].kind /\ call[i].kind = "clear"
    BY <1>2, <1>6 DEF CallState, Delete
  <2>2. Goes(i, "store", state) /\ UNCHANGED <<row, basis, disturbed>>
    BY <1>6 DEF Delete, history
  <2> HIDE DEF state
  <2> QED
    BY <1>1, <2>1, <2>2, OverrideStep
<1>7. ASSUME NEW i \in CallIds, Refresh(i) PROVE IInv'
  <2> DEFINE state == [call[i] EXCEPT !.at = "policy", !.override = override]
  <2>1. /\ state \in CallState /\ state.at = "policy" /\ state.met = call[i].met
        /\ state.kind = call[i].kind /\ state.override = override
    BY <1>2 DEF CallState
  <2>2. Goes(i, "refresh", state) /\ Same /\ call[i].at = "refresh"
    BY <1>7 DEF Refresh, Goes, history
  <2> HIDE DEF state
  <2>3. /\ Owes(call[i]) => Owes(state)
        /\ Routed(state) /\ Deciding(state) /\ Current(state, override, row)
    BY <1>2, <2>1, <2>2 DEF Owes, Routed, Deciding, Current, HasRead
  <2> QED
    BY <1>1, <2>1, <2>2, <2>3, ReadStep
\* The policy read or created; a set has its price by hand already.
<1>8. ASSUME NEW i \in CallIds, NEW state \in CallState, NEW from \in {"policy", "create"},
             Goes(i, from, state), Same, state.at \in {"create", Onward(i)},
             state.met = call[i].met, state.kind = call[i].kind,
             state.override = call[i].override
      PROVE  IInv'
  <2>1. call[i].at = from
    BY <1>8 DEF Goes
  <2>2. Routed(state) /\ Deciding(state)
    BY <1>8 DEF Onward, Routed, Deciding
  <2>3. Current(state, override, row)
    <3>1. HasRead(state) => HasRead(call[i])
      BY <1>8, <2>1 DEF HasRead, Onward
    <3> QED
      BY <1>2, <1>8, <3>1 DEF Current, Onward
  <2>4. Owes(call[i]) => Owes(state)
    BY <1>8 DEF Owes, Onward
  <2> QED
    BY <1>1, <1>8, <2>2, <2>3, <2>4, ReadStep
<1>9. ASSUME NEW i \in CallIds, ReadPolicy(i) PROVE IInv'
  <2> DEFINE chosen == CHOOSE p \in policies : TRUE
             state == IF policies = {} THEN [call[i] EXCEPT !.at = "create"]
                      ELSE [call[i] EXCEPT !.at = Onward(i), !.policy = chosen]
  <2>1. policies # {} => chosen \in policies
    BY Zenon
  <2>2. policies \subseteq Policies
    BY DEF IInv, TypeOK
  <2> HIDE DEF chosen
  <2>3. /\ state \in CallState /\ state.at \in {"create", Onward(i)} /\ state.met = call[i].met
        /\ state.kind = call[i].kind /\ state.override = call[i].override
    BY <1>2, <2>1, <2>2 DEF CallState, Onward
  <2>4. Goes(i, "policy", state) /\ Same
    BY <1>9 DEF ReadPolicy, chosen, history
  <2> HIDE DEF state
  <2> QED
    BY <1>8, <2>3, <2>4
<1>10. ASSUME NEW i \in CallIds, CreatePolicy(i) PROVE IInv'
  <2> DEFINE state == [call[i] EXCEPT !.at = Onward(i), !.policy = DefaultPolicy]
  <2>1. /\ state \in CallState /\ state.at \in {"create", Onward(i)} /\ state.met = call[i].met
        /\ state.kind = call[i].kind /\ state.override = call[i].override
    BY <1>2, PricingAssumption DEF CallState, Onward
  <2>2. Goes(i, "create", state) /\ Same
    BY <1>10 DEF CreatePolicy, history
  <2> HIDE DEF state
  <2> QED
    BY <1>8, <2>1, <2>2
<1>11. ASSUME NEW i \in CallIds, ReadOverride(i) PROVE IInv'
  <2> DEFINE state == [call[i] EXCEPT !.at = "inventory", !.override = override]
  <2>1. /\ state \in CallState /\ state.at = "inventory" /\ state.met = call[i].met
        /\ state.kind = call[i].kind /\ state.override = override
    BY <1>2 DEF CallState
  <2>2. Goes(i, "override", state) /\ Same
    BY <1>11 DEF ReadOverride, history
  <2> HIDE DEF state
  <2>3. /\ Owes(call[i]) => Owes(state)
        /\ Routed(state) /\ Deciding(state) /\ Current(state, override, row)
    BY <2>1 DEF Owes, Routed, Deciding, Current
  <2> QED
    BY <1>1, <2>1, <2>2, <2>3, ReadStep
\* From the inventory on: nothing is read again but the row.
<1>12. ASSUME NEW i \in CallIds, NEW state \in CallState,
              NEW from \in {"inventory", "offers", "row"},
              Goes(i, from, state), Same, state.at \in {"offers", "row", "commit"},
              Deciding(state), state.at = "commit" => state.read = row,
              state.met = call[i].met, state.kind = call[i].kind,
              state.override = call[i].override
       PROVE  IInv'
  <2>1. call[i].at = from
    BY <1>12 DEF Goes
  <2>2. Current(state, override, row)
    BY <1>2, <1>12, <2>1 DEF Current, HasRead
  <2>3. Routed(state) /\ (Owes(call[i]) => Owes(state))
    BY <1>12 DEF Routed, Owes
  <2> QED
    BY <1>1, <1>12, <2>2, <2>3, ReadStep
<1>13. ASSUME NEW i \in CallIds, NEW from \in {"inventory", "offers"}, NEW decision \in Decision,
              Goes(i, from, Decided(i, decision)), Same,
              Sound(decision, call[i].policy), decision.manual = call[i].override
       PROVE  IInv'
  <2> DEFINE state == Decided(i, decision)
  <2>1. /\ state \in CallState /\ state.at = "row" /\ state.met = call[i].met
        /\ state.kind = call[i].kind /\ state.override = call[i].override
        /\ state.policy = call[i].policy /\ state.decision = decision
    BY <1>2 DEF Decided, CallState
  <2> HIDE DEF state
  <2>2. Deciding(state)
    BY <1>13, <2>1 DEF Deciding
  <2>3. Goes(i, from, state)
    BY <1>13 DEF state
  <2> QED
    BY <1>12, <1>13, <2>1, <2>2, <2>3
<1>14. ASSUME NEW i \in CallIds
       PROVE  call[i].policy \in PolicyType /\ call[i].override \in Amount
  BY <1>2, Constants, PricingAssumption DEF CallState
<1>15. ASSUME NEW i \in CallIds, NEW cost \in Nat
       PROVE  LET decision == PriceFromCost(cost, call[i].policy, call[i].override) IN
              /\ decision \in Decision
              /\ Sound(decision, call[i].policy) /\ decision.manual = call[i].override
  <2>1. PriceFromCost(cost, call[i].policy, call[i].override).manual = call[i].override
    BY DEF PriceFromCost
  <2> QED
    BY <1>14, <2>1, PricedDecision, PricedSound
<1>16. ASSUME NEW i \in CallIds, NEW verdict \in {"REVIEW", "PAUSE", "OUT_OF_STOCK"}
       PROVE  LET decision == Inactive(verdict, call[i].override) IN
              /\ decision \in Decision
              /\ Sound(decision, call[i].policy) /\ decision.manual = call[i].override
  <2>1. Inactive(verdict, call[i].override).manual = call[i].override
    BY DEF Inactive
  <2> QED
    BY <1>14, <2>1, InactiveDecision, InactiveSound
<1>17. ASSUME NEW i \in CallIds, ReadInventory(i) PROVE IInv'
  <2>1. Same
    BY <1>17 DEF ReadInventory, history
  <2>2. CASE own.some
    <3>1. Goes(i, "inventory", Decided(i, OwnStock(i)))
      BY <1>17, <2>2 DEF ReadInventory
    <3>2. CASE own.cost = NoAmount
      <4>1. OwnStock(i) = Inactive("REVIEW", call[i].override)
        BY <3>2 DEF OwnStock
      <4> QED
        BY <1>13, <1>16, <2>1, <3>1, <4>1
    <3>3. CASE own.cost # NoAmount
      <4>1. OwnStock(i) = PriceFromCost(own.cost, call[i].policy, call[i].override)
        BY <3>3 DEF OwnStock
      <4>2. own.cost \in Nat
        BY <3>3, Constants DEF IInv, TypeOK, Amount
      <4> QED
        BY <1>13, <1>15, <2>1, <3>1, <4>1, <4>2
    <3> QED
      BY <3>2, <3>3
  <2>3. CASE ~own.some
    <3> DEFINE state == [call[i] EXCEPT !.at = "offers"]
    <3>1. /\ state \in CallState /\ state.at = "offers" /\ state.met = call[i].met
          /\ state.kind = call[i].kind /\ state.override = call[i].override
      BY <1>2 DEF CallState
    <3>2. Goes(i, "inventory", state)
      BY <1>17, <2>3 DEF ReadInventory
    <3> HIDE DEF state
    <3>3. Deciding(state)
      BY <3>1 DEF Deciding
    <3> QED
      BY <1>12, <2>1, <3>1, <3>2, <3>3
  <2> QED
    BY <2>2, <2>3
<1>18. ASSUME NEW i \in CallIds, ReadOffers(i) PROVE IInv'
  <2>1. Same
    BY <1>18 DEF ReadOffers, history
  <2>2. ASSUME NEW s \in Suppliers, offer[s].kind = "selling",
               Goes(i, "offers",
                    Decided(i, PriceFromCost(offer[s].price, call[i].policy, call[i].override)))
        PROVE  IInv'
    <3>1. offer[s].price \in Nat
      BY <2>2, Constants DEF IInv, TypeOK
    <3> QED
      BY <1>13, <1>15, <2>1, <2>2, <3>1
  <2>3. ASSUME NEW verdict \in {"REVIEW", "PAUSE", "OUT_OF_STOCK"},
               Goes(i, "offers", Decided(i, Inactive(verdict, call[i].override)))
        PROVE  IInv'
    BY <1>13, <1>16, <2>1, <2>3
  <2> QED
    BY <1>18, <2>2, <2>3 DEF ReadOffers
<1>19. ASSUME NEW i \in CallIds, ReadRow(i) PROVE IInv'
  <2> DEFINE state == [call[i] EXCEPT !.at = "commit", !.read = row]
  <2>1. /\ state \in CallState /\ state.at = "commit" /\ state.met = call[i].met
        /\ state.kind = call[i].kind /\ state.override = call[i].override /\ state.read = row
        /\ state.policy = call[i].policy /\ state.decision = call[i].decision
    BY <1>2 DEF CallState
  <2>2. Goes(i, "row", state) /\ Same /\ call[i].at = "row"
    BY <1>19 DEF ReadRow, Goes, history
  <2> HIDE DEF state
  <2>3. Deciding(state)
    BY <1>2, <2>1, <2>2 DEF Deciding
  <2> QED
    BY <1>12, <2>1, <2>2, <2>3
<1>20. CASE ChangePolicy \/ ChangeStock \/ ChangeOffer
  <2>1. UNCHANGED <<override, row, call, sent, basis, disturbed>>
    BY <1>20 DEF ChangePolicy, ChangeStock, ChangeOffer, Change, history
  <2> QED
    BY <1>1, <2>1, ChangeStep
<1>21. CASE UNCHANGED vars
  <2>1. UNCHANGED <<override, row, call, sent, basis, disturbed>>
    BY <1>21 DEF vars, history
  <2> QED
    BY <1>1, <2>1, ChangeStep
<1>22. CASE Recalculate \/ SetManualPrice \/ ClearManual
  BY <1>1, <1>22, BeginStep DEF Recalculate, SetManualPrice, ClearManual
<1>23. ASSUME NEW i \in CallIds, Commit(i) \/ Fail(i) PROVE IInv'
  BY <1>1, <1>23, CommitStep, FailStep
<1> HIDE DEF Same
<1> QED
  BY <1>4, <1>5, <1>6, <1>7, <1>9, <1>10, <1>11, <1>17, <1>18, <1>19, <1>20, <1>21, <1>22,
     <1>23
  DEF Next, Step

LEMMA Invariance == Spec => []IInv
<1>1. ASSUME Init PROVE IInv
  <2>1. TypeOK
    BY <1>1, InitTypes
  <2>2. /\ \A i \in CallIds : call[i] = NoCall
        /\ override = NoAmount /\ row = NoRow /\ NoCall.at = "none"
    BY <1>1 DEF Init, NoCall
  <2>3. Unsent /\ Met
    BY <2>2 DEF Unsent, Met, Handling
  <2>4. Requests
    BY <2>2 DEF Requests, Routed, Deciding, Current, HasRead
  <2>5. Shown
    BY <2>2 DEF Shown, NoRow, Inactive
  <2>6. Priced
    BY <2>2, InactiveSound DEF Priced, NoRow
  <2> QED
    BY <2>1, <2>3, <2>4, <2>5, <2>6 DEF IInv
<1>2. IInv /\ [Next]_vars => IInv'
  BY InvStep
<1> QED
  BY <1>1, <1>2, PTL DEF Spec

\* Unless the last decision overlapped another request, the stored price is for sale
\* iff it covers what the goods, the costs, the reserve, the profit and Avito take:
\* for any policies, costs and prices by hand, whatever changes and fails.
THEOREM PriceCovers == Spec => []PaysItsWay
<1>1. IInv => PaysItsWay
  BY DEF IInv, Priced, Sound, PaysItsWay
<1> QED
  BY <1>1, Invariance, PTL

\* When all requests are answered the decision shows the price by hand that is stored,
\* but for overlaps and requests that failed halfway.
THEOREM ManualVisible == Spec => []ManualShown
<1>1. IInv => ManualShown
  BY DEF IInv, Shown, ManualShown, Handling, Owes
<1> QED
  BY <1>1, Invariance, PTL
=============================================================================
