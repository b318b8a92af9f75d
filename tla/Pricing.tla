------------------------------- MODULE Pricing -------------------------------
(***************************************************************************)
(* The price of one variant (services/pricing/engine.py): requests that    *)
(* recalculate it, set it by hand or clear that, while policies, stock and *)
(* offers change.                                                          *)
(*                                                                         *)
(* Every request has a session of its own and holds no lock: it reads the  *)
(* policy, the price by hand, the stock and the offers one after the       *)
(* other, decides, reads the stored decision, and writes the columns that  *)
(* differ from the one it read.  A bulk recalculation does this for one    *)
(* variant after another.                                                  *)
(*                                                                         *)
(* Time is not modelled: which offers are stale is free.                   *)
(***************************************************************************)
EXTENDS PriceFormulas

CONSTANTS
  Policies,       \* contents of a default policy
  DefaultPolicy,  \* the one get_or_create_default_policy creates
  Suppliers,
  Costs,          \* own costs and prices of offers
  ManualPrices,
  MaxRequests,    \* bound: requests
  MaxChanges      \* bound: changes of policy, stock and offers

CallIds == 1..MaxRequests

ASSUME PricingAssumption ==
  /\ Policies \subseteq PolicyType
  /\ DefaultPolicy \in Policies
  /\ Costs \subseteq Nat
  /\ ManualPrices \subseteq Nat
  /\ MaxRequests \in Nat
  /\ MaxChanges \in Nat

VARIABLES
  policies,   \* the enabled default policy, if there is one
  override,   \* variant_pricing_overrides: the price by hand
  own,        \* variant_inventory_states
  offer,      \* [Suppliers -> Offer]
  row,        \* variant_pricing_states
  call,       \* [CallIds -> CallState]
  sent,       \* requests sent so far
  changes,    \* changes so far
  basis,      \* history: the policy of the last decision committed
  disturbed   \* history: the last decision met another request, or a price by
              \* hand was stored or cleared by a request that failed then

inputs  == <<policies, own, offer>>
history == <<basis, disturbed>>
vars    == <<inputs, override, row, call, sent, changes, history>>

\* The importer refuses a line without a cost: only where it has never had the
\* variant there is none.
Stocked   == [some : BOOLEAN, cost : Costs]
Inventory == Stocked \cup [some : {FALSE}, cost : {NoAmount}]

\* "absent" stands for every availability but IN_STOCK, "conflict" for an offer with
\* an open DataConflict; the price of neither is read.
Offer ==
  [kind : {"selling"}, price : Costs] \cup [kind : {"absent", "conflict"}, price : {NoAmount}]

NoRow == Inactive("NONE", NoAmount)

CallState ==
  [kind     : {"recalculate", "set", "clear"},
   at       : {"none", "find", "store", "refresh", "policy", "create", "override",
               "inventory", "offers", "row", "commit"},
   price    : ManualPrices \cup {NoAmount},
   found    : ManualPrices \cup {NoAmount},   \* the price by hand as it was found
   policy   : Policies,
   override : ManualPrices \cup {NoAmount},   \* the one the decision rests on
   decision : Decision,
   read     : Decision,
   met      : BOOLEAN]                        \* history: handled beside another

NoCall ==
  [kind |-> "recalculate", at |-> "none", price |-> NoAmount, found |-> NoAmount,
   policy |-> DefaultPolicy, override |-> NoAmount, decision |-> NoRow,
   read |-> NoRow, met |-> FALSE]

TypeOK ==
  /\ policies \in {{}} \cup {{p} : p \in Policies}
  /\ override \in ManualPrices \cup {NoAmount}
  /\ own \in Inventory
  /\ offer \in [Suppliers -> Offer]
  /\ row \in Decision
  /\ call \in [CallIds -> CallState]
  /\ sent \in 0..MaxRequests
  /\ changes \in 0..MaxChanges
  /\ basis \in Policies
  /\ disturbed \in BOOLEAN

Init ==
  /\ policies = {}
  /\ override = NoAmount
  /\ own \in Inventory
  /\ offer \in [Suppliers -> Offer]
  /\ row = NoRow
  /\ call = [i \in CallIds |-> NoCall]
  /\ sent = 0
  /\ changes = 0
  /\ basis = DefaultPolicy
  /\ disturbed = FALSE

Handling == {i \in CallIds : call[i].at # "none"}

-----------------------------------------------------------------------------
(***************************************************************************)
(* Requests.                                                               *)
(***************************************************************************)

\* A request comes; those it is handled beside have met it.
Begin(kind, price) ==
  /\ sent < MaxRequests
  /\ sent' = sent + 1
  /\ call' = [i \in CallIds |->
       IF i = sent + 1
       THEN [NoCall EXCEPT !.kind = kind, !.price = price, !.met = Handling # {},
                           !.at = IF kind = "recalculate" THEN "policy" ELSE "find"]
       ELSE [call[i] EXCEPT !.met = @ \/ i \in Handling]]
  /\ UNCHANGED <<inputs, override, row, changes, history>>

Recalculate    == Begin("recalculate", NoAmount)
SetManualPrice == \E price \in ManualPrices : Begin("set", price)
ClearManual    == Begin("clear", NoAmount)

\* The step of request i that brings it from one position to the next.
Goes(i, from, state) ==
  /\ call[i].at = from
  /\ call' = [call EXCEPT ![i] = state]
  /\ UNCHANGED <<sent, changes>>

\* The price by hand, if there is one; without one there is nothing to clear.
Find(i) ==
  /\ Goes(i, "find", IF call[i].kind = "clear" /\ override = NoAmount THEN NoCall
                     ELSE [call[i] EXCEPT !.at = "store", !.found = override])
  /\ UNCHANGED <<inputs, override, row, history>>

\* What the ORM writes of an attribute: nothing, if it is as it was read.
Col(new, read, stored) == IF new # read THEN new ELSE stored

\* An INSERT or an UPDATE; either fails when the row has come or gone meanwhile.
Store(i) ==
  /\ call[i].kind = "set"
  /\ (call[i].found = NoAmount) = (override = NoAmount)
  /\ Goes(i, "store", [call[i] EXCEPT !.at = "refresh"])
  /\ override' = Col(call[i].price, call[i].found, override)
  /\ UNCHANGED <<inputs, row, history>>

RefreshStale(i) ==   \* mutant: decides on the price found before the commit
  /\ Goes(i, "refresh", [call[i] EXCEPT !.at = "policy", !.override = call[i].found])
  /\ UNCHANGED <<inputs, override, row, history>>

\* The session forgets what it has read and reads the price by hand again.
Refresh(i) ==
  /\ override # NoAmount
  /\ Goes(i, "refresh", [call[i] EXCEPT !.at = "policy", !.override = override])
  /\ UNCHANGED <<inputs, override, row, history>>

\* A row that is gone is deleted all the same.
Delete(i) ==
  /\ call[i].kind = "clear"
  /\ Goes(i, "store", [call[i] EXCEPT !.at = "policy"])
  /\ override' = NoAmount
  /\ UNCHANGED <<inputs, row, history>>

\* After the policy: the price by hand, which the session of a set has already.
Onward(i) == IF call[i].kind = "set" THEN "inventory" ELSE "override"

ReadPolicy(i) ==
  /\ Goes(i, "policy",
          IF policies = {} THEN [call[i] EXCEPT !.at = "create"]
          ELSE [call[i] EXCEPT !.at = Onward(i), !.policy = CHOOSE p \in policies : TRUE])
  /\ UNCHANGED <<inputs, override, row, history>>

CreatePolicyUnchecked(i) ==   \* mutant: no second look and no unique index
  /\ policies' = policies \cup {DefaultPolicy}
  /\ Goes(i, "create", [call[i] EXCEPT !.at = Onward(i), !.policy = DefaultPolicy])
  /\ UNCHANGED <<own, offer, override, row, history>>

\* The second look, the INSERT and its refresh; with a default policy there by now
\* the request fails.
CreatePolicy(i) ==
  /\ policies = {}
  /\ policies' = {DefaultPolicy}
  /\ Goes(i, "create", [call[i] EXCEPT !.at = Onward(i), !.policy = DefaultPolicy])
  /\ UNCHANGED <<own, offer, override, row, history>>

ReadOverride(i) ==
  /\ Goes(i, "override", [call[i] EXCEPT !.at = "inventory", !.override = override])
  /\ UNCHANGED <<inputs, override, row, history>>

Decided(i, decision) == [call[i] EXCEPT !.at = "row", !.decision = decision]

\* Own goods go first, whatever suppliers ask.
OwnStock(i) ==
  IF own.cost = NoAmount THEN Inactive("REVIEW", call[i].override)
  ELSE PriceFromCost(own.cost, call[i].policy, call[i].override)

ReadInventory(i) ==
  /\ Goes(i, "inventory",
          IF own.some THEN Decided(i, OwnStock(i)) ELSE [call[i] EXCEPT !.at = "offers"])
  /\ UNCHANGED <<inputs, override, row, history>>

\* The cheapest offer that is in stock, without conflict and not stale.
ReadOffers(i) ==
  /\ \E stale \in SUBSET {s \in Suppliers : offer[s].kind = "selling"} :
       LET fresh == {s \in Suppliers : offer[s].kind = "selling"} \ stale IN
       \/ \E s \in fresh :
            /\ \A t \in fresh : offer[s].price <= offer[t].price
            /\ Goes(i, "offers",
                    Decided(i, PriceFromCost(offer[s].price, call[i].policy, call[i].override)))
       \/ /\ fresh = {}
          /\ Goes(i, "offers", Decided(i, Inactive(
               IF \E s \in Suppliers : offer[s].kind = "conflict" THEN "REVIEW"
               ELSE IF stale # {} THEN "PAUSE"
               ELSE "OUT_OF_STOCK", call[i].override)))
  /\ UNCHANGED <<inputs, override, row, history>>

ReadRow(i) ==
  /\ Goes(i, "row", [call[i] EXCEPT !.at = "commit", !.read = row])
  /\ UNCHANGED <<inputs, override, row, history>>

\* A decision written over the row it was compared with, column by column.
Written(new, read, stored) ==
  [cost        |-> Col(new.cost, read.cost, stored.cost),
   floor       |-> Col(new.floor, read.floor, stored.floor),
   profit      |-> Col(new.profit, read.profit, stored.profit),
   recommended |-> Col(new.recommended, read.recommended, stored.recommended),
   manual      |-> Col(new.manual, read.manual, stored.manual),
   final       |-> Col(new.final, read.final, stored.final),
   verdict     |-> Col(new.verdict, read.verdict, stored.verdict)]

\* A first decision is inserted, and only once.
Commit(i) ==
  /\ (call[i].read = NoRow) = (row = NoRow)
  /\ Goes(i, "commit", NoCall)
  /\ row' = IF row = NoRow THEN call[i].decision
            ELSE Written(call[i].decision, call[i].read, row)
  /\ basis' = call[i].policy
  /\ disturbed' = call[i].met
  /\ UNCHANGED <<inputs, override>>

\* A unique key, a row that is gone, an amount that does not fit its column, a
\* connection or a process: the open transaction is rolled back.  The price by hand
\* has been committed from "refresh" on.
Fail(i) ==
  /\ Goes(i, call[i].at, NoCall)
  /\ call[i].at # "none"
  /\ disturbed' = (disturbed \/ (call[i].kind # "recalculate" /\ call[i].at \notin {"find", "store"}))
  /\ UNCHANGED <<inputs, override, row, basis>>

-----------------------------------------------------------------------------
(***************************************************************************)
(* What the rest of the system changes.                                    *)
(***************************************************************************)
Change ==
  /\ changes < MaxChanges
  /\ changes' = changes + 1
  /\ UNCHANGED <<override, row, call, sent, history>>

\* Create, patch or disable the default policy; a unique index keeps it alone.
ChangePolicy ==
  /\ Change
  /\ \/ \E p \in Policies : policies' = {p}
     \/ policies' = {}
  /\ UNCHANGED <<own, offer>>

ChangeStock ==
  /\ Change
  /\ own' \in Stocked
  /\ UNCHANGED <<policies, offer>>

ChangeOffer ==
  /\ Change
  /\ \E s \in Suppliers, o \in Offer : offer' = [offer EXCEPT ![s] = o]
  /\ UNCHANGED <<policies, own>>

Step(i) ==
  \/ Find(i) \/ Store(i) \/ Refresh(i) \/ Delete(i)
  \/ ReadPolicy(i) \/ CreatePolicy(i) \/ ReadOverride(i) \/ ReadInventory(i)
  \/ ReadOffers(i) \/ ReadRow(i) \/ Commit(i) \/ Fail(i)

Next ==
  \/ Recalculate \/ SetManualPrice \/ ClearManual
  \/ \E i \in CallIds : Step(i)
  \/ ChangePolicy \/ ChangeStock \/ ChangeOffer

Spec == Init /\ [][Next]_vars

-----------------------------------------------------------------------------
(***************************************************************************)
(* Properties.                                                             *)
(***************************************************************************)

\* What is left of a price after Avito's percentage.
Net(price, policy) == price - BpsAmount(price, policy.percent)

\* Unless the last decision overlapped another request, the stored price is for sale
\* iff what Avito leaves of it pays for the goods, the required costs, the reserve
\* and the minimum profit: rounding never takes a part of these, and a price by hand
\* is neither let through below that nor sent to review above it.
PaysItsWay ==
  ~disturbed =>
    /\ row.verdict = "ACTIVE" => row.final # NoAmount
    /\ row.final # NoAmount =>
         (row.verdict = "ACTIVE" <=> Net(row.final, basis) >= Outlay(row.cost, basis))

\* When no request is being handled, the stored decision shows the price set by hand
\* or that there is none, unless the last decision overlapped another request or
\* the request that set or cleared it failed halfway.
ManualShown ==
  Handling = {} /\ ~disturbed => row.manual = override
=============================================================================
