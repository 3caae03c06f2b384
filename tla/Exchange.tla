------------------------------ MODULE Exchange -------------------------------
(***************************************************************************)
(* qbc-exchange, service.rs and synthetic.rs: one pair whose base is a     *)
(* synthetic asset and whose quote is QUSD.  Every handler takes the write *)
(* lock of ExchangeState for its whole body, so each is one step.  A       *)
(* request that is refused changes nothing.                                *)
(*                                                                         *)
(* Amounts are whole numbers of a unit small enough that the divisions are *)
(* exact on the configured inputs; the rounding of f64 is not modelled.    *)
(***************************************************************************)
EXTENDS OrderBook

CONSTANTS
    Addresses,          \* "" is the address the balance check is skipped for
    Prices, Sizes, Times,
    QusdAmounts,        \* amounts of QUSD deposited, withdrawn and locked
    BaseAmounts,        \* amounts of the synthetic deposited, withdrawn and burned
    OraclePrices,       \* 0: the oracle has no price
    MinOrder,
    Budget, OrderCost   \* bounds of the model: an order costs OrderCost of the
                        \* budget, every other operation but cancelling costs 1

\* The handlers refuse an amount that is not positive and an order below the
\* smallest size; a price may be any number.
ASSUME ExchangeAssumption ==
    /\ IsFiniteSet(Addresses)
    /\ QusdAmounts \subseteq Nat \ {0} /\ BaseAmounts \subseteq Nat \ {0}
    /\ Prices \subseteq Int /\ Sizes \subseteq Nat /\ Times \subseteq Nat
    /\ OraclePrices \subseteq Nat
    /\ MinOrder \in Nat \ {0}

VARIABLES
    balances,           \* address -> asset -> amount
    positions,          \* address -> [synthetic_amount, collateral_locked]
    total_supply, total_collateral,
    inflow,             \* asset -> deposits less withdrawals (history)
    fees,               \* QUSD kept when positions were burned (history)
    spent               \* of the budget

fundVars == <<balances, positions, total_supply, total_collateral,
              inflow, fees>>
vars == <<bids, asks, trades, all_orders, balances, positions, total_supply,
          total_collateral, inflow, fees, spent>>

Assets == {"BASE", "QUSD"}
AmountsOf == [BASE |-> BaseAmounts, QUSD |-> QusdAmounts]

\* fee_rate is 0.003, min_collateral_ratio 1.5.
Fee(amount) == (amount * 3) \div 1000
EffectiveValue(amount) == (amount * 2) \div 3

NoPosition == [synthetic_amount |-> 0, collateral_locked |-> 0]

Init ==
    /\ BookInit
    /\ balances = [a \in Addresses |-> [s \in Assets |-> 0]]
    /\ positions = [a \in Addresses |-> NoPosition]
    /\ total_supply = 0 /\ total_collateral = 0
    /\ inflow = [s \in Assets |-> 0]
    /\ fees = 0
    /\ spent = 0

-----------------------------------------------------------------------------
Spend(cost) == spent + cost <= Budget /\ spent' = spent + cost

\* The balance check of place_order: limit orders of a named address only, and
\* nothing is set aside.
Covered(order) ==
    \/ order.address = ""
    \/ order.order_type = "Market"
    \/ IF order.side = "Buy"
       THEN balances[order.address]["QUSD"] >= order.price * order.size
       ELSE balances[order.address]["BASE"] >= order.size

\* place_order: settle_fill moves nothing, so balances stay.
PlaceOrder(address, side, order_type, price, size, timestamp) ==
    LET order == [id |-> next_order_id, side |-> side, order_type |-> order_type,
                  price |-> price, size |-> size, filled |-> 0,
                  address |-> address, timestamp |-> timestamp, status |-> "Open"]
    IN  /\ Spend(OrderCost)
        /\ size >= MinOrder
        /\ Covered(order)
        /\ AddOrder(order)
        /\ UNCHANGED fundVars

CancelOrder(id, owner) == Cancel(id, owner) /\ UNCHANGED <<fundVars, spent>>

Deposit(address, asset, amount) ==
    /\ Spend(1)
    /\ balances' = [balances EXCEPT ![address][asset] = @ + amount]
    /\ inflow' = [inflow EXCEPT ![asset] = @ + amount]
    /\ UNCHANGED <<bookVars, positions, total_supply, total_collateral, fees>>

\* Fault: the balance is not compared with the amount.
WithdrawUnchecked(address, asset, amount) ==
    /\ Spend(1)
    /\ balances' = [balances EXCEPT ![address][asset] = @ - amount]
    /\ inflow' = [inflow EXCEPT ![asset] = @ - amount]
    /\ UNCHANGED <<bookVars, positions, total_supply, total_collateral, fees>>

Withdraw(address, asset, amount) ==
    /\ Spend(1)
    /\ balances[address][asset] >= amount
    /\ balances' = [balances EXCEPT ![address][asset] = @ - amount]
    /\ inflow' = [inflow EXCEPT ![asset] = @ - amount]
    /\ UNCHANGED <<bookVars, positions, total_supply, total_collateral, fees>>

\* Two thirds of the collateral's value, less the fee, at the oracle's price.
Minted(qusd, oracle_price) ==
    LET value == EffectiveValue(qusd) IN (value - Fee(value)) \div oracle_price

\* SyntheticManager::mint: the collateral is locked in full.
Mint(address, qusd, oracle_price) ==
    LET minted == Minted(qusd, oracle_price)
    IN  /\ oracle_price > 0
        /\ minted > 0
        /\ positions' = [positions EXCEPT
                ![address].synthetic_amount = @ + minted,
                ![address].collateral_locked = @ + qusd]
        /\ total_supply' = total_supply + minted
        /\ total_collateral' = total_collateral + qusd

\* mint_synthetic, which keeps the balances.
MintSynthetic(address, qusd, oracle_price) ==
    /\ Spend(1)
    /\ balances[address]["QUSD"] >= qusd
    /\ Mint(address, qusd, oracle_price)
    /\ balances' = [balances EXCEPT ![address]["QUSD"] = @ - qusd,
                                    ![address]["BASE"] = @ + Minted(qusd, oracle_price)]
    /\ UNCHANGED <<bookVars, inflow, fees>>

\* Fault: a burn releases what the amount is worth at 150%.
ReleasedAtRatio(position, amount) == (amount * 3) \div 2

\* The collateral a burn releases: the burned share of the position.
Released(position, amount) ==
    (position.collateral_locked * amount) \div position.synthetic_amount

\* What the burner gets of the released collateral.
Returned(released) == released - Fee(released)

\* SyntheticManager::burn.  An empty position is removed, and with it whatever
\* collateral it still records.
Burn(address, amount, oracle_price) ==
    LET position == positions[address]
        released == Released(position, amount)
        left     == [synthetic_amount |-> position.synthetic_amount - amount,
                     collateral_locked |-> position.collateral_locked - released]
    IN  /\ oracle_price > 0
        /\ position # NoPosition
        /\ position.synthetic_amount >= amount
        /\ positions' = [positions EXCEPT
                ![address] = IF left.synthetic_amount = 0 THEN NoPosition ELSE left]
        /\ total_supply' = total_supply - amount
        /\ total_collateral' = total_collateral - released
        /\ fees' = fees + Fee(released)

\* burn_synthetic, which keeps the balances.
BurnSynthetic(address, amount, oracle_price) ==
    /\ Spend(1)
    /\ balances[address]["BASE"] >= amount
    /\ Burn(address, amount, oracle_price)
    /\ balances' = [balances EXCEPT
            ![address]["BASE"] = @ - amount,
            ![address]["QUSD"] = @ + Returned(Released(positions[address], amount))]
    /\ UNCHANGED <<bookVars, inflow>>

Next ==
    \E a \in Addresses :
        \/ \E side \in {"Buy", "Sell"}, size \in Sizes :
              \/ \E price \in Prices, t \in Times :
                    PlaceOrder(a, side, "Limit", price, size, t)
              \/ PlaceOrder(a, side, "Market", 0, size, 0)    \* never rests: no price, no time
        \/ \E id \in DOMAIN all_orders : CancelOrder(id, a)
        \/ \E s \in Assets : \E amount \in AmountsOf[s] :
              Deposit(a, s, amount) \/ Withdraw(a, s, amount)
        \/ \E qusd \in QusdAmounts, p \in OraclePrices : MintSynthetic(a, qusd, p)
        \/ \E amount \in BaseAmounts, p \in OraclePrices : BurnSynthetic(a, amount, p)

Spec == Init /\ [][Next]_vars

-----------------------------------------------------------------------------
Held(asset) == SumFunction([a \in Addresses |-> balances[a][asset]])

\* Type invariant: the states of orders, and balances that are never negative.
TypeOK ==
    /\ \A id \in DOMAIN all_orders :
          /\ all_orders[id].id = id
          /\ all_orders[id].status \in {"Open", "Partial", "Filled", "Cancelled"}
          /\ remaining(all_orders[id]) >= 0
    /\ \A a \in Addresses : \A s \in Assets : balances[a][s] >= 0
    /\ \A a \in Addresses : positions[a].synthetic_amount >= 0
    /\ total_supply >= 0 /\ total_collateral >= 0

\* No sequence of deposits, withdrawals, mints and burns creates or loses an
\* asset, though service.rs keeps balances and synthetic.rs keeps positions,
\* supply and collateral, and neither refers to the other: the totals are the
\* sums over the positions, balances and locked collateral are what came in less
\* the fees of burns, and no collateral stays behind a position that owes nothing.
Accounted ==
    /\ total_supply = SumFunction([a \in Addresses |-> positions[a].synthetic_amount])
    /\ total_collateral = SumFunction([a \in Addresses |-> positions[a].collateral_locked])
    /\ Held("QUSD") + total_collateral + fees = inflow["QUSD"]
    /\ Held("BASE") = inflow["BASE"] + total_supply
    /\ \A a \in Addresses : positions[a].synthetic_amount > 0
                                <=> positions[a].collateral_locked > 0
=============================================================================
