--------------------------- MODULE ExchangeProofs ---------------------------
(***************************************************************************)
(* Proofs about Exchange, for any addresses, prices and sizes and any      *)
(* number of orders: the funds of the synthetic add up, the book is never  *)
(* crossed and its copies agree, fills are trades, and makers are taken in *)
(* order of price and time.  The funds (FundInv) and the book (BookInv)    *)
(* are separate state, so each has an invariant of its own.  A book is     *)
(* sound seen from either side, and an added order is treated once for     *)
(* both (Adds).                                                            *)
(***************************************************************************)
EXTENDS Exchange, SumProofs

-----------------------------------------------------------------------------
(* Arithmetic *)

\* Changing one term of a sum changes the sum by as much.
LEMMA SumChange ==
    ASSUME NEW S, IsFiniteSet(S), NEW f \in [S -> Nat], NEW g \in [S -> Nat],
           NEW x \in S, \A k \in S \ {x} : g[k] = f[k]
    PROVE  /\ SumFunction(f) \in Nat
           /\ SumFunction(g) \in Nat
           /\ SumFunction(g) + f[x] = SumFunction(f) + g[x]
<1>2. [k \in S |-> f[k]] = f /\ [k \in S |-> g[k]] = g
  OBVIOUS
<1>3. SumFunction(f) = Total(f, S) /\ SumFunction(g) = Total(g, S)
  BY <1>2 DEF Total
<1>4. /\ Total(f, S) = f[x] + Total(f, S \ {x})
      /\ Total(g, S) = g[x] + Total(g, S \ {x})
  BY TotalStep
<1>5. Total(f, S \ {x}) = Total(g, S \ {x})
  BY TotalSame
<1>6. Total(f, S \ {x}) \in Nat
  BY FS_Subset, TotalInNat
<1>7. QED
  <2>1. PICK i, j, v \in Nat : i = f[x] /\ j = Total(f, S \ {x}) /\ v = g[x]
    BY <1>6
  <2>2. SumFunction(f) = i + j /\ SumFunction(g) = v + j
    BY <1>3, <1>4, <1>5, <2>1
  <2>3. QED
    BY <2>1, <2>2

\* A burn of a part of the position releases a part of its collateral, and a
\* burn of all of it releases all.
LEMMA ReleasedShare ==
    ASSUME NEW c \in Nat, NEW s \in Nat \ {0}, NEW x \in Nat, x <= s
    PROVE  /\ (c * x) \div s \in Nat
           /\ (c * x) \div s <= c
           /\ x < s /\ c > 0 => (c * x) \div s < c
           /\ x = s => (c * x) \div s = c
<1> DEFINE n == c * x
           q == n \div s
<1>1. n \in Nat /\ n <= c * s
  OBVIOUS
<1>2. q \in Nat /\ q * s <= n
  OBVIOUS
<1>3. x < s /\ c > 0 => n < c * s
  OBVIOUS
<1>4. QED
  OBVIOUS

-----------------------------------------------------------------------------
(* The funds *)

\* The collateralised positions of the synthetic.
Positions == [synthetic_amount : Nat, collateral_locked : Nat]

\* The inductive invariant on funds: amounts never become negative and the
\* totals the engine keeps are the sums over the addresses.
FundInv ==
    /\ balances \in [Addresses -> [Assets -> Nat]]
    /\ positions \in [Addresses -> Positions]
    /\ total_supply \in Nat /\ total_collateral \in Nat /\ fees \in Nat
    /\ inflow \in [Assets -> Int]
    /\ Accounted

\* The columns that are summed: balances of an asset, synthetic owed,
\* collateral locked.
BalancesIn(asset) == [a \in Addresses |-> balances[a][asset]]
Owed == [a \in Addresses |-> positions[a].synthetic_amount]
Locked == [a \in Addresses |-> positions[a].collateral_locked]

\* The columns are functions to the naturals, which can be summed.
LEMMA FundFunctions ==
    ASSUME FundInv
    PROVE  /\ \A s \in Assets : BalancesIn(s) \in [Addresses -> Nat]
           /\ Owed \in [Addresses -> Nat] /\ Locked \in [Addresses -> Nat]
BY DEF FundInv, BalancesIn, Owed, Locked, Positions

\* The sums after a step that changes the funds of one address only.
LEMMA BalancesChange ==
    ASSUME FundInv, NEW address \in Addresses, NEW s \in Assets, NEW v \in Nat,
           BalancesIn(s)' = [BalancesIn(s) EXCEPT ![address] = v]
    PROVE  /\ Held(s) \in Nat /\ Held(s)' \in Nat
           /\ Held(s)' + balances[address][s] = Held(s) + v
<1>1. BalancesIn(s) \in [Addresses -> Nat] /\ BalancesIn(s)[address] = balances[address][s]
  BY FundFunctions DEF BalancesIn
<1>2. PICK f, g : f = BalancesIn(s) /\ g = BalancesIn(s)'
  OBVIOUS
<1>3. Held(s) = SumFunction(f) /\ Held(s)' = SumFunction(g)
  BY <1>2 DEF Held, BalancesIn
<1>4. g = [f EXCEPT ![address] = v] /\ f \in [Addresses -> Nat] /\ f[address] = balances[address][s]
  BY <1>1, <1>2
<1>5. IsFiniteSet(Addresses)
  BY ExchangeAssumption
<1>6. /\ SumFunction(f) \in Nat /\ SumFunction(g) \in Nat
      /\ SumFunction(g) + f[address] = SumFunction(f) + v
  <2>1. g \in [Addresses -> Nat] /\ g[address] = v /\ \A k \in Addresses \ {address} : g[k] = f[k]
    BY <1>4
  <2>2. f \in [Addresses -> Nat]
    BY <1>4
  <2>3. QED
    BY <1>5, <2>1, <2>2, SumChange
<1>7. QED
  BY <1>3, <1>4, <1>6

\* The sums over the positions after one position changed.
LEMMA PositionChange ==
    ASSUME FundInv, NEW address \in Addresses, NEW p \in Positions,
           positions' = [positions EXCEPT ![address] = p]
    PROVE  /\ SumFunction(Owed') \in Nat /\ SumFunction(Locked') \in Nat
           /\ SumFunction(Owed') + positions[address].synthetic_amount
                  = total_supply + p.synthetic_amount
           /\ SumFunction(Locked') + positions[address].collateral_locked
                  = total_collateral + p.collateral_locked
<1>1. /\ Owed' = [Owed EXCEPT ![address] = p.synthetic_amount]
      /\ Locked' = [Locked EXCEPT ![address] = p.collateral_locked]
  BY DEF FundInv, Owed, Locked
<1>2. Owed \in [Addresses -> Nat] /\ Locked \in [Addresses -> Nat]
  BY FundFunctions
<1>3. /\ Owed[address] = positions[address].synthetic_amount
      /\ Locked[address] = positions[address].collateral_locked
  BY DEF Owed, Locked
<1>4. total_supply = SumFunction(Owed) /\ total_collateral = SumFunction(Locked)
  BY DEF FundInv, Accounted, Owed, Locked
<1>5. p.synthetic_amount \in Nat /\ p.collateral_locked \in Nat
  BY DEF Positions
<1>6. PICK f, g, d, e : f = Owed /\ g = Locked /\ d = Owed' /\ e = Locked'
  OBVIOUS
<1>. IsFiniteSet(Addresses)
  BY ExchangeAssumption
<1>7. /\ SumFunction(d) \in Nat /\ SumFunction(d) + f[address] = SumFunction(f) + p.synthetic_amount
      /\ SumFunction(e) \in Nat /\ SumFunction(e) + g[address] = SumFunction(g) + p.collateral_locked
  <2>1. /\ f \in [Addresses -> Nat] /\ g \in [Addresses -> Nat]
        /\ d \in [Addresses -> Nat] /\ d[address] = p.synthetic_amount
        /\ e \in [Addresses -> Nat] /\ e[address] = p.collateral_locked
        /\ \A k \in Addresses \ {address} : d[k] = f[k] /\ e[k] = g[k]
    BY <1>1, <1>2, <1>5, <1>6
  <2>2. QED
    BY <2>1, SumChange
<1>8. QED
  BY <1>3, <1>4, <1>6, <1>7

\* All funds are zero at first.
LEMMA FundInit == Init => FundInv
<1> SUFFICES ASSUME Init PROVE FundInv
  OBVIOUS
<1>1. \A a \in Addresses : positions[a].synthetic_amount = 0 /\ positions[a].collateral_locked = 0
  BY DEF Init, NoPosition
<1>2. /\ [a \in Addresses |-> positions[a].synthetic_amount] = [a \in Addresses |-> 0]
      /\ [a \in Addresses |-> positions[a].collateral_locked] = [a \in Addresses |-> 0]
      /\ [a \in Addresses |-> balances[a]["QUSD"]] = [a \in Addresses |-> 0]
      /\ [a \in Addresses |-> balances[a]["BASE"]] = [a \in Addresses |-> 0]
  BY <1>1 DEF Init, Assets
<1>3. SumFunction([a \in Addresses |-> 0]) = 0
  <2> DEFINE z == [a \in Addresses |-> 0]
  <2>1. [a \in Addresses |-> z[a]] = z
    OBVIOUS
  <2>2. Total(z, Addresses) = 0
    BY TotalZero, ExchangeAssumption
  <2>3. QED
    BY <2>1, <2>2 DEF Total
<1>4. inflow["QUSD"] = 0 /\ inflow["BASE"] = 0
  BY DEF Init, Assets
<1>5. Accounted
  BY <1>1, <1>2, <1>3, <1>4 DEF Accounted, Held, Init
<1>6. QED
  BY <1>5 DEF FundInv, Init, NoPosition, Positions, Assets

\* deposit credits one balance and counts the inflow.
LEMMA DepositFunds ==
    ASSUME FundInv, NEW address \in Addresses, NEW asset \in Assets,
           NEW amount \in Nat, Deposit(address, asset, amount)
    PROVE  FundInv'
<1>1. /\ balances' = [balances EXCEPT ![address][asset] = @ + amount]
      /\ inflow' = [inflow EXCEPT ![asset] = @ + amount]
      /\ UNCHANGED <<positions, total_supply, total_collateral, fees>>
  BY DEF Deposit
<1>2. balances[address][asset] \in Nat /\ inflow[asset] \in Int
  BY DEF FundInv
<1>3. /\ BalancesIn(asset)' = [BalancesIn(asset) EXCEPT ![address] = balances[address][asset] + amount]
      /\ \A s \in Assets \ {asset} : BalancesIn(s)' = BalancesIn(s)
  BY <1>1 DEF BalancesIn, FundInv
<1>4. /\ Held(asset) \in Nat /\ Held(asset)' \in Nat
      /\ Held(asset)' = Held(asset) + amount
  <2>1. balances[address][asset] + amount \in Nat
    BY <1>2
  <2>2. /\ Held(asset) \in Nat /\ Held(asset)' \in Nat
        /\ Held(asset)' + balances[address][asset] = Held(asset) + (balances[address][asset] + amount)
    BY <1>3, <2>1, BalancesChange
  <2>3. QED
    BY <1>2, <2>2
<1>5. \A s \in Assets \ {asset} : Held(s)' = Held(s) /\ inflow'[s] = inflow[s]
  BY <1>1, <1>3 DEF Held, BalancesIn, FundInv
<1>6. inflow'[asset] = inflow[asset] + amount
  BY <1>1 DEF FundInv
<1>7. /\ Held("QUSD") + total_collateral + fees = inflow["QUSD"]
      /\ Held("BASE") = inflow["BASE"] + total_supply
      /\ total_collateral \in Nat /\ total_supply \in Nat /\ fees \in Nat
      /\ inflow["QUSD"] \in Int /\ inflow["BASE"] \in Int
  BY DEF FundInv, Accounted, Assets
<1>8. /\ Held("QUSD")' + total_collateral + fees = inflow'["QUSD"]
      /\ Held("BASE")' = inflow'["BASE"] + total_supply
  <2>1. CASE asset = "QUSD"
    BY <1>4, <1>5, <1>6, <1>7, <2>1 DEF Assets
  <2>2. CASE asset = "BASE"
    BY <1>4, <1>5, <1>6, <1>7, <2>2 DEF Assets
  <2>3. QED
    BY <2>1, <2>2 DEF Assets
<1>9. Accounted'
  BY <1>1, <1>8 DEF FundInv, Accounted
<1>10. balances' \in [Addresses -> [Assets -> Nat]] /\ inflow' \in [Assets -> Int]
  BY <1>1, <1>2 DEF FundInv
<1>11. QED
  BY <1>1, <1>9, <1>10 DEF FundInv

\* withdraw checks the balance, so that it stays a natural.
LEMMA WithdrawFunds ==
    ASSUME FundInv, NEW address \in Addresses, NEW asset \in Assets,
           NEW amount \in Nat, Withdraw(address, asset, amount)
    PROVE  FundInv'
<1>1. /\ balances' = [balances EXCEPT ![address][asset] = @ - amount]
      /\ inflow' = [inflow EXCEPT ![asset] = @ - amount]
      /\ balances[address][asset] >= amount
      /\ UNCHANGED <<positions, total_supply, total_collateral, fees>>
  BY DEF Withdraw
<1>2. /\ balances[address][asset] \in Nat /\ inflow[asset] \in Int
      /\ balances[address][asset] - amount \in Nat
  <2>1. balances[address][asset] \in Nat /\ inflow[asset] \in Int
    BY DEF FundInv
  <2>2. QED
    BY <1>1, <2>1
<1>3. /\ BalancesIn(asset)' = [BalancesIn(asset) EXCEPT ![address] = balances[address][asset] - amount]
      /\ \A s \in Assets \ {asset} : BalancesIn(s)' = BalancesIn(s)
  BY <1>1 DEF BalancesIn, FundInv
<1>4. /\ Held(asset) \in Nat /\ Held(asset)' \in Nat
      /\ Held(asset)' = Held(asset) - amount
  <2>2. /\ Held(asset) \in Nat /\ Held(asset)' \in Nat
        /\ Held(asset)' + balances[address][asset] = Held(asset) + (balances[address][asset] - amount)
    BY <1>2, <1>3, BalancesChange
  <2>3. QED
    BY <1>2, <2>2
<1>5. \A s \in Assets \ {asset} : Held(s)' = Held(s) /\ inflow'[s] = inflow[s]
  BY <1>1, <1>3 DEF Held, BalancesIn, FundInv
<1>6. inflow'[asset] = inflow[asset] - amount
  BY <1>1 DEF FundInv
<1>7. /\ Held("QUSD") + total_collateral + fees = inflow["QUSD"]
      /\ Held("BASE") = inflow["BASE"] + total_supply
      /\ total_collateral \in Nat /\ total_supply \in Nat /\ fees \in Nat
      /\ inflow["QUSD"] \in Int /\ inflow["BASE"] \in Int
  BY DEF FundInv, Accounted, Assets
<1>8. /\ Held("QUSD")' + total_collateral + fees = inflow'["QUSD"]
      /\ Held("BASE")' = inflow'["BASE"] + total_supply
  <2>1. CASE asset = "QUSD"
    BY <1>4, <1>5, <1>6, <1>7, <2>1 DEF Assets
  <2>2. CASE asset = "BASE"
    BY <1>4, <1>5, <1>6, <1>7, <2>2 DEF Assets
  <2>3. QED
    BY <2>1, <2>2 DEF Assets
<1>9. Accounted'
  BY <1>1, <1>8 DEF FundInv, Accounted
<1>10. balances' \in [Addresses -> [Assets -> Nat]] /\ inflow' \in [Assets -> Int]
  BY <1>1, <1>2 DEF FundInv
<1>11. QED
  BY <1>1, <1>9, <1>10 DEF FundInv

\* The effect of mint and of burn on the funds: an address pays or receives
\* QUSD and the synthetic, its position follows, and so do the totals.
LEMMA PositionFunds ==
    ASSUME FundInv, NEW address \in Addresses, NEW p \in Positions,
           p.synthetic_amount > 0 <=> p.collateral_locked > 0,
           NEW q \in Nat, NEW b \in Nat, NEW fee \in Nat,
           positions' = [positions EXCEPT ![address] = p],
           balances' = [balances EXCEPT ![address]["QUSD"] = q, ![address]["BASE"] = b],
           total_supply' = total_supply + p.synthetic_amount - positions[address].synthetic_amount,
           total_collateral' = total_collateral + p.collateral_locked
                                   - positions[address].collateral_locked,
           fees' = fees + fee,
           q + p.collateral_locked + fee
               = balances[address]["QUSD"] + positions[address].collateral_locked,
           b - p.synthetic_amount
               = balances[address]["BASE"] - positions[address].synthetic_amount,
           UNCHANGED inflow
    PROVE  FundInv'
<1>1. /\ "QUSD" \in Assets /\ "BASE" \in Assets
      /\ balances[address]["QUSD"] \in Nat /\ balances[address]["BASE"] \in Nat
      /\ positions[address].synthetic_amount \in Nat
      /\ positions[address].collateral_locked \in Nat
      /\ p.synthetic_amount \in Nat /\ p.collateral_locked \in Nat
  BY DEF FundInv, Positions, Assets
<1>2. /\ BalancesIn("QUSD")' = [BalancesIn("QUSD") EXCEPT ![address] = q]
      /\ BalancesIn("BASE")' = [BalancesIn("BASE") EXCEPT ![address] = b]
  BY DEF FundInv, BalancesIn, Assets
<1>3. /\ Held("QUSD") \in Nat /\ Held("QUSD")' \in Nat
      /\ Held("QUSD")' + balances[address]["QUSD"] = Held("QUSD") + q
  BY <1>1, <1>2, BalancesChange
<1>4. /\ Held("BASE") \in Nat /\ Held("BASE")' \in Nat
      /\ Held("BASE")' + balances[address]["BASE"] = Held("BASE") + b
  BY <1>1, <1>2, BalancesChange
<1>5. /\ SumFunction(Owed') \in Nat /\ SumFunction(Locked') \in Nat
      /\ SumFunction(Owed') + positions[address].synthetic_amount
             = total_supply + p.synthetic_amount
      /\ SumFunction(Locked') + positions[address].collateral_locked
             = total_collateral + p.collateral_locked
  BY PositionChange
<1>6. total_supply \in Nat /\ total_collateral \in Nat /\ fees \in Nat
      /\ inflow["QUSD"] \in Int /\ inflow["BASE"] \in Int
      /\ Held("QUSD") + total_collateral + fees = inflow["QUSD"]
      /\ Held("BASE") = inflow["BASE"] + total_supply
  BY DEF FundInv, Accounted, Assets
<1>7. total_supply' = SumFunction(Owed') /\ total_collateral' = SumFunction(Locked')
  BY <1>1, <1>5, <1>6
<1>8. /\ Held("QUSD")' + total_collateral' + fees' = inflow["QUSD"]
      /\ Held("BASE")' = inflow["BASE"] + total_supply'
  BY <1>1, <1>3, <1>4, <1>6
<1>9. \A a \in Addresses : positions'[a].synthetic_amount > 0
                                <=> positions'[a].collateral_locked > 0
  BY DEF FundInv, Accounted
<1>10. Accounted'
  BY <1>7, <1>8, <1>9 DEF Accounted, Owed, Locked
<1>11. /\ balances' \in [Addresses -> [Assets -> Nat]]
       /\ positions' \in [Addresses -> Positions]
  BY <1>1 DEF FundInv
<1>12. total_supply' \in Nat /\ total_collateral' \in Nat /\ fees' \in Nat
  BY <1>5, <1>6, <1>7
<1>13. QED
  BY <1>10, <1>11, <1>12 DEF FundInv

\* The fee is a part of the amount.
LEMMA FeeType ==
    ASSUME NEW x \in Nat
    PROVE  Fee(x) \in Nat /\ Fee(x) <= x
BY DEF Fee

\* mint_synthetic: all that the address pays is locked as collateral.
LEMMA MintFunds ==
    ASSUME FundInv, NEW address \in Addresses, NEW qusd \in Nat \ {0},
           NEW price \in Nat, MintSynthetic(address, qusd, price)
    PROVE  FundInv'
<1> DEFINE minted == Minted(qusd, price)
           old    == positions[address]
           new    == [synthetic_amount |-> old.synthetic_amount + minted,
                      collateral_locked |-> old.collateral_locked + qusd]
           q      == balances[address]["QUSD"] - qusd
           b      == balances[address]["BASE"] + minted
<1>1. /\ price > 0 /\ minted > 0 /\ balances[address]["QUSD"] >= qusd
      /\ positions' = [positions EXCEPT ![address].synthetic_amount = @ + minted,
                                        ![address].collateral_locked = @ + qusd]
      /\ total_supply' = total_supply + minted
      /\ total_collateral' = total_collateral + qusd
      /\ balances' = [balances EXCEPT ![address]["QUSD"] = @ - qusd,
                                      ![address]["BASE"] = @ + minted]
      /\ UNCHANGED <<inflow, fees>>
  BY DEF MintSynthetic, Mint
<1>2. minted \in Nat
  <2>1. EffectiveValue(qusd) \in Nat
    BY DEF EffectiveValue
  <2>2. PICK v \in Nat : v = EffectiveValue(qusd)
    BY <2>1
  <2>3. Fee(v) \in Nat /\ Fee(v) <= v
    BY FeeType
  <2>4. PICK n \in Nat : n = v - Fee(v)
    BY <2>3
  <2>5. minted = n \div price
    BY <2>2, <2>4 DEF Minted
  <2>6. QED
    BY <1>1, <2>5
<1>3. /\ old \in Positions
      /\ balances[address]["QUSD"] \in Nat /\ balances[address]["BASE"] \in Nat
      /\ total_supply \in Nat /\ total_collateral \in Nat /\ fees \in Nat
  BY DEF FundInv, Assets
<1> HIDE DEF minted
<1>4. /\ new \in Positions /\ new.synthetic_amount > 0 /\ new.collateral_locked > 0
      /\ q \in Nat /\ b \in Nat
  BY <1>1, <1>2, <1>3 DEF Positions
<1>5. /\ positions' = [positions EXCEPT ![address] = new]
      /\ balances' = [balances EXCEPT ![address]["QUSD"] = q, ![address]["BASE"] = b]
  <2>1. positions[address] = [synthetic_amount |-> old.synthetic_amount,
                              collateral_locked |-> old.collateral_locked]
    BY <1>3 DEF Positions
  <2>2. positions' = [positions EXCEPT ![address] = new]
    <3>1. positions \in [Addresses -> Positions]
      BY DEF FundInv
    <3>2. positions'[address] = [positions[address] EXCEPT
                 !.synthetic_amount = @ + minted, !.collateral_locked = @ + qusd]
      BY <1>1, <3>1
    <3>3. positions'[address] = new
      BY <2>1, <3>2
    <3>4. positions' = [positions EXCEPT ![address] = positions'[address]]
      BY <1>1, <3>1
    <3>5. QED
      BY <3>3, <3>4
  <2>3. balances' = [balances EXCEPT ![address]["QUSD"] = q, ![address]["BASE"] = b]
    BY <1>1
  <2>4. QED
    BY <2>2, <2>3
<1>6. /\ total_supply' = total_supply + new.synthetic_amount - old.synthetic_amount
      /\ total_collateral' = total_collateral + new.collateral_locked - old.collateral_locked
      /\ q + new.collateral_locked = balances[address]["QUSD"] + old.collateral_locked
      /\ b - new.synthetic_amount = balances[address]["BASE"] - old.synthetic_amount
  BY <1>1, <1>2, <1>3 DEF Positions
<1>7. PICK fee \in Nat : fee = 0
  OBVIOUS
<1>8. /\ q + new.collateral_locked + fee = balances[address]["QUSD"] + old.collateral_locked
      /\ fees' = fees + fee
  BY <1>1, <1>3, <1>4, <1>6, <1>7 DEF Positions
<1>9. QED
  <2> HIDE DEF new, q, b
  <2>1. UNCHANGED inflow
    BY <1>1
  <2> QED
    BY <1>4, <1>5, <1>6, <1>8, <2>1, PositionFunds DEF old

\* burn_synthetic: the collateral released is a share of the collateral locked,
\* rounded down, and all of it when all of the debt is repaid.
LEMMA BurnFunds ==
    ASSUME FundInv, NEW address \in Addresses, NEW amount \in Nat \ {0},
           NEW price \in Nat, BurnSynthetic(address, amount, price)
    PROVE  FundInv'
<1> DEFINE old      == positions[address]
           released == Released(old, amount)
           left     == [synthetic_amount |-> old.synthetic_amount - amount,
                        collateral_locked |-> old.collateral_locked - released]
           new      == IF left.synthetic_amount = 0 THEN NoPosition ELSE left
           q        == balances[address]["QUSD"] + Returned(released)
           b        == balances[address]["BASE"] - amount
<1>1. /\ old.synthetic_amount >= amount /\ balances[address]["BASE"] >= amount
      /\ positions' = [positions EXCEPT ![address] = new]
      /\ total_supply' = total_supply - amount
      /\ total_collateral' = total_collateral - released
      /\ fees' = fees + Fee(released)
      /\ balances' = [balances EXCEPT ![address]["BASE"] = @ - amount,
                                      ![address]["QUSD"] = @ + Returned(released)]
      /\ UNCHANGED inflow
  BY DEF BurnSynthetic, Burn
<1>2. /\ old \in Positions
      /\ balances[address]["QUSD"] \in Nat /\ balances[address]["BASE"] \in Nat
      /\ total_supply \in Nat /\ total_collateral \in Nat /\ fees \in Nat
      /\ old.synthetic_amount > 0 <=> old.collateral_locked > 0
  BY DEF FundInv, Accounted, Assets
<1>3. PICK c, s \in Nat : c = old.collateral_locked /\ s = old.synthetic_amount
  BY <1>2 DEF Positions
<1>4. s \in Nat \ {0} /\ amount <= s /\ c > 0
  BY <1>1, <1>2, <1>3
<1>5. released = (c * amount) \div s
  BY <1>3 DEF Released
<1>6. /\ released \in Nat /\ released <= c
      /\ amount < s => released < c
      /\ amount = s => released = c
  BY <1>4, <1>5, ReleasedShare
<1> HIDE DEF released
<1>7. Fee(released) \in Nat /\ Fee(released) <= released
  BY <1>6, FeeType
<1>8. /\ new \in Positions
      /\ new.synthetic_amount = s - amount /\ new.collateral_locked = c - released
      /\ new.synthetic_amount > 0 <=> new.collateral_locked > 0
  <2>1. CASE amount = s
    <3>1. left.synthetic_amount = 0
      BY <1>3, <2>1
    <3>2. new = NoPosition
      BY <3>1
    <3>3. QED
      BY <1>6, <2>1, <3>2 DEF NoPosition, Positions
  <2>2. CASE amount < s
    <3>1. left.synthetic_amount # 0 /\ left.synthetic_amount = s - amount
          /\ left.collateral_locked = c - released
      BY <1>3, <2>2
    <3>2. new = left
      BY <3>1
    <3>3. left \in Positions
      BY <1>3, <1>6, <2>2 DEF Positions
    <3>4. QED
      BY <1>6, <2>2, <3>1, <3>2, <3>3
  <2>3. QED
    BY <1>4, <2>1, <2>2
<1> HIDE DEF new
<1>9. /\ q \in Nat /\ b \in Nat
      /\ balances' = [balances EXCEPT ![address]["QUSD"] = q, ![address]["BASE"] = b]
  <2>1. q \in Nat /\ b \in Nat
    BY <1>1, <1>2, <1>6, <1>7 DEF Returned
  <2>2. QED
    BY <1>1, <2>1 DEF FundInv
<1>10. /\ total_supply' = total_supply + new.synthetic_amount - old.synthetic_amount
       /\ total_collateral' = total_collateral + new.collateral_locked - old.collateral_locked
       /\ q + new.collateral_locked + Fee(released)
              = balances[address]["QUSD"] + old.collateral_locked
       /\ b - new.synthetic_amount = balances[address]["BASE"] - old.synthetic_amount
  BY <1>1, <1>2, <1>3, <1>6, <1>7, <1>8 DEF Returned
<1>11. QED
  <2> HIDE DEF q, b
  <2>1. fees' = fees + Fee(released) /\ positions' = [positions EXCEPT ![address] = new]
        /\ UNCHANGED inflow
    BY <1>1
  <2> QED
    BY <1>7, <1>8, <1>9, <1>10, <2>1, PositionFunds DEF old

\* Every step preserves FundInv.
LEMMA FundStep == FundInv /\ [Next]_vars => FundInv'
<1> SUFFICES ASSUME FundInv, [Next]_vars PROVE FundInv'
  OBVIOUS
<1>1. ASSUME UNCHANGED fundVars PROVE FundInv'
  BY <1>1 DEF FundInv, Accounted, Held, fundVars
<1>2. CASE UNCHANGED vars
  BY <1>1, <1>2 DEF vars, fundVars
<1>3. ASSUME NEW a \in Addresses, NEW side, NEW type, NEW price, NEW size, NEW t,
             PlaceOrder(a, side, type, price, size, t)
      PROVE  FundInv'
  BY <1>1, <1>3 DEF PlaceOrder
<1>4. ASSUME NEW a \in Addresses, NEW id, CancelOrder(id, a) PROVE FundInv'
  BY <1>1, <1>4 DEF CancelOrder
<1>5. ASSUME NEW a \in Addresses, NEW s \in Assets, NEW amount \in AmountsOf[s],
             Deposit(a, s, amount) \/ Withdraw(a, s, amount)
      PROVE  FundInv'
  <2>1. amount \in Nat
    <3>1. AmountsOf["BASE"] = BaseAmounts /\ AmountsOf["QUSD"] = QusdAmounts
      BY DEF AmountsOf
    <3>2. s = "BASE" \/ s = "QUSD"
      BY DEF Assets
    <3>3. QED
      BY <3>1, <3>2, ExchangeAssumption
  <2>2. QED
    BY <1>5, <2>1, DepositFunds, WithdrawFunds
<1>6. ASSUME NEW a \in Addresses, NEW qusd \in QusdAmounts, NEW p \in OraclePrices,
             MintSynthetic(a, qusd, p)
      PROVE  FundInv'
  BY <1>6, MintFunds, ExchangeAssumption
<1>7. ASSUME NEW a \in Addresses, NEW amount \in BaseAmounts, NEW p \in OraclePrices,
             BurnSynthetic(a, amount, p)
      PROVE  FundInv'
  BY <1>7, BurnFunds, ExchangeAssumption
<1>8. QED
  BY <1>2, <1>3, <1>4, <1>5, <1>6, <1>7 DEF Next

\* The books of the exchange balance in every instance: the QUSD paid in and
\* not paid out is in balances, in locked collateral and in the fees of burns,
\* the base asset in balances is what was paid in and what was minted, and
\* total_supply and total_collateral are the sums over the positions, after any
\* deposits, withdrawals, mints and burns in any order.
THEOREM FundsAccounted == Spec => []Accounted
<1>1. FundInv => Accounted
  BY DEF FundInv
<1>2. QED
  BY <1>1, FundInit, FundStep, PTL DEF Spec

-----------------------------------------------------------------------------
(* Matching *)

\* An order as it is stored.
Order == [id : Nat, side : {"Buy", "Sell"}, order_type : {"Limit", "Market"},
          price : Int, size : Nat \ {0}, filled : Nat, address : Addresses,
          timestamp : Nat, status : {"Open", "Partial", "Filled", "Cancelled"}]

\* One side of the book.
SideOK(side, book) ==
    /\ IsFiniteSet(book)
    /\ \A o \in book : /\ o \in Order /\ o.side = side /\ o.order_type = "Limit"
                       /\ o.filled < o.size
    /\ \A o, p \in book : o.id = p.id => o = p

\* Ahead orders the orders of one side.
LEMMA AheadOrder ==
    ASSUME NEW side, NEW book, SideOK(side, book)
    PROVE  /\ \A o \in book : ~ Ahead(o, o)
           /\ \A o, p \in book : o = p \/ Ahead(o, p) \/ Ahead(p, o)
           /\ \A o, p, q \in book : Ahead(o, p) /\ Ahead(p, q) => Ahead(o, q)
           /\ \A o, p \in book : ~ (Ahead(o, p) /\ Ahead(p, o))
<1>1. \A o \in book : /\ o.id \in Nat /\ o.price \in Int /\ o.timestamp \in Nat
                      /\ o.side = side
  BY DEF SideOK, Order
<1>2. \A o, p \in book : o.id = p.id => o = p
  BY DEF SideOK
<1>3. CASE side = "Buy"
  BY <1>1, <1>2, <1>3 DEF Ahead, Better
<1>4. CASE side # "Buy"
  BY <1>1, <1>2, <1>4 DEF Ahead, Better
<1>5. QED
  BY <1>3, <1>4

\* A finite set that is ordered has an element that comes before no other.
LEMMA LastExists ==
    ASSUME NEW S, IsFiniteSet(S), NEW R,
           \A x \in S : <<x, x>> \notin R,
           \A x, y, z \in S : <<x, y>> \in R /\ <<y, z>> \in R => <<x, z>> \in R
    PROVE  S # {} => \E x \in S : \A y \in S : <<x, y>> \notin R
<1> DEFINE P == {s \in SUBSET S : s # {} => \E x \in s : \A y \in s : <<x, y>> \notin R}
<1>1. ASSUME NEW s \in SUBSET S, \A t \in SUBSET s : t # s => t \in P
      PROVE  s \in P
  <2>1. SUFFICES ASSUME s # {} PROVE \E x \in s : \A y \in s : <<x, y>> \notin R
    OBVIOUS
  <2>2. PICK x \in s : TRUE
    BY <2>1
  <2> DEFINE t == {y \in s : <<x, y>> \in R}
  <2>3. t \in P
    BY <1>1
  <2>4. CASE t = {}
    BY <2>4
  <2>5. CASE t # {}
    <3>1. PICK y \in t : \A z \in t : <<y, z>> \notin R
      BY <2>3, <2>5
    <3>2. \A z \in s : <<y, z>> \notin R
      BY <3>1
    <3>3. QED
      BY <3>1, <3>2
  <2>6. QED
    BY <2>4, <2>5
<1>2. S \in P
  <2> HIDE DEF P
  <2> QED BY <1>1, SubsetInduction
<1>3. QED
  BY <1>2

\* What the makers of a book offer, and the makers reached before one.
Offered(book) == [m \in book |-> remaining(m)]
Before(taker, book, maker) == {n \in Reached(taker, book) : Ahead(n, maker)}

\* What a maker offers is a positive number, and what those before it offer is
\* the sum over those that are reached before it.
LEMMA OfferedFacts ==
    ASSUME NEW side, NEW book, SideOK(side, book), NEW taker
    PROVE  /\ Offered(book) \in [book -> Nat]
           /\ \A m \in book : remaining(m) > 0 /\ Offered(book)[m] = remaining(m)
           /\ IsFiniteSet(Reached(taker, book)) /\ Reached(taker, book) \subseteq book
           /\ \A m \in book : /\ OfferedBefore(taker, book, m)
                                    = Total(Offered(book), Before(taker, book, m))
                              /\ OfferedBefore(taker, book, m) \in Nat
<1>1. \A m \in book : m.size \in Nat /\ m.filled \in Nat /\ m.filled < m.size
  BY DEF SideOK, Order
<1>2. /\ Offered(book) \in [book -> Nat]
      /\ \A m \in book : remaining(m) > 0 /\ Offered(book)[m] = remaining(m)
  BY <1>1 DEF Offered, remaining
<1>3. Reached(taker, book) \subseteq book
  BY DEF Reached
<1>4. IsFiniteSet(Reached(taker, book))
  BY <1>3, FS_Subset DEF SideOK
<1>5. ASSUME NEW m \in book
      PROVE  /\ OfferedBefore(taker, book, m) = Total(Offered(book), Before(taker, book, m))
             /\ OfferedBefore(taker, book, m) \in Nat
  <2> DEFINE B == Before(taker, book, m)
  <2>1. B \subseteq Reached(taker, book)
    BY DEF Before
  <2>2. [n \in B |-> remaining(n)] = [n \in B |-> Offered(book)[n]]
    BY <1>2, <1>3, <2>1
  <2>3. OfferedBefore(taker, book, m) = SumFunction([n \in B |-> remaining(n)])
    BY DEF OfferedBefore, Before
  <2>4. Total(Offered(book), B) \in Nat
    <3>1. IsFiniteSet(B) /\ \A n \in B : Offered(book)[n] \in Nat
      BY <1>2, <1>3, <1>4, <2>1, FS_Subset
    <3> HIDE DEF B
    <3>2. QED
      BY <3>1, TotalInNat
  <2>5. QED
    BY <2>2, <2>3, <2>4 DEF Total
<1>6. QED
  BY <1>2, <1>3, <1>4, <1>5

\* What one maker gives.
LEMMA OneFill ==
    ASSUME NEW side, NEW book, SideOK(side, book), NEW taker, taker.size \in Nat,
           NEW m \in book
    PROVE  /\ Fills(taker, book)[m] \in Nat
           /\ Fills(taker, book)[m] <= remaining(m)
           /\ Fills(taker, book)[m] > 0 =>
                 m \in Reached(taker, book) /\ taker.size > OfferedBefore(taker, book, m)
           /\ m \notin Reached(taker, book) => Fills(taker, book)[m] = 0
           /\ (m \in Reached(taker, book)
                  /\ OfferedBefore(taker, book, m) + remaining(m) <= taker.size)
                 => Fills(taker, book)[m] = remaining(m)
           /\ m \in Reached(taker, book) =>
                 LET b == OfferedBefore(taker, book, m)
                     r == remaining(m)
                 IN  /\ b + r <= taker.size => Fills(taker, book)[m] = r
                     /\ b <= taker.size /\ taker.size < b + r
                           => Fills(taker, book)[m] = taker.size - b
                     /\ taker.size <= b => Fills(taker, book)[m] = 0
<1>1. PICK b, r, z \in Nat : /\ b = OfferedBefore(taker, book, m) /\ r = remaining(m)
                             /\ z = taker.size /\ r > 0
  BY OfferedFacts
<1>2. Fills(taker, book)[m] = IF m \notin Reached(taker, book) \/ z - b <= 0 THEN 0
                              ELSE IF z - b < r THEN z - b ELSE r
  BY <1>1 DEF Fills
<1>3. QED
  BY <1>1, <1>2

\* The makers reached are taken in order: with a maker, all that are ahead.
LEMMA ReachedClosed ==
    ASSUME NEW side, NEW book, SideOK(side, book), NEW taker,
           NEW m \in Reached(taker, book), NEW n \in book, Ahead(n, m)
    PROVE  n \in Reached(taker, book)
<1>1. m \in book /\ \A k \in book : (k = m \/ Ahead(k, m)) => Crosses(taker, k)
  BY DEF Reached
<1>2. \A k \in book : Ahead(k, n) => Ahead(k, m)
  BY <1>1, AheadOrder
<1>3. QED
  BY <1>1, <1>2 DEF Reached

\* Taking the makers in order takes what they offer, up to the taker's size:
\* so far as one looks, for as long as one looks at them in order.
LEMMA TakenInOrder ==
    ASSUME NEW side, NEW book, SideOK(side, book), NEW taker, taker.size \in Nat
    PROVE  LET taken   == Total(Fills(taker, book), Reached(taker, book))
               offered == Total(Offered(book), Reached(taker, book))
           IN  /\ offered \in Nat
               /\ taken = IF offered < taker.size THEN offered ELSE taker.size
<1> DEFINE R == Reached(taker, book)
           fills == Fills(taker, book)
           rem == Offered(book)
           Least(x) == IF x < taker.size THEN x ELSE taker.size
           Closed(D) == \A m \in D, n \in R : Ahead(n, m) => n \in D
           P == {D \in SUBSET R : Closed(D) => Total(fills, D) = Least(Total(rem, D))}
<1>1. IsFiniteSet(R) /\ R \subseteq book
  BY OfferedFacts
<1>2. \A m \in R : /\ fills[m] \in Nat /\ rem[m] \in Nat /\ rem[m] = remaining(m)
                   /\ OfferedBefore(taker, book, m) = Total(rem, Before(taker, book, m))
                   /\ OfferedBefore(taker, book, m) \in Nat
  BY <1>1, OfferedFacts, OneFill
<1>3. ASSUME NEW D \in SUBSET R, \A E \in SUBSET D : E # D => E \in P
      PROVE  D \in P
  <2>1. SUFFICES ASSUME Closed(D) PROVE Total(fills, D) = Least(Total(rem, D))
    OBVIOUS
  <2>2. CASE D = {}
    <3>1. Total(fills, {}) = 0 /\ Total(rem, {}) = 0
      BY TotalEmpty
    <3>2. QED
      BY <2>2, <3>1
  <2>3. CASE D # {}
    <3> DEFINE A == {w \in book \X book : Ahead(w[1], w[2])}
    <3>1. IsFiniteSet(D) /\ D \subseteq book
      BY <1>1, FS_Subset
    <3>2. PICK m \in D : \A n \in D : <<m, n>> \notin A
      <4>1. /\ \A x \in D : <<x, x>> \notin A
            /\ \A x, y, z \in D : <<x, y>> \in A /\ <<y, z>> \in A => <<x, z>> \in A
        BY <3>1, AheadOrder
      <4> HIDE DEF A
      <4>2. QED
        BY <2>3, <3>1, <4>1, LastExists
    <3>3. \A n \in D : ~ Ahead(m, n)
      BY <3>1, <3>2
    <3> DEFINE E == D \ {m}
    <3>4. E = Before(taker, book, m)
      <4>1. \A n \in E : n \in R /\ Ahead(n, m)
        BY <3>1, <3>3, AheadOrder
      <4>2. \A n \in R : Ahead(n, m) => n \in E
        BY <1>1, <2>1, <3>1, AheadOrder
      <4>3. QED
        BY <4>1, <4>2 DEF Before
    <3>5. Closed(E)
      BY <2>1, <3>3
    <3>6. Total(fills, E) = Least(Total(rem, E))
      BY <1>3, <3>5
    <3>7. Total(fills, D) = fills[m] + Total(fills, E) /\ Total(rem, D) = rem[m] + Total(rem, E)
      <4>1. \A n \in D : fills[n] \in Nat /\ rem[n] \in Nat
        BY <1>2
      <4> HIDE DEF fills, rem
      <4>2. QED
        BY <3>1, <4>1, TotalStep
    <3>8. Total(rem, E) = OfferedBefore(taker, book, m)
      BY <1>2, <3>4
    <3>9. PICK b, r, z, f \in Nat :
             /\ b = OfferedBefore(taker, book, m) /\ r = remaining(m)
             /\ z = taker.size /\ f = fills[m]
      BY <1>2
    <3>10. /\ b + r <= z => f = r
           /\ b <= z /\ z < b + r => f = z - b
           /\ z <= b => f = 0
      BY <3>1, <3>9, OneFill
    <3>11. /\ Total(rem, D) = r + b
           /\ Total(fills, D) = f + (IF b < z THEN b ELSE z)
      BY <1>2, <3>6, <3>7, <3>8, <3>9
    <3>12. QED
      BY <3>9, <3>10, <3>11
  <2>4. QED
    BY <2>2, <2>3
<1>4. R \in P
  <2> HIDE DEF P, R
  <2> QED BY <1>1, <1>3, SubsetInduction
<1>5. Total(rem, R) \in Nat
  <2> HIDE DEF R, rem
  <2> QED BY <1>1, <1>2, TotalInNat
<1>6. QED
  BY <1>4, <1>5

\* What is taken of all makers.
LEMMA TakenOfAll ==
    ASSUME NEW side, NEW book, SideOK(side, book), NEW taker, taker.size \in Nat
    PROVE  /\ Fills(taker, book) \in [book -> Nat]
           /\ SumFunction(Fills(taker, book)) = Total(Fills(taker, book), book)
           /\ SumFunction(Fills(taker, book)) = Total(Fills(taker, book), Reached(taker, book))
           /\ SumFunction(Fills(taker, book)) \in Nat
           /\ SumFunction(Fills(taker, book)) <= taker.size
<1> DEFINE R == Reached(taker, book)
           fills == Fills(taker, book)
<1>1. IsFiniteSet(R) /\ R \subseteq book /\ IsFiniteSet(book)
  BY OfferedFacts DEF SideOK
<1>2. fills \in [book -> Nat] /\ \A m \in book \ R : fills[m] = 0
  <2>1. fills = [m \in book |-> fills[m]]
    BY DEF Fills
  <2>2. QED
    BY <2>1, OneFill
<1>3. [m \in book |-> fills[m]] = fills
  BY <1>2
<1>4. PICK taken, offered : /\ taken = Total(fills, R) /\ offered \in Nat
                            /\ taken = IF offered < taker.size THEN offered ELSE taker.size
  BY TakenInOrder
<1> HIDE DEF R, fills
<1>5. Total(fills, book) = Total(fills, R) + Total(fills, book \ R)
  BY <1>1, <1>2, TotalSplit
<1>6. Total(fills, book \ R) = 0
  BY <1>1, <1>2, FS_Subset, TotalZero
<1>7. Total(fills, R) \in Nat /\ Total(fills, R) <= taker.size
  BY <1>4
<1>8. SumFunction(fills) = Total(fills, book)
  BY <1>3 DEF Total
<1>9. QED
  BY <1>2, <1>5, <1>6, <1>7, <1>8 DEF R, fills

\* A maker and those before it offer no more than all that are reached; and
\* when one maker is before another, no more than those before the other.
LEMMA OfferedUpTo ==
    ASSUME NEW side, NEW book, SideOK(side, book), NEW taker,
           NEW m \in Reached(taker, book), NEW S \in SUBSET Reached(taker, book),
           m \in S, Before(taker, book, m) \subseteq S
    PROVE  OfferedBefore(taker, book, m) + remaining(m) <= Total(Offered(book), S)
<1> DEFINE R == Reached(taker, book)
           B == Before(taker, book, m)
           rem == Offered(book)
<1>1. /\ IsFiniteSet(R) /\ R \subseteq book /\ \A n \in R : rem[n] \in Nat
      /\ rem[m] = remaining(m) /\ OfferedBefore(taker, book, m) = Total(rem, B)
      /\ Total(rem, B) \in Nat
  BY OfferedFacts
<1>2. m \notin B
  BY <1>1, AheadOrder DEF Before
<1>3. IsFiniteSet(S) /\ \A n \in S : rem[n] \in Nat
  BY <1>1, FS_Subset
<1> HIDE DEF R, B, rem
<1>4. Total(rem, S) = rem[m] + Total(rem, S \ {m})
  BY <1>3, TotalStep
<1>5. Total(rem, B) <= Total(rem, S \ {m}) /\ Total(rem, S \ {m}) \in Nat
  <2>1. B \in SUBSET (S \ {m}) /\ IsFiniteSet(S \ {m}) /\ \A n \in S \ {m} : rem[n] \in Nat
    BY <1>2, <1>3, FS_Subset DEF B
  <2>2. QED
    BY <2>1, TotalMonotone, TotalInNat
<1>6. rem[m] \in Nat
  BY <1>3
<1>7. QED
  BY <1>1, <1>4, <1>5, <1>6 DEF B, rem

\* A taker that is not filled has emptied all makers it reached.
LEMMA ReachedEmptied ==
    ASSUME NEW side, NEW book, SideOK(side, book), NEW taker, taker.size \in Nat,
           SumFunction(Fills(taker, book)) < taker.size, NEW m \in Reached(taker, book)
    PROVE  Fills(taker, book)[m] = remaining(m)
<1> DEFINE R == Reached(taker, book)
<1>1. m \in book /\ Before(taker, book, m) \subseteq R
  BY DEF Before, Reached
<1>2. OfferedBefore(taker, book, m) + remaining(m) <= Total(Offered(book), R)
  BY <1>1, OfferedUpTo
<1>3. PICK b, r, z \in Nat : /\ b = OfferedBefore(taker, book, m) /\ r = remaining(m)
                             /\ z = taker.size
  BY <1>1, OfferedFacts
<1>4. PICK offered \in Nat :
         /\ offered = Total(Offered(book), R)
         /\ Total(Fills(taker, book), R) = IF offered < taker.size THEN offered ELSE taker.size
  BY TakenInOrder
<1>5. offered < z
  <2>1. Total(Fills(taker, book), R) < taker.size
    BY TakenOfAll
  <2> HIDE DEF R
  <2>2. QED
    BY <1>3, <1>4, <2>1
<1>6. b + r <= z
  BY <1>2, <1>3, <1>4, <1>5
<1>7. QED
  BY <1>1, <1>3, <1>6, OneFill

\* When a maker gives something, those ahead of it give all they have.
LEMMA AheadEmptied ==
    ASSUME NEW side, NEW book, SideOK(side, book), NEW taker, taker.size \in Nat,
           NEW m \in book, NEW n \in book, Ahead(n, m), Fills(taker, book)[m] > 0
    PROVE  Fills(taker, book)[n] = remaining(n)
<1> DEFINE R == Reached(taker, book)
           B == Before(taker, book, m)
<1>1. m \in R /\ taker.size > OfferedBefore(taker, book, m)
  BY OneFill
<1>2. n \in R
  BY <1>1, ReachedClosed
<1>3. n \in B /\ Before(taker, book, n) \subseteq B /\ B \subseteq R
  <2>1. \A k \in book : Ahead(k, n) => Ahead(k, m)
    BY AheadOrder
  <2>2. R \subseteq book
    BY DEF Reached
  <2>3. QED
    BY <1>2, <2>1, <2>2 DEF Before
<1>4. OfferedBefore(taker, book, n) + remaining(n) <= Total(Offered(book), B)
  BY <1>2, <1>3, OfferedUpTo
<1>5. PICK b, c, r, z \in Nat :
         /\ b = OfferedBefore(taker, book, n) /\ r = remaining(n) /\ z = taker.size
         /\ c = OfferedBefore(taker, book, m) /\ c = Total(Offered(book), B)
  <2>1. /\ OfferedBefore(taker, book, m) = Total(Offered(book), B)
        /\ OfferedBefore(taker, book, m) \in Nat /\ OfferedBefore(taker, book, n) \in Nat
    BY OfferedFacts
  <2>2. remaining(n) \in Nat
    BY OfferedFacts
  <2> HIDE DEF B
  <2>3. QED
    BY <2>1, <2>2
<1>6. b + r <= z
  BY <1>1, <1>4, <1>5
<1>7. QED
  BY <1>2, <1>5, <1>6, OneFill

-----------------------------------------------------------------------------
(* The book as a state *)

\* The states of an order, and the opposite side.
Status == {"Open", "Partial", "Filled", "Cancelled"}
Other(side) == IF side = "Buy" THEN "Sell" ELSE "Buy"

\* Every order is stored under its id and not filled beyond its size.
Stored(orders) ==
    /\ orders \in Seq(Order)
    /\ \A id \in DOMAIN orders : orders[id].id = id /\ orders[id].filled <= orders[id].size

\* The status of a stored order that rests.
RestingStatus(order) == IF order.filled > 0 THEN "Partial" ELSE "Open"

\* A resting copy agrees with the stored one but for the status, and has that
\* status or is still open.
Mirrored(book, orders) ==
    \A o \in book :
        /\ o.id \in DOMAIN orders
        /\ LET p == orders[o.id]
           IN  /\ p.side = o.side /\ p.order_type = o.order_type
               /\ p.price = o.price /\ p.size = o.size /\ p.filled = o.filled
               /\ p.address = o.address /\ p.timestamp = o.timestamp
               /\ p.status = RestingStatus(o) /\ o.status \in {"Open", p.status}

\* A limit order with the status of a resting one rests.
AllRest(book, orders) ==
    \A id \in DOMAIN orders :
        (orders[id].order_type = "Limit" /\ orders[id].status = RestingStatus(orders[id]))
            => \E r \in book : r.id = id

\* A limit order trades at its price or at a better one.
Fair(trade, order) ==
    order.order_type = "Limit" =>
        IF order.side = "Buy" THEN trade.price <= order.price ELSE trade.price >= order.price

\* The trades of an order, and how much it traded.
TradesWith(id, deals) == {t \in deals : id \in {t.maker, t.taker}}
Traded(id, deals) == SumFunction([t \in TradesWith(id, deals) |-> t.size])

\* Trades are between stored orders, at prices both accept, and the fill of
\* every order is what it traded.
Dealt(deals, orders) ==
    /\ IsFiniteSet(deals)
    /\ \A t \in deals : /\ t.size \in Nat /\ t.maker \in DOMAIN orders
                        /\ t.taker \in DOMAIN orders
                        /\ Fair(t, orders[t.maker]) /\ Fair(t, orders[t.taker])
    /\ \A id \in DOMAIN orders :
          orders[id].filled = Traded(id, deals)

\* No order of one side crosses one of the other.
Uncrossed(own, opp) == \A o \in own, m \in opp : ~ Crosses(o, m)

\* A sound book, seen from one of its sides.
BookState(side, own, opp, orders, deals) ==
    /\ side \in {"Buy", "Sell"}
    /\ Stored(orders)
    /\ SideOK(side, own) /\ SideOK(Other(side), opp)
    /\ Mirrored(own, orders) /\ Mirrored(opp, orders)
    /\ AllRest(own \cup opp, orders)
    /\ Uncrossed(own, opp)
    /\ Dealt(deals, orders)

\* The inductive invariant of the book.  BookNotCrossed speaks of the best
\* orders; a match stops at the first maker that does not cross, which is right
\* only because no order on either side crosses one on the other.
BookInv == BookState("Buy", bids, asks, all_orders, trades)

\* Neither side is the first.
LEMMA UncrossedSymmetric ==
    ASSUME NEW side \in {"Buy", "Sell"}, NEW own, NEW opp,
           SideOK(side, own), SideOK(Other(side), opp), Uncrossed(own, opp)
    PROVE  Uncrossed(opp, own)
<1>1. /\ \A o \in own : o.price \in Int /\ o.side = side /\ o.order_type = "Limit"
      /\ \A o \in opp : o.price \in Int /\ o.side = Other(side) /\ o.order_type = "Limit"
  BY DEF SideOK, Order
<1>2. QED
  BY <1>1 DEF Uncrossed, Crosses, Other

\* A book that is sound seen from one side is so from the other.
LEMMA BookStateSymmetric ==
    ASSUME NEW side \in {"Buy", "Sell"}, NEW own, NEW opp, NEW orders, NEW deals,
           BookState(side, own, opp, orders, deals)
    PROVE  BookState(Other(side), opp, own, orders, deals)
<1>1. Other(Other(side)) = side /\ Other(side) \in {"Buy", "Sell"}
  BY DEF Other
<1>2. Uncrossed(opp, own)
  BY UncrossedSymmetric DEF BookState
<1>3. own \cup opp = opp \cup own
  OBVIOUS
<1>4. QED
  BY <1>1, <1>2, <1>3 DEF BookState

\* RecordFills gives the stored copies of the makers what the makers gave, and
\* leaves the others alone.
LEMMA Recorded ==
    ASSUME NEW side, NEW book, SideOK(side, book), Stored(all_orders),
           Mirrored(book, all_orders), NEW fills \in [book -> Nat],
           \A m \in book : fills[m] <= remaining(m)
    PROVE  LET stored == RecordFills(book, fills)
           IN  /\ stored \in Seq(Order) /\ Len(stored) = Len(all_orders)
               /\ \A m \in book :
                     /\ stored[m.id].filled = m.filled + fills[m]
                     /\ stored[m.id].status
                            = IF fills[m] = 0 THEN all_orders[m.id].status
                              ELSE IF fills[m] = remaining(m) THEN "Filled" ELSE "Partial"
               /\ \A id \in 1 .. Len(all_orders) :
                     /\ stored[id].id = id /\ stored[id].filled <= stored[id].size
                     /\ stored[id].side = all_orders[id].side
                     /\ stored[id].order_type = all_orders[id].order_type
                     /\ stored[id].price = all_orders[id].price
                     /\ stored[id].size = all_orders[id].size
                     /\ stored[id].address = all_orders[id].address
                     /\ stored[id].timestamp = all_orders[id].timestamp
                     /\ (\A m \in book : m.id # id) => stored[id] = all_orders[id]
<1> DEFINE stored == RecordFills(book, fills)
           N == Len(all_orders)
<1>1. all_orders \in Seq(Order) /\ DOMAIN all_orders = 1 .. N /\ N \in Nat
  BY DEF Stored
<1>2. \A id \in 1 .. N : /\ all_orders[id] \in Order /\ all_orders[id].id = id
                         /\ all_orders[id].filled <= all_orders[id].size
  BY <1>1 DEF Stored
<1>3. \A m \in book : /\ m.id \in 1 .. N /\ all_orders[m.id].size = m.size
                      /\ all_orders[m.id].filled = m.filled
                      /\ m.size \in Nat /\ m.filled \in Nat /\ m.filled < m.size
                      /\ remaining(m) = m.size - m.filled
  BY <1>1 DEF SideOK, Order, Mirrored, remaining
<1>4. DOMAIN stored = 1 .. N
  BY <1>1 DEF RecordFills
<1>5. ASSUME NEW id \in 1 .. N,
             NEW m \in book, m.id = id, fills[m] > 0
      PROVE  LET done == fills[m] = remaining(m)
             IN  stored[id] = [all_orders[id] EXCEPT
                                 !.filled = IF done THEN all_orders[id].size
                                            ELSE m.filled + fills[m],
                                 !.status = IF done THEN "Filled" ELSE "Partial"]
  <2>1. (CHOOSE n \in book : n.id = id) = m
    BY <1>5 DEF SideOK
  <2>2. QED
    BY <1>1, <1>5, <2>1 DEF RecordFills
<1>6. ASSUME NEW id \in 1 .. N, \A m \in book : ~ (m.id = id /\ fills[m] > 0)
      PROVE  stored[id] = all_orders[id]
  BY <1>1, <1>6 DEF RecordFills
<1>7. ASSUME NEW id \in 1 .. N, NEW m \in book, m.id = id, fills[m] > 0
      PROVE  /\ stored[id] \in Order
             /\ stored[id].filled = m.filled + fills[m]
             /\ stored[id].status = IF fills[m] = remaining(m) THEN "Filled" ELSE "Partial"
             /\ stored[id].id = id /\ stored[id].filled <= stored[id].size
             /\ stored[id].side = all_orders[id].side
             /\ stored[id].order_type = all_orders[id].order_type
             /\ stored[id].price = all_orders[id].price
             /\ stored[id].size = all_orders[id].size
             /\ stored[id].address = all_orders[id].address
             /\ stored[id].timestamp = all_orders[id].timestamp
  <2>1. PICK f \in Nat : /\ f = m.filled + fills[m] /\ f <= m.size
                         /\ f = IF fills[m] = remaining(m) THEN all_orders[id].size
                                ELSE m.filled + fills[m]
    <3>1. PICK a, b, c \in Nat : a = m.filled /\ b = fills[m] /\ c = m.size
      BY <1>3
    <3>2. b <= c - a /\ remaining(m) = c - a /\ all_orders[id].size = c
      BY <1>3, <1>7, <3>1
    <3>3. QED
      BY <3>1, <3>2
  <2>2. PICK st \in Status : st = IF fills[m] = remaining(m) THEN "Filled" ELSE "Partial"
    BY DEF Status
  <2> HIDE DEF stored
  <2>3. PICK p \in Order : p = all_orders[id]
    BY <1>2
  <2>4. stored[id] = [p EXCEPT !.filled = f, !.status = st]
    <3>1. CASE fills[m] = remaining(m)
      <4>1. f = all_orders[id].size /\ st = "Filled"
        BY <2>1, <2>2, <3>1
      <4>2. stored[id] = [all_orders[id] EXCEPT !.filled = all_orders[id].size, !.status = "Filled"]
        BY <1>5, <1>7, <3>1
      <4>3. QED
        BY <2>3, <4>1, <4>2
    <3>2. CASE fills[m] # remaining(m)
      <4>1. f = m.filled + fills[m] /\ st = "Partial"
        BY <2>1, <2>2, <3>2
      <4>2. stored[id] = [all_orders[id] EXCEPT !.filled = m.filled + fills[m], !.status = "Partial"]
        BY <1>5, <1>7, <3>2
      <4>3. QED
        BY <2>3, <4>1, <4>2
    <3>3. QED
      BY <3>1, <3>2
  <2>5. /\ stored[id] \in Order /\ stored[id].filled = f /\ stored[id].status = st
        /\ stored[id].id = p.id /\ stored[id].side = p.side
        /\ stored[id].order_type = p.order_type
        /\ stored[id].price = p.price /\ stored[id].size = p.size
        /\ stored[id].address = p.address /\ stored[id].timestamp = p.timestamp
    BY <2>4 DEF Order, Status
  <2>6. p.id = id /\ p.size = m.size
    BY <1>2, <1>3, <1>7, <2>3
  <2>7. QED
    BY <2>1, <2>2, <2>3, <2>5, <2>6
<1>8. \A id \in 1 .. N : stored[id] \in Order
  BY <1>2, <1>6, <1>7
<1>9. stored \in Seq(Order) /\ Len(stored) = N
  <2>1. stored = [id \in 1 .. N |-> stored[id]]
    BY <1>1 DEF RecordFills
  <2> HIDE DEF stored
  <2>2. stored \in [1 .. N -> Order]
    BY <1>8, <2>1
  <2>3. QED
    BY <1>1, <2>2
<1>10. ASSUME NEW m \in book
       PROVE  /\ stored[m.id].filled = m.filled + fills[m]
              /\ stored[m.id].status
                     = IF fills[m] = 0 THEN all_orders[m.id].status
                       ELSE IF fills[m] = remaining(m) THEN "Filled" ELSE "Partial"
  <2>1. CASE fills[m] > 0
    BY <1>3, <1>7, <2>1
  <2>2. CASE fills[m] = 0
    <3>1. \A n \in book : ~ (n.id = m.id /\ fills[n] > 0)
      BY <2>2 DEF SideOK
    <3>2. stored[m.id] = all_orders[m.id]
      BY <1>3, <1>6, <3>1
    <3>3. QED
      BY <1>3, <2>2, <3>2
  <2>3. QED
    BY <2>1, <2>2
<1>11. ASSUME NEW id \in 1 .. N
       PROVE  /\ stored[id].id = id /\ stored[id].filled <= stored[id].size
              /\ stored[id].side = all_orders[id].side
              /\ stored[id].order_type = all_orders[id].order_type
              /\ stored[id].price = all_orders[id].price
              /\ stored[id].size = all_orders[id].size
              /\ stored[id].address = all_orders[id].address
              /\ stored[id].timestamp = all_orders[id].timestamp
              /\ (\A m \in book : m.id # id) => stored[id] = all_orders[id]
  <2>1. CASE \E m \in book : m.id = id /\ fills[m] > 0
    BY <1>7, <2>1
  <2>2. CASE ~ \E m \in book : m.id = id /\ fills[m] > 0
    <3>1. stored[id] = all_orders[id]
      BY <1>6, <2>2
    <3>2. QED
      BY <1>2, <3>1
  <2>3. QED
    BY <2>1, <2>2
<1>12. QED
  <2> HIDE DEF stored
  <2>1. QED
    BY <1>9, <1>10, <1>11 DEF stored

-----------------------------------------------------------------------------
(* add_order *)

\* An order is added to its own side after it was matched against the other.
Adds(side, own, opp, order, fills, taker, orders) ==
    /\ BookState(side, own, opp, all_orders, trades)
    /\ order \in Order /\ order.side = side /\ order.id = Len(all_orders) + 1
    /\ order.status = "Open"
    /\ fills = Fills(order, opp)
    /\ LET taken == SumFunction(fills)
       IN  taker = [order EXCEPT
                      !.filled = taken,
                      !.status = CASE taken = order.size -> "Filled"
                                   [] taken < order.size /\ taken > 0
                                         /\ order.order_type = "Limit" -> "Partial"
                                   [] OTHER -> order.status]
    /\ orders = Append(RecordFills(opp, fills), taker)

\* What remains of a limit order rests.
Rests(taker) ==
    IF taker.order_type = "Limit" /\ remaining(taker) > 0 THEN {taker} ELSE {}

\* The fills of the new order: no more than the makers offer, nor than the
\* order asks for.
LEMMA AddedFills ==
    ASSUME NEW side, NEW own, NEW opp, NEW order, NEW fills, NEW taker, NEW orders,
           Adds(side, own, opp, order, fills, taker, orders)
    PROVE  /\ SideOK(Other(side), opp) /\ order.size \in Nat
           /\ fills \in [opp -> Nat]
           /\ \A m \in opp : fills[m] <= remaining(m) /\ remaining(m) > 0
           /\ SumFunction(fills) \in Nat /\ SumFunction(fills) <= order.size
           /\ SumFunction(fills) = Total(fills, opp)
<1>1. SideOK(Other(side), opp) /\ order.size \in Nat /\ fills = Fills(order, opp)
  BY DEF Adds, BookState, Order
<1>2. /\ fills \in [opp -> Nat]
      /\ SumFunction(fills) \in Nat /\ SumFunction(fills) <= order.size
      /\ SumFunction(fills) = Total(fills, opp)
  BY <1>1, TakenOfAll
<1>3. \A m \in opp : fills[m] <= remaining(m)
  BY <1>1, OneFill
<1>4. \A m \in opp : remaining(m) > 0
  BY <1>1, OfferedFacts
<1>5. QED
  BY <1>1, <1>2, <1>3, <1>4

\* The new order after it was matched: its fill, its remainder and its status.
LEMMA AddedTaker ==
    ASSUME NEW side, NEW own, NEW opp, NEW order, NEW fills, NEW taker, NEW orders,
           Adds(side, own, opp, order, fills, taker, orders)
    PROVE  /\ taker \in Order /\ taker.filled = SumFunction(fills)
           /\ taker.id = Len(all_orders) + 1 /\ taker.side = side
           /\ taker.order_type = order.order_type
           /\ taker.price = order.price /\ taker.size = order.size
           /\ taker.timestamp = order.timestamp
           /\ remaining(taker) = order.size - SumFunction(fills)
           /\ taker.filled < taker.size /\ taker.order_type = "Limit"
                  => taker.status = RestingStatus(taker)
           /\ taker.filled = taker.size => taker.status = "Filled"
<1>1. PICK f \in Nat : f = SumFunction(fills) /\ f <= order.size /\ order.size \in Nat \ {0}
  BY AddedFills DEF Adds, Order
<1>2. PICK st \in Status : st = CASE f = order.size -> "Filled"
                                 [] f < order.size /\ f > 0 /\ order.order_type = "Limit" -> "Partial"
                                 [] OTHER -> order.status
  BY DEF Status, Adds
<1>3. taker = [order EXCEPT !.filled = f, !.status = st] /\ order \in Order
  BY <1>1, <1>2 DEF Adds
<1>4. /\ taker \in Order /\ taker.filled = f /\ taker.status = st
      /\ taker.id = order.id /\ taker.side = order.side
      /\ taker.order_type = order.order_type
      /\ taker.price = order.price /\ taker.size = order.size
      /\ taker.timestamp = order.timestamp
  BY <1>3 DEF Order, Status
<1>5. order.id = Len(all_orders) + 1 /\ order.side = side /\ order.status = "Open"
  BY DEF Adds
<1>6. remaining(taker) = order.size - f
  BY <1>4 DEF remaining
<1>7. f < order.size /\ order.order_type = "Limit" => st = IF f > 0 THEN "Partial" ELSE "Open"
  BY <1>1, <1>2, <1>5
<1>8. f = order.size => st = "Filled"
  BY <1>2
<1>9. QED
  BY <1>1, <1>4, <1>5, <1>6, <1>7, <1>8 DEF RestingStatus

\* The stored orders after the match: the makers' fills and states have
\* changed, and the new order is last.
LEMMA AddedOrders ==
    ASSUME NEW side, NEW own, NEW opp, NEW order, NEW fills, NEW taker, NEW orders,
           Adds(side, own, opp, order, fills, taker, orders)
    PROVE  /\ Len(all_orders) \in Nat /\ DOMAIN all_orders = 1 .. Len(all_orders)
           /\ orders \in Seq(Order) /\ DOMAIN orders = 1 .. Len(all_orders) + 1
           /\ orders[Len(all_orders) + 1] = taker
           /\ \A m \in opp :
                 /\ m.id \in 1 .. Len(all_orders)
                 /\ orders[m.id].filled = m.filled + fills[m]
                 /\ orders[m.id].status
                        = IF fills[m] = 0 THEN all_orders[m.id].status
                          ELSE IF fills[m] = remaining(m) THEN "Filled" ELSE "Partial"
           /\ \A id \in 1 .. Len(all_orders) :
                 /\ orders[id].id = id /\ orders[id].filled <= orders[id].size
                 /\ orders[id].side = all_orders[id].side
                 /\ orders[id].order_type = all_orders[id].order_type
                 /\ orders[id].price = all_orders[id].price
                 /\ orders[id].size = all_orders[id].size
                 /\ orders[id].address = all_orders[id].address
                 /\ orders[id].timestamp = all_orders[id].timestamp
                 /\ (\A m \in opp : m.id # id) => orders[id] = all_orders[id]
<1> DEFINE N == Len(all_orders)
<1>1. SideOK(Other(side), opp) /\ Stored(all_orders) /\ Mirrored(opp, all_orders)
  BY DEF Adds, BookState
<1>2. PICK stored : stored = RecordFills(opp, fills)
  OBVIOUS
<1>3. /\ fills \in [opp -> Nat] /\ \A m \in opp : fills[m] <= remaining(m)
  BY AddedFills
<1>4. /\ stored \in Seq(Order) /\ Len(stored) = N
      /\ \A m \in opp :
            /\ stored[m.id].filled = m.filled + fills[m]
            /\ stored[m.id].status
                   = IF fills[m] = 0 THEN all_orders[m.id].status
                     ELSE IF fills[m] = remaining(m) THEN "Filled" ELSE "Partial"
      /\ \A id \in 1 .. N :
            /\ stored[id].id = id /\ stored[id].filled <= stored[id].size
            /\ stored[id].side = all_orders[id].side
            /\ stored[id].order_type = all_orders[id].order_type
            /\ stored[id].price = all_orders[id].price
            /\ stored[id].size = all_orders[id].size
            /\ stored[id].address = all_orders[id].address
            /\ stored[id].timestamp = all_orders[id].timestamp
            /\ (\A m \in opp : m.id # id) => stored[id] = all_orders[id]
  BY <1>1, <1>2, <1>3, Recorded
<1>5. orders = Append(stored, taker) /\ taker \in Order
  <2>1. orders = Append(stored, taker)
    BY <1>2 DEF Adds
  <2>2. taker \in Order
    BY AddedTaker
  <2>3. QED
    BY <2>1, <2>2
<1>6. N \in Nat /\ DOMAIN all_orders = 1 .. N
  BY <1>1 DEF Stored
<1>7. /\ orders \in Seq(Order) /\ DOMAIN orders = 1 .. N + 1 /\ orders[N + 1] = taker
      /\ \A id \in 1 .. N : orders[id] = stored[id]
  BY <1>4, <1>5, <1>6
<1>8. \A m \in opp : m.id \in 1 .. N
  BY <1>1, <1>6 DEF Mirrored
<1>9. QED
  BY <1>4, <1>6, <1>7, <1>8

\* Orders are still stored under their ids.
LEMMA AddStored ==
    ASSUME NEW side, NEW own, NEW opp, NEW order, NEW fills, NEW taker, NEW orders,
           Adds(side, own, opp, order, fills, taker, orders)
    PROVE  Stored(orders)
<1> DEFINE N == Len(all_orders)
<1>1. /\ N \in Nat /\ orders \in Seq(Order) /\ DOMAIN orders = 1 .. N + 1
      /\ orders[N + 1] = taker
      /\ \A id \in 1 .. N : orders[id].id = id /\ orders[id].filled <= orders[id].size
  BY AddedOrders
<1>2. taker.id = N + 1 /\ taker.filled <= taker.size
  BY AddedTaker, AddedFills
<1>3. \A id \in 1 .. N + 1 : id \in 1 .. N \/ id = N + 1
  BY <1>1
<1>4. QED
  BY <1>1, <1>2, <1>3 DEF Stored

\* The ids of the two sides and of the new order differ.
LEMMA AddedIds ==
    ASSUME NEW side, NEW own, NEW opp, NEW order, NEW fills, NEW taker, NEW orders,
           Adds(side, own, opp, order, fills, taker, orders)
    PROVE  /\ \A o \in own : /\ o.id \in 1 .. Len(all_orders) /\ o.id # taker.id
                             /\ \A m \in opp : m.id # o.id
           /\ \A m \in opp : m.id # taker.id
<1>1. /\ Len(all_orders) \in Nat /\ DOMAIN all_orders = 1 .. Len(all_orders)
      /\ taker.id = Len(all_orders) + 1
  BY AddedOrders, AddedTaker
<1>2. /\ \A o \in own : o.id \in DOMAIN all_orders /\ all_orders[o.id].side = side
      /\ \A m \in opp : m.id \in DOMAIN all_orders /\ all_orders[m.id].side = Other(side)
  BY DEF Adds, BookState, SideOK, Mirrored
<1>3. side # Other(side)
  BY DEF Other
<1>4. QED
  BY <1>1, <1>2, <1>3

\* The side of the new order is still sound, and mirrors the stored copies.
LEMMA AddOwn ==
    ASSUME NEW side, NEW own, NEW opp, NEW order, NEW fills, NEW taker, NEW orders,
           Adds(side, own, opp, order, fills, taker, orders)
    PROVE  /\ SideOK(side, own \cup Rests(taker))
           /\ Mirrored(own \cup Rests(taker), orders)
<1> DEFINE N == Len(all_orders)
<1>1. SideOK(side, own) /\ Mirrored(own, all_orders)
  BY DEF Adds, BookState
<1>2. /\ N \in Nat /\ DOMAIN orders = 1 .. N + 1 /\ orders[N + 1] = taker
      /\ \A o \in own : orders[o.id] = all_orders[o.id] /\ o.id \in 1 .. N /\ o.id # taker.id
  <2>1. \A o \in own : o.id \in 1 .. N /\ o.id # taker.id /\ \A m \in opp : m.id # o.id
    BY AddedIds
  <2>2. \A o \in own : orders[o.id] = all_orders[o.id]
    BY <2>1, AddedOrders
  <2>3. QED
    BY <2>1, <2>2, AddedOrders
<1>3. /\ taker \in Order /\ taker.id = N + 1 /\ taker.side = side
      /\ taker.filled < taker.size /\ taker.order_type = "Limit"
             => taker.status = RestingStatus(taker)
  BY AddedTaker
<1>4. \A o \in Rests(taker) : o = taker /\ taker.filled < taker.size /\ taker.order_type = "Limit"
  BY <1>3 DEF Rests, remaining, Order
<1>5. IsFiniteSet(own \cup Rests(taker))
  BY <1>1, FS_Singleton, FS_EmptySet, FS_Union DEF Rests, SideOK
<1>6. SideOK(side, own \cup Rests(taker))
  BY <1>1, <1>2, <1>3, <1>4, <1>5 DEF SideOK
<1>7. \A o \in own : o.id \in DOMAIN orders
  BY <1>2
<1>8. N + 1 \in DOMAIN orders
  BY <1>2
<1>9. Mirrored(own \cup Rests(taker), orders)
  BY <1>1, <1>2, <1>3, <1>4, <1>7, <1>8 DEF Mirrored
<1>10. QED
  BY <1>6, <1>9

\* A maker that is not emptied, with what it gave.
LEMMA MatchedOrder ==
    ASSUME NEW side, NEW own, NEW opp, NEW order, NEW fills, NEW taker, NEW orders,
           Adds(side, own, opp, order, fills, taker, orders),
           NEW p \in Matched(opp, fills)
    PROVE  \E m \in opp : /\ fills[m] < remaining(m)
                          /\ p \in Order /\ p.id = m.id /\ p.side = m.side
                          /\ p.order_type = m.order_type /\ p.price = m.price
                          /\ p.size = m.size /\ p.filled = m.filled + fills[m]
                          /\ p.filled < p.size /\ p.status = m.status
                          /\ p.address = m.address /\ p.timestamp = m.timestamp
<1>1. PICK m \in opp : fills[m] < remaining(m) /\ p = [m EXCEPT !.filled = @ + fills[m]]
  BY DEF Matched
<1>2. m \in Order /\ fills[m] \in Nat
  BY AddedFills DEF SideOK
<1>3. PICK f \in Nat : f = m.filled + fills[m]
  BY <1>2 DEF Order
<1>4. p = [m EXCEPT !.filled = f]
  BY <1>1, <1>3
<1>5. /\ p \in Order /\ p.id = m.id /\ p.side = m.side
      /\ p.order_type = m.order_type /\ p.price = m.price
      /\ p.size = m.size /\ p.filled = f /\ p.status = m.status
      /\ p.address = m.address /\ p.timestamp = m.timestamp
  BY <1>2, <1>4 DEF Order
<1>6. m.filled \in Nat /\ m.size \in Nat /\ remaining(m) = m.size - m.filled
  BY <1>2 DEF Order, remaining
<1>7. f < m.size
  BY <1>1, <1>2, <1>3, <1>6
<1>8. QED
  BY <1>1, <1>3, <1>5, <1>7

\* The side of the makers is still sound, and mirrors the stored copies:
\* makers that are filled have left it.
LEMMA AddOpp ==
    ASSUME NEW side, NEW own, NEW opp, NEW order, NEW fills, NEW taker, NEW orders,
           Adds(side, own, opp, order, fills, taker, orders)
    PROVE  /\ SideOK(Other(side), Matched(opp, fills))
           /\ Mirrored(Matched(opp, fills), orders)
<1> DEFINE N == Len(all_orders)
           book == Matched(opp, fills)
<1>1. SideOK(Other(side), opp) /\ Mirrored(opp, all_orders)
  BY DEF Adds, BookState
<1>2. IsFiniteSet(book)
  <2> DEFINE S == {n \in opp : fills[n] < remaining(n)}
  <2>1. IsFiniteSet(S)
    BY <1>1, FS_Subset DEF SideOK
  <2>2. book = {[m EXCEPT !.filled = @ + fills[m]] : m \in S}
    BY DEF Matched
  <2> DEFINE f == [m \in S |-> [m EXCEPT !.filled = @ + fills[m]]]
  <2>3. f \in Surjection(S, book)
    BY <2>2 DEF Surjection
  <2>4. QED
    BY <2>1, <2>3, FS_Surjection
<1>3. \A p \in book : p \in Order /\ p.side = Other(side) /\ p.order_type = "Limit" /\ p.filled < p.size
  <2>1. \A m \in opp : m.side = Other(side) /\ m.order_type = "Limit"
    BY <1>1 DEF SideOK
  <2> HIDE DEF book
  <2> TAKE p \in book
  <2>2. PICK m \in opp : /\ p \in Order /\ p.side = m.side
                          /\ p.order_type = m.order_type /\ p.filled < p.size
    BY MatchedOrder DEF book
  <2>3. QED
    BY <2>1, <2>2
<1>4. ASSUME NEW p \in book, NEW q \in book, p.id = q.id PROVE p = q
  <2>1. PICK m \in opp : fills[m] < remaining(m) /\ p = [m EXCEPT !.filled = @ + fills[m]]
    BY DEF Matched
  <2>2. PICK n \in opp : fills[n] < remaining(n) /\ q = [n EXCEPT !.filled = @ + fills[n]]
    BY DEF Matched
  <2>3. p.id = m.id /\ q.id = n.id
    BY <1>1, <2>1, <2>2 DEF SideOK, Order
  <2>4. m = n
    BY <1>1, <1>4, <2>3 DEF SideOK
  <2>5. QED
    BY <2>1, <2>2, <2>4
<1>5. SideOK(Other(side), book)
  <2> HIDE DEF book
  <2> QED BY <1>2, <1>3, <1>4 DEF SideOK
<1>6. ASSUME NEW p \in book
      PROVE  /\ p.id \in DOMAIN orders
             /\ orders[p.id].side = p.side /\ orders[p.id].order_type = p.order_type
             /\ orders[p.id].price = p.price /\ orders[p.id].size = p.size
             /\ orders[p.id].filled = p.filled /\ orders[p.id].status = RestingStatus(p)
             /\ orders[p.id].address = p.address /\ orders[p.id].timestamp = p.timestamp
             /\ p.status \in {"Open", orders[p.id].status}
  <2>1. PICK m \in opp : /\ fills[m] < remaining(m)
                         /\ p.id = m.id /\ p.side = m.side
                         /\ p.order_type = m.order_type /\ p.price = m.price
                         /\ p.size = m.size /\ p.filled = m.filled + fills[m]
                         /\ p.status = m.status
                         /\ p.address = m.address /\ p.timestamp = m.timestamp
    BY MatchedOrder
  <2>2. /\ N \in Nat /\ m.id \in 1 .. N /\ DOMAIN orders = 1 .. N + 1
        /\ orders[m.id].filled = m.filled + fills[m]
        /\ orders[m.id].status = IF fills[m] = 0 THEN all_orders[m.id].status
                                 ELSE IF fills[m] = remaining(m) THEN "Filled" ELSE "Partial"
    BY AddedOrders
  <2>3. /\ orders[m.id].side = all_orders[m.id].side
        /\ orders[m.id].order_type = all_orders[m.id].order_type
        /\ orders[m.id].price = all_orders[m.id].price
        /\ orders[m.id].size = all_orders[m.id].size
        /\ orders[m.id].address = all_orders[m.id].address
        /\ orders[m.id].timestamp = all_orders[m.id].timestamp
    BY <2>2, AddedOrders
  <2>4. /\ all_orders[m.id].side = m.side /\ all_orders[m.id].order_type = m.order_type
        /\ all_orders[m.id].price = m.price /\ all_orders[m.id].size = m.size
        /\ all_orders[m.id].address = m.address /\ all_orders[m.id].timestamp = m.timestamp
        /\ all_orders[m.id].status = RestingStatus(m)
        /\ m.status \in {"Open", RestingStatus(m)}
    BY <1>1 DEF Mirrored
  <2>5. PICK f, g \in Nat : f = m.filled /\ g = fills[m]
    BY <1>1, AddedFills DEF SideOK, Order
  <2>6. orders[m.id].status = RestingStatus(p)
    BY <2>1, <2>2, <2>4, <2>5 DEF RestingStatus
  <2>7. m.id \in DOMAIN orders
    BY <2>2
  <2>8. p.status \in {"Open", RestingStatus(p)}
    BY <2>1, <2>4, <2>5 DEF RestingStatus
  <2>9. QED
    BY <2>1, <2>2, <2>3, <2>4, <2>6, <2>7, <2>8
<1>7. QED
  <2> HIDE DEF book
  <2>1. Mirrored(book, orders)
    BY <1>6 DEF Mirrored
  <2>2. QED
    BY <1>5, <2>1 DEF book

\* Every order that is stored as open or partly filled is still in the book.
LEMMA AddRests ==
    ASSUME NEW side, NEW own, NEW opp, NEW order, NEW fills, NEW taker, NEW orders,
           Adds(side, own, opp, order, fills, taker, orders)
    PROVE  AllRest((own \cup Rests(taker)) \cup Matched(opp, fills), orders)
<1> DEFINE N == Len(all_orders)
           book == (own \cup Rests(taker)) \cup Matched(opp, fills)
<1>1. N \in Nat /\ DOMAIN all_orders = 1 .. N /\ DOMAIN orders = 1 .. N + 1
      /\ orders[N + 1] = taker
  BY AddedOrders
<1>2. SUFFICES ASSUME NEW id \in DOMAIN orders, orders[id].order_type = "Limit",
                      orders[id].status = RestingStatus(orders[id])
               PROVE  \E r \in book : r.id = id
  BY DEF AllRest
<1>3. CASE id = N + 1
  <2>1. taker.filled # taker.size
    BY <1>1, <1>2, <1>3, AddedTaker DEF RestingStatus
  <2>2. remaining(taker) > 0
    <3>1. taker.filled = SumFunction(fills) /\ taker.size = order.size
          /\ remaining(taker) = order.size - SumFunction(fills)
      BY AddedTaker
    <3>2. SumFunction(fills) \in Nat /\ order.size \in Nat /\ SumFunction(fills) <= order.size
      BY AddedFills
    <3>3. QED
      BY <2>1, <3>1, <3>2
  <2>3. taker \in Rests(taker) /\ taker.id = id
    BY <1>1, <1>2, <1>3, <2>2, AddedTaker DEF Rests
  <2>4. QED
    BY <2>3
<1>4. CASE id # N + 1
  <2>1. id \in 1 .. N
    BY <1>1, <1>4
  <2>2. CASE \A m \in opp : m.id # id
    <3>1. orders[id] = all_orders[id]
      BY <2>1, <2>2, AddedOrders
    <3>2. PICK r \in own \cup opp : r.id = id
      BY <1>1, <1>2, <2>1, <3>1 DEF Adds, BookState, AllRest
    <3>3. QED
      BY <2>2, <3>2
  <2>3. ASSUME NEW m \in opp, m.id = id PROVE \E r \in book : r.id = id
    <3>1. /\ fills[m] \in Nat /\ fills[m] <= remaining(m) /\ remaining(m) > 0
          /\ m \in Order
      BY AddedFills DEF SideOK
    <3>2. /\ orders[id].status = IF fills[m] = 0 THEN all_orders[id].status
                                 ELSE IF fills[m] = remaining(m) THEN "Filled" ELSE "Partial"
      BY <2>3, AddedOrders
    <3>3. fills[m] # remaining(m)
      BY <1>2, <3>1, <3>2 DEF RestingStatus
    <3>4. fills[m] < remaining(m)
      BY <3>1, <3>3 DEF remaining, Order
    <3> DEFINE p == [m EXCEPT !.filled = @ + fills[m]]
    <3>5. p \in Matched(opp, fills)
      BY <3>4 DEF Matched
    <3>6. p.id = id
      BY <2>3, <3>1 DEF Order
    <3>7. QED
      BY <3>5, <3>6
  <2>4. QED
    BY <2>2, <2>3
<1>5. QED
  BY <1>3, <1>4

\* A maker that is not reached does not cross the price of a limit order: the
\* loop stopped at it, or at one ahead of it with a price as good.
LEMMA UnreachedUncrossed ==
    ASSUME NEW side \in {"Buy", "Sell"}, NEW opp, SideOK(Other(side), opp),
           NEW order, order.side = side, order.order_type = "Limit", order.price \in Int,
           NEW m \in opp, m \notin Reached(order, opp)
    PROVE  ~ Crosses(order, m)
<1>1. PICK n \in opp : (n = m \/ Ahead(n, m)) /\ ~ Crosses(order, n)
  BY DEF Reached
<1>2. \A o \in opp : /\ o.id \in Nat /\ o.price \in Int /\ o.timestamp \in Nat
                     /\ o.side = Other(side)
  BY DEF SideOK, Order
<1>3. CASE side = "Buy"
  <2>1. n.price <= m.price
    BY <1>1, <1>2, <1>3 DEF Ahead, Better, Other
  <2>2. QED
    BY <1>1, <1>2, <1>3, <2>1 DEF Crosses
<1>4. CASE side = "Sell"
  <2>1. n.price >= m.price
    BY <1>1, <1>2, <1>4 DEF Ahead, Better, Other
  <2>2. QED
    BY <1>1, <1>2, <1>4, <2>1 DEF Crosses
<1>5. QED
  BY <1>3, <1>4

\* The two sides still do not cross: an order that rests has emptied every
\* maker whose price it crosses.
LEMMA AddUncrossed ==
    ASSUME NEW side, NEW own, NEW opp, NEW order, NEW fills, NEW taker, NEW orders,
           Adds(side, own, opp, order, fills, taker, orders)
    PROVE  Uncrossed(own \cup Rests(taker), Matched(opp, fills))
<1>1. SUFFICES ASSUME NEW o \in own \cup Rests(taker), NEW p \in Matched(opp, fills)
               PROVE  ~ Crosses(o, p)
  BY DEF Uncrossed
<1>2. PICK m \in opp : fills[m] < remaining(m) /\ p.price = m.price
  BY MatchedOrder
<1>3. CASE o \in own
  <2>1. ~ Crosses(o, m)
    BY <1>3 DEF Adds, BookState, Uncrossed
  <2>2. QED
    BY <1>2, <2>1 DEF Crosses
<1>4. CASE o \in Rests(taker)
  <2>1. o = taker /\ taker.order_type = "Limit" /\ remaining(taker) > 0
    BY <1>4 DEF Rests
  <2>2. /\ taker.side = side /\ taker.order_type = order.order_type
        /\ taker.price = order.price /\ remaining(taker) = order.size - SumFunction(fills)
    BY AddedTaker
  <2>3. /\ SideOK(Other(side), opp) /\ order.size \in Nat
        /\ SumFunction(fills) \in Nat /\ fills = Fills(order, opp)
        /\ order.side = side /\ side \in {"Buy", "Sell"} /\ order.price \in Int
    <3>1. /\ SideOK(Other(side), opp) /\ order.size \in Nat /\ SumFunction(fills) \in Nat
      BY AddedFills
    <3>2. QED
      BY <3>1 DEF Adds, BookState, Order
  <2>4. SumFunction(Fills(order, opp)) < order.size
    BY <2>1, <2>2, <2>3
  <2>5. m \notin Reached(order, opp)
    <3>1. fills[m] # remaining(m)
      <4>1. fills[m] \in Nat /\ m \in Order
        BY AddedFills DEF SideOK
      <4>2. QED
        BY <1>2, <4>1 DEF remaining, Order
    <3>2. QED
      BY <2>3, <2>4, <3>1, ReachedEmptied
  <2>6. ~ Crosses(order, m)
    BY <2>1, <2>2, <2>3, <2>5, UnreachedUncrossed
  <2>7. QED
    BY <1>2, <2>1, <2>2, <2>3, <2>6 DEF Crosses
<1>5. QED
  BY <1>3, <1>4

\* Sums over some of the trades.
LEMMA DealSum ==
    ASSUME NEW D, NEW S \in SUBSET D
    PROVE  SumFunction([t \in S |-> t.size]) = Total([t \in D |-> t.size], S)
<1>1. [t \in S |-> t.size] = [t \in S |-> [u \in D |-> u.size][t]]
  OBVIOUS
<1>2. QED
  BY <1>1 DEF Total

\* The trade with a maker.
Deal(order, m, fills) ==
    [price |-> m.price, size |-> fills[m], maker |-> m.id, taker |-> order.id]

\* The trades of a match: one with every maker that gave something, and in all
\* what the taker took.
LEMMA NewDeals ==
    ASSUME NEW side, NEW own, NEW opp, NEW order, NEW fills, NEW taker, NEW orders,
           Adds(side, own, opp, order, fills, taker, orders)
    PROVE  LET new == TradesOf(order, opp, fills)
           IN  /\ IsFiniteSet(new)
               /\ new = {Deal(order, m, fills) : m \in {n \in opp : fills[n] > 0}}
               /\ SumFunction([t \in new |-> t.size]) = SumFunction(fills)
<1> DEFINE new == TradesOf(order, opp, fills)
           M == {n \in opp : fills[n] > 0}
           h == [m \in M |-> Deal(order, m, fills)]
           sz == [t \in new |-> t.size]
           g == [m \in M |-> sz[h[m]]]
<1>1. new = {Deal(order, m, fills) : m \in M}
  BY DEF TradesOf, Deal
<1>2. /\ SideOK(Other(side), opp) /\ fills \in [opp -> Nat]
      /\ SumFunction(fills) = Total(fills, opp)
  BY AddedFills
<1>3. IsFiniteSet(opp) /\ IsFiniteSet(M)
  BY <1>2, FS_Subset DEF SideOK
<1>4. h \in Bijection(M, new)
  <2>1. \A m, n \in M : h[m] = h[n] => m = n
    <3> SUFFICES ASSUME NEW m \in M, NEW n \in M, h[m] = h[n] PROVE m = n
      OBVIOUS
    <3>1. h[m].maker = m.id /\ h[n].maker = n.id
      BY DEF Deal
    <3>2. QED
      BY <1>2, <3>1 DEF SideOK
  <2>2. h \in [M -> new]
    BY <1>1
  <2>3. \A t \in new : \E m \in M : h[m] = t
    BY <1>1
  <2> HIDE DEF h
  <2>4. QED
    BY <2>1, <2>2, <2>3 DEF Bijection, Injection, Surjection, IsInjective
<1>5. IsFiniteSet(new)
  BY <1>3, <1>4, FS_Surjection DEF Bijection
<1>6. \A m \in M : h[m] \in new /\ sz[h[m]] = fills[m] /\ g[m] = fills[m]
  <2>1. \A m \in M : h[m] \in new /\ h[m].size = fills[m]
    BY <1>1 DEF Deal
  <2> HIDE DEF h
  <2>2. QED
    BY <2>1
<1>7. \A t \in new : sz[t] \in Nat
  BY <1>1, <1>2 DEF Deal
<1>8. Total(g, M) = Total(sz, new)
  <2> HIDE DEF h, M, sz
  <2>1. QED
    BY <1>3, <1>4, <1>7, TotalReindexed
<1>9. Total(g, M) = Total(fills, M)
  BY <1>6, TotalSame
<1>10. Total(fills, opp) = Total(fills, M) + Total(fills, opp \ M)
  BY <1>2, <1>3, TotalSplit
<1>11. Total(fills, opp \ M) = 0
  <2>1. IsFiniteSet(opp \ M) /\ \A m \in opp \ M : fills[m] = 0
    BY <1>2, <1>3, FS_Subset
  <2>2. QED
    BY <2>1, TotalZero
<1>12. Total(fills, M) \in Nat
  BY <1>2, <1>3, TotalInNat
<1>13. SumFunction(sz) = Total(sz, new)
  BY DealSum
<1> HIDE DEF M, g, sz, h
<1>14. SumFunction(sz) = SumFunction(fills)
  <2>1. PICK k \in Nat : k = Total(fills, M)
    BY <1>12
  <2>2. Total(fills, opp) = k + 0
    BY <1>10, <1>11, <2>1
  <2>3. Total(fills, opp) = k
    BY <2>2
  <2>4. QED
    BY <1>2, <1>8, <1>9, <1>13, <2>1, <2>3
<1>15. QED
  BY <1>1, <1>5, <1>14 DEF sz, M

\* A match makes finitely many trades.
LEMMA NewDealsFinite ==
    ASSUME NEW side, NEW own, NEW opp, NEW order, NEW fills, NEW taker, NEW orders,
           Adds(side, own, opp, order, fills, taker, orders)
    PROVE  IsFiniteSet(TradesOf(order, opp, fills))
BY NewDeals

\* Old and new trades are at prices that both their orders accept.
LEMMA AddFair ==
    ASSUME NEW side, NEW own, NEW opp, NEW order, NEW fills, NEW taker, NEW orders,
           Adds(side, own, opp, order, fills, taker, orders),
           NEW t \in trades \cup TradesOf(order, opp, fills)
    PROVE  /\ t.size \in Nat /\ t.maker \in DOMAIN orders /\ t.taker \in DOMAIN orders
           /\ Fair(t, orders[t.maker]) /\ Fair(t, orders[t.taker])
<1> DEFINE N == Len(all_orders)
<1>1. /\ N \in Nat /\ DOMAIN all_orders = 1 .. N /\ DOMAIN orders = 1 .. N + 1
      /\ orders[N + 1] = taker
  BY AddedOrders
<1>2. \A id \in 1 .. N : /\ orders[id].side = all_orders[id].side
                         /\ orders[id].order_type = all_orders[id].order_type
                         /\ orders[id].price = all_orders[id].price
  BY AddedOrders
<1>3. CASE t \in trades
  <2>1. /\ t.size \in Nat /\ t.maker \in 1 .. N /\ t.taker \in 1 .. N
        /\ Fair(t, all_orders[t.maker]) /\ Fair(t, all_orders[t.taker])
    BY <1>1, <1>3 DEF Adds, BookState, Dealt
  <2>2. QED
    BY <1>1, <1>2, <2>1 DEF Fair
<1>4. CASE t \in TradesOf(order, opp, fills)
  <2>1. PICK m \in opp : fills[m] > 0 /\ t = Deal(order, m, fills)
    BY <1>4 DEF TradesOf, Deal
  <2>2. t.price = m.price /\ t.size = fills[m] /\ t.maker = m.id /\ t.taker = order.id
    BY <2>1 DEF Deal
  <2>3. /\ m.id \in 1 .. N /\ order.id = N + 1 /\ fills[m] \in Nat
        /\ m.side = Other(side) /\ m.price \in Int /\ m.order_type = "Limit"
    <3>1. m.id \in 1 .. N
      BY AddedOrders
    <3>2. order.id = N + 1
      BY DEF Adds
    <3>3. fills[m] \in Nat /\ SideOK(Other(side), opp)
      BY AddedFills
    <3>4. QED
      BY <3>1, <3>2, <3>3 DEF SideOK, Order
  <2>4. all_orders[m.id].side = m.side /\ all_orders[m.id].price = m.price
    BY DEF Adds, BookState, Mirrored
  <2>5. Fair(t, orders[m.id])
    BY <1>2, <2>2, <2>3, <2>4 DEF Fair
  <2>6. Crosses(order, m)
    <3>1. SideOK(Other(side), opp) /\ order.size \in Nat
      BY AddedFills
    <3>2. fills = Fills(order, opp)
      BY DEF Adds
    <3>3. m \in Reached(order, opp)
      BY <2>1, <3>1, <3>2, OneFill
    <3>4. QED
      BY <3>3 DEF Reached
  <2>7. Fair(t, taker)
    <3>1. taker.side = side /\ taker.order_type = order.order_type /\ taker.price = order.price
      BY AddedTaker
    <3>2. order.side = side /\ order.price \in Int
      BY DEF Adds, Order
    <3>3. QED
      BY <2>2, <2>3, <2>6, <3>1, <3>2 DEF Fair, Crosses
  <2>8. N + 1 \in DOMAIN orders /\ m.id \in DOMAIN orders
    BY <1>1, <2>3
  <2>9. QED
    BY <1>1, <2>2, <2>3, <2>5, <2>7, <2>8
<1>5. QED
  BY <1>3, <1>4

\* The fill of a stored order grows by its new trade, if it has one.
LEMMA AddTraded ==
    ASSUME NEW side, NEW own, NEW opp, NEW order, NEW fills, NEW taker, NEW orders,
           Adds(side, own, opp, order, fills, taker, orders),
           NEW id \in 1 .. Len(all_orders)
    PROVE  orders[id].filled = Traded(id, trades \cup TradesOf(order, opp, fills))
<1> DEFINE N == Len(all_orders)
           new == TradesOf(order, opp, fills)
           all == trades \cup new
           old == TradesWith(id, trades)
           now == TradesWith(id, all)
           sz == [t \in all |-> t.size]
<1>1. /\ N \in Nat /\ DOMAIN all_orders = 1 .. N /\ order.id = N + 1
  BY AddedOrders DEF Adds
<1>2. /\ IsFiniteSet(trades) /\ \A t \in trades : t.size \in Nat /\ t.taker \in 1 .. N
      /\ all_orders[id].filled = SumFunction([t \in old |-> t.size])
  <2>1. Dealt(trades, all_orders)
    BY DEF Adds, BookState
  <2>2. QED
    BY <1>1, <2>1 DEF Dealt, Traded
<1>3. IsFiniteSet(new) /\ new = {Deal(order, m, fills) : m \in {n \in opp : fills[n] > 0}}
  <2>1. new = {Deal(order, m, fills) : m \in {n \in opp : fills[n] > 0}}
    BY DEF TradesOf, Deal
  <2>2. QED
    BY <2>1, NewDealsFinite
<1>4. \A t \in all : t.size \in Nat
  BY AddFair
<1>5. IsFiniteSet(all) /\ old \subseteq all /\ now \subseteq all
  BY <1>2, <1>3, FS_Union DEF TradesWith
<1> HIDE DEF new
<1>6. /\ SumFunction([t \in old |-> t.size]) = Total(sz, old)
      /\ SumFunction([t \in now |-> t.size]) = Total(sz, now)
  <2> HIDE DEF old, now, all
  <2>1. QED
    BY <1>5, DealSum
<1>7. /\ SideOK(Other(side), opp) /\ Mirrored(opp, all_orders) /\ fills \in [opp -> Nat]
  <2>1. Mirrored(opp, all_orders)
    BY DEF Adds, BookState
  <2>2. QED
    BY <2>1, AddedFills
<1>8. ASSUME \A m \in opp : ~ (m.id = id /\ fills[m] > 0)
      PROVE  orders[id].filled = SumFunction([t \in now |-> t.size])
  <2>1. now = old
    <3>1. ASSUME NEW t \in new PROVE id \notin {t.maker, t.taker}
      <4>1. PICK m \in opp : fills[m] > 0 /\ t = Deal(order, m, fills)
        BY <1>3
      <4>2. t.maker = m.id /\ t.taker = order.id
        BY <4>1 DEF Deal
      <4>3. QED
        BY <1>1, <1>8, <4>1, <4>2
    <3>2. QED
      BY <3>1 DEF TradesWith
  <2>2. orders[id].filled = all_orders[id].filled
    <3>1. CASE \A m \in opp : m.id # id
      BY <3>1, AddedOrders
    <3>2. ASSUME NEW m \in opp, m.id = id PROVE orders[id].filled = all_orders[id].filled
      <4>1. fills[m] = 0 /\ m.filled \in Nat
        BY <1>7, <1>8, <3>2 DEF SideOK, Order
      <4>2. orders[id].filled = m.filled + fills[m] /\ all_orders[id].filled = m.filled
        BY <1>7, <3>2, AddedOrders DEF Mirrored
      <4>3. QED
        BY <4>1, <4>2
    <3>3. QED
      BY <3>1, <3>2
  <2>3. QED
    BY <1>2, <2>1, <2>2
<1>9. ASSUME NEW m \in opp, m.id = id, fills[m] > 0
      PROVE  orders[id].filled = SumFunction([t \in now |-> t.size])
  <2> DEFINE d == Deal(order, m, fills)
  <2>1. d \in new /\ d.maker = id /\ d.taker = order.id /\ d.size = fills[m]
    BY <1>3, <1>9 DEF Deal
  <2>2. d \notin trades
    BY <1>1, <1>2, <2>1
  <2>3. ASSUME NEW t \in new, id \in {t.maker, t.taker} PROVE t = d
    <3>1. PICK n \in opp : fills[n] > 0 /\ t = Deal(order, n, fills)
      BY <1>3
    <3>2. t.maker = n.id /\ t.taker = order.id
      BY <3>1 DEF Deal
    <3>3. n.id = m.id
      BY <1>1, <1>9, <2>3, <3>2
    <3>4. QED
      BY <1>7, <3>1, <3>3 DEF SideOK
  <2> HIDE DEF d
  <2>4. d \in now /\ now \ {d} = old
    BY <2>1, <2>2, <2>3 DEF TradesWith
  <2>5. Total(sz, now) = sz[d] + Total(sz, now \ {d})
    <3>1. IsFiniteSet(now) /\ \A t \in now : sz[t] \in Nat
      BY <1>4, <1>5, FS_Subset
    <3> HIDE DEF now, sz
    <3>2. QED
      BY <2>4, <3>1, TotalStep
  <2>6. sz[d] = fills[m]
    BY <2>1
  <2>7. orders[id].filled = m.filled + fills[m] /\ all_orders[id].filled = m.filled
    BY <1>7, <1>9, AddedOrders DEF Mirrored
  <2>8. m.filled \in Nat /\ fills[m] \in Nat
    BY <1>7 DEF SideOK, Order
  <2> HIDE DEF now, old, sz
  <2>9. Total(sz, old) = m.filled /\ Total(sz, now) = fills[m] + Total(sz, old)
    BY <1>2, <1>6, <2>4, <2>5, <2>6, <2>7
  <2>10. QED
    BY <1>6, <2>7, <2>8, <2>9
<1>10. orders[id].filled = SumFunction([t \in now |-> t.size])
  BY <1>8, <1>9
<1>11. QED
  BY <1>10 DEF new, Traded

\* The fill of every order is still what it traded.
LEMMA AddDealt ==
    ASSUME NEW side, NEW own, NEW opp, NEW order, NEW fills, NEW taker, NEW orders,
           Adds(side, own, opp, order, fills, taker, orders)
    PROVE  Dealt(trades \cup TradesOf(order, opp, fills), orders)
<1> DEFINE N == Len(all_orders)
           new == TradesOf(order, opp, fills)
           all == trades \cup new
<1>1. /\ N \in Nat /\ DOMAIN all_orders = 1 .. N /\ order.id = N + 1
      /\ DOMAIN orders = 1 .. N + 1 /\ orders[N + 1] = taker
  <2>1. order.id = N + 1
    BY DEF Adds
  <2>2. QED
    BY <2>1, AddedOrders
<1>2. IsFiniteSet(trades) /\ \A t \in trades : t.maker \in 1 .. N /\ t.taker \in 1 .. N
  BY <1>1 DEF Adds, BookState, Dealt
<1>3. /\ IsFiniteSet(new) /\ new = {Deal(order, m, fills) : m \in {n \in opp : fills[n] > 0}}
      /\ SumFunction([t \in new |-> t.size]) = SumFunction(fills)
  BY NewDeals
<1>4. IsFiniteSet(all)
  BY <1>2, <1>3, FS_Union
<1>5. \A t \in all : /\ t.size \in Nat /\ t.maker \in DOMAIN orders /\ t.taker \in DOMAIN orders
                     /\ Fair(t, orders[t.maker]) /\ Fair(t, orders[t.taker])
  BY AddFair
<1>6. TradesWith(N + 1, all) = new
  <2>1. \A t \in new : t.taker = N + 1
    BY <1>1, <1>3 DEF Deal
  <2>2. \A t \in trades : N + 1 \notin {t.maker, t.taker}
    BY <1>1, <1>2
  <2> HIDE DEF new
  <2>3. QED
    BY <2>1, <2>2 DEF TradesWith
<1>7. taker.filled = SumFunction(fills)
  BY AddedTaker
<1>8. \A id \in DOMAIN orders : orders[id].filled = Traded(id, all)
  <2>1. \A id \in 1 .. N : orders[id].filled = Traded(id, all)
    BY AddTraded
  <2>2. orders[N + 1].filled = Traded(N + 1, all)
    BY <1>1, <1>3, <1>6, <1>7 DEF Traded
  <2>3. \A id \in DOMAIN orders : id \in 1 .. N \/ id = N + 1
    BY <1>1
  <2>4. QED
    BY <2>1, <2>2, <2>3
<1> HIDE DEF all
<1>9. QED
  BY <1>4, <1>5, <1>8 DEF Dealt, all

\* Adding an order keeps the book sound, on whichever side it is.
LEMMA AddKeepsBook ==
    ASSUME NEW side, NEW own, NEW opp, NEW order, NEW fills, NEW taker, NEW orders,
           Adds(side, own, opp, order, fills, taker, orders)
    PROVE  BookState(side, own \cup Rests(taker), Matched(opp, fills), orders,
                     trades \cup TradesOf(order, opp, fills))
<1>1. side \in {"Buy", "Sell"}
  BY DEF Adds, BookState
<1>2. QED
  BY <1>1, AddStored, AddOwn, AddOpp, AddRests, AddUncrossed, AddDealt DEF BookState

\* add_order on either side is an addition in the sense of Adds.
LEMMA AddOrderAdds ==
    ASSUME BookInv, NEW order \in Order, order.id = Len(all_orders) + 1,
           order.status = "Open", AddOrder(order)
    PROVE  \E side, own, opp, fills, taker :
              /\ Adds(side, own, opp, order, fills, taker, all_orders')
              /\ trades' = trades \cup TradesOf(order, opp, fills)
              /\ \/ /\ side = "Buy" /\ own = bids /\ opp = asks
                    /\ bids' = own \cup Rests(taker) /\ asks' = Matched(opp, fills)
                 \/ /\ side = "Sell" /\ own = asks /\ opp = bids
                    /\ asks' = own \cup Rests(taker) /\ bids' = Matched(opp, fills)
<1> DEFINE opp   == Opposite(order.side)
           own   == Opposite(Other(order.side))
           fills == Fills(order, opp)
           taken == SumFunction(fills)
           status == CASE taken = order.size -> "Filled"
                       [] taken < order.size /\ taken > 0 /\ order.order_type = "Limit" -> "Partial"
                       [] OTHER -> order.status
           taker == [order EXCEPT !.filled = taken, !.status = status]
           orders == Append(RecordFills(opp, fills), taker)
<1>1. order.side \in {"Buy", "Sell"}
  BY DEF Order
<1>2. BookState(order.side, own, opp, all_orders, trades)
  <2>1. CASE order.side = "Buy"
    BY <2>1 DEF BookInv, Opposite, Other
  <2>2. CASE order.side = "Sell"
    <3>1. BookState(Other("Buy"), asks, bids, all_orders, trades)
      BY BookStateSymmetric DEF BookInv
    <3>2. QED
      BY <2>2, <3>1 DEF Opposite, Other
  <2>3. QED
    BY <1>1, <2>1, <2>2
<1>3. Adds(order.side, own, opp, order, fills, taker, orders)
  <2> HIDE DEF own, opp
  <2>1. QED
    BY <1>2 DEF Adds
<1>5. taker.order_type = order.order_type
  <2> HIDE DEF own, opp, fills, taker, orders
  <2>1. QED
    BY <1>3, AddedTaker
<1>6. Rests(taker) = IF order.order_type = "Limit" /\ remaining(taker) > 0 THEN {taker} ELSE {}
  <2> HIDE DEF taker
  <2>1. QED
    BY <1>5 DEF Rests
<1>7. /\ trades' = trades \cup TradesOf(order, opp, fills)
      /\ all_orders' = orders
      /\ order.side = "Buy" => asks' = Matched(asks, fills) /\ bids' = bids \cup Rests(taker)
      /\ order.side = "Sell" => bids' = Matched(bids, fills) /\ asks' = asks \cup Rests(taker)
  <2> DEFINE rests == IF order.order_type = "Limit" /\ remaining(taker) > 0 THEN {taker} ELSE {}
  <2>1. /\ trades' = trades \cup TradesOf(order, opp, fills)
        /\ all_orders' = orders
        /\ IF order.side = "Buy"
           THEN asks' = Matched(asks, fills) /\ bids' = bids \cup rests
           ELSE bids' = Matched(bids, fills) /\ asks' = asks \cup rests
    BY DEF AddOrder
  <2>2. rests = Rests(taker)
    BY <1>6
  <2> HIDE DEF rests, opp, fills, taker, orders
  <2>3. QED
    BY <2>1, <2>2
<1>8. Adds(order.side, own, opp, order, fills, taker, all_orders')
  <2> HIDE DEF own, opp, fills, taker, orders
  <2>1. QED
    BY <1>3, <1>7
<1>9. \/ order.side = "Buy" /\ own = bids /\ opp = asks
      \/ order.side = "Sell" /\ own = asks /\ opp = bids
  BY <1>1 DEF Opposite, Other
<1> HIDE DEF own, opp, fills, taker, orders
<1>10. QED
  BY <1>7, <1>8, <1>9

\* An order added to a sound book leaves a sound book.
LEMMA AddOrderKeeps ==
    ASSUME BookInv, NEW order \in Order, order.id = Len(all_orders) + 1,
           order.status = "Open", AddOrder(order)
    PROVE  BookInv'
<1>1. PICK side, own, opp, fills, taker :
         /\ Adds(side, own, opp, order, fills, taker, all_orders')
         /\ trades' = trades \cup TradesOf(order, opp, fills)
         /\ \/ /\ side = "Buy" /\ own = bids /\ opp = asks
               /\ bids' = own \cup Rests(taker) /\ asks' = Matched(opp, fills)
            \/ /\ side = "Sell" /\ own = asks /\ opp = bids
               /\ asks' = own \cup Rests(taker) /\ bids' = Matched(opp, fills)
  BY AddOrderAdds
<1>2. BookState(side, own \cup Rests(taker), Matched(opp, fills), all_orders', trades')
  BY <1>1, AddKeepsBook
<1>3. CASE side = "Buy"
  BY <1>1, <1>2, <1>3 DEF BookInv
<1>4. CASE side = "Sell"
  <2>1. BookState("Sell", asks', bids', all_orders', trades')
    BY <1>1, <1>2, <1>4
  <2>2. BookState(Other("Sell"), bids', asks', all_orders', trades')
    BY <2>1, BookStateSymmetric
  <2>3. QED
    BY <2>2 DEF BookInv, Other
<1>5. QED
  BY <1>1, <1>3, <1>4

\* The side of the book after a cancellation.
LEMMA CancelSide ==
    ASSUME NEW side, NEW book, SideOK(side, book), Mirrored(book, all_orders),
           Stored(all_orders), NEW id \in DOMAIN all_orders, NEW orders,
           orders = [all_orders EXCEPT ![id].status = "Cancelled"]
    PROVE  /\ SideOK(side, {o \in book : o.id # id})
           /\ Mirrored({o \in book : o.id # id}, orders)
<1>1. SideOK(side, {o \in book : o.id # id})
  BY FS_Subset DEF SideOK
<1>2. \A i \in DOMAIN all_orders : i # id => orders[i] = all_orders[i]
  OBVIOUS
<1>3. DOMAIN orders = DOMAIN all_orders
  OBVIOUS
<1>4. Mirrored({o \in book : o.id # id}, orders)
  BY <1>2, <1>3 DEF Mirrored
<1>5. QED
  BY <1>1, <1>4

\* cancel takes one order out of the book and marks its stored copy.
LEMMA CancelKeeps ==
    ASSUME BookInv, NEW id, NEW owner, Cancel(id, owner)
    PROVE  BookInv'
<1> DEFINE b == {o \in bids : o.id # id}
           a == {o \in asks : o.id # id}
<1>1. PICK orders : orders = [all_orders EXCEPT ![id].status = "Cancelled"]
  OBVIOUS
<1>2. /\ id \in DOMAIN all_orders /\ bids' = b /\ asks' = a /\ all_orders' = orders
      /\ trades' = trades
  BY <1>1 DEF Cancel
<1>3. /\ Stored(all_orders) /\ SideOK("Buy", bids) /\ SideOK("Sell", asks)
      /\ Mirrored(bids, all_orders) /\ Mirrored(asks, all_orders)
      /\ AllRest(bids \cup asks, all_orders) /\ Uncrossed(bids, asks)
      /\ Dealt(trades, all_orders)
  BY DEF BookInv, BookState, Other
<1>4. /\ SideOK("Buy", b) /\ Mirrored(b, orders)
      /\ SideOK("Sell", a) /\ Mirrored(a, orders)
  BY <1>1, <1>2, <1>3, CancelSide
<1>5. PICK N \in Nat : /\ DOMAIN all_orders = 1 .. N /\ DOMAIN orders = 1 .. N
                       /\ all_orders \in [1 .. N -> Order] /\ N = Len(all_orders)
  BY <1>1, <1>3 DEF Stored
<1>6. \A i \in 1 .. N : i # id => orders[i] = all_orders[i]
  BY <1>1, <1>5
<1>7. /\ orders[id] \in Order /\ orders[id].status = "Cancelled" /\ orders[id].id = id
      /\ orders[id].side = all_orders[id].side
      /\ orders[id].order_type = all_orders[id].order_type
      /\ orders[id].price = all_orders[id].price /\ orders[id].size = all_orders[id].size
      /\ orders[id].filled = all_orders[id].filled
  <2>1. PICK o \in Order : o = all_orders[id] /\ o.id = id
    BY <1>2, <1>3, <1>5 DEF Stored
  <2>2. orders[id] = [o EXCEPT !.status = "Cancelled"]
    BY <1>1, <1>2, <1>5, <2>1
  <2>3. QED
    BY <2>1, <2>2 DEF Order
<1>8. Stored(orders)
  <2>1. \A i \in 1 .. N : orders[i] \in Order /\ orders[i].id = i /\ orders[i].filled <= orders[i].size
    BY <1>2, <1>3, <1>5, <1>6, <1>7 DEF Stored
  <2>2. orders \in [1 .. N -> Order]
    BY <1>1, <1>5, <2>1
  <2>3. orders \in Seq(Order)
    BY <2>2
  <2>4. QED
    BY <1>5, <2>1, <2>3 DEF Stored
<1>9. AllRest(b \cup a, orders)
  <2> SUFFICES ASSUME NEW i \in 1 .. N, orders[i].order_type = "Limit",
                      orders[i].status = RestingStatus(orders[i])
               PROVE  \E r \in b \cup a : r.id = i
    BY <1>5 DEF AllRest
  <2>1. i # id
    BY <1>7 DEF RestingStatus
  <2>2. orders[i] = all_orders[i]
    BY <1>6, <2>1
  <2>3. PICK r \in bids \cup asks : r.id = i
    BY <1>3, <1>5, <2>2 DEF AllRest
  <2>4. QED
    BY <2>1, <2>3
<1>10. Uncrossed(b, a)
  BY <1>3 DEF Uncrossed
<1>11. Dealt(trades, orders)
  <2>1. \A i \in 1 .. N : /\ orders[i].side = all_orders[i].side
                          /\ orders[i].order_type = all_orders[i].order_type
                          /\ orders[i].price = all_orders[i].price
                          /\ orders[i].filled = all_orders[i].filled
    BY <1>6, <1>7
  <2>2. \A i \in 1 .. N : \A t : Fair(t, all_orders[i]) => Fair(t, orders[i])
    BY <2>1 DEF Fair
  <2>3. QED
    BY <1>3, <1>5, <2>1, <2>2 DEF Dealt
<1>12. BookState("Buy", b, a, orders, trades)
  BY <1>4, <1>8, <1>9, <1>10, <1>11 DEF BookState, Other
<1>13. QED
  <2> HIDE DEF b, a
  <2>1. QED
    BY <1>2, <1>12 DEF BookInv

-----------------------------------------------------------------------------
(* The book of the exchange *)

\* An empty book is sound.
LEMMA BookInvInit == Init => BookInv
<1> SUFFICES ASSUME Init PROVE BookInv
  OBVIOUS
<1>1. bids = {} /\ asks = {} /\ trades = {} /\ all_orders = << >>
  BY DEF Init, BookInit
<1>2. << >> \in Seq(Order) /\ DOMAIN << >> = {}
  OBVIOUS
<1>3. IsFiniteSet({})
  BY FS_EmptySet
<1>4. Stored(<< >>) /\ Dealt({}, << >>)
  BY <1>2, <1>3 DEF Stored, Dealt
<1>5. /\ SideOK("Buy", {}) /\ SideOK("Sell", {})
      /\ Mirrored({}, << >>) /\ AllRest({} \cup {}, << >>) /\ Uncrossed({}, {})
  BY <1>2, <1>3 DEF SideOK, Mirrored, AllRest, Uncrossed
<1>6. QED
  BY <1>1, <1>4, <1>5 DEF BookInv, BookState, Other

\* place_order makes an order that add_order can take.
LEMMA PlaceKeeps ==
    ASSUME BookInv, NEW a \in Addresses, NEW side \in {"Buy", "Sell"},
           NEW type \in {"Limit", "Market"}, NEW price \in Int, NEW size \in Sizes,
           NEW t \in Nat, PlaceOrder(a, side, type, price, size, t)
    PROVE  \E order \in Order : /\ order.id = Len(all_orders) + 1 /\ order.status = "Open"
                                /\ order.side = side /\ AddOrder(order)
<1> DEFINE order == [id |-> next_order_id, side |-> side, order_type |-> type,
                     price |-> price, size |-> size, filled |-> 0,
                     address |-> a, timestamp |-> t, status |-> "Open"]
<1>1. size >= MinOrder /\ AddOrder(order)
  BY DEF PlaceOrder
<1>2. size \in Nat \ {0}
  BY <1>1, ExchangeAssumption
<1>3. next_order_id \in Nat /\ next_order_id = Len(all_orders) + 1
  BY DEF next_order_id, BookInv, BookState, Stored
<1>4. order \in Order /\ order.id = Len(all_orders) + 1 /\ order.status = "Open" /\ order.side = side
  BY <1>2, <1>3 DEF Order
<1>5. QED
  BY <1>1, <1>4

\* A step adds an order, cancels one, or leaves the book alone.
LEMMA BookSteps ==
    ASSUME BookInv, [Next]_vars
    PROVE  \/ \E order \in Order : /\ order.id = Len(all_orders) + 1 /\ order.status = "Open"
                                   /\ AddOrder(order)
           \/ \E id, owner : Cancel(id, owner)
           \/ UNCHANGED bookVars
<1>1. CASE UNCHANGED vars
  BY <1>1 DEF vars, bookVars
<1>2. ASSUME NEW a \in Addresses, NEW side \in {"Buy", "Sell"}, NEW size \in Sizes,
             \/ \E price \in Prices, t \in Times : PlaceOrder(a, side, "Limit", price, size, t)
             \/ PlaceOrder(a, side, "Market", 0, size, 0)
      PROVE  \E order \in Order : /\ order.id = Len(all_orders) + 1 /\ order.status = "Open"
                                  /\ AddOrder(order)
  <2>1. ASSUME NEW price \in Prices, NEW t \in Times,
               PlaceOrder(a, side, "Limit", price, size, t)
        PROVE  \E order \in Order : /\ order.id = Len(all_orders) + 1 /\ order.status = "Open"
                                    /\ AddOrder(order)
    <3>1. price \in Int /\ t \in Nat /\ "Limit" \in {"Limit", "Market"}
      BY ExchangeAssumption
    <3>2. QED
      BY <2>1, <3>1, PlaceKeeps
  <2>2. ASSUME PlaceOrder(a, side, "Market", 0, size, 0)
        PROVE  \E order \in Order : /\ order.id = Len(all_orders) + 1 /\ order.status = "Open"
                                    /\ AddOrder(order)
    <3>1. 0 \in Int /\ 0 \in Nat /\ "Market" \in {"Limit", "Market"}
      OBVIOUS
    <3>2. QED
      BY <2>2, <3>1, PlaceKeeps
  <2>3. QED
    BY <1>2, <2>1, <2>2
<1>3. ASSUME NEW a \in Addresses, NEW id, CancelOrder(id, a)
      PROVE  \E i, owner : Cancel(i, owner)
  BY <1>3 DEF CancelOrder
<1>4. ASSUME NEW a, NEW s, NEW amount, Deposit(a, s, amount) \/ Withdraw(a, s, amount)
      PROVE  UNCHANGED bookVars
  BY <1>4 DEF Deposit, Withdraw
<1>5. ASSUME NEW a, NEW qusd, NEW p, MintSynthetic(a, qusd, p) PROVE UNCHANGED bookVars
  BY <1>5 DEF MintSynthetic
<1>6. ASSUME NEW a, NEW amount, NEW p, BurnSynthetic(a, amount, p) PROVE UNCHANGED bookVars
  BY <1>6 DEF BurnSynthetic
<1>7. QED
  BY <1>1, <1>2, <1>3, <1>4, <1>5, <1>6 DEF Next

\* Every step preserves BookInv.
LEMMA BookStep == BookInv /\ [Next]_vars => BookInv'
<1> SUFFICES ASSUME BookInv, [Next]_vars PROVE BookInv'
  OBVIOUS
<1>1. ASSUME NEW order \in Order, order.id = Len(all_orders) + 1, order.status = "Open",
             AddOrder(order)
      PROVE  BookInv'
  BY <1>1, AddOrderKeeps
<1>2. ASSUME NEW id, NEW owner, Cancel(id, owner) PROVE BookInv'
  BY <1>2, CancelKeeps
<1>3. CASE UNCHANGED bookVars
  BY <1>3 DEF BookInv, bookVars
<1>4. QED
  BY <1>1, <1>2, <1>3, BookSteps

\* BookInv holds in every reachable state.
LEMMA BookInvariant == Spec => []BookInv
BY BookInvInit, BookStep, PTL DEF Spec

\* The best bid stays below the best ask after any orders and cancellations, in
\* every instance: add_order never leaves two orders in the book that should
\* have traded.
THEOREM BookStaysUncrossed == Spec => []BookNotCrossed
<1>1. BookInv => BookNotCrossed
  <2> SUFFICES ASSUME BookInv, NEW b \in bids, NEW a \in asks PROVE b.price < a.price
    BY DEF BookNotCrossed
  <2>1. /\ b.price \in Int /\ a.price \in Int /\ b.side = "Buy"
        /\ ~ Crosses(b, a)
    BY DEF BookInv, BookState, SideOK, Uncrossed, Order, Other
  <2>2. QED
    BY <2>1 DEF Crosses
<1>2. QED
  BY <1>1, BookInvariant, PTL

\* Every order's fill is the sum of its trades, each at a price within its
\* limit, in every instance: an order that is matched with several makers, and
\* a maker that is matched by several takers, loses no fill and counts none
\* twice.
THEOREM FillsComeFromTrades == Spec => []FillsAreTrades
<1>1. BookInv => FillsAreTrades
  <2> SUFFICES ASSUME BookInv PROVE FillsAreTrades
    OBVIOUS
  <2>1. Stored(all_orders) /\ Dealt(trades, all_orders)
    BY DEF BookInv, BookState
  <2>2. \A id \in DOMAIN all_orders : /\ all_orders[id].filled = TradedBy(id)
                                      /\ all_orders[id].filled <= all_orders[id].size
    BY <2>1 DEF Stored, Dealt, Traded, TradesWith, TradedBy
  <2>3. \A t \in trades : \A id \in {t.maker, t.taker} : Fair(t, all_orders[id])
    BY <2>1 DEF Dealt
  <2>4. QED
    BY <2>2, <2>3 DEF FillsAreTrades, Fair
<1>2. QED
  BY <1>1, BookInvariant, PTL

\* The copy of a resting order in bids or asks and the one in all_orders differ
\* in the status at most, where the resting copy may still say Open after a
\* fill, and an order rests exactly while its stored status says so, in every
\* instance, although match_limit, match_market and cancel_order write the two
\* separately.
THEOREM CopiesDifferInStatusOnly == Spec => []CopiesAgree
<1>1. BookInv => CopiesAgree
  <2> SUFFICES ASSUME BookInv PROVE CopiesAgree
    OBVIOUS
  <2>1. /\ SideOK("Buy", bids) /\ SideOK("Sell", asks)
        /\ Mirrored(bids, all_orders) /\ Mirrored(asks, all_orders)
        /\ AllRest(bids \cup asks, all_orders)
    BY DEF BookInv, BookState, Other
  <2>2. ASSUME NEW o \in Resting
        PROVE  /\ o.id \in DOMAIN all_orders
               /\ all_orders[o.id] = [o EXCEPT !.status = all_orders[o.id].status]
               /\ o.status \in {"Open", all_orders[o.id].status}
    <3>1. o \in Order /\ o.id \in DOMAIN all_orders
      BY <2>1 DEF Resting, SideOK, Mirrored
    <3>2. PICK p : p = all_orders[o.id]
      OBVIOUS
    <3>3. p \in Order /\ p.id = o.id
      BY <3>1, <3>2 DEF BookInv, BookState, Stored
    <3>4. /\ p.side = o.side /\ p.order_type = o.order_type
          /\ p.price = o.price /\ p.size = o.size /\ p.filled = o.filled
          /\ p.address = o.address /\ p.timestamp = o.timestamp
          /\ o.status \in {"Open", p.status}
      BY <2>1, <3>2 DEF Resting, Mirrored
    <3>5. p = [o EXCEPT !.status = p.status]
      BY <3>1, <3>3, <3>4 DEF Order
    <3>6. QED
      BY <3>1, <3>2, <3>4, <3>5
  <2>3. Cardinality({o.id : o \in Resting}) = Cardinality(bids) + Cardinality(asks)
    <3> DEFINE S == bids \cup asks
               T == {o.id : o \in S}
               h == [o \in S |-> o.id]
    <3>1. \A o \in bids, p \in asks : o.id # p.id
      BY <2>1 DEF SideOK, Mirrored
    <3>2. \A o, p \in S : o.id = p.id => o = p
      BY <2>1, <3>1 DEF SideOK
    <3>3. bids \cap asks = {}
      BY <3>1
    <3>4. IsFiniteSet(S) /\ Cardinality(S) = Cardinality(bids) + Cardinality(asks)
      <4>1. IsFiniteSet(bids) /\ IsFiniteSet(asks)
        BY <2>1 DEF SideOK
      <4>2. /\ IsFiniteSet(S)
            /\ Cardinality(S) = Cardinality(bids) + Cardinality(asks) - Cardinality(bids \cap asks)
        BY <4>1, FS_Union
      <4>3. Cardinality({}) = 0 /\ Cardinality(bids) \in Nat /\ Cardinality(asks) \in Nat
        BY <4>1, FS_EmptySet, FS_CardinalityType
      <4>4. Cardinality(bids \cap asks) = 0
        BY <3>3, <4>3
      <4> HIDE DEF S
      <4>5. QED
        BY <4>2, <4>3, <4>4
    <3>5. h \in Bijection(S, T)
      <4>1. h \in [S -> T] /\ (\A o, p \in S : h[o] = h[p] => o = p) /\ \A i \in T : \E o \in S : h[o] = i
        BY <3>2
      <4> HIDE DEF h, T, S
      <4>2. QED
        BY <4>1 DEF Bijection, Injection, Surjection, IsInjective
    <3>6. Cardinality(T) = Cardinality(S)
      <4> HIDE DEF h, T, S
      <4>1. QED
        BY <3>4, <3>5, FS_Bijection DEF ExistsBijection
    <3>7. QED
      BY <3>4, <3>6 DEF Resting
  <2>4. ASSUME NEW id \in DOMAIN all_orders
        PROVE  (\E r \in Resting : r.id = id)
                  <=> /\ all_orders[id].order_type = "Limit"
                      /\ all_orders[id].status
                            = (IF all_orders[id].filled > 0 THEN "Partial" ELSE "Open")
    <3>1. ASSUME NEW r \in Resting, r.id = id
          PROVE  /\ all_orders[id].order_type = "Limit"
                 /\ all_orders[id].status = RestingStatus(all_orders[id])
      BY <2>1, <3>1 DEF Resting, Mirrored, SideOK, RestingStatus
    <3>2. ASSUME all_orders[id].order_type = "Limit",
                 all_orders[id].status = RestingStatus(all_orders[id])
          PROVE  \E r \in Resting : r.id = id
      BY <2>1, <3>2 DEF Resting, AllRest
    <3>3. QED
      BY <3>1, <3>2 DEF RestingStatus
  <2>5. QED
    BY <2>2, <2>3, <2>4 DEF CopiesAgree
<1>2. QED
  BY <1>1, BookInvariant, PTL

\* Adding an order fills the makers in order of price and time.
LEMMA AddInPriority ==
    ASSUME NEW side, NEW own, NEW opp, NEW order, NEW fills, NEW taker, NEW orders,
           Adds(side, own, opp, order, fills, taker, orders)
    PROVE  Priority(own, orders) /\ Priority(opp, orders)
<1>1. /\ SideOK(side, own) /\ Mirrored(own, all_orders)
      /\ order.size \in Nat /\ fills = Fills(order, opp)
  BY DEF Adds, BookState, Order
<1>2. SideOK(Other(side), opp) /\ fills \in [opp -> Nat]
  BY AddedFills
<1>3. Priority(own, orders)
  <2>1. \A o \in own : orders[o.id] = all_orders[o.id]
    <3>1. \A o \in own : o.id \in 1 .. Len(all_orders) /\ \A m \in opp : m.id # o.id
      BY AddedIds
    <3>2. QED
      BY <3>1, AddedOrders
  <2>2. \A o \in own : orders[o.id].filled = o.filled /\ o.filled \in Nat
    BY <1>1, <2>1 DEF Mirrored, SideOK, Order
  <2>3. QED
    BY <2>2 DEF Priority
<1>4. ASSUME NEW m \in opp, NEW n \in opp, Better(n, m), orders[m.id].filled > m.filled
      PROVE  orders[n.id].filled = n.size
  <2>1. /\ orders[m.id].filled = m.filled + fills[m]
        /\ orders[n.id].filled = n.filled + fills[n]
    BY AddedOrders
  <2>2. /\ m.filled \in Nat /\ n.filled \in Nat /\ n.size \in Nat
        /\ fills[m] \in Nat /\ fills[n] \in Nat
    BY <1>2 DEF SideOK, Order
  <2>3. fills[m] > 0
    BY <1>4, <2>1, <2>2
  <2>4. Ahead(n, m)
    BY <1>4 DEF Ahead
  <2>5. fills[n] = remaining(n)
    BY <1>1, <1>2, <2>3, <2>4, AheadEmptied
  <2>6. QED
    BY <2>1, <2>2, <2>5 DEF remaining
<1>5. QED
  BY <1>3, <1>4 DEF Priority

\* add_order takes makers in order of price, then of time, in every instance: a
\* maker gives something only when those ahead of it gave everything.
THEOREM MatchedInPriority == Spec => PriceTimePriority
<1> DEFINE InOrder == Priority(bids, all_orders') /\ Priority(asks, all_orders')
<1>1. ASSUME BookInv, NEW order \in Order, order.id = Len(all_orders) + 1,
             order.status = "Open", AddOrder(order)
      PROVE  InOrder
  <2>1. PICK side, own, opp, fills, taker :
           /\ Adds(side, own, opp, order, fills, taker, all_orders')
           /\ trades' = trades \cup TradesOf(order, opp, fills)
           /\ \/ /\ side = "Buy" /\ own = bids /\ opp = asks
                 /\ bids' = own \cup Rests(taker) /\ asks' = Matched(opp, fills)
              \/ /\ side = "Sell" /\ own = asks /\ opp = bids
                 /\ asks' = own \cup Rests(taker) /\ bids' = Matched(opp, fills)
    BY <1>1, AddOrderAdds
  <2>2. Priority(own, all_orders') /\ Priority(opp, all_orders')
    BY <2>1, AddInPriority
  <2>3. QED
    BY <2>1, <2>2
<1>2. ASSUME BookInv, NEW orders,
             \A id \in DOMAIN all_orders : orders[id].filled = all_orders[id].filled
      PROVE  Priority(bids, orders) /\ Priority(asks, orders)
  <2>1. \A o \in bids \cup asks : orders[o.id].filled = o.filled /\ o.filled \in Nat
    BY <1>2 DEF BookInv, BookState, Mirrored, SideOK, Order
  <2>2. QED
    BY <2>1 DEF Priority
<1>3. ASSUME BookInv, NEW id, NEW owner, Cancel(id, owner) PROVE InOrder
  <2>1. all_orders' = [all_orders EXCEPT ![id].status = "Cancelled"] /\ id \in DOMAIN all_orders
    BY <1>3 DEF Cancel
  <2>2. all_orders[id] \in Order
    BY <1>3, <2>1 DEF BookInv, BookState, Stored
  <2>3. \A i \in DOMAIN all_orders : all_orders'[i].filled = all_orders[i].filled
    BY <2>1, <2>2 DEF Order
  <2>4. PICK orders : orders = all_orders'
    OBVIOUS
  <2>5. QED
    BY <1>2, <1>3, <2>3, <2>4
<1>4. BookInv /\ [Next]_vars => [InOrder]_bookVars
  BY <1>1, <1>3, BookSteps
<1>5. QED
  BY <1>4, BookInvariant, PTL DEF Spec, PriceTimePriority

\* Orders, balances and positions stay well typed: no sequence of orders,
\* cancels, deposits, withdrawals, mints and burns overfills an order or makes
\* a balance, a position or a total negative.
THEOREM ExchangeTypes == Spec => []TypeOK
<1>1. BookInv /\ FundInv => TypeOK
  <2> SUFFICES ASSUME BookInv, FundInv PROVE TypeOK
    OBVIOUS
  <2>1. \A id \in DOMAIN all_orders :
           /\ all_orders[id].id = id
           /\ all_orders[id].status \in {"Open", "Partial", "Filled", "Cancelled"}
           /\ remaining(all_orders[id]) >= 0
    <3>1. \A id \in DOMAIN all_orders :
             /\ all_orders[id] \in Order /\ all_orders[id].id = id
             /\ all_orders[id].filled <= all_orders[id].size
      BY DEF BookInv, BookState, Stored
    <3>2. QED
      BY <3>1 DEF Order, remaining
  <2>2. /\ \A a \in Addresses : \A s \in Assets : balances[a][s] >= 0
        /\ \A a \in Addresses : positions[a].synthetic_amount >= 0
        /\ total_supply >= 0 /\ total_collateral >= 0
    BY DEF FundInv, Positions
  <2>3. QED
    BY <2>1, <2>2 DEF TypeOK
<1>2. QED
  BY <1>1, BookInvariant, FundInit, FundStep, PTL DEF Spec

=============================================================================
