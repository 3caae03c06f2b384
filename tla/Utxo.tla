-------------------------------- MODULE Utxo --------------------------------
(***************************************************************************)
(* pallet qbc-utxo: the coins, the caches derived from them and the fees.  *)
(* An outpoint is <<txid, vout>>.  A txid is a SHA2-256 digest, modelled as*)
(* the tuple of what is hashed, tagged by the kind of transaction: the     *)
(* hash is taken to be injective and nothing else is assumed of it.        *)
(* FrozenUtxos is owned by qbc-reversibility and read here through         *)
(* FreezeChecker.  consumed is a history variable, absent from the code:   *)
(* every outpoint that ever left UtxoSet.                                  *)
(***************************************************************************)
EXTENDS Dilithium

CONSTANTS
    MaxInputs, MaxOutputs,  \* T::MaxInputs, T::MaxOutputs
    COINBASE_MATURITY,      \* blocks before a coinbase is spendable
    HEIGHT_OFFSET,          \* the one-shot height migration
    GenesisUtxos,           \* genesis_utxos: <<"genesis", i>> outpoint -> coin
    GenesisHeight           \* the greatest block_height of a genesis coin, or 0

VARIABLES
    UtxoSet,            \* outpoint -> coin
    Balances,           \* address -> cached balance
    UtxoCount,          \* cached number of coins
    TxCount,            \* transactions processed
    CurrentHeight,      \* height of the last mined block
    AccumulatedFees,    \* fees waiting for the next coinbase
    TotalFeesBurned,    \* fees burned since genesis
    SpentUtxos,         \* outpoints spent since the last set_block_height
    HeightMigrationDone,
    FrozenUtxos,        \* outpoints taken by an executed reversal
    consumed            \* history: every outpoint that ever left UtxoSet

utxoVars == <<UtxoSet, Balances, UtxoCount, TxCount, CurrentHeight,
              AccumulatedFees, TotalFeesBurned, SpentUtxos,
              HeightMigrationDone, FrozenUtxos, consumed>>

Coin == [address : Address, amount : QbcBalance, block_height : Nat,
         is_coinbase : BOOLEAN]

\* A key of UtxoSet: who made the transaction is in the tag of its txid.
IsOutpoint(k) == k = <<k[1], k[2]>> /\ k[2] \in Nat

ASSUME UtxoAssumption ==
    /\ MaxInputs \in Nat \ {0} /\ MaxOutputs \in Nat \ {0}
    /\ COINBASE_MATURITY \in Nat
    /\ HEIGHT_OFFSET \in Nat
    /\ IsFiniteSet(DOMAIN GenesisUtxos)
    /\ \A k \in DOMAIN GenesisUtxos :
           /\ k = << <<"genesis", k[1][2]>>, k[2]>> /\ k[2] \in Nat
           /\ GenesisUtxos[k] \in Coin
           /\ GenesisUtxos[k].block_height <= GenesisHeight
    /\ GenesisHeight \in Nat
    /\ GenesisHeight > 0 =>
           \E k \in DOMAIN GenesisUtxos : GenesisUtxos[k].block_height = GenesisHeight

UtxoTypeOK ==
    /\ IsFiniteSet(DOMAIN UtxoSet)
    /\ \A k \in DOMAIN UtxoSet : IsOutpoint(k) /\ UtxoSet[k] \in Coin
    /\ Balances \in [Address -> QbcBalance]
    /\ UtxoCount \in Nat
    /\ TxCount \in Nat
    /\ CurrentHeight \in Nat
    /\ AccumulatedFees \in QbcBalance
    /\ TotalFeesBurned \in QbcBalance
    /\ HeightMigrationDone \in BOOLEAN
    /\ SpentUtxos \subseteq consumed
    /\ FrozenUtxos \subseteq consumed

-----------------------------------------------------------------------------
\* The total amount of the coins at the outpoints in ks, and of one owner's.
AmountOf(coins, ks) == SumFunction([k \in ks |-> coins[k].amount])
AmountOwned(coins, ks, a) == AmountOf(coins, {k \in ks : coins[k].address = a})

\* genesis_build: the chain resumes at the greatest height of a genesis coin.
UtxoInit ==
    /\ UtxoSet = GenesisUtxos
    /\ Balances = [a \in Address |->
                     Saturate(AmountOwned(GenesisUtxos, DOMAIN GenesisUtxos, a))]
    /\ UtxoCount = Cardinality(DOMAIN GenesisUtxos)
    /\ CurrentHeight = GenesisHeight
    /\ TxCount = 0
    /\ AccumulatedFees = 0 /\ TotalFeesBurned = 0
    /\ SpentUtxos = {} /\ FrozenUtxos = {} /\ consumed = {}
    /\ HeightMigrationDone = FALSE

\* Fault: the migration runs in every block, from the genesis height.
RepeatedHeightMigration ==
    /\ CurrentHeight' = GenesisHeight + HEIGHT_OFFSET
    /\ HeightMigrationDone' = TRUE
    /\ UNCHANGED <<UtxoSet, Balances, UtxoCount, TxCount, AccumulatedFees,
                   TotalFeesBurned, SpentUtxos, FrozenUtxos, consumed>>

\* on_initialize: the first block adds HEIGHT_OFFSET to the height, once.
UtxoOnInitialize ==
    /\ CurrentHeight' = IF HeightMigrationDone THEN CurrentHeight
                                               ELSE CurrentHeight + HEIGHT_OFFSET
    /\ HeightMigrationDone' = TRUE
    /\ UNCHANGED <<UtxoSet, Balances, UtxoCount, TxCount, AccumulatedFees,
                   TotalFeesBurned, SpentUtxos, FrozenUtxos, consumed>>

-----------------------------------------------------------------------------
\* Fault: a txid that does not depend on the inputs.
TxidOfOutputs(inputs, outputs) == <<"tx", <<>>, outputs>>
compute_txid(inputs, outputs) == <<"tx", inputs, outputs>>

\* The coins that the outputs of a transaction become.
NewCoins(txid, outputs) ==
    [k \in {<<txid, v>> : v \in 0 .. Len(outputs) - 1} |->
        [address |-> outputs[k[2] + 1].address, amount |-> outputs[k[2] + 1].amount,
         block_height |-> CurrentHeight, is_coinbase |-> FALSE]]

\* A coinbase coin may be spent from COINBASE_MATURITY blocks on.
Mature(coin) ==
    coin.is_coinbase =>
        SatSub(CurrentHeight, coin.block_height) >= COINBASE_MATURITY

\* Fault: an input may be listed twice.
AnyInputs(inputs) == TRUE
NoDuplicateInput(inputs) ==
    \A i, j \in DOMAIN inputs : inputs[i] = inputs[j] => i = j

\* The checks on one input, in the order of the error they raise.
InputSpendable(k) ==
    /\ k \notin SpentUtxos                      \* UtxoAlreadySpent
    /\ k \notin FrozenUtxos                     \* UtxoFrozen
    /\ k \in DOMAIN UtxoSet                     \* UtxoNotFound
    /\ Mature(UtxoSet[k])                       \* CoinbaseNotMature
    /\ CanSign(UtxoSet[k].address)              \* InvalidSignature

\* checked_add over all the amounts: NoOverflow is false for AmountOverflow.
NoOverflow(total) == total \in QbcBalance

InputTotal(inputs) == SumFunction([i \in DOMAIN inputs |-> UtxoSet[inputs[i]].amount])
OutputTotal(outputs) == SumFunction([j \in DOMAIN outputs |-> outputs[j].amount])

\* The UTXO set after the coins at the outpoints in gone left and new came.
\* Fault: the coins that should leave stay.
CoinsKept(gone, new) == InsertAll(UtxoSet, new)
CoinsAfter(gone, new) == InsertAll(Remove(UtxoSet, gone), new)

\* The balance cache after the coins in gone left and the coins in new came.
\* Fault: the spender is not debited.
CreditedBalances(gone, new) ==
    [a \in Address |-> Saturate(Balances[a] + AmountOwned(new, DOMAIN new, a))]
RefreshedBalances(gone, new) ==
    [a \in Address |->
        Saturate(Saturate(Balances[a] - AmountOwned(UtxoSet, gone, a))
                   + AmountOwned(new, DOMAIN new, a))]

\* submit_transaction: inputs is a sequence of outpoints, outputs one of
\* [address, amount].
SubmitTransaction(inputs, outputs) ==
    LET spent == Range(inputs)
        new   == NewCoins(compute_txid(inputs, outputs), outputs)
    IN  /\ Len(inputs) \in 1 .. MaxInputs       \* NoInputs
        /\ Len(outputs) \in 1 .. MaxOutputs     \* NoOutputs
        /\ NoDuplicateInput(inputs)
        /\ \A k \in spent : InputSpendable(k)
        /\ NoOverflow(InputTotal(inputs))
        /\ \A j \in DOMAIN outputs : outputs[j].amount > 0  \* ZeroAmountOutput
        /\ NoOverflow(OutputTotal(outputs))
        /\ InputTotal(inputs) >= OutputTotal(outputs)       \* InsufficientFunds
        /\ AccumulatedFees' =
               Saturate(AccumulatedFees + InputTotal(inputs) - OutputTotal(outputs))
        /\ UtxoSet' = CoinsAfter(spent, new)
        /\ SpentUtxos' = SpentUtxos \cup spent
        /\ consumed' = consumed \cup spent
        /\ Balances' = RefreshedBalances(spent, new)
        /\ UtxoCount' = SatSub(UtxoCount, Len(inputs)) + Len(outputs)
        /\ TxCount' = TxCount + 1
        /\ UNCHANGED <<CurrentHeight, TotalFeesBurned, HeightMigrationDone,
                       FrozenUtxos>>

-----------------------------------------------------------------------------
\* finalize_fees_with_burn: half of the fees, rounded up, is burned.
FeeBurn == (AccumulatedFees + 1) \div 2
MinerFeeShare == AccumulatedFees - FeeBurn

\* Fault: set_block_height is forgotten.
MintWithoutHeight(txid, miner, reward, height) ==
    LET coinbase == [k \in {<<txid, 0>>} |->
                        [address |-> miner, amount |-> Saturate(reward + MinerFeeShare),
                         block_height |-> height, is_coinbase |-> TRUE]]
    IN  /\ TotalFeesBurned' = Saturate(TotalFeesBurned + FeeBurn)
        /\ AccumulatedFees' = 0
        /\ UtxoSet' = InsertAll(UtxoSet, coinbase)
        /\ Balances' = RefreshedBalances({}, coinbase)
        /\ UtxoCount' = UtxoCount + 1
        /\ UNCHANGED <<TxCount, HeightMigrationDone, FrozenUtxos, consumed,
                       SpentUtxos, CurrentHeight>>

\* What the consensus pallet does to the ledger when it accepts a proof:
\* finalize_fees_with_burn, create_coinbase and set_block_height.
MintCoinbase(txid, miner, reward, height) ==
    LET coinbase == [k \in {<<txid, 0>>} |->
                        [address |-> miner, amount |-> Saturate(reward + MinerFeeShare),
                         block_height |-> height, is_coinbase |-> TRUE]]
    IN  /\ TotalFeesBurned' = Saturate(TotalFeesBurned + FeeBurn)
        /\ AccumulatedFees' = 0
        /\ UtxoSet' = InsertAll(UtxoSet, coinbase)
        /\ Balances' = RefreshedBalances({}, coinbase)
        /\ UtxoCount' = UtxoCount + 1
        /\ SpentUtxos' = {}
        /\ CurrentHeight' = height
        /\ UNCHANGED <<TxCount, HeightMigrationDone, FrozenUtxos, consumed>>

=============================================================================
