---------------------------- MODULE PalletProofs ----------------------------
(***************************************************************************)
(* Type correctness of the runtime, and what qbc-dilithium and qbc-        *)
(* consensus promise, for every value of the constants: any addresses,     *)
(* keys, genesis, amounts, window, thresholds and schedules.               *)
(*                                                                         *)
(* Keys: they are counted right, no address is both registered and         *)
(* revoked, and after a revocation the coins of the address leave the set  *)
(* by a reversal only.                                                     *)
(*                                                                         *)
(* Mining: a Hamiltonian is rewarded once, the solutions kept are those of *)
(* the retention window and the other replay guards never bind.  The       *)
(* inductive invariant MiningInv adds that a kept solution solves the      *)
(* Hamiltonian of its own height, and that the height migration runs       *)
(* before anything is mined.                                               *)
(*                                                                         *)
(* The difficulty follows the block times; the type invariant is all that  *)
(* a step needs for this.                                                  *)
(***************************************************************************)
EXTENDS Runtime, TLAPS, FiniteSetTheorems

-----------------------------------------------------------------------------
(* Storage maps and arithmetic *)

\* A saturated amount is a balance, whatever the exact amount was.
LEMMA SaturateType == ASSUME NEW x PROVE Saturate(x) \in QbcBalance
BY MaxBalanceAssumption DEF Saturate, QbcBalance

\* A saturating difference of naturals is a natural.
LEMMA SatSubType == ASSUME NEW a \in Nat, NEW b \in Nat PROVE SatSub(a, b) \in Nat
BY DEF SatSub

\* The coins a transaction creates have finitely many outpoints.
LEMMA NewCoinsFinite ==
    ASSUME NEW txid, NEW n \in Nat
    PROVE  /\ IsFiniteSet({<<txid, v>> : v \in 0 .. n - 1})
           /\ Cardinality({<<txid, v>> : v \in 0 .. n - 1}) = n
<1> DEFINE S == 0 .. n - 1
           T == {<<txid, v>> : v \in 0 .. n - 1}
           f == [v \in S |-> <<txid, v>>]
<1>1. IsFiniteSet(S) /\ Cardinality(S) = n
  BY FS_Interval, SMT
<1>2. f \in Bijection(S, T)
  BY DEF Bijection, Injection, Surjection, IsInjective
<1>3. QED
  BY <1>1, <1>2, FS_Bijection DEF ExistsBijection

-----------------------------------------------------------------------------
(* Type correctness, pallet by pallet *)

\* The calls of qbc-dilithium keep the registry well typed.
LEMMA StoreKeyType ==
    ASSUME DilithiumTypeOK, NEW address \in Address, NEW key \in PublicKey,
           StoreKey(address, key)
    PROVE  DilithiumTypeOK'
<1>1. /\ PublicKeys' = Insert(PublicKeys, address, key)
      /\ RevokedKeys' \subseteq Address
      /\ TotalKeys' \in Nat
  BY DEF DilithiumTypeOK, StoreKey
<1>2. /\ DOMAIN PublicKeys' = DOMAIN PublicKeys \cup {address}
      /\ PublicKeys'[address] = key
      /\ \A a \in DOMAIN PublicKeys : a # address => PublicKeys'[a] = PublicKeys[a]
  BY <1>1 DEF Insert
<1>3. QED
  BY <1>1, <1>2 DEF DilithiumTypeOK

\* Revoking a key (revoke_key) keeps the key maps well-typed.
LEMMA RevokeKeyType ==
    ASSUME DilithiumTypeOK, NEW address \in Address, RevokeKey(address)
    PROVE  DilithiumTypeOK'
<1>1. /\ PublicKeys' = Remove(PublicKeys, {address})
      /\ RevokedKeys' \subseteq Address
  BY DEF DilithiumTypeOK, RevokeKey
<1>2. /\ DOMAIN PublicKeys' = DOMAIN PublicKeys \ {address}
      /\ \A a \in DOMAIN PublicKeys \ {address} : PublicKeys'[a] = PublicKeys[a]
  BY <1>1 DEF Remove, Restrict
<1>3. TotalKeys' \in Nat
  BY SatSubType DEF DilithiumTypeOK, RevokeKey
<1>4. QED
  BY <1>1, <1>2, <1>3 DEF DilithiumTypeOK

\* An output of a transaction.
Output == [address : Address, amount : QbcBalance]

\* The coins that outputs become are well typed.
LEMMA NewCoinsType ==
    ASSUME NEW txid, NEW n \in Nat, NEW outputs \in [1 .. n -> Output],
           CurrentHeight \in Nat
    PROVE  LET new == NewCoins(txid, outputs)
           IN  /\ DOMAIN new = {<<txid, v>> : v \in 0 .. n - 1}
               /\ \A k \in DOMAIN new : IsOutpoint(k) /\ new[k] \in Coin
<1>1. Len(outputs) = n
  OBVIOUS
<1>2. \A v \in 0 .. n - 1 : outputs[v + 1] \in Output
  OBVIOUS
<1>3. QED
  BY <1>1, <1>2 DEF NewCoins, Output, Coin, IsOutpoint

\* A set of coins with finitely many entries, all well typed.
WellTyped(coins) ==
    /\ IsFiniteSet(DOMAIN coins)
    /\ \A k \in DOMAIN coins : IsOutpoint(k) /\ coins[k] \in Coin

\* Removing and inserting coins keeps the set well typed.
LEMMA RemoveWellTyped ==
    ASSUME NEW coins, NEW gone, WellTyped(coins)
    PROVE  WellTyped(Remove(coins, gone))
<1> DEFINE after == Remove(coins, gone)
<1>1. /\ DOMAIN after = DOMAIN coins \ gone
      /\ \A k \in DOMAIN after : after[k] = coins[k]
  BY DEF Remove, Restrict
<1> HIDE DEF after
<1>2. IsFiniteSet(DOMAIN after)
  BY <1>1, FS_Subset DEF WellTyped
<1>3. WellTyped(after)
  BY <1>1, <1>2 DEF WellTyped
<1>4. QED
  BY <1>3 DEF after

\* Inserting well-typed coins into a well-typed coin set gives one.
LEMMA InsertAllWellTyped ==
    ASSUME NEW coins, NEW new, WellTyped(coins), WellTyped(new)
    PROVE  WellTyped(InsertAll(coins, new))
<1> DEFINE after == InsertAll(coins, new)
<1>1. /\ DOMAIN after = DOMAIN coins \cup DOMAIN new
      /\ \A k \in DOMAIN new : after[k] = new[k]
      /\ \A k \in DOMAIN coins \ DOMAIN new : after[k] = coins[k]
  BY DEF InsertAll
<1> HIDE DEF after
<1>2. IsFiniteSet(DOMAIN after)
  BY <1>1, FS_Union DEF WellTyped
<1>3. WellTyped(after)
  BY <1>1, <1>2 DEF WellTyped
<1>4. QED
  BY <1>3 DEF after

\* The balance cache stays a function to balances.
LEMMA RefreshedBalancesType ==
    ASSUME NEW gone, NEW new
    PROVE  RefreshedBalances(gone, new) \in [Address -> QbcBalance]
BY SaturateType DEF RefreshedBalances

\* submit_transaction keeps the ledger well typed.
LEMMA SubmitTransactionType ==
    ASSUME UtxoTypeOK, NEW inputs, NEW n \in Nat, NEW outputs \in [1 .. n -> Output],
           SubmitTransaction(inputs, outputs)
    PROVE  UtxoTypeOK'
<1> DEFINE spent == Range(inputs)
           new   == NewCoins(compute_txid(inputs, outputs), outputs)
<1>1. WellTyped(new)
  <2>1. /\ DOMAIN new = {<<compute_txid(inputs, outputs), v>> : v \in 0 .. n - 1}
        /\ \A k \in DOMAIN new : IsOutpoint(k) /\ new[k] \in Coin
    BY NewCoinsType DEF UtxoTypeOK
  <2> HIDE DEF new
  <2>2. IsFiniteSet({<<compute_txid(inputs, outputs), v>> : v \in 0 .. n - 1})
    BY NewCoinsFinite, Zenon
  <2>3. IsFiniteSet(DOMAIN new)
    BY <2>1, <2>2, Zenon
  <2>4. QED
    BY <2>1, <2>3 DEF WellTyped
<1> HIDE DEF new, spent
<1>2. UtxoSet' = InsertAll(Remove(UtxoSet, spent), new)
  BY DEF SubmitTransaction, CoinsAfter, new, spent
<1>3. WellTyped(UtxoSet')
  BY <1>1, <1>2, InsertAllWellTyped, RemoveWellTyped DEF UtxoTypeOK, WellTyped
<1>4. Balances' \in [Address -> QbcBalance]
  BY RefreshedBalancesType DEF SubmitTransaction
<1>5. UtxoCount' \in Nat
  <2>1. Len(inputs) \in Nat /\ Len(outputs) \in Nat
    BY DEF SubmitTransaction
  <2>2. UtxoCount' = SatSub(UtxoCount, Len(inputs)) + Len(outputs)
    BY DEF SubmitTransaction
  <2>3. SatSub(UtxoCount, Len(inputs)) \in Nat
    BY <2>1, SatSubType DEF UtxoTypeOK
  <2>4. QED
    BY <2>1, <2>2, <2>3
<1>6. AccumulatedFees' \in QbcBalance
  BY SaturateType DEF SubmitTransaction
<1>7. /\ TxCount' \in Nat
      /\ CurrentHeight' \in Nat
      /\ TotalFeesBurned' \in QbcBalance
      /\ HeightMigrationDone' \in BOOLEAN
      /\ SpentUtxos' \subseteq consumed'
      /\ FrozenUtxos' \subseteq consumed'
  BY DEF SubmitTransaction, UtxoTypeOK
<1>8. QED
  BY <1>3, <1>4, <1>5, <1>6, <1>7 DEF UtxoTypeOK, WellTyped

\* finalize_fees_with_burn, create_coinbase and set_block_height do too.
LEMMA MintCoinbaseType ==
    ASSUME UtxoTypeOK, NEW txid, NEW miner \in Address, NEW reward,
           NEW height \in Nat, MintCoinbase(txid, miner, reward, height)
    PROVE  UtxoTypeOK'
<1> DEFINE coinbase == [k \in {<<txid, 0>>} |->
                           [address |-> miner, amount |-> Saturate(reward + MinerFeeShare),
                            block_height |-> height, is_coinbase |-> TRUE]]
<1>1. WellTyped(coinbase)
  <2>1. IsFiniteSet(DOMAIN coinbase)
    BY FS_Singleton
  <2>2. QED
    BY <2>1, SaturateType DEF Coin, IsOutpoint, WellTyped
<1>2. UtxoSet' = InsertAll(UtxoSet, coinbase)
  BY DEF MintCoinbase
<1> HIDE DEF coinbase
<1>3. WellTyped(UtxoSet')
  BY <1>1, <1>2, InsertAllWellTyped DEF UtxoTypeOK, WellTyped
<1>4. Balances' \in [Address -> QbcBalance] /\ TotalFeesBurned' \in QbcBalance
  BY SaturateType, RefreshedBalancesType DEF MintCoinbase
<1>5. /\ UtxoCount' \in Nat /\ TxCount' \in Nat
      /\ CurrentHeight' \in Nat
      /\ AccumulatedFees' \in QbcBalance
      /\ HeightMigrationDone' \in BOOLEAN
      /\ SpentUtxos' \subseteq consumed'
      /\ FrozenUtxos' \subseteq consumed'
  BY MaxBalanceAssumption DEF MintCoinbase, UtxoTypeOK, QbcBalance
<1>6. QED
  BY <1>3, <1>4, <1>5 DEF UtxoTypeOK, WellTyped

\* The reward is what is left to emit at most.
LEMMA RewardType ==
    ASSUME EconomicsTypeOK, NEW height
    PROVE  calculate_reward(height) \in Nat
<1>1. SatSub(MAX_SUPPLY, TotalEmitted) \in Nat
  BY SatSubType, EconomicsAssumption, MaxBalanceAssumption DEF EconomicsTypeOK, QbcBalance
<1>2. QED
  BY <1>1 DEF calculate_reward

\* on_block_authored keeps the emission state well typed.
LEMMA OnBlockAuthoredType ==
    ASSUME EconomicsTypeOK, NEW height \in Nat, OnBlockAuthored(height)
    PROVE  EconomicsTypeOK'
<1>1. TotalEmitted' \in QbcBalance
  BY RewardType, EconomicsAssumption, MaxBalanceAssumption
     DEF OnBlockAuthored, EconomicsTypeOK, QbcBalance
<1>2. Era(height) \in Nat
  BY EconomicsAssumption DEF Era
<1>3. QED
  BY <1>1, <1>2 DEF OnBlockAuthored, EconomicsTypeOK

\* adjust_difficulty keeps the difficulty within its bounds.
LEMMA AdjustDifficultyType ==
    ASSUME DifficultyTypeOK, NEW timestamp \in Nat, NEW height \in Nat,
           adjust_difficulty(timestamp, height)
    PROVE  DifficultyTypeOK'
<1> DEFINE ts == PushTimestamp(timestamp)
<1>1. ts \in Seq(Nat) /\ Len(ts) <= DIFFICULTY_WINDOW + 1
  BY DifficultyAssumption DEF DifficultyTypeOK, PushTimestamp
<1> HIDE DEF ts
<1>2. ASSUME CanRetarget(ts)
      PROVE  Retargeted(ts) \in DIFFICULTY_FLOOR .. DIFFICULTY_CEILING
  <2> DEFINE window == IF Len(ts) < DIFFICULTY_WINDOW THEN Len(ts) ELSE DIFFICULTY_WINDOW
             expected == (window - 1) * TARGET_BLOCK_TIME_MS
  <2>1. window \in Nat /\ window >= 2 /\ window <= Len(ts)
    BY <1>1, <1>2, DifficultyAssumption DEF CanRetarget
  <2>2. /\ ts[Len(ts) - window + 1] \in Nat
        /\ ts[Len(ts)] \in Nat
    BY <1>1, <2>1
  <2> HIDE DEF window
  <2>3. expected \in Nat /\ expected > 0
    BY <2>1, DifficultyAssumption
  <2> HIDE DEF expected
  <2>4. \A a \in Nat : (a * 100) \div expected \in Int
    BY <2>3
  <2> DEFINE oldest == ts[Len(ts) - window + 1]
             newest == ts[Len(ts)]
             actual == IF newest >= oldest THEN newest - oldest ELSE 0
  <2>13. actual \in Nat
    BY <2>2
  <2>14. RatioPercent(ts) = (actual * 100) \div expected
    BY DEF RatioPercent, window, expected
  <2> HIDE DEF actual
  <2>5. RatioPercent(ts) \in Int
    BY <2>4, <2>13, <2>14
  <2> DEFINE held == IF RatioPercent(ts) > 100 /\ CurrentDifficulty > DIFFICULTY_MEANINGFUL_MAX
                     THEN 100 ELSE RatioPercent(ts)
             percent == Clamp(held, MIN_ADJUSTMENT_FACTOR, MAX_ADJUSTMENT_FACTOR)
  <2>6. held \in Int
    BY <2>5
  <2> HIDE DEF held
  <2>7. percent \in Nat
    BY <2>6, DifficultyAssumption DEF Clamp
  <2> HIDE DEF percent
  <2>8. CurrentDifficulty * percent \in Nat
    BY <2>7, DifficultyAssumption DEF DifficultyTypeOK
  <2>9. (CurrentDifficulty * percent) \div 100 \in Int
    BY <2>8
  <2>10. DIFFICULTY_FLOOR \in Nat /\ DIFFICULTY_CEILING \in Nat
         /\ DIFFICULTY_FLOOR <= DIFFICULTY_CEILING
    BY DifficultyAssumption
  <2>11. \A x \in Int : Clamp(x, DIFFICULTY_FLOOR, DIFFICULTY_CEILING)
                           \in DIFFICULTY_FLOOR .. DIFFICULTY_CEILING
    BY <2>10 DEF Clamp
  <2>12. QED
    BY <2>9, <2>11 DEF Retargeted, percent, held
<1>3. CurrentDifficulty' \in DIFFICULTY_FLOOR .. DIFFICULTY_CEILING
  BY <1>2, DifficultyAssumption DEF adjust_difficulty, DifficultyTypeOK, ts
<1>4. QED
  BY <1>1, <1>3 DEF adjust_difficulty, DifficultyTypeOK, ts

\* submit_mining_proof keeps the consensus state well typed.
LEMMA SubmitMiningProofType ==
    ASSUME ConsensusTypeOK, CurrentHeight \in Nat, NEW miner \in Miner, NEW proof,
           SubmitMiningProof(miner, proof), UNCHANGED <<parent, now>>
    PROVE  ConsensusTypeOK'
<1> DEFINE height == CurrentHeight + 1
           entry  == <<height, compute_proof_hash(proof, miner, height)>>
           hashes == RecentProofHashes \cup {entry}
           count  == RecentProofHashCount + 1
<1>1. IsFiniteSet(hashes) /\ count \in Nat
  <2>1. IsFiniteSet(RecentProofHashes) /\ RecentProofHashCount \in Nat
    BY DEF ConsensusTypeOK
  <2> HIDE DEF entry
  <2>2. IsFiniteSet(hashes)
    BY <2>1, FS_AddElement
  <2>3. QED
    BY <2>1, <2>2
<1>2. RecordProofHash(entry)
  BY DEF SubmitMiningProof
<1>3. PICK n \in 0 .. count :
           /\ RecentProofHashes' = hashes \ PrunedAfter(hashes, n)
           /\ RecentProofHashCount' = CountAfter(hashes, count, n)
           /\ ProofHashOldestBlock' = ProofHashOldestBlock + n
  BY <1>2 DEF RecordProofHash
<1>4. DOMAIN SusySolutions' \subseteq Nat
  <2>1. DOMAIN SusySolutions' \subseteq DOMAIN SusySolutions \cup {height}
    BY DEF SubmitMiningProof, RecordSolution, Remove, Restrict, Insert
  <2>2. QED
    BY <2>1 DEF ConsensusTypeOK
<1> HIDE DEF hashes, count
<1>5. IsFiniteSet(RecentProofHashes')
  BY <1>1, <1>3, FS_Subset
<1>6. RecentProofHashCount' \in Nat
  <2>1. IsFiniteSet(ReportedAfter(hashes, n))
    BY <1>1, FS_Subset DEF PrunedAfter, ReportedAfter
  <2>2. 2 * Cardinality(ReportedAfter(hashes, n)) \in Nat
    BY <2>1, FS_CardinalityType
  <2>3. QED
    BY <1>1, <1>3, <2>2, SatSubType DEF CountAfter
<1>7. ProofHashOldestBlock' \in Nat
  BY <1>1, <1>3 DEF ConsensusTypeOK
<1>8. NetworkTheta' \in 0 .. TWO_PI_SCALED - 1
  BY ConsensusAssumption DEF SubmitMiningProof, NextTheta, ConsensusTypeOK
<1>9. LastMinerBlock' \in [Miner -> Nat] /\ BlocksMined' \in Nat
  BY DEF SubmitMiningProof, ConsensusTypeOK
<1>10. QED
  BY <1>4, <1>5, <1>6, <1>7, <1>8, <1>9 DEF ConsensusTypeOK

\* A map of well-typed requests, and what inserts and removals keep of it.
AllRequests(requests) == \A id \in DOMAIN requests : IsRequest(requests[id])

\* Inserting a request into a map of requests gives one.
LEMMA InsertRequest ==
    ASSUME NEW requests, NEW id, NEW request,
           AllRequests(requests), IsRequest(request)
    PROVE  AllRequests(Insert(requests, id, request))
BY DEF AllRequests, Insert

\* Removing entries from a map of requests gives one.
LEMMA RemoveRequest ==
    ASSUME NEW requests, NEW ids, AllRequests(requests)
    PROVE  AllRequests(Remove(requests, ids))
BY DEF AllRequests, Remove, Restrict

\* Voting for a request and closing it keep it a request.
LEMMA UpdateRequest ==
    ASSUME NEW r, IsRequest(r), NEW status \in ReversalStatus
    PROVE  /\ IsRequest([r EXCEPT !.approval_count = @ + 1])
           /\ IsRequest([r EXCEPT !.approval_count = @ + 1, !.status = status])
           /\ [r EXCEPT !.approval_count = @ + 1, !.status = status].original_sender
                 = r.original_sender
<1>1. r = [target_txid |-> r.target_txid, original_sender |-> r.original_sender,
           amount |-> r.amount, target_block_height |-> r.target_block_height,
           request_block_height |-> r.request_block_height,
           expiry_block_height |-> r.expiry_block_height,
           approval_count |-> r.approval_count, status |-> r.status]
  BY DEF IsRequest
<1> DEFINE voted == [r EXCEPT !.approval_count = @ + 1]
           closed == [r EXCEPT !.approval_count = @ + 1, !.status = status]
<1>2. voted = [target_txid |-> r.target_txid, original_sender |-> r.original_sender,
               amount |-> r.amount, target_block_height |-> r.target_block_height,
               request_block_height |-> r.request_block_height,
               expiry_block_height |-> r.expiry_block_height,
               approval_count |-> r.approval_count + 1, status |-> r.status]
  BY <1>1
<1>3. closed = [target_txid |-> r.target_txid, original_sender |-> r.original_sender,
                amount |-> r.amount, target_block_height |-> r.target_block_height,
                request_block_height |-> r.request_block_height,
                expiry_block_height |-> r.expiry_block_height,
                approval_count |-> r.approval_count + 1, status |-> status]
  <2>1. closed = [voted EXCEPT !.status = status]
    BY <1>1
  <2> HIDE DEF voted, closed
  <2>2. QED
    BY <1>2, <2>1
<1> HIDE DEF voted, closed
<1>4. IsRequest(voted)
  BY <1>2 DEF IsRequest
<1>5. IsRequest(closed) /\ closed.original_sender = r.original_sender
  BY <1>3 DEF IsRequest
<1>6. QED
  BY <1>4, <1>5 DEF voted, closed

\* execute_reversal keeps the ledger well typed.
LEMMA ReturnFundsType ==
    ASSUME UtxoTypeOK, NEW id, NEW request, request.original_sender \in Address,
           ReturnFunds(id, request)
    PROVE  UtxoTypeOK'
<1> DEFINE taken  == Reversible(request.target_txid)
           total  == total_reversed(request)
           refund == [k \in {<<compute_reversal_txid(id, CurrentHeight), 0>>} |->
                         [address |-> request.original_sender, amount |-> total,
                          block_height |-> CurrentHeight, is_coinbase |-> FALSE]]
           new    == IF total > 0 THEN refund ELSE NoEntries
<1>1. WellTyped(new)
  <2>1. IsFiniteSet(DOMAIN refund)
    BY FS_Singleton
  <2>2. WellTyped(refund)
    BY <2>1, SaturateType DEF total_reversed, Coin, IsOutpoint, WellTyped, UtxoTypeOK
  <2>3. WellTyped(NoEntries)
    <3>1. DOMAIN NoEntries = {}
      BY DEF NoEntries
    <3>2. QED
      BY <3>1, FS_EmptySet DEF WellTyped
  <2> HIDE DEF total, refund
  <2>4. QED
    BY <2>2, <2>3
<1>2. IsFiniteSet(taken)
  <2>1. taken \subseteq DOMAIN UtxoSet
    BY DEF Reversible, OutputsOf
  <2> HIDE DEF taken
  <2>2. QED
    BY <2>1, FS_Subset DEF UtxoTypeOK
<1>3. /\ UtxoSet' = InsertAll(Remove(UtxoSet, taken), new)
      /\ UtxoCount' = SatSub(UtxoCount, Cardinality(taken)) + Cardinality(DOMAIN new)
      /\ TxCount' = TxCount + Cardinality(DOMAIN new)
      /\ Balances' = RefreshedBalances(taken, new)
  BY DEF ReturnFunds, CoinsAfter
<1>4. /\ CurrentHeight' \in Nat
      /\ AccumulatedFees' \in QbcBalance
      /\ TotalFeesBurned' \in QbcBalance
      /\ HeightMigrationDone' \in BOOLEAN
      /\ SpentUtxos' \subseteq consumed'
      /\ FrozenUtxos' \subseteq consumed'
  BY DEF ReturnFunds, UtxoTypeOK
<1> HIDE DEF taken, new
<1>5. WellTyped(UtxoSet')
  BY <1>1, <1>3, InsertAllWellTyped, RemoveWellTyped DEF UtxoTypeOK, WellTyped
<1>6. UtxoCount' \in Nat /\ TxCount' \in Nat
  <2>1. Cardinality(taken) \in Nat /\ Cardinality(DOMAIN new) \in Nat
    BY <1>1, <1>2, FS_CardinalityType DEF WellTyped
  <2>2. SatSub(UtxoCount, Cardinality(taken)) \in Nat
    BY <2>1, SatSubType DEF UtxoTypeOK
  <2>3. QED
    BY <1>3, <2>1, <2>2 DEF UtxoTypeOK
<1>7. Balances' \in [Address -> QbcBalance]
  BY <1>3, RefreshedBalancesType
<1>8. QED
  BY <1>4, <1>5, <1>6, <1>7 DEF UtxoTypeOK, WellTyped

\* submit_reversal_request keeps the reversal state well typed.
LEMMA SubmitReversalRequestType ==
    ASSUME ReversibilityTypeOK, UtxoTypeOK, NEW txid, NEW sender \in Address,
           SubmitReversalRequest(txid, sender)
    PROVE  ReversibilityTypeOK'
<1>1. PICK id, amount, target_height :
         ReversalRequests' =
           Insert(ReversalRequests, id,
                  [target_txid |-> txid, original_sender |-> sender, amount |-> amount,
                   target_block_height |-> target_height,
                   request_block_height |-> CurrentHeight,
                   expiry_block_height |-> CurrentHeight + ReversalWindow,
                   approval_count |-> 0, status |-> "Pending"])
  BY DEF SubmitReversalRequest
<1> DEFINE request == [target_txid |-> txid, original_sender |-> sender, amount |-> amount,
                       target_block_height |-> target_height,
                       request_block_height |-> CurrentHeight,
                       expiry_block_height |-> CurrentHeight + ReversalWindow,
                       approval_count |-> 0, status |-> "Pending"]
<1>2. CurrentHeight + ReversalWindow \in Nat
  BY DEF ReversibilityTypeOK, UtxoTypeOK
<1>3. IsRequest(request)
  BY <1>2 DEF IsRequest, ReversalStatus
<1> HIDE DEF request
<1>4. AllRequests(ReversalRequests')
  BY <1>1, <1>3, InsertRequest DEF AllRequests, ReversibilityTypeOK, request
<1>5. QED
  BY <1>4 DEF SubmitReversalRequest, ReversibilityTypeOK, AllRequests

\* approve_reversal keeps the reversal state and the ledger well typed.
LEMMA ApproveReversalType ==
    ASSUME ReversibilityTypeOK, UtxoTypeOK, NEW governor, NEW id,
           ApproveReversal(governor, id)
    PROVE  ReversibilityTypeOK' /\ UtxoTypeOK'
<1> DEFINE r == ReversalRequests[id]
           voted == [r EXCEPT !.approval_count = @ + 1]
           executed == [r EXCEPT !.approval_count = @ + 1, !.status = "Executed"]
<1>1. /\ UNCHANGED <<ReversalWindow, ApprovalThreshold, Governors, TotalRequests>>
      /\ id \in DOMAIN ReversalRequests
  BY DEF ApproveReversal, IsPending
<1>2. /\ AllRequests(ReversalRequests)
      /\ IsRequest(r)
      /\ TotalExecuted \in Nat /\ TotalExpired \in Nat
  BY <1>1 DEF ReversibilityTypeOK, AllRequests
<1>3. /\ IsRequest(voted) /\ IsRequest(executed)
      /\ executed.original_sender \in Address
  <2>1. "Executed" \in ReversalStatus /\ r.original_sender \in Address
    BY <1>2 DEF ReversalStatus, IsRequest
  <2> HIDE DEF r
  <2>2. QED
    BY <1>2, <2>1, UpdateRequest
<1>4. CASE ApproveTooLate(id)
  <2>1. AllRequests(ReversalRequests')
    BY <1>2, <1>4, RemoveRequest DEF ApproveTooLate, MoveToExpired
  <2>2. TotalExecuted' \in Nat /\ TotalExpired' \in Nat
    BY <1>2, <1>4 DEF ApproveTooLate, MoveToExpired
  <2>3. UtxoTypeOK'
    BY <1>4 DEF ApproveTooLate, utxoVars, UtxoTypeOK
  <2>4. QED
    BY <1>1, <2>1, <2>2, <2>3 DEF ReversibilityTypeOK, AllRequests
<1>5. CASE RecordVote(governor, id) /\ UNCHANGED <<ExpiredReversals, TotalExpired>>
  <2>1. ReversalRequests' = Insert(ReversalRequests, id, voted)
    BY <1>5 DEF RecordVote
  <2> HIDE DEF voted
  <2>2. AllRequests(ReversalRequests')
    BY <1>2, <1>3, <2>1, InsertRequest
  <2>3. TotalExecuted' \in Nat /\ TotalExpired' \in Nat
    BY <1>2, <1>5 DEF RecordVote
  <2>4. UtxoTypeOK'
    BY <1>5 DEF RecordVote, utxoVars, UtxoTypeOK
  <2>5. QED
    BY <1>1, <2>2, <2>3, <2>4 DEF ReversibilityTypeOK, AllRequests
<1>6. CASE VoteAndExecute(id) /\ UNCHANGED <<ExpiredReversals, TotalExpired>>
  <2>1. /\ ReversalRequests' = Insert(ReversalRequests, id, executed)
        /\ ReturnFunds(id, executed)
    BY <1>6 DEF VoteAndExecute
  <2> HIDE DEF executed
  <2>2. AllRequests(ReversalRequests')
    BY <1>2, <1>3, <2>1, InsertRequest
  <2>3. TotalExecuted' \in Nat /\ TotalExpired' \in Nat
    BY <1>2, <1>6 DEF VoteAndExecute
  <2>4. UtxoTypeOK'
    BY <1>3, <2>1, ReturnFundsType
  <2>5. QED
    BY <1>1, <2>2, <2>3, <2>4 DEF ReversibilityTypeOK, AllRequests
<1>7. QED
  BY <1>4, <1>5, <1>6 DEF ApproveReversal, ApproveInTime

\* expire_request keeps the reversal state well typed.
LEMMA ExpireRequestType ==
    ASSUME ReversibilityTypeOK, NEW id, ExpireRequest(id)
    PROVE  ReversibilityTypeOK'
<1>1. AllRequests(ReversalRequests')
  BY RemoveRequest DEF ExpireRequest, MoveToExpired, ReversibilityTypeOK, AllRequests
<1>2. QED
  BY <1>1 DEF ExpireRequest, MoveToExpired, ReversibilityTypeOK, AllRequests

\* Changes to the governors keep the list within its bound, and the
\* threshold never falls to zero.
LEMMA GovernanceType ==
    ASSUME ReversibilityTypeOK, NEW address \in Address,
           AddGovernor(address) \/ RemoveGovernor(address)
    PROVE  ReversibilityTypeOK'
<1>1. IsFiniteSet(Governors)
  BY KeyAssumption, FS_Subset DEF ReversibilityTypeOK
<1>2. IsFiniteSet(Governors') /\ Governors' \subseteq Address
  BY <1>1, FS_AddElement, FS_RemoveElement
     DEF AddGovernor, RemoveGovernor, ReversibilityTypeOK
<1>3. Cardinality(Governors') <= MAX_GOVERNORS
  <2>1. Cardinality(Governors) \in Nat /\ Cardinality(Governors) <= MAX_GOVERNORS
    BY <1>1, FS_CardinalityType DEF ReversibilityTypeOK
  <2>2. CASE AddGovernor(address)
    <3>1. /\ Governors' = Governors \cup {address} /\ address \notin Governors
          /\ Cardinality(Governors) < MAX_GOVERNORS
      BY <2>2 DEF AddGovernor
    <3>2. Cardinality(Governors \cup {address}) = Cardinality(Governors) + 1
      BY <1>1, <3>1, FS_AddElement
    <3>3. QED
      BY <2>1, <3>1, <3>2, ReversibilityAssumption
  <2>3. CASE RemoveGovernor(address)
    <3>1. Governors' = Governors \ {address} /\ address \in Governors
      BY <2>3 DEF RemoveGovernor
    <3>2. Cardinality(Governors \ {address}) = Cardinality(Governors) - 1
      BY <1>1, <3>1, FS_RemoveElement
    <3>3. QED
      BY <2>1, <3>1, <3>2, ReversibilityAssumption
  <2>4. QED
    BY <2>2, <2>3
<1>4. ApprovalThreshold' \in Nat \ {0}
  <2>1. /\ Cardinality(Governors') \in Nat
        /\ Governors' # {} => Cardinality(Governors') # 0
    BY <1>2, FS_CardinalityType, FS_EmptySet
  <2>2. QED
    BY <2>1 DEF AddGovernor, RemoveGovernor, ReversibilityTypeOK
<1>5. QED
  BY <1>2, <1>3, <1>4
     DEF AddGovernor, RemoveGovernor, governanceUnchanged, ReversibilityTypeOK

\* A call that leaves the variables of a pallet alone keeps their types.
LEMMA Frames ==
    /\ DilithiumTypeOK /\ UNCHANGED dilithiumVars => DilithiumTypeOK'
    /\ UtxoTypeOK /\ UNCHANGED utxoVars => UtxoTypeOK'
    /\ EconomicsTypeOK /\ UNCHANGED economicsVars => EconomicsTypeOK'
    /\ DifficultyTypeOK /\ UNCHANGED difficultyVars => DifficultyTypeOK'
    /\ ConsensusTypeOK /\ UNCHANGED <<parent, now, consensusVars>> => ConsensusTypeOK'
    /\ ReversibilityTypeOK /\ UNCHANGED reversibilityVars => ReversibilityTypeOK'
<1>1. DilithiumTypeOK /\ UNCHANGED dilithiumVars => DilithiumTypeOK'
  BY DEF DilithiumTypeOK, dilithiumVars
<1>2. UtxoTypeOK /\ UNCHANGED utxoVars => UtxoTypeOK'
  BY DEF UtxoTypeOK, utxoVars
<1>3. EconomicsTypeOK /\ UNCHANGED economicsVars => EconomicsTypeOK'
  BY DEF EconomicsTypeOK, economicsVars
<1>4. DifficultyTypeOK /\ UNCHANGED difficultyVars => DifficultyTypeOK'
  BY DEF DifficultyTypeOK, difficultyVars
<1>5. ConsensusTypeOK /\ UNCHANGED <<parent, now, consensusVars>> => ConsensusTypeOK'
  BY DEF ConsensusTypeOK, consensusVars
<1>6. ReversibilityTypeOK /\ UNCHANGED reversibilityVars => ReversibilityTypeOK'
  BY DEF ReversibilityTypeOK, reversibilityVars
<1>7. QED
  BY <1>1, <1>2, <1>3, <1>4, <1>5, <1>6

\* The genesis of every pallet is well typed.
LEMMA TypeInit == Init => TypeOK
<1> SUFFICES ASSUME Init PROVE TypeOK
  OBVIOUS
<1>1. DOMAIN NoEntries = {}
  BY DEF NoEntries
<1>2. DilithiumTypeOK
  BY <1>1 DEF Init, DilithiumInit, DilithiumTypeOK
<1>3. UtxoTypeOK
  <2>1. WellTyped(GenesisUtxos)
    BY UtxoAssumption DEF WellTyped, IsOutpoint
  <2>2. Cardinality(DOMAIN GenesisUtxos) \in Nat
    BY UtxoAssumption, FS_CardinalityType
  <2>3. Balances \in [Address -> QbcBalance]
    BY SaturateType DEF Init, UtxoInit
  <2>4. HeightMigrationDone \in BOOLEAN
    BY Zenon DEF Init, UtxoInit
  <2>5. /\ UtxoSet = GenesisUtxos /\ UtxoCount \in Nat /\ TxCount \in Nat
        /\ CurrentHeight \in Nat
        /\ AccumulatedFees \in QbcBalance /\ TotalFeesBurned \in QbcBalance
        /\ SpentUtxos \subseteq consumed /\ FrozenUtxos \subseteq consumed
    BY <2>2, UtxoAssumption, MaxBalanceAssumption DEF Init, UtxoInit, QbcBalance
  <2>6. QED
    BY <2>1, <2>3, <2>4, <2>5 DEF UtxoTypeOK, WellTyped
<1>4. EconomicsTypeOK
  <2>1. SupplyMigrationDone \in BOOLEAN
    BY Zenon DEF Init, EconomicsInit
  <2>2. TotalEmitted \in QbcBalance /\ CurrentEra \in Nat /\ EraStartBlock \in Nat
    BY EconomicsAssumption, MaxBalanceAssumption DEF Init, EconomicsInit, QbcBalance
  <2>3. QED
    BY <2>1, <2>2 DEF EconomicsTypeOK
<1>5. DifficultyTypeOK
  BY DifficultyAssumption DEF Init, DifficultyInit, DifficultyTypeOK
<1>6. ConsensusTypeOK
  BY <1>1, ConsensusAssumption, FS_EmptySet DEF Init, ConsensusInit, ConsensusTypeOK
<1>7. ReversibilityTypeOK
  BY <1>1, ReversibilityAssumption DEF Init, ReversibilityInit, ReversibilityTypeOK
<1>8. QED
  BY <1>2, <1>3, <1>4, <1>5, <1>6, <1>7 DEF TypeOK, Init

\* Every block start and every call keeps the types, also within a block
\* that carries several calls.
LEMMA TypeStep == TypeOK /\ [Next]_vars => TypeOK'
<1> SUFFICES ASSUME TypeOK, [Next]_vars PROVE TypeOK'
  OBVIOUS
<1>1. /\ number \in Nat /\ DilithiumTypeOK /\ UtxoTypeOK /\ EconomicsTypeOK
      /\ DifficultyTypeOK /\ ConsensusTypeOK /\ ReversibilityTypeOK
  BY DEF TypeOK
<1>2. CASE StartBlock
  <2>1. PICK step \in TimeStep, upgraded \in UpgradeArg : NewBlock(step, upgraded)
    BY <1>2 DEF StartBlock
  <2>2. number' \in Nat
    BY <1>1, <2>1 DEF NewBlock
  <2>3. UtxoTypeOK'
    BY <1>1, <2>1, UtxoAssumption DEF NewBlock, UtxoOnInitialize, UtxoTypeOK
  <2>4. EconomicsTypeOK'
    <3>1. CASE upgraded
      BY <1>1, <2>1, <3>1, SaturateType
         DEF NewBlock, EconomicsOnRuntimeUpgrade, EconomicsTypeOK
    <3>2. CASE ~ upgraded
      BY <1>1, <2>1, <3>2, Frames DEF NewBlock
    <3>3. QED
      BY <3>1, <3>2
  <2>5. ConsensusTypeOK'
    BY <1>1, <2>1, RuntimeAssumption DEF NewBlock, ConsensusTypeOK, consensusVars
  <2>6. QED
    BY <1>1, <2>1, <2>2, <2>3, <2>4, <2>5, Frames DEF TypeOK, NewBlock
<1>3. CASE CallRegisterKey \/ CallSudoRegisterKey
  <2>1. PICK address \in Address, key \in PublicKey : StoreKey(address, key)
    BY <1>3, KeyAssumption, RuntimeAssumption
       DEF CallRegisterKey, CallSudoRegisterKey, RegisterKey,
           SudoRegisterKeyForAddress, Injection
  <2>2. KeyCall
    BY <1>3 DEF CallRegisterKey, CallSudoRegisterKey
  <2>3. DilithiumTypeOK'
    BY <1>1, <2>1, StoreKeyType
  <2>4. QED
    BY <1>1, <2>2, <2>3, Frames DEF TypeOK, KeyCall, InBlock
<1>4. CASE CallRevokeKey
  <2>1. DilithiumTypeOK'
    BY <1>1, <1>4, RevokeKeyType DEF CallRevokeKey
  <2>2. QED
    BY <1>1, <1>4, <2>1, Frames DEF TypeOK, CallRevokeKey, KeyCall, InBlock
<1>5. CASE CallTransaction
  <2>1. PICK n, inputs, outputs : /\ n \in Nat /\ outputs \in [1 .. n -> Output]
                                  /\ SubmitTransaction(inputs, outputs)
    BY <1>5, RuntimeAssumption DEF CallTransaction, SequencesUpTo, Output
  <2>2. UtxoTypeOK'
    BY <1>1, <2>1, SubmitTransactionType
  <2>3. QED
    BY <1>1, <1>5, <2>2, Frames DEF TypeOK, CallTransaction, InBlock
<1>6. CASE CallMiningProof
  <2>1. PICK miner, proof : miner \in Miner /\ SubmitMiningProof(miner, proof)
    BY <1>6 DEF CallMiningProof
  <2>2. CurrentHeight + 1 \in Nat /\ CurrentHeight \in Nat /\ now \in Nat
    BY <1>1 DEF UtxoTypeOK, ConsensusTypeOK
  <2>3. UtxoTypeOK'
    BY <1>1, <2>1, <2>2, MintCoinbaseType, ConsensusAssumption DEF SubmitMiningProof
  <2>4. EconomicsTypeOK'
    BY <1>1, <2>1, <2>2, OnBlockAuthoredType DEF SubmitMiningProof
  <2>5. DifficultyTypeOK'
    BY <1>1, <2>1, <2>2, AdjustDifficultyType DEF SubmitMiningProof
  <2>6. ConsensusTypeOK'
    BY <1>1, <1>6, <2>1, <2>2, SubmitMiningProofType DEF CallMiningProof, InBlock
  <2>7. QED
    BY <1>1, <1>6, <2>3, <2>4, <2>5, <2>6, Frames DEF TypeOK, CallMiningProof, InBlock
<1>7. ASSUME ReversalCall, ReversibilityTypeOK', UtxoTypeOK'
      PROVE  TypeOK'
  BY <1>1, <1>7, Frames DEF TypeOK, ReversalCall, InBlock
<1>8. CASE CallReversalRequest
  <2>1. ReversibilityTypeOK'
    BY <1>1, <1>8, SubmitReversalRequestType, RuntimeAssumption DEF CallReversalRequest
  <2>2. UtxoTypeOK'
    BY <1>1, <1>8, Frames DEF CallReversalRequest, SubmitReversalRequest
  <2>3. QED
    BY <1>7, <1>8, <2>1, <2>2 DEF CallReversalRequest
<1>9. CASE CallApprove
  BY <1>1, <1>7, <1>9, ApproveReversalType DEF CallApprove
<1>10. CASE CallExpire
  <2>1. ReversibilityTypeOK'
    BY <1>1, <1>10, ExpireRequestType DEF CallExpire
  <2>2. UtxoTypeOK'
    BY <1>1, <1>10, Frames DEF CallExpire, ExpireRequest
  <2>3. QED
    BY <1>7, <1>10, <2>1, <2>2 DEF CallExpire
<1>11. CASE CallAddGovernor \/ CallRemoveGovernor
  <2>1. ReversibilityTypeOK'
    BY <1>1, <1>11, GovernanceType, RuntimeAssumption
       DEF CallAddGovernor, CallRemoveGovernor
  <2>2. UtxoTypeOK'
    BY <1>1, <1>11, Frames DEF CallAddGovernor, CallRemoveGovernor, AddGovernor,
                               RemoveGovernor, governanceUnchanged
  <2>3. QED
    BY <1>7, <1>11, <2>1, <2>2 DEF CallAddGovernor, CallRemoveGovernor
<1>12. CASE CallSetWindow \/ CallSetThreshold \/ CallPrune
  <2>1. ReversibilityTypeOK'
    <3>1. CASE CallSetWindow
      BY <1>1, <3>1, RuntimeAssumption
         DEF CallSetWindow, SetReversalWindow, governanceUnchanged, ReversibilityTypeOK
    <3>2. CASE CallSetThreshold
      <4>1. PICK threshold \in Nat : SetApprovalThreshold(threshold)
        BY <3>2, RuntimeAssumption DEF CallSetThreshold
      <4>2. ApprovalThreshold' \in Nat \ {0}
        BY <4>1 DEF SetApprovalThreshold
      <4>3. QED
        BY <1>1, <4>1, <4>2
           DEF SetApprovalThreshold, governanceUnchanged, ReversibilityTypeOK
    <3>3. CASE CallPrune
      BY <1>1, <3>3 DEF CallPrune, PruneExpiredReversals, ReversibilityTypeOK
    <3>4. QED
      BY <1>12, <3>1, <3>2, <3>3
  <2>2. UtxoTypeOK'
    BY <1>1, <1>12, Frames
       DEF CallSetWindow, CallSetThreshold, CallPrune, SetReversalWindow,
           SetApprovalThreshold, PruneExpiredReversals, governanceUnchanged
  <2>3. QED
    BY <1>7, <1>12, <2>1, <2>2 DEF CallSetWindow, CallSetThreshold, CallPrune
<1>13. CASE UNCHANGED vars
  BY <1>1, <1>13, Frames DEF TypeOK, vars
<1>14. QED
  BY <1>2, <1>3, <1>4, <1>5, <1>6, <1>8, <1>9, <1>10, <1>11, <1>12, <1>13 DEF Next

\* In every reachable state every storage item has its type: counters never
\* go negative, balances stay within u128, the difficulty within its bounds
\* and the governors within their vector, for any parameters.
THEOREM TypeCorrect == Spec => []TypeOK
<1>1. QED
  BY TypeInit, TypeStep, PTL DEF Spec

-----------------------------------------------------------------------------
(* Keys *)

KeyInv == TypeOK /\ KeysConsistent

\* The registry starts empty.
LEMMA KeyInit == Init => KeyInv
<1> SUFFICES ASSUME Init PROVE KeyInv
  OBVIOUS
<1>1. DOMAIN PublicKeys = {} /\ TotalKeys = 0
  BY DEF Init, DilithiumInit, NoEntries
<1>2. QED
  BY <1>1, TypeInit, FS_EmptySet DEF KeyInv, KeysConsistent

\* The registered addresses are finitely many, so they can be counted.
LEMMA RegisteredFinite ==
    ASSUME TypeOK
    PROVE  IsFiniteSet(DOMAIN PublicKeys) /\ Cardinality(DOMAIN PublicKeys) \in Nat
BY KeyAssumption, FS_Subset, FS_CardinalityType DEF TypeOK, DilithiumTypeOK

\* Storing a key (register_key and its variant for root) counts it, and the
\* check for revocation keeps the two sets apart.
LEMMA StoreKeyConsistent ==
    ASSUME KeyInv, NEW address, NEW key, StoreKey(address, key)
    PROVE  KeysConsistent'
<1>1. DOMAIN PublicKeys' = DOMAIN PublicKeys \cup {address}
  BY DEF StoreKey, Insert
<1>2. Cardinality(DOMAIN PublicKeys') = Cardinality(DOMAIN PublicKeys) + 1
  BY <1>1, RegisteredFinite, FS_AddElement DEF StoreKey, KeyInv
<1>3. QED
  BY <1>1, <1>2 DEF StoreKey, KeyInv, KeysConsistent

\* Revoking a key moves its address from one set to the other.
LEMMA RevokeKeyConsistent ==
    ASSUME KeyInv, NEW address, RevokeKey(address)
    PROVE  KeysConsistent'
<1>1. DOMAIN PublicKeys' = DOMAIN PublicKeys \ {address}
  BY DEF RevokeKey, Remove, Restrict
<1>2. Cardinality(DOMAIN PublicKeys') = Cardinality(DOMAIN PublicKeys) - 1
  BY <1>1, RegisteredFinite, FS_RemoveElement DEF RevokeKey, KeyInv
<1>3. Cardinality(DOMAIN PublicKeys) >= 1
  <2>1. DOMAIN PublicKeys # {}
    BY DEF RevokeKey
  <2>2. QED
    BY <2>1, RegisteredFinite, FS_EmptySet DEF KeyInv
<1>4. TotalKeys' = Cardinality(DOMAIN PublicKeys')
  BY <1>2, <1>3, RegisteredFinite DEF RevokeKey, SatSub, KeyInv, KeysConsistent
<1>5. QED
  BY <1>1, <1>4 DEF RevokeKey, KeyInv, KeysConsistent

\* Every block start and every extrinsic preserves KeyInv.
LEMMA KeyStep == KeyInv /\ [Next]_vars => KeyInv'
<1> SUFFICES ASSUME KeyInv, [Next]_vars PROVE KeyInv'
  OBVIOUS
<1>1. TypeOK'
  BY TypeStep DEF KeyInv
<1>2. ASSUME UNCHANGED dilithiumVars PROVE KeyInv'
  BY <1>1, <1>2 DEF KeyInv, KeysConsistent, dilithiumVars
<1>3. CASE CallRegisterKey
  BY <1>1, <1>3, StoreKeyConsistent DEF CallRegisterKey, RegisterKey, KeyInv
<1>4. CASE CallSudoRegisterKey
  BY <1>1, <1>4, StoreKeyConsistent
     DEF CallSudoRegisterKey, SudoRegisterKeyForAddress, KeyInv
<1>5. CASE CallRevokeKey
  BY <1>1, <1>5, RevokeKeyConsistent DEF CallRevokeKey, KeyInv
<1>6. CASE StartBlock \/ CallTransaction \/ CallMiningProof
  BY <1>2, <1>6 DEF StartBlock, NewBlock, CallTransaction, CallMiningProof
<1>7. CASE \/ CallReversalRequest \/ CallApprove \/ CallExpire
           \/ CallAddGovernor \/ CallRemoveGovernor
           \/ CallSetWindow \/ CallSetThreshold \/ CallPrune
  <2>1. ReversalCall
    BY <1>7 DEF CallReversalRequest, CallApprove, CallExpire, CallAddGovernor,
                CallRemoveGovernor, CallSetWindow, CallSetThreshold, CallPrune
  <2>2. QED
    BY <1>2, <2>1 DEF ReversalCall
<1>8. CASE UNCHANGED vars
  BY <1>2, <1>8 DEF vars
<1>9. QED
  BY <1>3, <1>4, <1>5, <1>6, <1>7, <1>8 DEF Next

\* KeyInv holds in every reachable state.
LEMMA KeyInvariant == Spec => []KeyInv
BY KeyInit, KeyStep, PTL DEF Spec

\* qbc-dilithium counts its keys right, and no address is both registered and
\* revoked.
THEOREM RegistryConsistent == Spec => []KeysConsistent
<1>1. KeyInv => KeysConsistent
  BY DEF KeyInv
<1>2. QED
  BY <1>1, KeyInvariant, PTL

-----------------------------------------------------------------------------
\* A coin leaves the set in a step only by a transaction its owner's key
\* signed or by a reversal that freezes it.
CoinsLeaveBySignature ==
    \A k \in DOMAIN UtxoSet \ DOMAIN UtxoSet' :
        CanSign(UtxoSet[k].address) \/ k \in FrozenUtxos'

\* The coins that leave by CoinsAfter are those asked to leave.
LEMMA CoinsAfterLeave ==
    ASSUME NEW gone, NEW new, UtxoSet' = CoinsAfter(gone, new)
    PROVE  DOMAIN UtxoSet \ DOMAIN UtxoSet' \subseteq gone
BY DEF CoinsAfter, InsertAll, Remove, Restrict

\* Every step lets coins leave by signature or reversal only.
LEMMA LeavingStep == [Next]_vars => CoinsLeaveBySignature
<1> SUFFICES ASSUME [Next]_vars PROVE CoinsLeaveBySignature
  OBVIOUS
<1>1. ASSUME UNCHANGED utxoVars PROVE CoinsLeaveBySignature
  BY <1>1 DEF CoinsLeaveBySignature, utxoVars
<1>2. CASE StartBlock
  BY <1>2 DEF StartBlock, NewBlock, UtxoOnInitialize, CoinsLeaveBySignature
<1>3. CASE CallRegisterKey \/ CallSudoRegisterKey \/ CallRevokeKey
  BY <1>1, <1>3 DEF CallRegisterKey, CallSudoRegisterKey, CallRevokeKey, KeyCall
<1>4. CASE CallTransaction
  <2>1. PICK inputs, outputs : SubmitTransaction(inputs, outputs)
    BY <1>4 DEF CallTransaction
  <2>2. \A k \in Range(inputs) : CanSign(UtxoSet[k].address)
    BY <2>1 DEF SubmitTransaction, InputSpendable
  <2>3. DOMAIN UtxoSet \ DOMAIN UtxoSet' \subseteq Range(inputs)
    BY <2>1, CoinsAfterLeave DEF SubmitTransaction
  <2>4. QED
    BY <2>2, <2>3 DEF CoinsLeaveBySignature
<1>5. CASE CallMiningProof
  <2>1. PICK txid, miner, reward, height : MintCoinbase(txid, miner, reward, height)
    BY <1>5 DEF CallMiningProof, SubmitMiningProof
  <2>2. DOMAIN UtxoSet \subseteq DOMAIN UtxoSet'
    BY <2>1 DEF MintCoinbase, InsertAll
  <2>3. QED
    BY <2>2 DEF CoinsLeaveBySignature
<1>6. CASE CallReversalRequest
  BY <1>1, <1>6 DEF CallReversalRequest, SubmitReversalRequest
<1>7. CASE CallApprove
  <2>1. PICK governor, id : ApproveReversal(governor, id)
    BY <1>7 DEF CallApprove
  <2>2. CASE ApproveTooLate(id) \/ RecordVote(governor, id)
    BY <1>1, <2>2 DEF ApproveTooLate, RecordVote
  <2>3. CASE VoteAndExecute(id)
    <3>1. PICK request : ReturnFunds(id, request)
      BY <2>3 DEF VoteAndExecute
    <3> DEFINE taken == Reversible(request.target_txid)
    <3>2. FrozenUtxos' = FrozenUtxos \cup taken
      BY <3>1 DEF ReturnFunds
    <3>3. PICK new : UtxoSet' = CoinsAfter(taken, new)
      BY <3>1 DEF ReturnFunds
    <3>4. DOMAIN UtxoSet \ DOMAIN UtxoSet' \subseteq taken
      BY <3>3, CoinsAfterLeave
    <3>5. QED
      BY <3>2, <3>4 DEF CoinsLeaveBySignature
  <2>4. QED
    BY <2>1, <2>2, <2>3 DEF ApproveReversal, ApproveInTime
<1>8. CASE CallExpire
  BY <1>1, <1>8 DEF CallExpire, ExpireRequest
<1>9. CASE CallAddGovernor \/ CallRemoveGovernor \/ CallSetWindow \/ CallSetThreshold
  BY <1>1, <1>9 DEF CallAddGovernor, CallRemoveGovernor, CallSetWindow,
                    CallSetThreshold, AddGovernor, RemoveGovernor, SetReversalWindow,
                    SetApprovalThreshold, governanceUnchanged
<1>10. CASE CallPrune
  BY <1>1, <1>10 DEF CallPrune, PruneExpiredReversals
<1>11. CASE UNCHANGED vars
  BY <1>1, <1>11 DEF vars
<1>12. QED
  BY <1>2, <1>3, <1>4, <1>5, <1>6, <1>7, <1>8, <1>9, <1>10, <1>11 DEF Next

\* After revoke_key the coins of an address leave the set by a reversal only:
\* no later registration, by anyone or by root, unlocks them.
THEOREM RevokedStaysLocked == Spec => RevocationIsFinal
<1> DEFINE Locked ==
        \A k \in DOMAIN UtxoSet \ DOMAIN UtxoSet' :
            UtxoSet[k].address \in RevokedKeys => k \in FrozenUtxos'
<1>1. KeyInv /\ [Next]_vars => [Locked]_vars
  <2> SUFFICES ASSUME KeyInv, [Next]_vars PROVE Locked
    OBVIOUS
  <2>1. CoinsLeaveBySignature
    BY LeavingStep
  <2>2. QED
    BY <2>1 DEF CoinsLeaveBySignature, CanSign, KeyInv, KeysConsistent
<1>2. QED
  BY <1>1, KeyInvariant, PTL DEF Spec, RevocationIsFinal

-----------------------------------------------------------------------------
(* Mining *)

\* A kept solution solves the Hamiltonian of the height it is kept for, which
\* is not 0: height 0 would never be dropped, since the code only drops one
\* when the new height exceeds SUSY_RETENTION_WINDOW.
SeedsByHeight ==
    \A h \in DOMAIN SusySolutions : h > 0 /\ SusySolutions[h].seed[2] = h

\* Recorded proof hashes are filed under heights.
HashesByHeight == \A e \in RecentProofHashes : e[1] \in Nat

\* on_initialize of the first block moves the height before any extrinsic is
\* applied, so before a solution is stored.
MigratedBeforeMining ==
    /\ number > 0 => HeightMigrationDone
    /\ HeightMigrationDone \/ DOMAIN SusySolutions = {}

MiningInv ==
    /\ TypeOK
    /\ SolutionsBounded
    /\ ReplayGuardsSubsumed
    /\ SeedsByHeight
    /\ HashesByHeight
    /\ MigratedBeforeMining

\* Nothing is mined in the genesis state.
LEMMA MiningInit == Init => MiningInv
<1> SUFFICES ASSUME Init PROVE MiningInv
  OBVIOUS
<1>1. DOMAIN SusySolutions = {} /\ RecentProofHashes = {}
  BY DEF Init, ConsensusInit, NoEntries
<1>2. /\ LastMinerBlock = [m \in Miner |-> 0] /\ number = 0
      /\ CurrentHeight = GenesisHeight
  BY DEF Init, ConsensusInit, UtxoInit
<1>3. ReplayGuardsSubsumed
  BY <1>1, <1>2, UtxoAssumption DEF ReplayGuardsSubsumed
<1>4. QED
  BY <1>1, <1>2, <1>3, TypeInit
     DEF MiningInv, SolutionsBounded, SeedsByHeight, HashesByHeight,
         MigratedBeforeMining

\* A call that leaves mining, the height and the block alone keeps MiningInv.
LEMMA MiningFrame ==
    ASSUME MiningInv, TypeOK',
           UNCHANGED <<consensusVars, CurrentHeight, HeightMigrationDone, number>>
    PROVE  MiningInv'
BY DEF MiningInv, SolutionsBounded, ReplayGuardsSubsumed, SeedsByHeight,
       HashesByHeight, MigratedBeforeMining, consensusVars

\* Block starts keep MiningInv: the height moves in the first block only, when
\* no solution is stored.
LEMMA MiningStart == ASSUME MiningInv, TypeOK', StartBlock PROVE MiningInv'
<1>1. /\ UNCHANGED consensusVars
      /\ HeightMigrationDone' = TRUE
      /\ CurrentHeight' = IF HeightMigrationDone THEN CurrentHeight
                          ELSE CurrentHeight + HEIGHT_OFFSET
  BY DEF StartBlock, NewBlock, UtxoOnInitialize
<1>2. CurrentHeight \in Nat /\ LastMinerBlock \in [Miner -> Nat]
  BY DEF MiningInv, TypeOK, UtxoTypeOK, ConsensusTypeOK
<1>3. CurrentHeight' \in Nat /\ CurrentHeight' >= CurrentHeight
  BY <1>1, <1>2, UtxoAssumption
<1>4. ReplayGuardsSubsumed'
  BY <1>1, <1>2, <1>3 DEF MiningInv, ReplayGuardsSubsumed, HashesByHeight, consensusVars
<1>5. SolutionsBounded'
  <2>1. CASE HeightMigrationDone
    BY <1>1, <2>1 DEF MiningInv, SolutionsBounded, consensusVars
  <2>2. CASE ~ HeightMigrationDone
    BY <1>1, <2>2 DEF MiningInv, SolutionsBounded, MigratedBeforeMining, consensusVars
  <2>3. QED
    BY <2>1, <2>2
<1>6. SeedsByHeight' /\ HashesByHeight' /\ MigratedBeforeMining'
  BY <1>1 DEF MiningInv, SeedsByHeight, HashesByHeight, MigratedBeforeMining,
              consensusVars
<1>7. QED
  BY <1>4, <1>5, <1>6 DEF MiningInv

\* An accepted proof keeps MiningInv: it solves the Hamiltonian of the height
\* it is filed under, and the oldest solution leaves as the height advances.
LEMMA MiningProof == ASSUME MiningInv, TypeOK', CallMiningProof PROVE MiningInv'
<1> DEFINE height == CurrentHeight + 1
           drop   == IF height > SUSY_RETENTION_WINDOW
                     THEN {height - SUSY_RETENTION_WINDOW} ELSE {}
<1>1. PICK miner \in Miner, seed \in (0 .. parent) \X (0 .. CurrentHeight + 1),
           energy \in Energy, computed \in Energy :
         SubmitMiningProof(miner, [seed |-> seed, energy |-> energy,
                                   computed |-> computed])
  BY DEF CallMiningProof
<1> DEFINE proof == [seed |-> seed, energy |-> energy, computed |-> computed]
           entry == <<height, compute_proof_hash(proof, miner, height)>>
           kept  == Insert(SusySolutions, height, [seed |-> seed, energy |-> computed])
<1>2. CurrentHeight \in Nat /\ LastMinerBlock \in [Miner -> Nat]
      /\ DOMAIN SusySolutions \subseteq Nat
  BY DEF MiningInv, TypeOK, UtxoTypeOK, ConsensusTypeOK
<1>3. CurrentHeight' = height /\ UNCHANGED <<HeightMigrationDone, number>>
  BY <1>1 DEF SubmitMiningProof, MintCoinbase, CallMiningProof, InBlock
<1>4. seed = <<parent, height>>
  BY <1>1 DEF SubmitMiningProof, ProofAccepted, derive_hamiltonian_seed
<1>5. LastMinerBlock' = [LastMinerBlock EXCEPT ![miner] = height]
  BY <1>1 DEF SubmitMiningProof
<1>6. RecentProofHashes' \subseteq RecentProofHashes \cup {entry}
  BY <1>1 DEF SubmitMiningProof, RecordProofHash
<1>7. SusySolutions' = Remove(kept, drop)
  BY <1>1 DEF SubmitMiningProof, RecordSolution
<1>8. /\ DOMAIN SusySolutions' = (DOMAIN SusySolutions \cup {height}) \ drop
      /\ \A h \in DOMAIN SusySolutions' :
            SusySolutions'[h] = IF h = height THEN [seed |-> seed, energy |-> computed]
                                ELSE SusySolutions[h]
  BY <1>7 DEF Remove, Insert, Restrict
<1>9. HashesByHeight' /\ ReplayGuardsSubsumed'
  <2>1. entry[1] = height /\ height \in Nat
    BY <1>2
  <2>2. \A e \in RecentProofHashes' : e[1] \in Nat /\ e[1] <= height
    BY <1>2, <1>6, <2>1 DEF MiningInv, HashesByHeight, ReplayGuardsSubsumed
  <2>3. \A m \in Miner : LastMinerBlock'[m] <= height
    BY <1>2, <1>5 DEF MiningInv, ReplayGuardsSubsumed
  <2>4. QED
    BY <1>3, <2>2, <2>3 DEF HashesByHeight, ReplayGuardsSubsumed
<1>10. SeedsByHeight'
  <2>1. seed[2] = height
    BY <1>4
  <2>2. ASSUME NEW h \in DOMAIN SusySolutions'
        PROVE  h > 0 /\ SusySolutions'[h].seed[2] = h
    <3>1. CASE h = height
      BY <1>2, <1>8, <2>1, <3>1
    <3>2. CASE h # height
      BY <1>8, <3>2 DEF MiningInv, SeedsByHeight
    <3>3. QED
      BY <3>1, <3>2
  <2>3. QED
    BY <2>2 DEF SeedsByHeight
<1>11. SolutionsBounded'
  <2>1. ASSUME NEW h \in DOMAIN SusySolutions'
        PROVE  height - SUSY_RETENTION_WINDOW < h /\ h <= height
    <3>1. h \in Nat /\ h \notin drop
      BY <1>2, <1>8
    <3>2. h = height \/ (CurrentHeight - SUSY_RETENTION_WINDOW < h /\ h <= CurrentHeight)
      BY <1>8 DEF MiningInv, SolutionsBounded
    <3>3. h # height - SUSY_RETENTION_WINDOW
      <4>1. h > 0
        BY <1>2, <1>8 DEF MiningInv, SeedsByHeight
      <4>2. QED
        BY <1>2, <3>1, <4>1, ConsensusAssumption
    <3>4. QED
      BY <1>2, <3>1, <3>2, <3>3, ConsensusAssumption
  <2>2. QED
    BY <1>3, <2>1 DEF SolutionsBounded
<1>12. MigratedBeforeMining'
  BY <1>3 DEF MiningInv, MigratedBeforeMining, CallMiningProof, InBlock
<1>13. QED
  BY <1>9, <1>10, <1>11, <1>12 DEF MiningInv

\* Every block start and every extrinsic preserves MiningInv.
LEMMA MiningStep == MiningInv /\ [Next]_vars => MiningInv'
<1> SUFFICES ASSUME MiningInv, [Next]_vars PROVE MiningInv'
  OBVIOUS
<1>1. TypeOK'
  BY TypeStep DEF MiningInv
<1>2. ASSUME UNCHANGED <<consensusVars, utxoVars, number>> PROVE MiningInv'
  BY <1>1, <1>2, MiningFrame DEF utxoVars
<1>3. CASE StartBlock
  BY <1>1, <1>3, MiningStart
<1>4. CASE CallRegisterKey \/ CallSudoRegisterKey \/ CallRevokeKey
  BY <1>2, <1>4 DEF CallRegisterKey, CallSudoRegisterKey, CallRevokeKey, KeyCall, InBlock
<1>5. CASE CallTransaction
  BY <1>1, <1>5, MiningFrame DEF CallTransaction, SubmitTransaction, InBlock
<1>6. CASE CallMiningProof
  BY <1>1, <1>6, MiningProof
<1>7. CASE CallReversalRequest
  BY <1>2, <1>7 DEF CallReversalRequest, ReversalCall, InBlock, SubmitReversalRequest
<1>8. CASE CallApprove
  <2>1. PICK governor, id : ApproveReversal(governor, id)
    BY <1>8 DEF CallApprove
  <2>2. UNCHANGED <<CurrentHeight, HeightMigrationDone>>
    BY <2>1 DEF ApproveReversal, ApproveTooLate, ApproveInTime, RecordVote,
                VoteAndExecute, ReturnFunds, utxoVars
  <2>3. QED
    BY <1>1, <1>8, <2>2, MiningFrame DEF CallApprove, ReversalCall, InBlock
<1>9. CASE CallExpire
  BY <1>2, <1>9 DEF CallExpire, ReversalCall, InBlock, ExpireRequest
<1>10. CASE CallAddGovernor \/ CallRemoveGovernor \/ CallSetWindow \/ CallSetThreshold
  BY <1>2, <1>10 DEF CallAddGovernor, CallRemoveGovernor, CallSetWindow,
                     CallSetThreshold, AddGovernor, RemoveGovernor, SetReversalWindow,
                     SetApprovalThreshold, governanceUnchanged, ReversalCall, InBlock
<1>11. CASE CallPrune
  BY <1>2, <1>11 DEF CallPrune, PruneExpiredReversals, ReversalCall, InBlock
<1>12. CASE UNCHANGED vars
  BY <1>2, <1>12 DEF vars
<1>13. QED
  BY <1>3, <1>4, <1>5, <1>6, <1>7, <1>8, <1>9, <1>10, <1>11, <1>12 DEF Next

\* MiningInv holds in every reachable state.
LEMMA MiningInvariant == Spec => []MiningInv
BY MiningInit, MiningStep, PTL DEF Spec

\* No Hamiltonian is rewarded twice: two kept solutions never solve the same
\* one, however many proofs one block carries on one parent.
THEOREM WorkPaidOnce == Spec => []WorkRewardedOnce
<1>1. MiningInv => WorkRewardedOnce
  BY DEF MiningInv, SeedsByHeight, WorkRewardedOnce
<1>2. QED
  BY <1>1, MiningInvariant, PTL

\* The solutions kept by submit_mining_proof are those of the last
\* SUSY_RETENTION_WINDOW heights.
THEOREM SolutionsStayBounded == Spec => []SolutionsBounded
<1>1. MiningInv => SolutionsBounded
  BY DEF MiningInv
<1>2. QED
  BY <1>1, MiningInvariant, PTL

\* DuplicateProof and MinerRateLimited of submit_mining_proof are never raised.
THEOREM ReplayGuardsIdle == Spec => []ReplayGuardsSubsumed
<1>1. MiningInv => ReplayGuardsSubsumed
  BY DEF MiningInv
<1>2. QED
  BY <1>1, MiningInvariant, PTL
-----------------------------------------------------------------------------
(* The difficulty *)

\* A window at least as long as expected is at least 100 percent of it, and one
\* at most as long is at most 100.
LEMMA RatioSide ==
    ASSUME NEW actual \in Nat, NEW expected \in Nat \ {0}
    PROVE  /\ (actual * 100) \div expected \in Nat
           /\ actual >= expected => (actual * 100) \div expected >= 100
           /\ actual <= expected => (actual * 100) \div expected <= 100
<1> DEFINE n == actual * 100
           q == n \div expected
<1>1. n \in Nat
  OBVIOUS
<1> HIDE DEF n
<1>2. q \in Nat /\ q * expected <= n /\ n < (q + 1) * expected
  BY <1>1
<1> HIDE DEF q
<1>3. actual >= expected => q >= 100
  <2> SUFFICES ASSUME actual >= expected, q <= 99 PROVE FALSE
    BY <1>2
  <2>1. (q + 1) * expected <= 100 * expected
    BY <1>2
  <2>2. 100 * expected <= n
    BY DEF n
  <2> QED
    BY <1>1, <1>2, <2>1, <2>2
<1>4. actual <= expected => q <= 100
  <2> SUFFICES ASSUME actual <= expected, q >= 101 PROVE FALSE
    BY <1>2
  <2>1. q * expected >= 101 * expected
    BY <1>2
  <2>2. 100 * expected >= n
    BY DEF n
  <2> QED
    BY <1>1, <1>2, <2>1, <2>2
<1>5. QED
  BY <1>2, <1>3, <1>4 DEF n, q

\* A difficulty within its bounds, moved by a percentage and clamped again, is
\* not lowered by 100 percent or more, nor raised by 100 percent or less.
LEMMA PercentSide ==
    ASSUME NEW d \in DIFFICULTY_FLOOR .. DIFFICULTY_CEILING, NEW percent \in Nat
    PROVE  LET moved == Clamp((d * percent) \div 100, DIFFICULTY_FLOOR, DIFFICULTY_CEILING)
           IN  /\ percent >= 100 => moved >= d
               /\ percent <= 100 => moved <= d
<1> DEFINE n == d * percent
           q == n \div 100
<1>1. d \in Nat /\ DIFFICULTY_FLOOR \in Nat /\ DIFFICULTY_CEILING \in Nat
      /\ DIFFICULTY_FLOOR <= d /\ d <= DIFFICULTY_CEILING
  BY DifficultyAssumption
<1>2. /\ n \in Nat
      /\ percent >= 100 => n >= d * 100
      /\ percent <= 100 => n <= d * 100
  BY <1>1
<1> HIDE DEF n
<1>3. /\ q \in Nat
      /\ percent >= 100 => q >= d
      /\ percent <= 100 => q <= d
  BY <1>1, <1>2
<1> HIDE DEF q
<1>4. LET moved == Clamp(q, DIFFICULTY_FLOOR, DIFFICULTY_CEILING)
      IN  /\ percent >= 100 => moved >= d
          /\ percent <= 100 => moved <= d
  BY <1>1, <1>3 DEF Clamp
<1>5. QED
  BY <1>4 DEF n, q

\* Clamping a percentage to the limits of a step keeps its side of 100; holding
\* it above the meaningful maximum moves it to 100 at most.
LEMMA HeldSide ==
    ASSUME NEW ratio \in Nat, NEW hold \in BOOLEAN
    PROVE  LET held    == IF ratio > 100 /\ hold THEN 100 ELSE ratio
               percent == Clamp(held, MIN_ADJUSTMENT_FACTOR, MAX_ADJUSTMENT_FACTOR)
           IN  /\ percent \in Nat
               /\ ratio >= 100 => percent >= 100
               /\ ratio <= 100 => percent <= 100
BY DifficultyAssumption DEF Clamp

\* A full window moves the difficulty to the side its blocks' times are on.
LEMMA RetargetedSide ==
    ASSUME DifficultyTypeOK, NEW ts \in Seq(Nat), Len(ts) >= DIFFICULTY_WINDOW,
           CanRetarget(ts)
    PROVE  LET actual == ts[Len(ts)] - ts[Len(ts) - DIFFICULTY_WINDOW + 1]
               target == (DIFFICULTY_WINDOW - 1) * TARGET_BLOCK_TIME_MS
           IN  /\ actual >= target => Retargeted(ts) >= CurrentDifficulty
               /\ actual <= target => Retargeted(ts) <= CurrentDifficulty
<1> DEFINE target == (DIFFICULTY_WINDOW - 1) * TARGET_BLOCK_TIME_MS
           oldest == ts[Len(ts) - DIFFICULTY_WINDOW + 1]
           newest == ts[Len(ts)]
           actual == IF newest >= oldest THEN newest - oldest ELSE 0
           ratio  == (actual * 100) \div target
           hold   == CurrentDifficulty > DIFFICULTY_MEANINGFUL_MAX
           held    == IF ratio > 100 /\ hold THEN 100 ELSE ratio
           percent == Clamp(held, MIN_ADJUSTMENT_FACTOR, MAX_ADJUSTMENT_FACTOR)
           moved   == Clamp((CurrentDifficulty * percent) \div 100,
                            DIFFICULTY_FLOOR, DIFFICULTY_CEILING)
<1>1. oldest \in Nat /\ newest \in Nat
  BY DifficultyAssumption DEF CanRetarget
<1>2. target \in Nat \ {0}
  BY DifficultyAssumption DEF CanRetarget
<1>3. RatioPercent(ts) = ratio
  <2>1. ~ (Len(ts) < DIFFICULTY_WINDOW)
    BY DifficultyAssumption
  <2>2. QED
    BY <2>1 DEF RatioPercent
<1>4. Retargeted(ts) = moved
  BY <1>3 DEF Retargeted
<1>5. /\ actual \in Nat
      /\ newest - oldest >= target => actual >= target
      /\ newest - oldest <= target => actual <= target
  BY <1>1, <1>2
<1> HIDE DEF target, oldest, newest, actual
<1>6. /\ ratio \in Nat
      /\ actual >= target => ratio >= 100
      /\ actual <= target => ratio <= 100
  BY <1>2, <1>5, RatioSide
<1> HIDE DEF ratio
<1>7. /\ percent \in Nat
      /\ ratio >= 100 => percent >= 100
      /\ ratio <= 100 => percent <= 100
  BY <1>6, HeldSide
<1> HIDE DEF held, percent
<1>8. /\ percent >= 100 => moved >= CurrentDifficulty
      /\ percent <= 100 => moved <= CurrentDifficulty
  BY <1>7, PercentSide DEF DifficultyTypeOK
<1> HIDE DEF moved
<1>9. /\ newest - oldest >= target => Retargeted(ts) >= CurrentDifficulty
      /\ newest - oldest <= target => Retargeted(ts) <= CurrentDifficulty
  BY <1>4, <1>5, <1>6, <1>7, <1>8
<1>10. QED
  BY <1>9 DEF newest, oldest, target

\* The step that DifficultyFollowsBlockTimes speaks of.
FollowsBlockTimes ==
    (/\ BlockTimestamps' # BlockTimestamps
     /\ CurrentHeight' \notin DifficultyResetHeights
     /\ Len(BlockTimestamps') >= DIFFICULTY_WINDOW)
    => LET len    == Len(BlockTimestamps')
           actual == BlockTimestamps'[len]
                       - BlockTimestamps'[len - DIFFICULTY_WINDOW + 1]
           target == (DIFFICULTY_WINDOW - 1) * TARGET_BLOCK_TIME_MS
       IN  /\ actual >= target => CurrentDifficulty' >= CurrentDifficulty
           /\ actual <= target => CurrentDifficulty' <= CurrentDifficulty

\* submit_mining_proof retargets by the window that ends with its own timestamp.
LEMMA ProofFollows ==
    ASSUME TypeOK, CallMiningProof PROVE FollowsBlockTimes
<1>1. PICK miner, proof : SubmitMiningProof(miner, proof)
  BY DEF CallMiningProof
<1>2. /\ adjust_difficulty(now, CurrentHeight + 1)
      /\ CurrentHeight' = CurrentHeight + 1
  BY <1>1 DEF SubmitMiningProof, MintCoinbase
<1>3. DifficultyTypeOK /\ now \in Nat
  BY DEF TypeOK, ConsensusTypeOK
<1> DEFINE ts == PushTimestamp(now)
<1>4. ts \in Seq(Nat)
  BY <1>3, DifficultyAssumption DEF DifficultyTypeOK, PushTimestamp
<1>5. BlockTimestamps' = ts
  BY <1>2 DEF adjust_difficulty
<1>6. CurrentHeight' \notin DifficultyResetHeights =>
         CurrentDifficulty' = IF CanRetarget(ts) THEN Retargeted(ts) ELSE CurrentDifficulty
  BY <1>2 DEF adjust_difficulty
<1> HIDE DEF ts
<1>7. CurrentDifficulty \in Nat
  BY <1>3, DifficultyAssumption DEF DifficultyTypeOK
<1> SUFFICES ASSUME CurrentHeight' \notin DifficultyResetHeights,
                    Len(ts) >= DIFFICULTY_WINDOW
             PROVE  LET actual == ts[Len(ts)] - ts[Len(ts) - DIFFICULTY_WINDOW + 1]
                        target == (DIFFICULTY_WINDOW - 1) * TARGET_BLOCK_TIME_MS
                    IN  /\ actual >= target => CurrentDifficulty' >= CurrentDifficulty
                        /\ actual <= target => CurrentDifficulty' <= CurrentDifficulty
  BY <1>5 DEF FollowsBlockTimes
<1>8. CASE CanRetarget(ts)
  BY <1>3, <1>4, <1>6, <1>8, RetargetedSide
<1>9. CASE ~ CanRetarget(ts)
  BY <1>6, <1>7, <1>9
<1>10. QED
  BY <1>8, <1>9

\* The other steps leave the timestamps alone.
LEMMA FollowsStep == TypeOK /\ [Next]_vars => FollowsBlockTimes
<1> SUFFICES ASSUME TypeOK, [Next]_vars PROVE FollowsBlockTimes
  OBVIOUS
<1>1. ASSUME UNCHANGED difficultyVars PROVE FollowsBlockTimes
  BY <1>1 DEF difficultyVars, FollowsBlockTimes
<1>2. CASE StartBlock
  BY <1>1, <1>2 DEF StartBlock, NewBlock
<1>3. CASE CallRegisterKey \/ CallSudoRegisterKey \/ CallRevokeKey
  BY <1>1, <1>3 DEF CallRegisterKey, CallSudoRegisterKey, CallRevokeKey, KeyCall
<1>4. CASE CallTransaction
  BY <1>1, <1>4 DEF CallTransaction
<1>5. CASE CallMiningProof
  BY <1>5, ProofFollows
<1>6. CASE \/ CallReversalRequest \/ CallApprove \/ CallExpire \/ CallPrune
           \/ CallAddGovernor \/ CallRemoveGovernor \/ CallSetWindow \/ CallSetThreshold
  BY <1>1, <1>6 DEF CallReversalRequest, CallApprove, CallExpire, CallPrune,
                    CallAddGovernor, CallRemoveGovernor, CallSetWindow,
                    CallSetThreshold, ReversalCall
<1>7. CASE UNCHANGED vars
  BY <1>1, <1>7 DEF vars
<1>8. QED
  BY <1>2, <1>3, <1>4, <1>5, <1>6, <1>7 DEF Next

\* adjust_difficulty follows the block times in the right direction, in every
\* instance: with a full window of timestamps, slow blocks never make mining
\* harder and fast ones never easier, whatever the rounding of the division, the
\* step limits, the hold above DIFFICULTY_MEANINGFUL_MAX and the two bounds do,
\* and also when timestamps go back.
THEOREM DifficultyFollows == Spec => DifficultyFollowsBlockTimes
<1>1. TypeOK /\ [Next]_vars => [FollowsBlockTimes]_vars
  BY FollowsStep
<1>2. QED
  BY <1>1, TypeCorrect, PTL DEF Spec, DifficultyFollowsBlockTimes, FollowsBlockTimes
=============================================================================
