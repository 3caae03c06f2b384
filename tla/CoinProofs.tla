----------------------------- MODULE CoinProofs -----------------------------
(***************************************************************************)
(* The life of a coin, for every value of the constants: an outpoint is    *)
(* created once, a height is paid for once and a frozen coin is gone.  The *)
(* inductive invariant adds to NoResurrection where coins come from        *)
(* (Provenance) and which coins are coinbases (CoinbaseMarked).            *)
(*                                                                         *)
(* And the money: the caches are sums over the coins, and coins, fees and  *)
(* burned fees add up to what was emitted (LedgerInv).  It rests on the    *)
(* life of coins, since only an insertion at a new outpoint adds an        *)
(* amount.                                                                 *)
(***************************************************************************)
EXTENDS PalletProofs, SumProofs

\* A coinbase is marked as one for as long as it is in the set.
CoinbaseMarked ==
    \A k \in DOMAIN UtxoSet : k[1][1] = "coinbase" => UtxoSet[k].is_coinbase

\* The inductive invariant on coins.
CoinInv ==
    /\ TypeOK
    /\ NoResurrection
    /\ Provenance
    /\ CoinbaseMarked
    /\ FrozenIsGone
    /\ OneCoinbasePerHeight

-----------------------------------------------------------------------------
(* The coins of the genesis *)

\* The genesis state, whose coins were created by nobody, satisfies CoinInv.
LEMMA CoinInit == Init => CoinInv
<1> SUFFICES ASSUME Init PROVE CoinInv
  OBVIOUS
<1>1. /\ UtxoSet = GenesisUtxos /\ consumed = {} /\ FrozenUtxos = {}
      /\ ExecutedReversals = NoEntries
  BY DEF Init, UtxoInit, ReversibilityInit
<1>2. \A k \in DOMAIN GenesisUtxos : k[1][1] = "genesis"
  BY UtxoAssumption
<1>3. DOMAIN NoEntries = {}
  BY DEF NoEntries
<1>4. \A k \in KnownOutpoint : k[1][1] = "genesis"
  BY <1>1, <1>2 DEF KnownOutpoint
<1>5. Provenance
  BY <1>1, <1>3, <1>4 DEF Provenance
<1>6. NoResurrection /\ FrozenIsGone
  BY <1>1 DEF NoResurrection, FrozenIsGone
<1>7. CoinbaseMarked
  BY <1>1, <1>2 DEF CoinbaseMarked
<1>8. OneCoinbasePerHeight
  BY <1>4 DEF OneCoinbasePerHeight
<1>9. QED
  BY <1>5, <1>6, <1>7, <1>8, TypeInit DEF CoinInv

-----------------------------------------------------------------------------
(* Calls that leave the coins alone *)

\* Heights may grow and requests may be filed, closed or archived: as long as
\* coins stay and executed requests stay executed, the invariant holds.
LEMMA CoinFrame ==
    ASSUME CoinInv,
           UNCHANGED <<UtxoSet, consumed, FrozenUtxos, ExecutedReversals>>,
           CurrentHeight' \in Nat, CurrentHeight' >= CurrentHeight,
           \A id \in DOMAIN ReversalRequests :
               ReversalRequests[id].status = "Executed" =>
                   /\ id \in DOMAIN ReversalRequests'
                   /\ ReversalRequests'[id].status = "Executed",
           TypeOK'
    PROVE  CoinInv'
<1>1. Provenance'
  <2>1. CurrentHeight \in Nat
    BY DEF CoinInv, TypeOK, UtxoTypeOK
  <2>2. QED
    BY <2>1 DEF CoinInv, Provenance, KnownOutpoint
<1>2. NoResurrection' /\ FrozenIsGone' /\ CoinbaseMarked' /\ OneCoinbasePerHeight'
  BY DEF CoinInv, NoResurrection, FrozenIsGone, CoinbaseMarked,
         OneCoinbasePerHeight, KnownOutpoint
<1>3. QED
  BY <1>1, <1>2 DEF CoinInv

-----------------------------------------------------------------------------
(* Calls that create coins *)

\* A batch of new coins at unknown outpoints replaces live ones.
LEMMA FreshCoins ==
    ASSUME CoinInv, NEW gone, gone \subseteq DOMAIN UtxoSet, NEW new,
           DOMAIN new \cap KnownOutpoint = {},
           UtxoSet' = InsertAll(Remove(UtxoSet, gone), new),
           consumed' = consumed \cup gone
    PROVE  /\ NoResurrection'
           /\ KnownOutpoint' = KnownOutpoint \cup DOMAIN new
           /\ DOMAIN UtxoSet' = (DOMAIN UtxoSet \ gone) \cup DOMAIN new
           /\ \A k \in DOMAIN UtxoSet \ gone : UtxoSet'[k] = UtxoSet[k]
           /\ \A k \in DOMAIN new : UtxoSet'[k] = new[k]
<1>1. /\ DOMAIN UtxoSet' = (DOMAIN UtxoSet \ gone) \cup DOMAIN new
      /\ \A k \in DOMAIN new : UtxoSet'[k] = new[k]
      /\ \A k \in (DOMAIN UtxoSet \ gone) \ DOMAIN new : UtxoSet'[k] = UtxoSet[k]
  BY DEF InsertAll, Remove, Restrict
<1>2. DOMAIN UtxoSet \cap consumed = {}
  BY DEF CoinInv, NoResurrection
<1>3. KnownOutpoint' = KnownOutpoint \cup DOMAIN new
  BY <1>1 DEF KnownOutpoint
<1>4. NoResurrection'
  BY <1>1, <1>2 DEF NoResurrection, KnownOutpoint
<1>5. QED
  BY <1>1, <1>3, <1>4 DEF KnownOutpoint

\* submit_transaction: the new txid hashes inputs that are live, and the
\* inputs of a known one are consumed.
LEMMA TransactionFresh ==
    ASSUME CoinInv, NEW inputs, NEW outputs, SubmitTransaction(inputs, outputs)
    PROVE  /\ Range(inputs) \subseteq DOMAIN UtxoSet
           /\ DOMAIN NewCoins(compute_txid(inputs, outputs), outputs)
                  \cap KnownOutpoint = {}
<1> DEFINE new == NewCoins(compute_txid(inputs, outputs), outputs)
<1>1. Range(inputs) \subseteq DOMAIN UtxoSet
  BY DEF SubmitTransaction, InputSpendable
<1>2. Range(inputs) # {}
  <2>1. 1 \in DOMAIN inputs
    BY DEF SubmitTransaction
  <2>2. QED
    BY <2>1 DEF Range
<1>3. \A k \in DOMAIN new : k[1][1] = "tx" /\ k[1][2] = inputs
  BY DEF NewCoins, compute_txid
<1> HIDE DEF new
<1>4. ASSUME NEW k \in DOMAIN new, k \in KnownOutpoint PROVE FALSE
  <2>1. Range(k[1][2]) \subseteq consumed
    BY <1>3, <1>4 DEF CoinInv, Provenance
  <2>2. QED
    BY <1>1, <1>2, <1>3, <2>1 DEF CoinInv, NoResurrection
<1>5. DOMAIN new \cap KnownOutpoint = {}
  BY <1>4
<1>6. QED
  BY <1>1, <1>5 DEF new

\* Every conjunct of CoinInv survives a transaction.
LEMMA TransactionCoins ==
    ASSUME CoinInv, NEW inputs, NEW outputs, SubmitTransaction(inputs, outputs),
           UNCHANGED reversibilityVars, TypeOK'
    PROVE  CoinInv'
<1> DEFINE spent == Range(inputs)
           txid == compute_txid(inputs, outputs)
           new == NewCoins(txid, outputs)
<1>1. /\ UtxoSet' = InsertAll(Remove(UtxoSet, spent), new)
      /\ consumed' = consumed \cup spent
      /\ UNCHANGED <<FrozenUtxos, CurrentHeight>>
      /\ spent \subseteq DOMAIN UtxoSet
  BY DEF SubmitTransaction, CoinsAfter, InputSpendable
<1>3. \A k \in DOMAIN new : k[1][1] = "tx" /\ k[1][2] = inputs
  BY DEF NewCoins, compute_txid
<1>4. DOMAIN new \cap KnownOutpoint = {}
  BY TransactionFresh
<1> HIDE DEF new, spent
<1>5. /\ NoResurrection'
      /\ KnownOutpoint' = KnownOutpoint \cup DOMAIN new
      /\ DOMAIN UtxoSet' = (DOMAIN UtxoSet \ spent) \cup DOMAIN new
      /\ \A k \in DOMAIN UtxoSet \ spent : UtxoSet'[k] = UtxoSet[k]
  BY <1>1, <1>4, FreshCoins
<1>6. Provenance'
  <2>1. UNCHANGED <<ExecutedReversals, ReversalRequests, CurrentHeight>>
    BY <1>1 DEF reversibilityVars
  <2>2. consumed \subseteq consumed' /\ Range(inputs) \subseteq consumed'
    BY <1>1 DEF spent
  <2>3. QED
    BY <1>3, <1>5, <2>1, <2>2 DEF CoinInv, Provenance
<1>7. CoinbaseMarked' /\ OneCoinbasePerHeight'
  BY <1>3, <1>5 DEF CoinInv, CoinbaseMarked, OneCoinbasePerHeight
<1>8. FrozenIsGone'
  <2>1. FrozenUtxos \subseteq KnownOutpoint
    BY DEF CoinInv, TypeOK, UtxoTypeOK, KnownOutpoint
  <2>2. QED
    BY <1>1, <1>4, <1>5, <2>1 DEF CoinInv, FrozenIsGone
<1>9. QED
  BY <1>5, <1>6, <1>7, <1>8 DEF CoinInv

\* submit_mining_proof: the height of the new coinbase is above that of any
\* known one.
LEMMA CoinbaseFresh ==
    ASSUME CoinInv
    PROVE  <<coinbase_txid(CurrentHeight + 1), 0>> \notin KnownOutpoint
<1>1. CurrentHeight \in Nat
  BY DEF CoinInv, TypeOK, UtxoTypeOK
<1>2. QED
  BY <1>1 DEF CoinInv, Provenance, coinbase_txid

\* Every conjunct of CoinInv survives a mining proof.
LEMMA CoinbaseCoins ==
    ASSUME CoinInv, NEW miner, NEW proof, SubmitMiningProof(miner, proof),
           UNCHANGED reversibilityVars, TypeOK'
    PROVE  CoinInv'
<1> DEFINE height == CurrentHeight + 1
           txid == coinbase_txid(height)
           coin == [address |-> miner,
                    amount |-> Saturate(calculate_reward(height) + MinerFeeShare),
                    block_height |-> height, is_coinbase |-> TRUE]
           new == [k \in {<<txid, 0>>} |-> coin]
<1>1. /\ UtxoSet' = InsertAll(UtxoSet, new)
      /\ UNCHANGED <<FrozenUtxos, consumed>>
      /\ CurrentHeight' = height
      /\ CurrentHeight \in Nat
  BY DEF SubmitMiningProof, MintCoinbase, CoinInv, TypeOK, UtxoTypeOK
<1>2. /\ \A k \in DOMAIN new : /\ k[1][1] = "coinbase" /\ k[1][2] = height
                               /\ new[k].is_coinbase
      /\ \A k, l \in DOMAIN new : k = l
  BY DEF coinbase_txid
<1>3. DOMAIN new \cap KnownOutpoint = {}
  BY CoinbaseFresh
<1> HIDE DEF new
<1>4. UtxoSet' = InsertAll(Remove(UtxoSet, {}), new)
  <2>1. DOMAIN Remove(UtxoSet, {}) = DOMAIN UtxoSet
    BY DEF Remove, Restrict
  <2>2. \A k \in DOMAIN UtxoSet : Remove(UtxoSet, {})[k] = UtxoSet[k]
    BY DEF Remove, Restrict
  <2>3. QED
    BY <1>1, <2>1, <2>2 DEF InsertAll
<1>5. /\ NoResurrection'
      /\ KnownOutpoint' = KnownOutpoint \cup DOMAIN new
      /\ DOMAIN UtxoSet' = DOMAIN UtxoSet \cup DOMAIN new
      /\ \A k \in DOMAIN UtxoSet : UtxoSet'[k] = UtxoSet[k]
      /\ \A k \in DOMAIN new : UtxoSet'[k] = new[k]
  <2>1. consumed' = consumed \cup {}
    BY <1>1
  <2>2. QED
    BY <1>3, <1>4, <2>1, FreshCoins
<1>6. Provenance'
  <2>1. UNCHANGED <<ExecutedReversals, ReversalRequests>>
    BY DEF reversibilityVars
  <2>2. QED
    BY <1>1, <1>2, <1>5, <2>1 DEF CoinInv, Provenance
<1>7. CoinbaseMarked'
  BY <1>2, <1>5 DEF CoinInv, CoinbaseMarked
<1>8. OneCoinbasePerHeight'
  <2>1. \A k \in KnownOutpoint : k[1][1] = "coinbase" => k[1][2] # height
    BY <1>1 DEF CoinInv, Provenance
  <2>2. QED
    BY <1>2, <1>5, <2>1 DEF CoinInv, OneCoinbasePerHeight
<1>9. FrozenIsGone'
  <2>1. FrozenUtxos \subseteq KnownOutpoint
    BY DEF CoinInv, TypeOK, UtxoTypeOK, KnownOutpoint
  <2>2. QED
    BY <1>1, <1>3, <1>5, <2>1 DEF CoinInv, FrozenIsGone
<1>10. QED
  BY <1>5, <1>6, <1>7, <1>8, <1>9 DEF CoinInv

\* execute_reversal: the refund's txid hashes a request that was pending, and
\* the request of a known refund is executed.
LEMMA RefundFresh ==
    ASSUME CoinInv, NEW id, IsPending(id), NEW height
    PROVE  <<compute_reversal_txid(id, height), 0>> \notin KnownOutpoint
BY DEF CoinInv, Provenance, IsPending, compute_reversal_txid

\* Every conjunct of CoinInv survives an executed reversal.
LEMMA RefundCoins ==
    ASSUME CoinInv, NEW id, IsPending(id), VoteAndExecute(id), TypeOK'
    PROVE  CoinInv'
<1> DEFINE request == [ReversalRequests[id] EXCEPT !.approval_count = @ + 1,
                                                   !.status = "Executed"]
           taken  == Reversible(request.target_txid)
           total  == total_reversed(request)
           refund == [k \in {<<compute_reversal_txid(id, CurrentHeight), 0>>} |->
                         [address |-> request.original_sender, amount |-> total,
                          block_height |-> CurrentHeight, is_coinbase |-> FALSE]]
           new    == IF total > 0 THEN refund ELSE NoEntries
<1>1. /\ UtxoSet' = InsertAll(Remove(UtxoSet, taken), new)
      /\ consumed' = consumed \cup taken
      /\ FrozenUtxos' = FrozenUtxos \cup taken
      /\ UNCHANGED CurrentHeight
      /\ DOMAIN ExecutedReversals' = DOMAIN ExecutedReversals \cup {id}
      /\ ReversalRequests' = Insert(ReversalRequests, id, request)
  BY DEF VoteAndExecute, ReturnFunds, CoinsAfter, Insert
<1>2. /\ id \in DOMAIN ReversalRequests
      /\ ReversalRequests[id].status = "Pending"
      /\ IsRequest(ReversalRequests[id])
  BY DEF IsPending, CoinInv, TypeOK, ReversibilityTypeOK
<1>3. request.status = "Executed"
  BY <1>2 DEF IsRequest
<1>4. taken \subseteq DOMAIN UtxoSet /\ \A k \in taken : ~ UtxoSet[k].is_coinbase
  BY DEF Reversible, OutputsOf
<1>5. \A k \in DOMAIN new : k[1][1] = "reversal" /\ k[1][2] = id
  BY DEF compute_reversal_txid, NoEntries
<1>6. DOMAIN new \cap KnownOutpoint = {}
  BY RefundFresh DEF NoEntries
<1> HIDE DEF request, taken, new
<1>7. /\ NoResurrection'
      /\ KnownOutpoint' = KnownOutpoint \cup DOMAIN new
      /\ DOMAIN UtxoSet' = (DOMAIN UtxoSet \ taken) \cup DOMAIN new
      /\ \A k \in DOMAIN UtxoSet \ taken : UtxoSet'[k] = UtxoSet[k]
  BY <1>1, <1>4, <1>6, FreshCoins
<1>8. Provenance'
  <2>1. \A i \in DOMAIN ExecutedReversals' :
           i \in DOMAIN ReversalRequests' /\ ReversalRequests'[i].status = "Executed"
    BY <1>1, <1>3 DEF CoinInv, Provenance, Insert
  <2>2. consumed \subseteq consumed'
    BY <1>1
  <2>3. QED
    BY <1>1, <1>5, <1>7, <2>1, <2>2 DEF CoinInv, Provenance
<1>9. CoinbaseMarked' /\ OneCoinbasePerHeight'
  BY <1>5, <1>7 DEF CoinInv, CoinbaseMarked, OneCoinbasePerHeight
<1>10. FrozenIsGone'
  <2>1. FrozenUtxos \subseteq KnownOutpoint /\ taken \subseteq KnownOutpoint
    BY <1>4 DEF CoinInv, TypeOK, UtxoTypeOK, KnownOutpoint
  <2>2. \A k \in taken : k[1][1] # "coinbase"
    BY <1>4 DEF CoinInv, CoinbaseMarked
  <2>3. QED
    BY <1>1, <1>6, <1>7, <2>1, <2>2 DEF CoinInv, FrozenIsGone
<1>11. QED
  BY <1>7, <1>8, <1>9, <1>10 DEF CoinInv

-----------------------------------------------------------------------------
(* The invariant is inductive *)

\* Every block start and every extrinsic preserves CoinInv.
LEMMA CoinStep == CoinInv /\ [Next]_vars => CoinInv'
<1> SUFFICES ASSUME CoinInv, [Next]_vars PROVE CoinInv'
  OBVIOUS
<1>1. TypeOK /\ TypeOK'
  BY TypeStep DEF CoinInv
<1>2. CurrentHeight \in Nat /\ CurrentHeight' \in Nat
  BY <1>1 DEF TypeOK, UtxoTypeOK
<1>3. ASSUME UNCHANGED <<utxoVars, reversibilityVars>> PROVE CoinInv'
  BY <1>1, <1>2, <1>3, CoinFrame DEF utxoVars, reversibilityVars
<1>4. ASSUME UNCHANGED <<utxoVars, ReversalRequests, ExecutedReversals>> PROVE CoinInv'
  BY <1>1, <1>2, <1>4, CoinFrame DEF utxoVars
<1>5. ASSUME UNCHANGED <<utxoVars, ExecutedReversals>>, NEW id, IsPending(id),
             MoveToExpired(id)
      PROVE  CoinInv'
  <2>1. \A i \in DOMAIN ReversalRequests :
           ReversalRequests[i].status = "Executed" =>
               /\ i \in DOMAIN ReversalRequests'
               /\ ReversalRequests'[i].status = "Executed"
    BY <1>5 DEF IsPending, MoveToExpired, Remove, Restrict
  <2>2. QED
    BY <1>1, <1>2, <1>5, <2>1, CoinFrame DEF utxoVars
<1>6. CASE StartBlock
  <2>1. CurrentHeight' >= CurrentHeight
    BY <1>2, <1>6, UtxoAssumption DEF StartBlock, NewBlock, UtxoOnInitialize
  <2>2. UNCHANGED <<UtxoSet, consumed, FrozenUtxos, ExecutedReversals, ReversalRequests>>
    BY <1>6 DEF StartBlock, NewBlock, UtxoOnInitialize, reversibilityVars
  <2>3. QED
    BY <1>1, <1>2, <2>1, <2>2, CoinFrame
<1>7. CASE CallRegisterKey \/ CallSudoRegisterKey \/ CallRevokeKey
  BY <1>3, <1>7 DEF CallRegisterKey, CallSudoRegisterKey, CallRevokeKey, KeyCall
<1>8. CASE CallTransaction
  BY <1>1, <1>8, TransactionCoins DEF CallTransaction
<1>9. CASE CallMiningProof
  BY <1>1, <1>9, CoinbaseCoins DEF CallMiningProof
<1>10. CASE CallReversalRequest
  <2>1. PICK txid, sender : SubmitReversalRequest(txid, sender)
    BY <1>10 DEF CallReversalRequest
  <2>2. /\ UNCHANGED <<utxoVars, ExecutedReversals>>
        /\ \A i \in DOMAIN ReversalRequests :
              i \in DOMAIN ReversalRequests' /\ ReversalRequests'[i] = ReversalRequests[i]
    BY <2>1 DEF SubmitReversalRequest, Insert
  <2>3. QED
    BY <1>1, <1>2, <2>2, CoinFrame DEF utxoVars
<1>11. CASE CallApprove
  <2>1. PICK governor, id : ApproveReversal(governor, id)
    BY <1>11 DEF CallApprove
  <2>2. IsPending(id)
    BY <2>1 DEF ApproveReversal
  <2>3. CASE ApproveTooLate(id)
    BY <1>5, <2>2, <2>3 DEF ApproveTooLate
  <2>4. CASE RecordVote(governor, id)
    <3>1. /\ UNCHANGED <<utxoVars, ExecutedReversals>>
          /\ \A i \in DOMAIN ReversalRequests : i # id =>
                i \in DOMAIN ReversalRequests' /\ ReversalRequests'[i] = ReversalRequests[i]
      BY <2>4 DEF RecordVote, Insert
    <3>2. ReversalRequests[id].status # "Executed"
      BY <2>2 DEF IsPending
    <3>3. QED
      BY <1>1, <1>2, <3>1, <3>2, CoinFrame DEF utxoVars
  <2>5. CASE VoteAndExecute(id)
    BY <1>1, <2>2, <2>5, RefundCoins
  <2>6. QED
    BY <2>1, <2>3, <2>4, <2>5 DEF ApproveReversal, ApproveInTime
<1>12. CASE CallExpire
  BY <1>5, <1>12 DEF CallExpire, ExpireRequest
<1>13. CASE CallAddGovernor \/ CallRemoveGovernor \/ CallSetWindow \/ CallSetThreshold
  BY <1>4, <1>13 DEF CallAddGovernor, CallRemoveGovernor, CallSetWindow,
                     CallSetThreshold, AddGovernor, RemoveGovernor, SetReversalWindow,
                     SetApprovalThreshold, governanceUnchanged
<1>14. CASE CallPrune
  BY <1>4, <1>14 DEF CallPrune, PruneExpiredReversals
<1>15. CASE UNCHANGED vars
  BY <1>3, <1>15 DEF vars
<1>16. QED
  BY <1>6, <1>7, <1>8, <1>9, <1>10, <1>11, <1>12, <1>13, <1>14, <1>15 DEF Next

\* CoinInv holds in every reachable state.
LEMMA CoinInvariant == Spec => []CoinInv
BY CoinInit, CoinStep, PTL DEF Spec

\* No coin that was spent or reversed ever comes back, whatever transactions,
\* proofs and reversals a chain carries.
THEOREM CoinsNeverReturn == Spec => []NoResurrection
<1>1. CoinInv => NoResurrection
  BY DEF CoinInv
<1>2. QED
  BY <1>1, CoinInvariant, PTL

\* Every txid names an event that happens once.
THEOREM CoinsHaveProvenance == Spec => []Provenance
<1>1. CoinInv => Provenance
  BY DEF CoinInv
<1>2. QED
  BY <1>1, CoinInvariant, PTL

\* Each height is paid for by at most one coinbase, also when one block
\* carries several proofs.
THEOREM HeightsPaidOnce == Spec => []OneCoinbasePerHeight
<1>1. CoinInv => OneCoinbasePerHeight
  BY DEF CoinInv
<1>2. QED
  BY <1>1, CoinInvariant, PTL

\* A reversal takes its coins out of the set for good, and no coinbase.
THEOREM FrozenCoinsGone == Spec => []FrozenIsGone
<1>1. CoinInv => FrozenIsGone
  BY DEF CoinInv
<1>2. QED
  BY <1>1, CoinInvariant, PTL

-----------------------------------------------------------------------------
(* Amounts of sets of coins *)

\* A set of coins that can be added up.
Countable(coins) ==
    /\ IsFiniteSet(DOMAIN coins)
    /\ \A k \in DOMAIN coins : coins[k].amount \in Nat

\* The amount of a set of coins is a sum of natural numbers.
AmountAt(coins) == [k \in DOMAIN coins |-> coins[k].amount]

\* The amount of a set of coins is a sum, to which the lemmas on sums apply.
LEMMA AmountIsTotal ==
    ASSUME NEW coins, NEW ks, ks \subseteq DOMAIN coins
    PROVE  AmountOf(coins, ks) = Total(AmountAt(coins), ks)
<1>1. [k \in ks |-> coins[k].amount] = [k \in ks |-> AmountAt(coins)[k]]
  BY DEF AmountAt
<1>2. QED
  BY <1>1 DEF AmountOf, Total

\* The amount of a set of coins is a natural number.
LEMMA AmountInNat ==
    ASSUME NEW coins, Countable(coins), NEW ks, ks \subseteq DOMAIN coins
    PROVE  AmountOf(coins, ks) \in Nat
<1>1. IsFiniteSet(ks)
  BY FS_Subset DEF Countable
<1>2. \A k \in ks : AmountAt(coins)[k] \in Nat
  BY DEF Countable, AmountAt
<1>3. QED
  BY <1>1, <1>2, AmountIsTotal, TotalInNat

\* The amount of a set of coins is that of a part of it and that of the rest.
LEMMA AmountSplit ==
    ASSUME NEW coins, Countable(coins), NEW ks, ks \subseteq DOMAIN coins,
           NEW ls, ls \subseteq ks
    PROVE  /\ AmountOf(coins, ks) = AmountOf(coins, ls) + AmountOf(coins, ks \ ls)
           /\ AmountOf(coins, ls) <= AmountOf(coins, ks)
<1>1. IsFiniteSet(ks)
  BY FS_Subset DEF Countable
<1>2. \A k \in ks : AmountAt(coins)[k] \in Nat
  BY DEF Countable, AmountAt
<1>3. AmountOf(coins, ks) = AmountOf(coins, ls) + AmountOf(coins, ks \ ls)
  BY <1>1, <1>2, AmountIsTotal, TotalSplit
<1>4. AmountOf(coins, ls) \in Nat /\ AmountOf(coins, ks \ ls) \in Nat
  BY AmountInNat
<1>5. QED
  BY <1>3, <1>4

\* No coins carry no amount.
LEMMA AmountEmpty == ASSUME NEW coins PROVE AmountOf(coins, {}) = 0
<1>1. AmountOf(coins, {}) = Total(AmountAt(coins), {})
  BY AmountIsTotal
<1>2. QED
  BY <1>1, TotalEmpty

\* One coin carries its amount.
LEMMA OneAmount ==
    ASSUME NEW coins, Countable(coins), NEW k \in DOMAIN coins
    PROVE  AmountOf(coins, {k}) = coins[k].amount
<1> DEFINE f == AmountAt(coins)
<1>1. f[k] = coins[k].amount /\ f[k] \in Nat
  BY DEF AmountAt, Countable
<1>2. IsFiniteSet({k})
  BY FS_Singleton
<1>3. AmountOf(coins, {k}) = Total(f, {k})
  BY AmountIsTotal
<1> HIDE DEF f
<1>4. Total(f, {k}) = f[k] + Total(f, {k} \ {k})
  BY <1>1, <1>2, TotalStep
<1>5. {k} \ {k} = {} /\ Total(f, {}) = 0
  BY TotalEmpty
<1>6. QED
  BY <1>1, <1>3, <1>4, <1>5

\* The amount depends on the amounts of the coins only.
LEMMA AmountSame ==
    ASSUME NEW coins, NEW other, NEW ks, \A k \in ks : coins[k].amount = other[k].amount
    PROVE  AmountOf(coins, ks) = AmountOf(other, ks)
<1>1. [k \in ks |-> coins[k].amount] = [k \in ks |-> other[k].amount]
  OBVIOUS
<1>2. QED
  BY <1>1 DEF AmountOf

\* after is coins without those at gone and with the ones in new.
Replaces(after, coins, gone, new) ==
    /\ Countable(coins) /\ Countable(new)
    /\ gone \subseteq DOMAIN coins
    /\ DOMAIN coins \cap DOMAIN new = {}
    /\ DOMAIN after = (DOMAIN coins \ gone) \cup DOMAIN new
    /\ \A k \in DOMAIN coins \ gone : after[k] = coins[k]
    /\ \A k \in DOMAIN new : after[k] = new[k]

\* The amounts of the coins with outpoints in W, before and after such a change.
LEMMA AmountChange ==
    ASSUME NEW coins, NEW new, NEW gone, NEW after, Replaces(after, coins, gone, new),
           NEW W
    PROVE  /\ AmountOf(after, DOMAIN after \cap W)
                  = AmountOf(coins, DOMAIN coins \cap W) - AmountOf(coins, gone \cap W)
                      + AmountOf(new, DOMAIN new \cap W)
           /\ AmountOf(coins, gone \cap W) <= AmountOf(coins, DOMAIN coins \cap W)
<1> DEFINE all  == DOMAIN after \cap W
           ks   == DOMAIN coins \cap W
           out  == gone \cap W
           in   == DOMAIN new \cap W
           kept == ks \ out
           f == AmountAt(after)
<1>0. USE DEF Replaces
<1>1. /\ kept \subseteq DOMAIN coins /\ out \subseteq ks /\ ks \subseteq DOMAIN coins
      /\ in \subseteq DOMAIN new /\ all \subseteq DOMAIN after
      /\ all = kept \cup in /\ all \ in = kept /\ in \subseteq all
      /\ \A k \in kept : after[k] = coins[k]
      /\ \A k \in in : after[k] = new[k]
  OBVIOUS
<1>2. \A k \in DOMAIN after : f[k] \in Nat
  BY DEF AmountAt, Countable
<1>3. Countable(coins) /\ Countable(new)
  OBVIOUS
<1> HIDE DEF Replaces, all, ks, out, in, f
<1>4. IsFiniteSet(all)
  <2>1. IsFiniteSet(kept) /\ IsFiniteSet(in)
    BY <1>1, <1>3, FS_Subset DEF Countable
  <2>2. QED
    BY <1>1, <2>1, FS_Union
<1> HIDE DEF kept
<1>5. Total(f, all) = Total(f, in) + Total(f, kept)
  <2>1. in \in SUBSET all /\ \A k \in all : f[k] \in Nat
    BY <1>1, <1>2
  <2>2. QED
    BY <1>1, <1>4, <2>1, TotalSplit
<1>6. AmountOf(after, all) = Total(f, all)
  BY <1>1, AmountIsTotal DEF f
<1>7. Total(f, in) = AmountOf(new, in)
  <2>1. AmountOf(after, in) = AmountOf(new, in)
    BY <1>1, AmountSame
  <2>2. QED
    BY <1>1, <2>1, AmountIsTotal DEF f
<1>8. Total(f, kept) = AmountOf(coins, kept)
  <2>1. AmountOf(after, kept) = AmountOf(coins, kept)
    BY <1>1, AmountSame
  <2>2. kept \subseteq DOMAIN after
    BY <1>1
  <2>3. QED
    BY <2>1, <2>2, AmountIsTotal DEF f
<1>9. /\ AmountOf(coins, ks) = AmountOf(coins, out) + AmountOf(coins, kept)
      /\ AmountOf(coins, out) <= AmountOf(coins, ks)
  BY <1>1, <1>3, AmountSplit DEF kept
<1>10. /\ AmountOf(coins, out) \in Nat /\ AmountOf(coins, kept) \in Nat
       /\ AmountOf(new, in) \in Nat
  BY <1>1, <1>3, AmountInNat
<1>11. QED
  BY <1>5, <1>6, <1>7, <1>8, <1>9, <1>10 DEF all, ks, out, in

\* What such a change does to the total amount, to that of one owner and to
\* the number of coins.
LEMMA LedgerChange ==
    ASSUME NEW coins, NEW new, NEW gone, NEW after, Replaces(after, coins, gone, new)
    PROVE  /\ Countable(after)
           /\ AmountOf(after, DOMAIN after)
                = AmountOf(coins, DOMAIN coins) - AmountOf(coins, gone)
                    + AmountOf(new, DOMAIN new)
           /\ \A a : AmountOwned(after, DOMAIN after, a)
                = AmountOwned(coins, DOMAIN coins, a) - AmountOwned(coins, gone, a)
                    + AmountOwned(new, DOMAIN new, a)
           /\ \A a : AmountOwned(coins, gone, a) <= AmountOwned(coins, DOMAIN coins, a)
           /\ Cardinality(DOMAIN after)
                = Cardinality(DOMAIN coins) - Cardinality(gone) + Cardinality(DOMAIN new)
           /\ Cardinality(gone) <= Cardinality(DOMAIN coins)
<1> DEFINE kept == DOMAIN coins \ gone
<1>1. /\ IsFiniteSet(DOMAIN coins) /\ IsFiniteSet(kept)
      /\ IsFiniteSet(DOMAIN new) /\ IsFiniteSet(gone)
  BY FS_Subset DEF Countable, Replaces
<1>2. /\ DOMAIN after = kept \cup DOMAIN new
      /\ kept \cap DOMAIN new = {} /\ DOMAIN coins \cap gone = gone
  BY DEF Replaces
<1>3. Countable(after)
  <2>1. IsFiniteSet(DOMAIN after)
    BY <1>1, <1>2, FS_Union
  <2>2. QED
    BY <2>1 DEF Countable, Replaces
<1>4. AmountOf(after, DOMAIN after)
        = AmountOf(coins, DOMAIN coins) - AmountOf(coins, gone) + AmountOf(new, DOMAIN new)
  <2> DEFINE W == DOMAIN coins \cup DOMAIN new
  <2>1. /\ DOMAIN after \cap W = DOMAIN after /\ DOMAIN coins \cap W = DOMAIN coins
        /\ gone \cap W = gone /\ DOMAIN new \cap W = DOMAIN new
    BY DEF Replaces
  <2> HIDE DEF W
  <2>2. /\ AmountOf(after, DOMAIN after \cap W)
             = AmountOf(coins, DOMAIN coins \cap W) - AmountOf(coins, gone \cap W)
                 + AmountOf(new, DOMAIN new \cap W)
        /\ AmountOf(coins, gone \cap W) <= AmountOf(coins, DOMAIN coins \cap W)
    BY AmountChange
  <2>3. QED
    BY <2>1, <2>2
<1>5. ASSUME NEW a
      PROVE  /\ AmountOwned(after, DOMAIN after, a)
                  = AmountOwned(coins, DOMAIN coins, a) - AmountOwned(coins, gone, a)
                      + AmountOwned(new, DOMAIN new, a)
             /\ AmountOwned(coins, gone, a) <= AmountOwned(coins, DOMAIN coins, a)
  <2> DEFINE W == {k \in DOMAIN coins : coins[k].address = a}
                    \cup {k \in DOMAIN new : new[k].address = a}
  <2>0. /\ \A k \in DOMAIN coins : k \in W <=> coins[k].address = a
        /\ \A k \in DOMAIN new : k \in W <=> new[k].address = a
    BY DEF Replaces
  <2> HIDE DEF W
  <2>1. /\ DOMAIN coins \cap W = {k \in DOMAIN coins : coins[k].address = a}
        /\ gone \cap W = {k \in gone : coins[k].address = a}
        /\ DOMAIN new \cap W = {k \in DOMAIN new : new[k].address = a}
    BY <2>0 DEF Replaces
  <2>4. \A k \in DOMAIN after : k \in W <=> after[k].address = a
    BY <2>0 DEF Replaces
  <2>5. DOMAIN after \cap W = {k \in DOMAIN after : after[k].address = a}
    BY <2>4
  <2>2. /\ AmountOf(after, DOMAIN after \cap W)
             = AmountOf(coins, DOMAIN coins \cap W) - AmountOf(coins, gone \cap W)
                 + AmountOf(new, DOMAIN new \cap W)
        /\ AmountOf(coins, gone \cap W) <= AmountOf(coins, DOMAIN coins \cap W)
    BY AmountChange
  <2>3. QED
    BY <2>1, <2>2, <2>5 DEF AmountOwned
<1> HIDE DEF kept
<1>6. Cardinality(DOMAIN after) = Cardinality(kept) + Cardinality(DOMAIN new)
  <2>1. Cardinality(DOMAIN after) = Cardinality(kept) + Cardinality(DOMAIN new)
             - Cardinality(kept \cap DOMAIN new)
    BY <1>1, <1>2, FS_Union
  <2>2. Cardinality(kept \cap DOMAIN new) = 0
    BY <1>2, FS_EmptySet
  <2>3. Cardinality(kept) \in Nat /\ Cardinality(DOMAIN new) \in Nat
    BY <1>1, FS_CardinalityType
  <2>4. QED
    BY <2>1, <2>2, <2>3
<1>7. Cardinality(kept) = Cardinality(DOMAIN coins) - Cardinality(gone)
  BY <1>1, <1>2, FS_Difference DEF kept
<1>8. Cardinality(gone) <= Cardinality(DOMAIN coins)
  <2>1. gone \in SUBSET DOMAIN coins
    BY DEF Replaces
  <2>2. QED
    BY <1>1, <2>1, FS_Subset
<1>9. QED
  BY <1>3, <1>4, <1>5, <1>6, <1>7, <1>8

\* What one address owns is at most all there is.
LEMMA OwnedBound ==
    ASSUME NEW coins, Countable(coins), NEW a, NEW ks, ks \subseteq DOMAIN coins
    PROVE  /\ AmountOwned(coins, ks, a) \in Nat
           /\ AmountOwned(coins, ks, a) <= AmountOf(coins, ks)
<1> DEFINE own == {k \in ks : coins[k].address = a}
<1>1. own \subseteq ks /\ own \subseteq DOMAIN coins
  OBVIOUS
<1> HIDE DEF own
<1>2. AmountOf(coins, own) \in Nat /\ AmountOf(coins, own) <= AmountOf(coins, ks)
  BY <1>1, AmountSplit, AmountInNat
<1>3. QED
  BY <1>2 DEF AmountOwned, own

\* A balance in range is stored as it is.
LEMMA SaturateExact == ASSUME NEW x \in Nat, x <= MAX_BALANCE PROVE Saturate(x) = x
BY MaxBalanceAssumption DEF Saturate, QbcBalance

\* The balance cache after a change of coins: nothing saturates.
LEMMA BalancesFollow ==
    ASSUME CachesAgree, NEW new, NEW gone, NEW after,
           Replaces(after, UtxoSet, gone, new),
           AmountOf(UtxoSet, DOMAIN UtxoSet) <= MAX_BALANCE,
           AmountOf(after, DOMAIN after) <= MAX_BALANCE
    PROVE  \A a \in Address :
              RefreshedBalances(gone, new)[a] = AmountOwned(after, DOMAIN after, a)
<1> SUFFICES ASSUME NEW a \in Address
             PROVE  RefreshedBalances(gone, new)[a] = AmountOwned(after, DOMAIN after, a)
  OBVIOUS
<1>1. /\ Countable(after)
      /\ AmountOwned(after, DOMAIN after, a)
            = AmountOwned(UtxoSet, DOMAIN UtxoSet, a) - AmountOwned(UtxoSet, gone, a)
                + AmountOwned(new, DOMAIN new, a)
      /\ AmountOwned(UtxoSet, gone, a) <= AmountOwned(UtxoSet, DOMAIN UtxoSet, a)
  BY LedgerChange
<1>2. Balances[a] = AmountOwned(UtxoSet, DOMAIN UtxoSet, a)
  BY DEF CachesAgree
<1>0. Countable(UtxoSet) /\ Countable(new) /\ gone \subseteq DOMAIN UtxoSet
  BY DEF Replaces
<1>3. PICK b, g, n, f \in Nat :
         /\ b = AmountOwned(UtxoSet, DOMAIN UtxoSet, a)
         /\ g = AmountOwned(UtxoSet, gone, a)
         /\ n = AmountOwned(new, DOMAIN new, a)
         /\ f = AmountOwned(after, DOMAIN after, a)
  BY <1>0, <1>1, OwnedBound
<1>4. b <= MAX_BALANCE /\ f <= MAX_BALANCE
  <2>1. b <= AmountOf(UtxoSet, DOMAIN UtxoSet) /\ f <= AmountOf(after, DOMAIN after)
    BY <1>0, <1>1, <1>3, OwnedBound
  <2>2. AmountOf(UtxoSet, DOMAIN UtxoSet) \in Nat /\ AmountOf(after, DOMAIN after) \in Nat
    BY <1>0, <1>1, AmountInNat
  <2>3. QED
    BY <2>1, <2>2, MaxBalanceAssumption
<1>5. f = b - g + n /\ g <= b
  BY <1>1, <1>3
<1>6. Saturate(b - g) = b - g /\ Saturate((b - g) + n) = f
  BY <1>4, <1>5, SaturateExact, MaxBalanceAssumption
<1>7. QED
  BY <1>2, <1>3, <1>6 DEF RefreshedBalances

-----------------------------------------------------------------------------
(* The invariant *)

\* The amount of all coins in the set.
Live == AmountOf(UtxoSet, DOMAIN UtxoSet)

\* The caches and the supply are right, with the facts on coins that say a new
\* coin has a new outpoint: without them an insertion could overwrite a coin.
LedgerInv ==
    /\ CoinInv
    /\ CachesAgree
    /\ SupplyAccounted

\* The coins of a well-typed state can be added up.
LEMMA LedgerCountable == ASSUME TypeOK PROVE Countable(UtxoSet)
BY DEF TypeOK, UtxoTypeOK, Countable, Coin, QbcBalance

\* So can those of the genesis.
LEMMA GenesisCountable == Countable(GenesisUtxos)
BY UtxoAssumption DEF Countable, Coin, QbcBalance

\* The quantities of SupplyAccounted are natural numbers in range.
LEMMA LedgerNumbers ==
    ASSUME TypeOK
    PROVE  /\ Live \in Nat /\ AccumulatedFees \in Nat /\ TotalFeesBurned \in Nat
           /\ TotalEmitted \in Nat /\ MAX_SUPPLY \in Nat /\ ADDITIONAL_EMITTED \in Nat
           /\ MAX_BALANCE \in Nat /\ Migrated \in 0 .. ADDITIONAL_EMITTED
           /\ MAX_SUPPLY + ADDITIONAL_EMITTED <= MAX_BALANCE
           /\ Issued = Live + AccumulatedFees + TotalFeesBurned
           /\ GenesisGap \in Nat
<1>1. Live \in Nat
  BY LedgerCountable, AmountInNat DEF Live
<1>2. /\ AccumulatedFees \in Nat /\ TotalFeesBurned \in Nat /\ TotalEmitted \in Nat
      /\ SupplyMigrationDone \in BOOLEAN
  BY DEF TypeOK, UtxoTypeOK, EconomicsTypeOK, QbcBalance
<1>3. /\ MAX_SUPPLY \in Nat /\ ADDITIONAL_EMITTED \in Nat /\ MAX_BALANCE \in Nat
      /\ MAX_SUPPLY + ADDITIONAL_EMITTED <= MAX_BALANCE
  BY EconomicsAssumption, MaxBalanceAssumption DEF QbcBalance
<1>4. Migrated \in 0 .. ADDITIONAL_EMITTED
  BY <1>2, <1>3 DEF Migrated
<1>5. GenesisGap \in Nat
  <2>1. InitialEmitted \in Nat
    BY <1>3, EconomicsAssumption
  <2>2. AmountOf(GenesisUtxos, DOMAIN GenesisUtxos) \in Nat
    BY GenesisCountable, AmountInNat
  <2>3. QED
    BY <2>1, <2>2, GenesisAssumption DEF GenesisGap
<1>6. QED
  BY <1>1, <1>2, <1>3, <1>4, <1>5 DEF Issued, Live

\* The genesis state.
LEMMA LedgerInit == Init => LedgerInv
<1> SUFFICES ASSUME Init PROVE LedgerInv
  OBVIOUS
<1>1. CoinInv /\ TypeOK
  BY CoinInit DEF CoinInv
<1>2. /\ UtxoSet = GenesisUtxos /\ UtxoCount = Cardinality(DOMAIN GenesisUtxos)
      /\ AccumulatedFees = 0 /\ TotalFeesBurned = 0 /\ TotalEmitted = InitialEmitted
      /\ SupplyMigrationDone = FALSE
      /\ Balances = [a \in Address |->
                      Saturate(AmountOwned(GenesisUtxos, DOMAIN GenesisUtxos, a))]
  BY DEF Init, UtxoInit, EconomicsInit
<1>3. Live + GenesisGap = InitialEmitted /\ InitialEmitted \in Nat /\ InitialEmitted <= MAX_SUPPLY
  <2>1. InitialEmitted \in Nat /\ InitialEmitted <= MAX_SUPPLY
    BY EconomicsAssumption DEF QbcBalance
  <2>2. Live = AmountOf(GenesisUtxos, DOMAIN GenesisUtxos)
    BY <1>2 DEF Live
  <2>3. Live \in Nat
    BY <1>1, LedgerNumbers
  <2>4. QED
    BY <2>1, <2>2, <2>3 DEF GenesisGap
<1>4. SupplyAccounted
  <2>1. Issued = Live /\ Migrated = 0
    BY <1>1, <1>2, LedgerNumbers DEF Migrated
  <2>2. QED
    BY <1>2, <1>3, <2>1 DEF SupplyAccounted
<1>5. \A a \in Address : Balances[a] = AmountOwned(UtxoSet, DOMAIN UtxoSet, a)
  <2> SUFFICES ASSUME NEW a \in Address
               PROVE  Saturate(AmountOwned(UtxoSet, DOMAIN UtxoSet, a))
                        = AmountOwned(UtxoSet, DOMAIN UtxoSet, a)
    BY <1>2
  <2>1. PICK n \in Nat : n = AmountOwned(UtxoSet, DOMAIN UtxoSet, a) /\ n <= Live
    BY <1>1, LedgerCountable, OwnedBound DEF Live
  <2>2. n <= MAX_BALANCE
    BY <1>1, <1>3, <2>1, LedgerNumbers
  <2>3. QED
    BY <2>1, <2>2, SaturateExact
<1>6. QED
  BY <1>1, <1>2, <1>4, <1>5 DEF LedgerInv, CachesAgree

-----------------------------------------------------------------------------
(* Steps that leave coins, fees and counters alone *)

\* Calls that change neither coins nor fees nor counters keep the ledger.
LEMMA LedgerFrame ==
    ASSUME LedgerInv, CoinInv',
           UNCHANGED <<UtxoSet, Balances, UtxoCount, AccumulatedFees, TotalFeesBurned,
                       TotalEmitted, SupplyMigrationDone>>
    PROVE  LedgerInv'
BY DEF LedgerInv, CachesAgree, SupplyAccounted, Issued, Migrated

\* The caches after coins were replaced and the pallets updated them.
LEMMA CachesFollow ==
    ASSUME TypeOK, CachesAgree, NEW gone, NEW new,
           Replaces(UtxoSet', UtxoSet, gone, new),
           Live <= MAX_BALANCE, Live' <= MAX_BALANCE,
           Balances' = RefreshedBalances(gone, new),
           UtxoCount' = SatSub(UtxoCount, Cardinality(gone)) + Cardinality(DOMAIN new)
    PROVE  CachesAgree'
<1>1. PICK after : after = UtxoSet'
  OBVIOUS
<1>2. Replaces(after, UtxoSet, gone, new)
  BY <1>1
<1>3. \A a \in Address : RefreshedBalances(gone, new)[a] = AmountOwned(after, DOMAIN after, a)
  <2>1. AmountOf(UtxoSet, DOMAIN UtxoSet) <= MAX_BALANCE /\ AmountOf(after, DOMAIN after) <= MAX_BALANCE
    BY <1>1 DEF Live
  <2>2. QED
    BY <1>2, <2>1, BalancesFollow
<1>4. /\ Cardinality(DOMAIN after)
           = Cardinality(DOMAIN UtxoSet) - Cardinality(gone) + Cardinality(DOMAIN new)
      /\ Cardinality(gone) <= Cardinality(DOMAIN UtxoSet)
  BY <1>2, LedgerChange
<1>5. UtxoCount = Cardinality(DOMAIN UtxoSet)
  BY DEF CachesAgree
<1>6. UtxoCount' = Cardinality(DOMAIN after)
  <2>1. UtxoCount \in Nat /\ Cardinality(gone) \in Nat /\ Cardinality(DOMAIN new) \in Nat
    <3>1. IsFiniteSet(gone) /\ IsFiniteSet(DOMAIN new)
      BY FS_Subset DEF Replaces, Countable
    <3>2. QED
      BY <3>1, FS_CardinalityType DEF TypeOK, UtxoTypeOK
  <2>2. QED
    BY <1>4, <1>5, <2>1 DEF SatSub
<1>7. QED
  BY <1>1, <1>3, <1>6 DEF CachesAgree

\* A block start, with or without a runtime upgrade.
LEMMA LedgerBlock == ASSUME LedgerInv, CoinInv', StartBlock PROVE LedgerInv'
<1>1. PICK step, upgraded : NewBlock(step, upgraded)
  BY DEF StartBlock
<1>2. UNCHANGED <<UtxoSet, Balances, UtxoCount, AccumulatedFees, TotalFeesBurned>>
  BY <1>1 DEF NewBlock, UtxoOnInitialize
<1>3. CASE UNCHANGED <<TotalEmitted, SupplyMigrationDone>>
  BY <1>2, <1>3, LedgerFrame
<1>4. CASE EconomicsOnRuntimeUpgrade /\ ~ SupplyMigrationDone
  <2>1. Migrated = 0 /\ Migrated' = ADDITIONAL_EMITTED
    BY <1>4 DEF Migrated, EconomicsOnRuntimeUpgrade
  <2>2. TypeOK
    BY DEF LedgerInv, CoinInv
  <2>3. /\ TotalEmitted = Issued + GenesisGap /\ Issued + GenesisGap <= MAX_SUPPLY
        /\ Issued \in Nat /\ GenesisGap \in Nat
    BY <2>1, <2>2, LedgerNumbers DEF LedgerInv, SupplyAccounted
  <2>4. TotalEmitted' = Issued + GenesisGap + ADDITIONAL_EMITTED
    BY <1>4, <2>2, <2>3, LedgerNumbers, SaturateExact DEF EconomicsOnRuntimeUpgrade
  <2>5. Issued' = Issued
    BY <1>2 DEF Issued
  <2>6. QED
    BY <1>2, <2>1, <2>3, <2>4, <2>5 DEF LedgerInv, CachesAgree, SupplyAccounted
<1>5. CASE EconomicsOnRuntimeUpgrade /\ SupplyMigrationDone
  <2>1. UNCHANGED <<TotalEmitted, SupplyMigrationDone>>
    BY <1>5 DEF EconomicsOnRuntimeUpgrade, LedgerInv, CoinInv, TypeOK, EconomicsTypeOK
  <2>2. QED
    BY <1>3, <2>1
<1>6. QED
  BY <1>1, <1>3, <1>4, <1>5 DEF NewBlock, economicsVars

\* New coins at unknown outpoints replace live ones.
LEMMA CoinsReplaced ==
    ASSUME CoinInv, NEW gone, gone \subseteq DOMAIN UtxoSet, NEW new, WellTyped(new),
           DOMAIN new \cap KnownOutpoint = {},
           UtxoSet' = InsertAll(Remove(UtxoSet, gone), new)
    PROVE  Replaces(UtxoSet', UtxoSet, gone, new)
<1>1. /\ DOMAIN UtxoSet' = (DOMAIN UtxoSet \ gone) \cup DOMAIN new
      /\ \A k \in DOMAIN new : UtxoSet'[k] = new[k]
      /\ \A k \in (DOMAIN UtxoSet \ gone) \ DOMAIN new : UtxoSet'[k] = UtxoSet[k]
  BY DEF InsertAll, Remove, Restrict
<1>2. DOMAIN UtxoSet \cap DOMAIN new = {}
  BY DEF KnownOutpoint
<1>3. Countable(UtxoSet)
  BY LedgerCountable DEF CoinInv
<1>4. Countable(new)
  BY DEF WellTyped, Countable, Coin, QbcBalance
<1>5. QED
  BY <1>1, <1>2, <1>3, <1>4 DEF Replaces

\* The outputs of a transaction: as many coins, of the same total amount.
LEMMA OutputAmounts ==
    ASSUME NEW txid, NEW n \in Nat, NEW outputs \in [1 .. n -> Output],
           CurrentHeight \in Nat
    PROVE  LET new == NewCoins(txid, outputs)
           IN  /\ WellTyped(new)
               /\ Cardinality(DOMAIN new) = n
               /\ AmountOf(new, DOMAIN new) = OutputTotal(outputs)
<1> DEFINE new == NewCoins(txid, outputs)
           h == [j \in 1 .. n |-> <<txid, j - 1>>]
           f == AmountAt(new)
<1>1. /\ DOMAIN new = {<<txid, v>> : v \in 0 .. n - 1}
      /\ \A k \in DOMAIN new : IsOutpoint(k) /\ new[k] \in Coin
  BY NewCoinsType
<1>2. \A j \in 1 .. n : new[<<txid, j - 1>>].amount = outputs[j].amount
  <2>1. Len(outputs) = n
    OBVIOUS
  <2>2. QED
    BY <2>1 DEF NewCoins
<1> HIDE DEF new
<1>3. IsFiniteSet(DOMAIN new) /\ Cardinality(DOMAIN new) = n
  <2>1. PICK T : T = {<<txid, v>> : v \in 0 .. n - 1}
    OBVIOUS
  <2>2. IsFiniteSet(T) /\ Cardinality(T) = n
    BY <2>1, NewCoinsFinite, Zenon
  <2>3. DOMAIN new = T
    BY <1>1, <2>1
  <2>4. QED
    BY <2>2, <2>3
<1>4. h \in Bijection(1 .. n, DOMAIN new)
  <2>1. \A v \in 0 .. n - 1 : v + 1 \in 1 .. n /\ (v + 1) - 1 = v
    OBVIOUS
  <2>2. \A v \in 0 .. n - 1 : h[v + 1] = <<txid, v>>
    BY <2>1
  <2>3. h \in Surjection(1 .. n, DOMAIN new)
    <3>1. h \in [1 .. n -> DOMAIN new]
      BY <1>1
    <3>2. \A k \in DOMAIN new : \E j \in 1 .. n : h[j] = k
      <4>1. SUFFICES ASSUME NEW v \in 0 .. n - 1 PROVE \E j \in 1 .. n : h[j] = <<txid, v>>
        BY <1>1
      <4>2. QED
        BY <2>1, <2>2
    <3> HIDE DEF h
    <3>3. QED
      BY <3>1, <3>2 DEF Surjection
  <2>4. h \in Injection(1 .. n, DOMAIN new)
    BY <1>1 DEF Injection, IsInjective
  <2>5. QED
    BY <2>3, <2>4 DEF Bijection
<1>5. \A k \in DOMAIN new : f[k] \in Nat
  BY <1>1 DEF AmountAt, Coin, QbcBalance
<1>6. [j \in 1 .. n |-> f[h[j]]] = [j \in 1 .. n |-> outputs[j].amount]
  BY <1>1, <1>2 DEF AmountAt
<1> DEFINE p == [j \in 1 .. n |-> outputs[j].amount]
<1>7. IsFiniteSet(1 .. n)
  BY FS_Interval, SMT
<1>8. p = [j \in 1 .. n |-> p[j]] /\ OutputTotal(outputs) = SumFunction(p)
  <2>1. DOMAIN outputs = 1 .. n
    OBVIOUS
  <2>2. QED
    BY <2>1 DEF OutputTotal
<1> HIDE DEF h, f, p
<1>9. Total(p, 1 .. n) = Total(f, DOMAIN new)
  BY <1>4, <1>5, <1>6, <1>7, TotalReindexed DEF p
<1>10. Total(p, 1 .. n) = OutputTotal(outputs)
  BY <1>8 DEF Total
<1>11. Total(f, DOMAIN new) = AmountOf(new, DOMAIN new)
  BY AmountIsTotal DEF f
<1>12. WellTyped(new)
  BY <1>1, <1>3 DEF WellTyped
<1>13. QED
  BY <1>3, <1>9, <1>10, <1>11, <1>12 DEF new

\* The inputs of a transaction, which are distinct.
LEMMA InputAmounts ==
    ASSUME NEW m \in Nat, NEW inputs, DOMAIN inputs = 1 .. m, 
           inputs = [i \in 1 .. m |-> inputs[i]],
           NoDuplicateInput(inputs), Countable(UtxoSet), Range(inputs) \subseteq DOMAIN UtxoSet
    PROVE  /\ Cardinality(Range(inputs)) = m
           /\ InputTotal(inputs) = AmountOf(UtxoSet, Range(inputs))
<1> DEFINE T == Range(inputs)
           f == AmountAt(UtxoSet)
<1>1. inputs \in Bijection(1 .. m, T)
  <2>1. inputs \in [1 .. m -> T]
    BY DEF Range
  <2>2. \A t \in T : \E i \in 1 .. m : inputs[i] = t
    BY DEF Range
  <2>3. \A i, j \in 1 .. m : inputs[i] = inputs[j] => i = j
    BY DEF NoDuplicateInput
  <2> HIDE DEF T
  <2>4. QED
    BY <2>1, <2>2, <2>3 DEF Bijection, Injection, Surjection, IsInjective
<1>2. IsFiniteSet(1 .. m) /\ Cardinality(1 .. m) = m
  BY FS_Interval, SMT
<1>3. Cardinality(T) = m
  BY <1>1, <1>2, FS_Bijection DEF ExistsBijection
<1>4. \A k \in T : f[k] \in Nat
  BY DEF Countable, AmountAt
<1>5. [i \in 1 .. m |-> f[inputs[i]]] = [i \in 1 .. m |-> UtxoSet[inputs[i]].amount]
  <2>1. \A i \in 1 .. m : inputs[i] \in DOMAIN UtxoSet
    BY DEF Range
  <2>2. QED
    BY <2>1 DEF AmountAt
<1> DEFINE p == [i \in 1 .. m |-> UtxoSet[inputs[i]].amount]
<1>6. p = [i \in 1 .. m |-> p[i]] /\ InputTotal(inputs) = SumFunction(p)
  BY DEF InputTotal
<1> HIDE DEF T, f, p
<1>7. Total(p, 1 .. m) = Total(f, T)
  <2>1. Total([i \in 1 .. m |-> f[inputs[i]]], 1 .. m) = Total(f, T)
    BY <1>1, <1>2, <1>4, TotalReindexed
  <2>2. QED
    BY <1>5, <2>1 DEF p
<1>8. Total(f, T) = AmountOf(UtxoSet, T)
  BY AmountIsTotal DEF f, T
<1>9. QED
  BY <1>3, <1>6, <1>7, <1>8 DEF Total, T

\* submit_transaction: what the inputs carry is in the outputs and the fee.
LEMMA LedgerTransaction ==
    ASSUME LedgerInv, CoinInv', CallTransaction
    PROVE  LedgerInv'
<1>1. PICK m, n, inputs, outputs :
         /\ m \in Nat /\ inputs \in [1 .. m -> KnownOutpoint]
         /\ n \in Nat /\ outputs \in [1 .. n -> Output]
         /\ SubmitTransaction(inputs, outputs)
  BY RuntimeAssumption DEF CallTransaction, SequencesUpTo, Output
<1> DEFINE gone == Range(inputs)
           new == NewCoins(compute_txid(inputs, outputs), outputs)
<1>2. /\ UtxoSet' = InsertAll(Remove(UtxoSet, gone), new)
      /\ Balances' = RefreshedBalances(gone, new)
      /\ UtxoCount' = SatSub(UtxoCount, Len(inputs)) + Len(outputs)
      /\ AccumulatedFees' = Saturate(AccumulatedFees + InputTotal(inputs) - OutputTotal(outputs))
      /\ InputTotal(inputs) >= OutputTotal(outputs)
      /\ NoDuplicateInput(inputs)
      /\ UNCHANGED <<TotalFeesBurned, TotalEmitted, SupplyMigrationDone>>
  BY <1>1 DEF SubmitTransaction, CoinsAfter, CallTransaction, economicsVars
<1>3. /\ Len(inputs) = m /\ Len(outputs) = n /\ DOMAIN inputs = 1 .. m
      /\ inputs = [i \in 1 .. m |-> inputs[i]]
  BY <1>1
<1>4. CoinInv /\ TypeOK /\ TypeOK' /\ CurrentHeight \in Nat /\ Countable(UtxoSet)
  BY LedgerCountable DEF LedgerInv, CoinInv, TypeOK, UtxoTypeOK
<1>5. gone \subseteq DOMAIN UtxoSet /\ DOMAIN new \cap KnownOutpoint = {}
  BY <1>1, <1>4, TransactionFresh
<1>6. /\ WellTyped(new) /\ Cardinality(DOMAIN new) = n
      /\ AmountOf(new, DOMAIN new) = OutputTotal(outputs)
  BY <1>1, <1>4, OutputAmounts
<1>7. Cardinality(gone) = m /\ InputTotal(inputs) = AmountOf(UtxoSet, gone)
  BY <1>1, <1>2, <1>3, <1>4, <1>5, InputAmounts
<1> HIDE DEF gone, new
<1>8. Replaces(UtxoSet', UtxoSet, gone, new)
  BY <1>2, <1>4, <1>5, <1>6, CoinsReplaced
<1>9. Live' = Live - AmountOf(UtxoSet, gone) + AmountOf(new, DOMAIN new)
  BY <1>8, LedgerChange DEF Live
<1>10. PICK i, o \in Nat : i = AmountOf(UtxoSet, gone) /\ o = AmountOf(new, DOMAIN new)
  <2>1. Countable(new)
    BY <1>8 DEF Replaces
  <2>2. QED
    BY <1>4, <1>5, <2>1, AmountInNat
<1>11. o <= i /\ i <= Live
  BY <1>2, <1>4, <1>5, <1>6, <1>7, <1>10, AmountSplit DEF Live
<1>12. Issued <= MAX_SUPPLY
  <2>1. Issued + GenesisGap <= MAX_SUPPLY
    BY DEF LedgerInv, SupplyAccounted
  <2>2. QED
    BY <1>4, <2>1, LedgerNumbers
<1>13. AccumulatedFees' = AccumulatedFees + i - o
  <2>1. AccumulatedFees + i - o \in Nat /\ AccumulatedFees + i - o <= MAX_BALANCE
    BY <1>4, <1>10, <1>11, <1>12, LedgerNumbers
  <2>2. QED
    BY <1>2, <1>6, <1>7, <1>10, <2>1, SaturateExact
<1>14. Issued' = Issued
  <2>1. Issued' = Live' + AccumulatedFees' + TotalFeesBurned'
    BY DEF Issued, Live
  <2>2. Issued' = (Live - i + o) + (AccumulatedFees + i - o) + TotalFeesBurned
    BY <1>2, <1>9, <1>10, <1>13, <2>1
  <2>3. QED
    BY <1>4, <2>2, LedgerNumbers
<1>15. SupplyAccounted'
  BY <1>2, <1>14 DEF LedgerInv, SupplyAccounted, Migrated
<1>16. CachesAgree'
  <2>1. Live <= MAX_BALANCE /\ Live' <= MAX_BALANCE
    <3>1. Live \in Nat /\ MAX_BALANCE \in Nat /\ Live <= MAX_BALANCE
      BY <1>4, <1>12, LedgerNumbers
    <3>2. Live' = Live - i + o
      BY <1>9, <1>10
    <3>3. QED
      BY <1>11, <3>1, <3>2
  <2>2. UtxoCount' = SatSub(UtxoCount, Cardinality(gone)) + Cardinality(DOMAIN new)
    BY <1>2, <1>3, <1>6, <1>7
  <2>3. QED
    BY <1>2, <1>4, <1>8, <2>1, <2>2, CachesFollow DEF LedgerInv
<1>17. QED
  BY <1>15, <1>16 DEF LedgerInv

\* One new coin.
LEMMA OneCoin ==
    ASSUME NEW k, IsOutpoint(k), NEW coin \in Coin
    PROVE  LET new == [x \in {k} |-> coin]
           IN  /\ WellTyped(new)
               /\ Cardinality(DOMAIN new) = 1
               /\ AmountOf(new, DOMAIN new) = coin.amount
<1> DEFINE new == [x \in {k} |-> coin]
<1>1. DOMAIN new = {k} /\ new[k] = coin /\ coin.amount \in Nat
  BY DEF Coin, QbcBalance
<1>2. IsFiniteSet({k}) /\ Cardinality({k}) = 1
  BY FS_Singleton
<1> HIDE DEF new
<1>3. WellTyped(new)
  BY <1>1, <1>2 DEF WellTyped
<1>4. AmountOf(new, {k}) = coin.amount
  BY <1>1, <1>2, OneAmount DEF Countable
<1>5. QED
  BY <1>1, <1>2, <1>3, <1>4 DEF new

\* submit_mining_proof: the coinbase is the reward, which was still to be
\* emitted, and the half of the fees that is not burned.
LEMMA LedgerCoinbase ==
    ASSUME LedgerInv, CoinInv', CallMiningProof
    PROVE  LedgerInv'
<1>1. PICK miner, proof : miner \in Miner /\ SubmitMiningProof(miner, proof)
  BY DEF CallMiningProof
<1> DEFINE height == CurrentHeight + 1
           r == calculate_reward(height)
           amount == Saturate(r + MinerFeeShare)
           k == <<coinbase_txid(height), 0>>
           coin == [address |-> miner, amount |-> amount,
                    block_height |-> height, is_coinbase |-> TRUE]
           new == [x \in {k} |-> coin]
<1>2. /\ UtxoSet' = InsertAll(UtxoSet, new)
      /\ Balances' = RefreshedBalances({}, new)
      /\ UtxoCount' = UtxoCount + 1
      /\ AccumulatedFees' = 0
      /\ TotalFeesBurned' = Saturate(TotalFeesBurned + FeeBurn)
      /\ TotalEmitted' = IF TotalEmitted + r <= MAX_SUPPLY THEN TotalEmitted + r
                                                          ELSE MAX_SUPPLY
      /\ UNCHANGED SupplyMigrationDone
  BY <1>1 DEF SubmitMiningProof, MintCoinbase, OnBlockAuthored
<1>3. CoinInv /\ TypeOK /\ CurrentHeight \in Nat /\ Countable(UtxoSet) /\ UtxoCount \in Nat
  BY LedgerCountable DEF LedgerInv, CoinInv, TypeOK, UtxoTypeOK
<1>4. r \in Nat /\ r <= SatSub(MAX_SUPPLY, TotalEmitted)
  <2>1. SatSub(MAX_SUPPLY, TotalEmitted) \in Nat
    BY <1>3, LedgerNumbers, SatSubType
  <2>2. QED
    BY <2>1 DEF calculate_reward
<1>5. /\ Issued + GenesisGap <= MAX_SUPPLY
      /\ \/ TotalEmitted = Issued + GenesisGap + Migrated
         \/ TotalEmitted = MAX_SUPPLY /\ Issued + GenesisGap + Migrated > MAX_SUPPLY
  BY DEF LedgerInv, SupplyAccounted
<1>6. /\ FeeBurn \in Nat /\ MinerFeeShare \in Nat
      /\ FeeBurn + MinerFeeShare = AccumulatedFees
  BY <1>3, LedgerNumbers DEF FeeBurn, MinerFeeShare
<1>7. Issued + r + GenesisGap <= MAX_SUPPLY
  BY <1>3, <1>4, <1>5, LedgerNumbers DEF SatSub
<1> HIDE DEF r
<1>8. amount = r + MinerFeeShare /\ TotalFeesBurned' = TotalFeesBurned + FeeBurn
  <2>1. r + MinerFeeShare <= MAX_BALANCE /\ TotalFeesBurned + FeeBurn <= MAX_BALANCE
    BY <1>3, <1>4, <1>6, <1>7, LedgerNumbers
  <2>2. r + MinerFeeShare \in Nat /\ TotalFeesBurned + FeeBurn \in Nat
    BY <1>3, <1>4, <1>6, LedgerNumbers
  <2>3. QED
    BY <1>2, <2>1, <2>2, SaturateExact
<1>9. /\ WellTyped(new) /\ Cardinality(DOMAIN new) = 1
      /\ AmountOf(new, DOMAIN new) = amount
  <2>1. coin \in Coin
    BY <1>1, <1>3, SaturateType, ConsensusAssumption DEF Coin
  <2>2. IsOutpoint(k)
    BY DEF IsOutpoint
  <2>3. coin.amount = amount
    OBVIOUS
  <2> HIDE DEF coin, k, amount
  <2>4. QED
    BY <2>1, <2>2, <2>3, OneCoin
<1>10. DOMAIN new \cap KnownOutpoint = {}
  BY <1>3, CoinbaseFresh
<1> HIDE DEF new, amount
<1>11. UtxoSet' = InsertAll(Remove(UtxoSet, {}), new)
  <2>1. DOMAIN Remove(UtxoSet, {}) = DOMAIN UtxoSet
    BY DEF Remove, Restrict
  <2>2. \A x \in DOMAIN UtxoSet : Remove(UtxoSet, {})[x] = UtxoSet[x]
    BY DEF Remove, Restrict
  <2>3. QED
    BY <1>2, <2>1, <2>2 DEF InsertAll
<1>12. Replaces(UtxoSet', UtxoSet, {}, new)
  BY <1>3, <1>9, <1>10, <1>11, CoinsReplaced
<1>13. Live' = Live + amount
  <2>1. Live' = Live - AmountOf(UtxoSet, {}) + AmountOf(new, DOMAIN new)
    BY <1>12, LedgerChange DEF Live
  <2>2. Live' = Live - 0 + amount
    BY <1>9, <2>1, AmountEmpty
  <2>3. amount \in Nat
    BY <1>4, <1>6, <1>8
  <2>4. QED
    BY <1>3, <2>2, <2>3, LedgerNumbers
<1>14. Issued' = Issued + r
  <2>1. Issued' = Live' + AccumulatedFees' + TotalFeesBurned'
    BY DEF Issued, Live
  <2>2. Issued' = (Live + (r + MinerFeeShare)) + 0 + (TotalFeesBurned + FeeBurn)
    BY <1>2, <1>8, <1>13, <2>1
  <2>3. QED
    BY <1>3, <1>4, <1>6, <2>2, LedgerNumbers
<1>15. SupplyAccounted'
  <2>1. Migrated' = Migrated
    BY <1>2 DEF Migrated
  <2>2. Issued' + GenesisGap <= MAX_SUPPLY
    BY <1>7, <1>14
  <2>3. /\ Issued \in Nat /\ Migrated \in Nat /\ MAX_SUPPLY \in Nat /\ TotalEmitted \in Nat
        /\ GenesisGap \in Nat
    BY <1>3, LedgerNumbers
  <2>4. \/ TotalEmitted' = (Issued + r) + GenesisGap + Migrated
        \/ TotalEmitted' = MAX_SUPPLY /\ (Issued + r) + GenesisGap + Migrated > MAX_SUPPLY
    <3>1. CASE TotalEmitted >= MAX_SUPPLY
      <4>1. r = 0
        BY <1>4, <2>3, <3>1 DEF SatSub
      <4>2. QED
        BY <1>2, <1>5, <2>3, <3>1, <4>1
    <3>2. CASE TotalEmitted < MAX_SUPPLY
      <4>1. TotalEmitted + r <= MAX_SUPPLY
        BY <1>4, <2>3, <3>2 DEF SatSub
      <4>2. QED
        BY <1>2, <1>4, <1>5, <2>3, <3>2, <4>1
    <3>3. QED
      BY <2>3, <3>1, <3>2
  <2>5. QED
    BY <1>14, <2>1, <2>2, <2>4 DEF SupplyAccounted
<1>16. CachesAgree'
  <2>1. Live <= MAX_BALANCE /\ Live' <= MAX_BALANCE
    <3>1. Live \in Nat /\ MAX_BALANCE \in Nat /\ Live <= MAX_BALANCE
      BY <1>3, <1>5, LedgerNumbers
    <3>2. Live + (r + MinerFeeShare) <= MAX_BALANCE
      BY <1>3, <1>4, <1>6, <1>7, LedgerNumbers
    <3>3. QED
      BY <1>8, <1>13, <3>1, <3>2
  <2>2. UtxoCount' = SatSub(UtxoCount, Cardinality({})) + Cardinality(DOMAIN new)
    BY <1>2, <1>3, <1>9, FS_EmptySet DEF SatSub
  <2>3. QED
    BY <1>2, <1>3, <1>12, <2>1, <2>2, CachesFollow DEF LedgerInv
<1>17. QED
  BY <1>15, <1>16 DEF LedgerInv

\* No new coin.
LEMMA NoCoin ==
    /\ WellTyped(NoEntries) /\ DOMAIN NoEntries = {}
    /\ Cardinality(DOMAIN NoEntries) = 0
    /\ AmountOf(NoEntries, DOMAIN NoEntries) = 0
<1>1. DOMAIN NoEntries = {}
  BY DEF NoEntries
<1>2. QED
  BY <1>1, FS_EmptySet, AmountEmpty DEF WellTyped

\* execute_reversal: what the refund carries was in the coins taken.
LEMMA LedgerRefund ==
    ASSUME LedgerInv, CoinInv', NEW id, IsPending(id), VoteAndExecute(id),
           UNCHANGED economicsVars
    PROVE  LedgerInv'
<1> DEFINE request == [ReversalRequests[id] EXCEPT !.approval_count = @ + 1,
                                                   !.status = "Executed"]
           taken  == Reversible(request.target_txid)
           total  == total_reversed(request)
           k      == <<compute_reversal_txid(id, CurrentHeight), 0>>
           coin   == [address |-> request.original_sender, amount |-> total,
                      block_height |-> CurrentHeight, is_coinbase |-> FALSE]
           refund == [x \in {k} |-> coin]
           new    == IF total > 0 THEN refund ELSE NoEntries
<1>1. /\ UtxoSet' = InsertAll(Remove(UtxoSet, taken), new)
      /\ Balances' = RefreshedBalances(taken, new)
      /\ UtxoCount' = SatSub(UtxoCount, Cardinality(taken)) + Cardinality(DOMAIN new)
      /\ UNCHANGED <<AccumulatedFees, TotalFeesBurned, TotalEmitted, SupplyMigrationDone>>
  BY DEF VoteAndExecute, ReturnFunds, CoinsAfter, economicsVars
<1>2. CoinInv /\ TypeOK /\ CurrentHeight \in Nat /\ Countable(UtxoSet)
  BY LedgerCountable DEF LedgerInv, CoinInv, TypeOK, UtxoTypeOK
<1>3. request.original_sender \in Address
  <2>1. IsRequest(ReversalRequests[id])
    BY <1>2 DEF IsPending, TypeOK, ReversibilityTypeOK
  <2>2. QED
    BY <2>1 DEF IsRequest
<1>4. taken \subseteq DOMAIN UtxoSet
  BY DEF Reversible, OutputsOf
<1> DEFINE t == AmountOf(UtxoSet, taken)
<1>5. t \in Nat /\ t <= Live /\ Live <= MAX_BALANCE /\ total = t
  <2> HIDE DEF taken
  <2>1. t \in Nat /\ t <= Live
    BY <1>2, <1>4, AmountInNat, AmountSplit DEF Live
  <2>2. Live <= MAX_BALANCE
    BY <1>2, LedgerNumbers DEF LedgerInv, SupplyAccounted
  <2>3. t <= MAX_BALANCE
    BY <1>2, <2>1, <2>2, LedgerNumbers
  <2>4. QED
    BY <2>1, <2>2, <2>3, SaturateExact DEF total_reversed, taken
<1>6. WellTyped(new) /\ AmountOf(new, DOMAIN new) = t
  <2>1. CASE total > 0
    <3>1. coin \in Coin /\ IsOutpoint(k) /\ coin.amount = total
      BY <1>2, <1>3, SaturateType DEF Coin, total_reversed, IsOutpoint
    <3> HIDE DEF coin, k, total
    <3>2. WellTyped(refund) /\ AmountOf(refund, DOMAIN refund) = total
      BY <3>1, OneCoin
    <3>3. QED
      BY <1>5, <2>1, <3>2
  <2>2. CASE ~ (total > 0)
    <3> HIDE DEF total, t
    <3>1. t = 0 /\ new = NoEntries
      BY <1>5, <2>2
    <3>2. QED
      BY <3>1, NoCoin
  <2>3. QED
    BY <2>1, <2>2
<1>7. DOMAIN new \cap KnownOutpoint = {}
  BY <1>2, RefundFresh, NoCoin
<1> HIDE DEF taken, new, t
<1>8. Replaces(UtxoSet', UtxoSet, taken, new)
  BY <1>1, <1>2, <1>4, <1>6, <1>7, CoinsReplaced
<1>9. Live' = Live
  <2>1. Live' = Live - t + t
    BY <1>6, <1>8, LedgerChange DEF Live, t
  <2>2. QED
    BY <1>2, <1>5, <2>1, LedgerNumbers
<1>10. SupplyAccounted'
  <2>1. Issued' = Issued /\ Migrated' = Migrated
    BY <1>1, <1>9 DEF Issued, Live, Migrated
  <2>2. QED
    BY <1>1, <2>1 DEF LedgerInv, SupplyAccounted
<1>11. CachesAgree'
  BY <1>1, <1>2, <1>5, <1>8, <1>9, CachesFollow DEF LedgerInv
<1>12. QED
  BY <1>10, <1>11 DEF LedgerInv

\* Every block start and every extrinsic preserves LedgerInv.
LEMMA LedgerStep == LedgerInv /\ [Next]_vars => LedgerInv'
<1> SUFFICES ASSUME LedgerInv, [Next]_vars PROVE LedgerInv'
  OBVIOUS
<1>1. CoinInv'
  BY CoinStep DEF LedgerInv
<1>2. ASSUME UNCHANGED <<utxoVars, economicsVars>> PROVE LedgerInv'
  BY <1>1, <1>2, LedgerFrame DEF utxoVars, economicsVars
<1>3. CASE StartBlock
  BY <1>1, <1>3, LedgerBlock
<1>4. CASE CallRegisterKey \/ CallSudoRegisterKey \/ CallRevokeKey
  BY <1>2, <1>4 DEF CallRegisterKey, CallSudoRegisterKey, CallRevokeKey, KeyCall
<1>5. CASE CallTransaction
  BY <1>1, <1>5, LedgerTransaction
<1>6. CASE CallMiningProof
  BY <1>1, <1>6, LedgerCoinbase
<1>7. CASE CallReversalRequest
  BY <1>2, <1>7 DEF CallReversalRequest, ReversalCall, SubmitReversalRequest
<1>8. CASE CallApprove
  <2>1. PICK governor, id : ApproveReversal(governor, id) /\ UNCHANGED economicsVars
    BY <1>8 DEF CallApprove, ReversalCall
  <2>2. CASE ApproveTooLate(id) \/ RecordVote(governor, id)
    BY <1>2, <2>1, <2>2 DEF ApproveTooLate, RecordVote
  <2>3. CASE VoteAndExecute(id)
    BY <1>1, <2>1, <2>3, LedgerRefund DEF ApproveReversal
  <2>4. QED
    BY <2>1, <2>2, <2>3 DEF ApproveReversal, ApproveInTime
<1>9. CASE CallExpire \/ CallAddGovernor \/ CallRemoveGovernor \/ CallSetWindow
             \/ CallSetThreshold \/ CallPrune
  BY <1>2, <1>9 DEF CallExpire, CallAddGovernor, CallRemoveGovernor, CallSetWindow,
                    CallSetThreshold, CallPrune, ReversalCall, ExpireRequest,
                    AddGovernor, RemoveGovernor, SetReversalWindow,
                    SetApprovalThreshold, governanceUnchanged, PruneExpiredReversals
<1>10. CASE UNCHANGED vars
  BY <1>2, <1>10 DEF vars
<1>11. QED
  BY <1>3, <1>4, <1>5, <1>6, <1>7, <1>8, <1>9, <1>10 DEF Next

\* LedgerInv holds in every reachable state.
LEMMA LedgerInvariant == Spec => []LedgerInv
BY LedgerInit, LedgerStep, PTL DEF Spec

\* The balance cache of every address is the sum of its coins, and UtxoCount
\* their number, in every instance: the separate updates of Balances and
\* UtxoCount by submit_transaction, submit_mining_proof and execute_reversal
\* never drift from UtxoSet, and nothing saturates.
THEOREM CachesFollowCoins == Spec => []CachesAgree
<1>1. LedgerInv => CachesAgree
  BY DEF LedgerInv
<1>2. QED
  BY <1>1, LedgerInvariant, PTL

\* All value is accounted for in every instance: the coins, the fees not yet
\* paid out and the fees burned add up to what was emitted, but for the units
\* the genesis and the migration counted without a coin, which do not change;
\* transactions, coinbases, reversals and the migration neither create nor lose
\* value.
THEOREM ValueConserved == Spec => []SupplyAccounted
<1>1. LedgerInv => SupplyAccounted
  BY DEF LedgerInv
<1>2. QED
  BY <1>1, LedgerInvariant, PTL
=============================================================================
