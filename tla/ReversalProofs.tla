--------------------------- MODULE ReversalProofs ---------------------------
(***************************************************************************)
(* Reversals, for every value of the constants: votes are counted right, a *)
(* request is in one place, and no money is returned twice.  A request id  *)
(* is made of the target and the height, so that a new id is new as soon   *)
(* as all ids kept are of earlier heights or of requests still pending;    *)
(* this is what RequestInv adds.  RefundInv adds that every request asks   *)
(* for at least what is left of its target, and that nothing is left once  *)
(* a reversal of the target was executed.                                  *)
(***************************************************************************)
EXTENDS CoinProofs

\* The transactions that have, or had, an output in the set.
KnownTxid(txid) == \E k \in KnownOutpoint : k[1] = txid

\* No step adds a coin to a transaction that exists, nor thaws one.
OutputsShrink ==
    /\ KnownOutpoint \subseteq KnownOutpoint'
    /\ FrozenUtxos \subseteq FrozenUtxos'
    /\ \A k \in DOMAIN UtxoSet' : KnownTxid(k[1]) =>
           k \in DOMAIN UtxoSet /\ UtxoSet'[k] = UtxoSet[k]
    /\ CurrentHeight' \in Nat /\ CurrentHeight' >= CurrentHeight

\* A change of coins that adds outputs of new transactions only.
LEMMA ShrinkByReplacing ==
    ASSUME CoinInv, NEW gone, gone \subseteq DOMAIN UtxoSet, NEW new,
           \A k \in DOMAIN new : ~ KnownTxid(k[1]),
           UtxoSet' = InsertAll(Remove(UtxoSet, gone), new),
           consumed' = consumed \cup gone
    PROVE  /\ KnownOutpoint \subseteq KnownOutpoint'
           /\ \A k \in DOMAIN UtxoSet' : KnownTxid(k[1]) =>
                  k \in DOMAIN UtxoSet /\ UtxoSet'[k] = UtxoSet[k]
<1>1. DOMAIN new \cap KnownOutpoint = {}
  BY DEF KnownTxid
<1>2. /\ KnownOutpoint' = KnownOutpoint \cup DOMAIN new
      /\ DOMAIN UtxoSet' = (DOMAIN UtxoSet \ gone) \cup DOMAIN new
      /\ \A k \in DOMAIN UtxoSet \ gone : UtxoSet'[k] = UtxoSet[k]
  BY <1>1, FreshCoins
<1>3. QED
  BY <1>2

\* Calls that leave the coins alone.
LEMMA ShrinkFrame ==
    ASSUME UNCHANGED <<UtxoSet, consumed, FrozenUtxos>>,
           CurrentHeight \in Nat, CurrentHeight' = CurrentHeight
    PROVE  OutputsShrink
BY DEF OutputsShrink, KnownOutpoint

\* submit_transaction creates the outputs of a new transaction.
LEMMA ShrinkTransaction ==
    ASSUME CoinInv, CallTransaction PROVE OutputsShrink
<1>1. PICK inputs, outputs : SubmitTransaction(inputs, outputs)
  BY DEF CallTransaction
<1> DEFINE gone == Range(inputs)
           new == NewCoins(compute_txid(inputs, outputs), outputs)
<1>2. /\ UtxoSet' = InsertAll(Remove(UtxoSet, gone), new)
      /\ consumed' = consumed \cup gone
      /\ UNCHANGED <<FrozenUtxos, CurrentHeight>>
  BY <1>1 DEF SubmitTransaction, CoinsAfter
<1>3. gone \subseteq DOMAIN UtxoSet /\ gone # {}
  <2>1. 1 \in DOMAIN inputs
    BY <1>1 DEF SubmitTransaction
  <2>2. gone # {}
    BY <2>1 DEF Range
  <2>3. QED
    BY <1>1, <2>2, TransactionFresh
<1>4. \A k \in DOMAIN new : k[1][1] = "tx" /\ k[1][2] = inputs
  BY DEF NewCoins, compute_txid
<1>5. \A k \in DOMAIN new : ~ KnownTxid(k[1])
  <2> HIDE DEF new
  <2>1. SUFFICES ASSUME NEW k \in DOMAIN new, NEW l \in KnownOutpoint, l[1] = k[1]
                 PROVE  FALSE
    BY DEF KnownTxid
  <2>2. gone \subseteq consumed
    BY <1>4, <2>1 DEF CoinInv, Provenance
  <2>3. QED
    BY <1>3, <2>2 DEF CoinInv, NoResurrection
<1> HIDE DEF gone, new
<1>6. /\ KnownOutpoint \subseteq KnownOutpoint'
      /\ \A k \in DOMAIN UtxoSet' : KnownTxid(k[1]) =>
             k \in DOMAIN UtxoSet /\ UtxoSet'[k] = UtxoSet[k]
  BY <1>2, <1>3, <1>5, ShrinkByReplacing
<1>7. CurrentHeight \in Nat
  BY DEF CoinInv, TypeOK, UtxoTypeOK
<1>8. QED
  BY <1>2, <1>6, <1>7 DEF OutputsShrink

\* submit_mining_proof creates the coinbase of a new height.
LEMMA ShrinkCoinbase ==
    ASSUME CoinInv, CallMiningProof PROVE OutputsShrink
<1>1. PICK miner, proof : SubmitMiningProof(miner, proof)
  BY DEF CallMiningProof
<1> DEFINE height == CurrentHeight + 1
           coin == [address |-> miner,
                    amount |-> Saturate(calculate_reward(height) + MinerFeeShare),
                    block_height |-> height, is_coinbase |-> TRUE]
           new == [k \in {<<coinbase_txid(height), 0>>} |-> coin]
<1>2. /\ UtxoSet' = InsertAll(UtxoSet, new)
      /\ UNCHANGED <<FrozenUtxos, consumed>>
      /\ CurrentHeight' = height
      /\ CurrentHeight \in Nat
  BY <1>1 DEF SubmitMiningProof, MintCoinbase, CoinInv, TypeOK, UtxoTypeOK
<1>3. \A k \in DOMAIN new : ~ KnownTxid(k[1])
  BY <1>2 DEF KnownTxid, CoinInv, Provenance, coinbase_txid
<1> HIDE DEF new
<1>4. UtxoSet' = InsertAll(Remove(UtxoSet, {}), new)
  <2>1. DOMAIN Remove(UtxoSet, {}) = DOMAIN UtxoSet
    BY DEF Remove, Restrict
  <2>2. \A k \in DOMAIN UtxoSet : Remove(UtxoSet, {})[k] = UtxoSet[k]
    BY DEF Remove, Restrict
  <2>3. QED
    BY <1>2, <2>1, <2>2 DEF InsertAll
<1>5. consumed' = consumed \cup {}
  BY <1>2
<1>6. /\ KnownOutpoint \subseteq KnownOutpoint'
      /\ \A k \in DOMAIN UtxoSet' : KnownTxid(k[1]) =>
             k \in DOMAIN UtxoSet /\ UtxoSet'[k] = UtxoSet[k]
  BY <1>3, <1>4, <1>5, ShrinkByReplacing
<1>7. QED
  BY <1>2, <1>6 DEF OutputsShrink

\* execute_reversal freezes coins and creates the refund of a new request.
LEMMA ShrinkRefund ==
    ASSUME CoinInv, NEW id, IsPending(id), VoteAndExecute(id) PROVE OutputsShrink
<1> DEFINE request == [ReversalRequests[id] EXCEPT !.approval_count = @ + 1,
                                                   !.status = "Executed"]
           taken  == Reversible(request.target_txid)
           total  == total_reversed(request)
           refund == [k \in {<<compute_reversal_txid(id, CurrentHeight), 0>>} |->
                         [address |-> request.original_sender, amount |-> total,
                          block_height |-> CurrentHeight, is_coinbase |-> FALSE]]
           new    == IF total > 0 THEN refund ELSE NoEntries
<1>1. /\ UtxoSet' = InsertAll(Remove(UtxoSet, taken), new)
      /\ consumed' = consumed \cup taken
      /\ FrozenUtxos' = FrozenUtxos \cup taken
      /\ UNCHANGED CurrentHeight
      /\ CurrentHeight \in Nat
  BY DEF VoteAndExecute, ReturnFunds, CoinsAfter, CoinInv, TypeOK, UtxoTypeOK
<1>2. taken \subseteq DOMAIN UtxoSet
  BY DEF Reversible, OutputsOf
<1>3. \A k \in DOMAIN new : ~ KnownTxid(k[1])
  <2>1. \A k \in DOMAIN new : k[1][1] = "reversal" /\ k[1][2] = id
    BY DEF NoEntries, compute_reversal_txid
  <2> HIDE DEF new
  <2>2. QED
    BY <2>1 DEF KnownTxid, CoinInv, Provenance, IsPending
<1> HIDE DEF taken, new
<1>4. /\ KnownOutpoint \subseteq KnownOutpoint'
      /\ \A k \in DOMAIN UtxoSet' : KnownTxid(k[1]) =>
             k \in DOMAIN UtxoSet /\ UtxoSet'[k] = UtxoSet[k]
  BY <1>1, <1>2, <1>3, ShrinkByReplacing
<1>5. QED
  BY <1>1, <1>4 DEF OutputsShrink

\* Every step leaves known transactions with the outputs they have, or fewer.
LEMMA ShrinkStep == CoinInv /\ [Next]_vars => OutputsShrink
<1> SUFFICES ASSUME CoinInv, [Next]_vars PROVE OutputsShrink
  OBVIOUS
<1>1. CurrentHeight \in Nat
  BY DEF CoinInv, TypeOK, UtxoTypeOK
<1>2. ASSUME UNCHANGED utxoVars PROVE OutputsShrink
  BY <1>1, <1>2, ShrinkFrame DEF utxoVars
<1>3. CASE StartBlock
  <2>1. /\ UNCHANGED <<UtxoSet, consumed, FrozenUtxos>>
        /\ CurrentHeight' \in Nat /\ CurrentHeight' >= CurrentHeight
    BY <1>1, <1>3, UtxoAssumption DEF StartBlock, NewBlock, UtxoOnInitialize
  <2>2. QED
    BY <2>1 DEF OutputsShrink, KnownOutpoint
<1>4. CASE CallRegisterKey \/ CallSudoRegisterKey \/ CallRevokeKey
  BY <1>2, <1>4 DEF CallRegisterKey, CallSudoRegisterKey, CallRevokeKey, KeyCall
<1>5. CASE CallTransaction
  BY <1>5, ShrinkTransaction
<1>6. CASE CallMiningProof
  BY <1>6, ShrinkCoinbase
<1>7. CASE CallReversalRequest
  BY <1>2, <1>7 DEF CallReversalRequest, ReversalCall, SubmitReversalRequest
<1>8. CASE CallApprove
  <2>1. PICK governor, id : ApproveReversal(governor, id)
    BY <1>8 DEF CallApprove
  <2>2. CASE ApproveTooLate(id) \/ RecordVote(governor, id)
    BY <1>2, <2>2 DEF ApproveTooLate, RecordVote
  <2>3. CASE VoteAndExecute(id)
    BY <2>1, <2>3, ShrinkRefund DEF ApproveReversal
  <2>4. QED
    BY <2>1, <2>2, <2>3 DEF ApproveReversal, ApproveInTime
<1>9. CASE CallExpire \/ CallAddGovernor \/ CallRemoveGovernor \/ CallSetWindow
             \/ CallSetThreshold \/ CallPrune
  BY <1>2, <1>9 DEF CallExpire, CallAddGovernor, CallRemoveGovernor, CallSetWindow,
                    CallSetThreshold, CallPrune, ExpireRequest,
                    AddGovernor, RemoveGovernor, SetReversalWindow,
                    SetApprovalThreshold, governanceUnchanged, PruneExpiredReversals
<1>10. CASE UNCHANGED vars
  BY <1>2, <1>10 DEF vars
<1>11. QED
  BY <1>3, <1>4, <1>5, <1>6, <1>7, <1>8, <1>9, <1>10 DEF Next

\* A reversal never finds more than it would have earlier.
LEMMA ReversibleShrinks ==
    ASSUME CoinInv, OutputsShrink, NEW txid, KnownTxid(txid)
    PROVE  /\ Reversible(txid)' \subseteq Reversible(txid)
           /\ AmountOf(UtxoSet, Reversible(txid)) \in Nat
           /\ AmountOf(UtxoSet, Reversible(txid))' \in Nat
           /\ AmountOf(UtxoSet, Reversible(txid))' <= AmountOf(UtxoSet, Reversible(txid))
<1>1. PICK R, S, after : R = Reversible(txid) /\ S = Reversible(txid)' /\ after = UtxoSet'
  OBVIOUS
<1>2. S \subseteq R /\ \A k \in S : after[k] = UtxoSet[k]
  BY <1>1 DEF OutputsShrink, Reversible, OutputsOf
<1>3. R \subseteq DOMAIN UtxoSet
  BY <1>1 DEF Reversible, OutputsOf
<1>4. Countable(UtxoSet)
  BY LedgerCountable DEF CoinInv
<1>5. /\ AmountOf(UtxoSet, R) \in Nat /\ AmountOf(UtxoSet, S) \in Nat
      /\ AmountOf(UtxoSet, S) <= AmountOf(UtxoSet, R)
  BY <1>2, <1>3, <1>4, AmountInNat, AmountSplit
<1>6. AmountOf(after, S) = AmountOf(UtxoSet, S)
  BY <1>2, AmountSame
<1>7. AmountOf(UtxoSet, Reversible(txid))' = AmountOf(after, S)
  BY <1>1
<1>8. QED
  BY <1>1, <1>2, <1>5, <1>6, <1>7

-----------------------------------------------------------------------------
(* The invariant *)

\* The requests for a transaction that were executed.
ExecutedOn(txid) == {i \in DOMAIN ExecutedReversals : i[1] = txid}

\* A request id names its target and the height of the request.
RequestsDated ==
    \A id \in DOMAIN ReversalRequests :
        /\ id = <<ReversalRequests[id].target_txid, id[2]>>
        /\ id[2] \in Nat
        /\ id[2] <= CurrentHeight
        /\ id[2] <= ReversalRequests[id].expiry_block_height
        /\ ReversalRequests[id].amount \in Nat
        /\ KnownTxid(id[1])

\* An id in the archive is of an earlier height.
ExpiredDated == \A id \in DOMAIN ExpiredReversals : id[2] \in Nat /\ id[2] < CurrentHeight

\* Votes are left behind only by requests of an earlier height.
VotesDated ==
    \A id \in DOMAIN ReversalVotes :
        /\ ReversalVotes[id] \subseteq Address
        /\ id \notin DOMAIN ReversalRequests => id[2] \in Nat /\ id[2] < CurrentHeight

\* Votes and requests are accounted for; what makes it inductive are the
\* heights in the ids, from which it follows that a new id is new.
RequestInv ==
    /\ CoinInv
    /\ RequestsDated
    /\ ExpiredDated
    /\ VotesDated
    /\ IsFiniteSet(DOMAIN ReversalRequests)
    /\ VotesCounted
    /\ RequestsAccounted

\* There are no requests in the genesis state.
LEMMA RequestInit == Init => RequestInv
<1> SUFFICES ASSUME Init PROVE RequestInv
  OBVIOUS
<1>1. /\ ReversalRequests = NoEntries /\ ReversalVotes = NoEntries
      /\ ExecutedReversals = NoEntries /\ ExpiredReversals = NoEntries
      /\ TotalRequests = 0 /\ TotalExecuted = 0 /\ TotalExpired = 0
  BY DEF Init, ReversibilityInit
<1>2. DOMAIN NoEntries = {}
  BY DEF NoEntries
<1>3. IsFiniteSet({}) /\ Cardinality({}) = 0
  BY FS_EmptySet
<1>4. RequestsAccounted
  <2>1. {id \in DOMAIN ReversalRequests : ReversalRequests[id].status = "Executed"} = {}
    BY <1>1, <1>2
  <2>2. QED
    BY <1>1, <1>2, <1>3, <2>1 DEF RequestsAccounted
<1>5. QED
  BY <1>1, <1>2, <1>3, <1>4, CoinInit
     DEF RequestInv, RequestsDated, ExpiredDated, VotesDated, VotesCounted

\* Coins and heights change, or the archive is pruned.
LEMMA RequestFrame ==
    ASSUME RequestInv, CoinInv', OutputsShrink,
           UNCHANGED <<ReversalRequests, ReversalVotes, ExecutedReversals,
                       TotalRequests, TotalExecuted, TotalExpired>>,
           DOMAIN ExpiredReversals' \subseteq DOMAIN ExpiredReversals
    PROVE  RequestInv'
<1>1. CurrentHeight \in Nat /\ CurrentHeight' \in Nat /\ CurrentHeight' >= CurrentHeight
  BY DEF RequestInv, CoinInv, TypeOK, UtxoTypeOK, OutputsShrink
<1>2. RequestsDated'
  BY <1>1 DEF RequestInv, RequestsDated, OutputsShrink, KnownTxid
<1>3. ExpiredDated' /\ VotesDated'
  BY <1>1 DEF RequestInv, ExpiredDated, VotesDated
<1>4. VotesCounted' /\ IsFiniteSet(DOMAIN ReversalRequests)'
  BY DEF RequestInv, VotesCounted, IsPending, VotesOn
<1>5. RequestsAccounted'
  BY DEF RequestInv, RequestsAccounted
<1>6. QED
  BY <1>2, <1>3, <1>4, <1>5 DEF RequestInv

\* submit_reversal_request: the id is new, in the requests and in the archive.
LEMMA RequestSubmitted ==
    ASSUME RequestInv, CoinInv', OutputsShrink, CallReversalRequest
    PROVE  RequestInv'
<1>1. PICK txid, sender : SubmitReversalRequest(txid, sender)
  BY DEF CallReversalRequest
<1> DEFINE id == <<txid, CurrentHeight>>
           found == OutputsOf(txid)
<1>2. /\ id \notin DOMAIN ReversalRequests
      /\ DOMAIN ReversalRequests' = DOMAIN ReversalRequests \cup {id}
      /\ \A i \in DOMAIN ReversalRequests : ReversalRequests'[i] = ReversalRequests[i]
      /\ ReversalRequests'[id].target_txid = txid
      /\ ReversalRequests'[id].status = "Pending"
      /\ ReversalRequests'[id].approval_count = 0
      /\ ReversalRequests'[id].amount = AmountOf(UtxoSet, found)
      /\ ReversalRequests'[id].expiry_block_height = CurrentHeight + ReversalWindow
      /\ found # {}
  BY <1>1 DEF SubmitReversalRequest, Insert, compute_request_id
<1>3. /\ TotalRequests' = TotalRequests + 1
      /\ UNCHANGED <<ReversalVotes, ExecutedReversals, ExpiredReversals, TotalExecuted,
                     TotalExpired, CurrentHeight, UtxoSet, consumed>>
  BY <1>1 DEF SubmitReversalRequest, utxoVars
<1>4. /\ CurrentHeight \in Nat /\ ReversalWindow \in Nat
      /\ TotalRequests \in Nat /\ TotalExpired \in Nat
      /\ Countable(UtxoSet)
  BY LedgerCountable DEF RequestInv, CoinInv, TypeOK, UtxoTypeOK, ReversibilityTypeOK
<1>5. AmountOf(UtxoSet, found) \in Nat
  <2>1. found \subseteq DOMAIN UtxoSet
    BY DEF OutputsOf
  <2>2. QED
    BY <1>4, <2>1, AmountInNat
<1>6. id[1] = txid /\ id[2] = CurrentHeight
  OBVIOUS
<1>7. KnownTxid(txid)' /\ \A i : KnownTxid(i) => KnownTxid(i)'
  BY <1>2, <1>3 DEF KnownTxid, KnownOutpoint, OutputsOf
<1>8. id \notin DOMAIN ExpiredReversals /\ id \notin DOMAIN ReversalVotes
  BY <1>2, <1>4 DEF RequestInv, ExpiredDated, VotesDated
<1> HIDE DEF id, found
<1>9. RequestsDated'
  <2>1. SUFFICES ASSUME NEW i \in DOMAIN ReversalRequests'
                 PROVE  /\ i = <<ReversalRequests'[i].target_txid, i[2]>>
                        /\ i[2] \in Nat
                        /\ i[2] <= CurrentHeight
                        /\ i[2] <= ReversalRequests'[i].expiry_block_height
                        /\ ReversalRequests'[i].amount \in Nat
                        /\ KnownTxid(i[1])'
    BY <1>3 DEF RequestsDated
  <2>2. CASE i \in DOMAIN ReversalRequests
    BY <1>2, <1>7, <2>2 DEF RequestInv, RequestsDated
  <2>3. CASE i = id
    BY <1>2, <1>4, <1>5, <1>6, <1>7, <2>3 DEF id
  <2>4. QED
    BY <1>2, <2>2, <2>3
<1>10. ExpiredDated' /\ VotesDated'
  BY <1>2, <1>3 DEF RequestInv, ExpiredDated, VotesDated
<1>11. /\ IsFiniteSet(DOMAIN ReversalRequests')
       /\ Cardinality(DOMAIN ReversalRequests') = Cardinality(DOMAIN ReversalRequests) + 1
       /\ Cardinality(DOMAIN ReversalRequests) \in Nat
  BY <1>2, FS_AddElement, FS_CardinalityType DEF RequestInv
<1>12. VotesCounted'
  <2>1. SUFFICES ASSUME NEW i \in DOMAIN ReversalRequests', IsPending(i)'
                 PROVE  ReversalRequests'[i].approval_count = Cardinality(VotesOn(i)')
    BY DEF VotesCounted
  <2>2. VotesOn(i)' = VotesOn(i)
    BY <1>3 DEF VotesOn
  <2>3. CASE i \in DOMAIN ReversalRequests
    BY <1>2, <2>1, <2>2, <2>3 DEF RequestInv, VotesCounted, IsPending
  <2>4. CASE i = id
    BY <1>2, <1>8, <2>2, <2>4, FS_EmptySet DEF VotesOn
  <2>5. QED
    BY <1>2, <2>3, <2>4
<1>13. RequestsAccounted'
  <2> DEFINE executed == {i \in DOMAIN ReversalRequests : ReversalRequests[i].status = "Executed"}
  <2>1. executed' = executed
    BY <1>2
  <2>2. DOMAIN ReversalRequests' \cap DOMAIN ExpiredReversals' = {}
    BY <1>2, <1>3, <1>8 DEF RequestInv, RequestsAccounted
  <2>3. TotalRequests' = Cardinality(DOMAIN ReversalRequests') + TotalExpired'
    BY <1>3, <1>4, <1>11 DEF RequestInv, RequestsAccounted
  <2>4. DOMAIN ExecutedReversals' = executed /\ TotalExecuted' = Cardinality(executed)
    BY <1>3 DEF RequestInv, RequestsAccounted
  <2> HIDE DEF executed
  <2>5. DOMAIN ExecutedReversals' = executed' /\ TotalExecuted' = Cardinality(executed')
    BY <2>1, <2>4
  <2>6. QED
    BY <2>2, <2>3, <2>5 DEF RequestsAccounted, executed
<1>14. QED
  BY <1>9, <1>10, <1>11, <1>12, <1>13 DEF RequestInv

\* What approve_reversal stores for a request it counts a vote on.
LEMMA VoteStored ==
    ASSUME RequestInv, NEW id, IsPending(id), NEW status,
           ReversalRequests' = Insert(ReversalRequests, id,
               [ReversalRequests[id] EXCEPT !.approval_count = @ + 1, !.status = status])
    PROVE  /\ DOMAIN ReversalRequests' = DOMAIN ReversalRequests
           /\ \A i \in DOMAIN ReversalRequests :
                  i # id => ReversalRequests'[i] = ReversalRequests[i]
           /\ ReversalRequests'[id].target_txid = ReversalRequests[id].target_txid
           /\ ReversalRequests'[id].amount = ReversalRequests[id].amount
           /\ ReversalRequests'[id].expiry_block_height
                  = ReversalRequests[id].expiry_block_height
           /\ ReversalRequests'[id].approval_count = ReversalRequests[id].approval_count + 1
           /\ ReversalRequests'[id].status = status
<1>1. id \in DOMAIN ReversalRequests /\ IsRequest(ReversalRequests[id])
  BY DEF IsPending, RequestInv, CoinInv, TypeOK, ReversibilityTypeOK
<1>2. PICK r : r = ReversalRequests[id] /\ IsRequest(r)
  BY <1>1
<1>3. ReversalRequests' = Insert(ReversalRequests, id,
          [r EXCEPT !.approval_count = @ + 1, !.status = status])
  BY <1>2
<1>4. PICK s : s = [r EXCEPT !.approval_count = @ + 1, !.status = status]
  OBVIOUS
<1>5. /\ s.target_txid = r.target_txid
      /\ s.amount = r.amount
      /\ s.expiry_block_height = r.expiry_block_height
      /\ s.approval_count = r.approval_count + 1
      /\ s.status = status
  BY <1>2, <1>4 DEF IsRequest
<1>6. QED
  BY <1>1, <1>2, <1>3, <1>4, <1>5 DEF Insert

\* RequestsDated, when no request is added and none changes what it is about.
LEMMA DatedKept ==
    ASSUME RequestInv, OutputsShrink,
           DOMAIN ReversalRequests' \subseteq DOMAIN ReversalRequests,
           \A i \in DOMAIN ReversalRequests' :
               /\ ReversalRequests'[i].target_txid = ReversalRequests[i].target_txid
               /\ ReversalRequests'[i].amount = ReversalRequests[i].amount
               /\ ReversalRequests'[i].expiry_block_height
                      = ReversalRequests[i].expiry_block_height
    PROVE  RequestsDated'
<1>1. CurrentHeight \in Nat /\ CurrentHeight' \in Nat /\ CurrentHeight' >= CurrentHeight
  BY DEF RequestInv, CoinInv, TypeOK, UtxoTypeOK, OutputsShrink
<1>2. SUFFICES ASSUME NEW i \in DOMAIN ReversalRequests'
               PROVE  /\ i = <<ReversalRequests'[i].target_txid, i[2]>>
                      /\ i[2] \in Nat
                      /\ i[2] <= CurrentHeight'
                      /\ i[2] <= ReversalRequests'[i].expiry_block_height
                      /\ ReversalRequests'[i].amount \in Nat
                      /\ KnownTxid(i[1])'
  BY DEF RequestsDated
<1>3. /\ i = <<ReversalRequests[i].target_txid, i[2]>>
      /\ i[2] \in Nat
      /\ i[2] <= CurrentHeight
      /\ i[2] <= ReversalRequests[i].expiry_block_height
      /\ ReversalRequests[i].amount \in Nat
      /\ KnownTxid(i[1])
  BY DEF RequestInv, RequestsDated
<1>4. KnownTxid(i[1])'
  BY <1>3 DEF KnownTxid, OutputsShrink
<1>5. QED
  BY <1>1, <1>3, <1>4

\* The votes on an id are a finite set.
LEMMA VotesFinite ==
    ASSUME RequestInv, NEW id
    PROVE  VotesOn(id) \subseteq Address /\ IsFiniteSet(VotesOn(id))
<1>1. VotesOn(id) \subseteq Address
  BY DEF RequestInv, VotesDated, VotesOn
<1>2. QED
  BY <1>1, KeyAssumption, FS_Subset

\* approve_reversal below the threshold.
LEMMA RequestVoted ==
    ASSUME RequestInv, CoinInv', OutputsShrink,
           NEW governor, NEW id, governor \in Governors, IsPending(id),
           governor \notin VotesOn(id), RecordVote(governor, id),
           UNCHANGED <<ExpiredReversals, TotalExpired, TotalRequests>>
    PROVE  RequestInv'
<1>1. PICK r : r = ReversalRequests[id]
  OBVIOUS
<1>2. id \in DOMAIN ReversalRequests /\ r.status = "Pending" /\ IsRequest(r)
  BY <1>1 DEF IsPending, RequestInv, CoinInv, TypeOK, ReversibilityTypeOK
<1>3. [r EXCEPT !.approval_count = @ + 1]
          = [r EXCEPT !.approval_count = @ + 1, !.status = "Pending"]
  BY <1>2 DEF IsRequest
<1>4. ReversalRequests' = Insert(ReversalRequests, id,
          [ReversalRequests[id] EXCEPT !.approval_count = @ + 1, !.status = "Pending"])
  BY <1>1, <1>3 DEF RecordVote
<1>5. /\ DOMAIN ReversalRequests' = DOMAIN ReversalRequests
      /\ \A i \in DOMAIN ReversalRequests :
             i # id => ReversalRequests'[i] = ReversalRequests[i]
      /\ ReversalRequests'[id].target_txid = ReversalRequests[id].target_txid
      /\ ReversalRequests'[id].amount = ReversalRequests[id].amount
      /\ ReversalRequests'[id].expiry_block_height
             = ReversalRequests[id].expiry_block_height
      /\ ReversalRequests'[id].approval_count = ReversalRequests[id].approval_count + 1
      /\ ReversalRequests'[id].status = "Pending"
  BY <1>4, VoteStored
<1>6. /\ ReversalVotes' = Insert(ReversalVotes, id, VotesOn(id) \cup {governor})
      /\ UNCHANGED <<ExecutedReversals, TotalExecuted, CurrentHeight>>
  BY DEF RecordVote, utxoVars
<1>7. RequestsDated'
  BY <1>5, DatedKept
<1>8. VotesOn(id) \subseteq Address /\ IsFiniteSet(VotesOn(id)) /\ governor \in Address
  BY VotesFinite DEF RequestInv, CoinInv, TypeOK, ReversibilityTypeOK
<1>9. /\ VotesOn(id)' = VotesOn(id) \cup {governor}
      /\ \A i : i # id => VotesOn(i)' = VotesOn(i)
  BY <1>6 DEF VotesOn, Insert
<1>10. ExpiredDated' /\ VotesDated'
  <2>1. ExpiredDated'
    BY <1>6 DEF RequestInv, ExpiredDated
  <2>2. DOMAIN ReversalVotes' = DOMAIN ReversalVotes \cup {id}
    BY <1>6 DEF Insert
  <2>3. \A i \in DOMAIN ReversalVotes' : ReversalVotes'[i] \subseteq Address
    BY <1>6, <1>8 DEF Insert, RequestInv, VotesDated
  <2>4. QED
    BY <1>2, <1>5, <1>6, <2>1, <2>2, <2>3 DEF RequestInv, VotesDated
<1>11. VotesCounted'
  <2>1. SUFFICES ASSUME NEW i \in DOMAIN ReversalRequests', IsPending(i)'
                 PROVE  ReversalRequests'[i].approval_count = Cardinality(VotesOn(i)')
    BY DEF VotesCounted
  <2>2. CASE i = id
    <3>1. Cardinality(VotesOn(id) \cup {governor}) = Cardinality(VotesOn(id)) + 1
      BY <1>8, FS_AddElement
    <3>2. ReversalRequests[id].approval_count = Cardinality(VotesOn(id))
      BY DEF RequestInv, VotesCounted, IsPending
    <3>3. QED
      BY <1>5, <1>9, <2>2, <3>1, <3>2
  <2>3. CASE i # id
    BY <1>5, <1>9, <2>1, <2>3 DEF RequestInv, VotesCounted, IsPending
  <2>4. QED
    BY <2>2, <2>3
<1>12. RequestsAccounted'
  <2> DEFINE executed == {i \in DOMAIN ReversalRequests : ReversalRequests[i].status = "Executed"}
  <2>1. executed' = executed
    BY <1>1, <1>2, <1>5
  <2>2. /\ DOMAIN ExecutedReversals = executed
        /\ TotalExecuted = Cardinality(executed)
        /\ TotalRequests = Cardinality(DOMAIN ReversalRequests) + TotalExpired
        /\ DOMAIN ReversalRequests \cap DOMAIN ExpiredReversals = {}
    BY DEF RequestInv, RequestsAccounted
  <2> HIDE DEF executed
  <2>3. /\ DOMAIN ExecutedReversals' = executed'
        /\ TotalExecuted' = Cardinality(executed')
        /\ TotalRequests' = Cardinality(DOMAIN ReversalRequests') + TotalExpired'
        /\ DOMAIN ReversalRequests' \cap DOMAIN ExpiredReversals' = {}
    BY <1>5, <1>6, <2>1, <2>2
  <2>4. QED
    BY <2>3 DEF RequestsAccounted, executed
<1>13. IsFiniteSet(DOMAIN ReversalRequests')
  BY <1>5 DEF RequestInv
<1>14. QED
  BY <1>7, <1>10, <1>11, <1>12, <1>13 DEF RequestInv

\* approve_reversal at the threshold: the request joins the executed ones.
LEMMA RequestExecuted ==
    ASSUME RequestInv, CoinInv', OutputsShrink,
           NEW id, IsPending(id), VoteAndExecute(id),
           UNCHANGED <<ExpiredReversals, TotalExpired, TotalRequests>>
    PROVE  RequestInv'
<1>1. id \in DOMAIN ReversalRequests /\ ReversalRequests[id].status = "Pending"
  BY DEF IsPending
<1>2. ReversalRequests' = Insert(ReversalRequests, id,
          [ReversalRequests[id] EXCEPT !.approval_count = @ + 1, !.status = "Executed"])
  BY DEF VoteAndExecute
<1>3. /\ DOMAIN ReversalRequests' = DOMAIN ReversalRequests
      /\ \A i \in DOMAIN ReversalRequests :
             i # id => ReversalRequests'[i] = ReversalRequests[i]
      /\ ReversalRequests'[id].target_txid = ReversalRequests[id].target_txid
      /\ ReversalRequests'[id].amount = ReversalRequests[id].amount
      /\ ReversalRequests'[id].expiry_block_height
             = ReversalRequests[id].expiry_block_height
      /\ ReversalRequests'[id].approval_count = ReversalRequests[id].approval_count + 1
      /\ ReversalRequests'[id].status = "Executed"
  BY <1>2, VoteStored
<1>4. /\ ReversalVotes' = Remove(ReversalVotes, {id})
      /\ DOMAIN ExecutedReversals' = DOMAIN ExecutedReversals \cup {id}
      /\ TotalExecuted' = TotalExecuted + 1
      /\ UNCHANGED CurrentHeight
  BY DEF VoteAndExecute, ReturnFunds, Insert
<1>5. RequestsDated'
  BY <1>3, DatedKept
<1>6. /\ DOMAIN ReversalVotes' = DOMAIN ReversalVotes \ {id}
      /\ \A i \in DOMAIN ReversalVotes' : ReversalVotes'[i] = ReversalVotes[i]
  BY <1>4 DEF Remove, Restrict
<1>7. ExpiredDated' /\ VotesDated'
  <2>1. ExpiredDated'
    BY <1>4 DEF RequestInv, ExpiredDated
  <2>2. QED
    BY <1>3, <1>4, <1>6, <2>1 DEF RequestInv, VotesDated
<1>8. VotesCounted'
  <2>1. SUFFICES ASSUME NEW i \in DOMAIN ReversalRequests', IsPending(i)'
                 PROVE  ReversalRequests'[i].approval_count = Cardinality(VotesOn(i)')
    BY DEF VotesCounted
  <2>2. i # id
    BY <1>3, <2>1 DEF IsPending
  <2>3. VotesOn(i)' = VotesOn(i)
    BY <1>6, <2>2 DEF VotesOn
  <2>4. QED
    BY <1>3, <2>1, <2>2, <2>3 DEF RequestInv, VotesCounted, IsPending
<1>9. RequestsAccounted'
  <2> DEFINE executed == {i \in DOMAIN ReversalRequests : ReversalRequests[i].status = "Executed"}
  <2>1. executed' = executed \cup {id} /\ id \notin executed
    BY <1>1, <1>3
  <2>2. /\ DOMAIN ExecutedReversals = executed
        /\ TotalExecuted = Cardinality(executed)
        /\ TotalRequests = Cardinality(DOMAIN ReversalRequests) + TotalExpired
        /\ DOMAIN ReversalRequests \cap DOMAIN ExpiredReversals = {}
    BY DEF RequestInv, RequestsAccounted
  <2>3. IsFiniteSet(executed)
    <3>1. executed \subseteq DOMAIN ReversalRequests
      OBVIOUS
    <3> HIDE DEF executed
    <3>2. QED
      BY <3>1, FS_Subset DEF RequestInv
  <2> HIDE DEF executed
  <2>4. Cardinality(executed \cup {id}) = Cardinality(executed) + 1
    BY <2>1, <2>3, FS_AddElement
  <2>5. /\ DOMAIN ExecutedReversals' = executed'
        /\ TotalExecuted' = Cardinality(executed')
        /\ TotalRequests' = Cardinality(DOMAIN ReversalRequests') + TotalExpired'
        /\ DOMAIN ReversalRequests' \cap DOMAIN ExpiredReversals' = {}
    BY <1>3, <1>4, <2>1, <2>2, <2>4
  <2>6. QED
    BY <2>5 DEF RequestsAccounted, executed
<1>10. IsFiniteSet(DOMAIN ReversalRequests')
  BY <1>3 DEF RequestInv
<1>11. QED
  BY <1>5, <1>7, <1>8, <1>9, <1>10 DEF RequestInv

\* A request expires, by a late vote (its votes stay) or by expire_request.
LEMMA RequestExpired ==
    ASSUME RequestInv, CoinInv', OutputsShrink, NEW id, IsPending(id),
           CurrentHeight > ReversalRequests[id].expiry_block_height,
           MoveToExpired(id),
           \/ UNCHANGED ReversalVotes
           \/ ReversalVotes' = Remove(ReversalVotes, {id}),
           UNCHANGED <<ExecutedReversals, TotalRequests, TotalExecuted, CurrentHeight>>
    PROVE  RequestInv'
<1>1. id \in DOMAIN ReversalRequests /\ ReversalRequests[id].status = "Pending"
  BY DEF IsPending
<1>2. /\ DOMAIN ReversalRequests' = DOMAIN ReversalRequests \ {id}
      /\ \A i \in DOMAIN ReversalRequests' : ReversalRequests'[i] = ReversalRequests[i]
      /\ DOMAIN ExpiredReversals' = DOMAIN ExpiredReversals \cup {id}
      /\ TotalExpired' = TotalExpired + 1
  BY DEF MoveToExpired, Insert, Remove, Restrict
<1>3. /\ DOMAIN ReversalVotes' \subseteq DOMAIN ReversalVotes
      /\ DOMAIN ReversalVotes \ {id} \subseteq DOMAIN ReversalVotes'
      /\ \A i \in DOMAIN ReversalVotes' : ReversalVotes'[i] = ReversalVotes[i]
  BY DEF Remove, Restrict
<1>4. id[2] \in Nat /\ id[2] < CurrentHeight
  <2>1. /\ CurrentHeight \in Nat
        /\ IsRequest(ReversalRequests[id])
    BY <1>1 DEF RequestInv, CoinInv, TypeOK, UtxoTypeOK, ReversibilityTypeOK
  <2>2. /\ id[2] \in Nat
        /\ id[2] <= ReversalRequests[id].expiry_block_height
    BY <1>1 DEF RequestInv, RequestsDated
  <2>3. ReversalRequests[id].expiry_block_height \in Nat
    BY <2>1 DEF IsRequest
  <2>4. QED
    BY <2>1, <2>2, <2>3
<1>5. RequestsDated'
  BY <1>2, DatedKept
<1>6. ExpiredDated' /\ VotesDated'
  BY <1>2, <1>3, <1>4 DEF RequestInv, ExpiredDated, VotesDated
<1>7. VotesCounted'
  <2>1. SUFFICES ASSUME NEW i \in DOMAIN ReversalRequests', IsPending(i)'
                 PROVE  ReversalRequests'[i].approval_count = Cardinality(VotesOn(i)')
    BY DEF VotesCounted
  <2>2. VotesOn(i)' = VotesOn(i)
    BY <1>2, <1>3 DEF VotesOn
  <2>3. QED
    BY <1>2, <2>1, <2>2 DEF RequestInv, VotesCounted, IsPending
<1>8. /\ IsFiniteSet(DOMAIN ReversalRequests')
      /\ Cardinality(DOMAIN ReversalRequests') = Cardinality(DOMAIN ReversalRequests) - 1
      /\ Cardinality(DOMAIN ReversalRequests) \in Nat
  BY <1>1, <1>2, FS_RemoveElement, FS_CardinalityType DEF RequestInv
<1>9. RequestsAccounted'
  <2> DEFINE executed == {i \in DOMAIN ReversalRequests : ReversalRequests[i].status = "Executed"}
  <2>1. executed' = executed
    BY <1>1, <1>2
  <2>2. /\ DOMAIN ExecutedReversals = executed
        /\ TotalExecuted = Cardinality(executed)
        /\ TotalRequests = Cardinality(DOMAIN ReversalRequests) + TotalExpired
        /\ DOMAIN ReversalRequests \cap DOMAIN ExpiredReversals = {}
    BY DEF RequestInv, RequestsAccounted
  <2>3. TotalExpired \in Nat
    BY DEF RequestInv, CoinInv, TypeOK, ReversibilityTypeOK
  <2> HIDE DEF executed
  <2>4. TotalRequests' = Cardinality(DOMAIN ReversalRequests') + TotalExpired'
    BY <1>2, <1>8, <2>2, <2>3
  <2>5. /\ DOMAIN ExecutedReversals' = executed'
        /\ TotalExecuted' = Cardinality(executed')
        /\ DOMAIN ReversalRequests' \cap DOMAIN ExpiredReversals' = {}
    BY <1>2, <2>1, <2>2
  <2>6. QED
    BY <2>4, <2>5 DEF RequestsAccounted, executed
<1>10. QED
  BY <1>5, <1>6, <1>7, <1>8, <1>9 DEF RequestInv

\* Every step preserves RequestInv.
LEMMA RequestStep == RequestInv /\ [Next]_vars => RequestInv'
<1> SUFFICES ASSUME RequestInv, [Next]_vars PROVE RequestInv'
  OBVIOUS
<1>1. CoinInv' /\ OutputsShrink
  BY CoinStep, ShrinkStep DEF RequestInv
<1>2. ASSUME UNCHANGED reversibilityVars PROVE RequestInv'
  BY <1>1, <1>2, RequestFrame DEF reversibilityVars
<1>3. CASE StartBlock
  BY <1>2, <1>3 DEF StartBlock, NewBlock
<1>4. CASE CallRegisterKey \/ CallSudoRegisterKey \/ CallRevokeKey
  BY <1>2, <1>4 DEF CallRegisterKey, CallSudoRegisterKey, CallRevokeKey, KeyCall
<1>5. CASE CallTransaction \/ CallMiningProof
  BY <1>2, <1>5 DEF CallTransaction, CallMiningProof
<1>6. CASE CallReversalRequest
  BY <1>1, <1>6, RequestSubmitted
<1>7. CASE CallApprove
  <2>1. PICK governor, id : ApproveReversal(governor, id)
    BY <1>7 DEF CallApprove
  <2>2. /\ governor \in Governors /\ IsPending(id)
        /\ UNCHANGED TotalRequests
    BY <2>1 DEF ApproveReversal
  <2>3. CASE ApproveTooLate(id)
    BY <1>1, <2>2, <2>3, RequestExpired DEF ApproveTooLate, utxoVars
  <2>4. CASE ApproveInTime(governor, id)
    BY <1>1, <2>2, <2>4, RequestVoted, RequestExecuted DEF ApproveInTime
  <2>5. QED
    BY <2>1, <2>3, <2>4 DEF ApproveReversal
<1>8. CASE CallExpire
  <2>1. PICK id : ExpireRequest(id)
    BY <1>8 DEF CallExpire
  <2>2. QED
    BY <1>1, <2>1, RequestExpired DEF ExpireRequest, utxoVars
<1>9. CASE CallAddGovernor \/ CallRemoveGovernor \/ CallSetWindow \/ CallSetThreshold
  <2>1. governanceUnchanged
    BY <1>9 DEF CallAddGovernor, CallRemoveGovernor, CallSetWindow,
                CallSetThreshold, AddGovernor, RemoveGovernor, SetReversalWindow,
                SetApprovalThreshold
  <2>2. QED
    BY <1>1, <2>1, RequestFrame DEF governanceUnchanged
<1>10. CASE CallPrune
  <2>1. PICK age, entries : PruneExpiredReversals(age, entries)
    BY <1>10 DEF CallPrune
  <2>2. /\ UNCHANGED <<ReversalRequests, ReversalVotes, ExecutedReversals,
                       TotalRequests, TotalExecuted, TotalExpired>>
        /\ \E pruned : ExpiredReversals' = Remove(ExpiredReversals, pruned)
    BY <2>1 DEF PruneExpiredReversals
  <2>3. DOMAIN ExpiredReversals' \subseteq DOMAIN ExpiredReversals
    BY <2>2 DEF Remove, Restrict
  <2>4. QED
    BY <1>1, <2>2, <2>3, RequestFrame
<1>11. CASE UNCHANGED vars
  BY <1>2, <1>11 DEF vars
<1>12. QED
  BY <1>3, <1>4, <1>5, <1>6, <1>7, <1>8, <1>9, <1>10, <1>11 DEF Next

\* RequestInv holds in every reachable state.
LEMMA RequestInvariant == Spec => []RequestInv
BY RequestInit, RequestStep, PTL DEF Spec

\* The approval count of a pending request, which approve_reversal compares
\* with the threshold, is the number of governors whose votes are stored, in
\* every instance: no governor counts twice, and the votes an expired request
\* leaves behind are never counted for another.
THEOREM VotesAreCounted == Spec => []VotesCounted
<1>1. RequestInv => VotesCounted
  BY DEF RequestInv
<1>2. QED
  BY <1>1, RequestInvariant, PTL

\* The counters of qbc-reversibility say how many requests were made, executed
\* and expired, the executed ones are those with a record of execution, and no
\* id is both kept and archived, in every instance: neither a vote after the
\* expiry nor expire_request nor pruning loses a request or counts one twice.
THEOREM RequestsStayAccounted == Spec => []RequestsAccounted
<1>1. RequestInv => RequestsAccounted
  BY DEF RequestInv
<1>2. QED
  BY <1>1, RequestInvariant, PTL

-----------------------------------------------------------------------------
(* No money is returned twice *)

\* What is left to take back from the target of a request: nothing once a
\* reversal of it was executed, and no more than the request asked for before.
Covered(id) ==
    IF ExecutedOn(id[1]) = {}
    THEN AmountOf(UtxoSet, Reversible(id[1])) <= ReversalRequests[id].amount
    ELSE Reversible(id[1]) = {}

\* Every request covers what is left to take back.
RequestsCover == \A id \in DOMAIN ReversalRequests : Covered(id)

\* What the executed reversals of one transaction returned.
ReturnedWithin(txid, i) ==
    AmountOf(ExecutedReversals, ExecutedOn(txid)) <= ReversalRequests[i].amount

\* Of the reversals of a transaction, one asked for as much as all returned.
RefundsBounded ==
    \A id \in DOMAIN ExecutedReversals :
        \E i \in ExecutedOn(id[1]) : ReturnedWithin(id[1], i)

\* The inductive invariant on refunds.
RefundInv ==
    /\ RequestInv
    /\ RequestsCover
    /\ \A id \in DOMAIN ExecutedReversals : ExecutedReversals[id].amount \in Nat
    /\ RefundsBounded

\* RefundsBounded gives NeverReversedTwice.
LEMMA RefundsBoundedIs == RefundsBounded => NeverReversedTwice
BY DEF RefundsBounded, ReturnedWithin, NeverReversedTwice, AmountOf, ExecutedOn

\* Nothing is reversed in the genesis state.
LEMMA RefundInit == Init => RefundInv
<1> SUFFICES ASSUME Init PROVE RefundInv
  OBVIOUS
<1>1. DOMAIN ReversalRequests = {} /\ DOMAIN ExecutedReversals = {}
  BY DEF Init, ReversibilityInit, NoEntries
<1>2. QED
  BY <1>1, RequestInit DEF RefundInv, RequestsCover, RefundsBounded

\* A request that stays stays covered, if none is executed.
LEMMA CoveredKept ==
    ASSUME RefundInv, OutputsShrink, UNCHANGED ExecutedReversals,
           NEW id \in DOMAIN ReversalRequests,
           ReversalRequests'[id].amount = ReversalRequests[id].amount
    PROVE  Covered(id)'
<1>1. ExecutedOn(id[1])' = ExecutedOn(id[1])
  BY DEF ExecutedOn
<1>2. KnownTxid(id[1]) /\ ReversalRequests[id].amount \in Nat
  BY DEF RefundInv, RequestInv, RequestsDated
<1>3. /\ Reversible(id[1])' \subseteq Reversible(id[1])
      /\ AmountOf(UtxoSet, Reversible(id[1])) \in Nat
      /\ AmountOf(UtxoSet, Reversible(id[1]))' \in Nat
      /\ AmountOf(UtxoSet, Reversible(id[1]))' <= AmountOf(UtxoSet, Reversible(id[1]))
  BY <1>2, ReversibleShrinks DEF RefundInv, RequestInv
<1>4. Covered(id)
  BY DEF RefundInv, RequestsCover
<1>5. CASE ExecutedOn(id[1]) = {}
  <2>1. AmountOf(UtxoSet, Reversible(id[1])) <= ReversalRequests[id].amount
    BY <1>4, <1>5 DEF Covered
  <2>2. AmountOf(UtxoSet, Reversible(id[1]))' <= ReversalRequests'[id].amount
    BY <1>2, <1>3, <2>1
  <2>3. QED
    BY <1>1, <1>5, <2>2 DEF Covered
<1>6. CASE ExecutedOn(id[1]) # {}
  BY <1>1, <1>3, <1>4, <1>6 DEF Covered
<1>7. QED
  BY <1>5, <1>6

\* No reversal is executed and no amount changes.
LEMMA RefundFrame ==
    ASSUME RefundInv, RequestInv', OutputsShrink, UNCHANGED ExecutedReversals,
           \A i \in DOMAIN ReversalRequests' \cap DOMAIN ReversalRequests :
               ReversalRequests'[i].amount = ReversalRequests[i].amount,
           \A i \in DOMAIN ReversalRequests' \ DOMAIN ReversalRequests : Covered(i)'
    PROVE  RefundInv'
<1>1. RequestsCover'
  BY CoveredKept DEF RequestsCover
<1>2. DOMAIN ExecutedReversals \subseteq DOMAIN ReversalRequests \cap DOMAIN ReversalRequests'
  <2>1. DOMAIN ExecutedReversals \subseteq DOMAIN ReversalRequests
    BY DEF RefundInv, RequestInv, RequestsAccounted
  <2>2. DOMAIN ExecutedReversals' \subseteq DOMAIN ReversalRequests'
    BY DEF RequestInv, RequestsAccounted
  <2>3. QED
    BY <2>1, <2>2
<1>3. RefundsBounded'
  BY <1>2 DEF RefundInv, RefundsBounded, ReturnedWithin, ExecutedOn, AmountOf
<1>4. QED
  BY <1>1, <1>3 DEF RefundInv

\* submit_reversal_request asks for everything that is left.
LEMMA RefundSubmitted ==
    ASSUME RefundInv, RequestInv', OutputsShrink, CallReversalRequest
    PROVE  RefundInv'
<1>1. PICK txid, sender : SubmitReversalRequest(txid, sender)
  BY DEF CallReversalRequest
<1>2. PICK id, found : id = <<txid, CurrentHeight>> /\ found = OutputsOf(txid)
  OBVIOUS
<1>3. /\ DOMAIN ReversalRequests' = DOMAIN ReversalRequests \cup {id}
      /\ \A i \in DOMAIN ReversalRequests : ReversalRequests'[i] = ReversalRequests[i]
      /\ ReversalRequests'[id].amount = AmountOf(UtxoSet, found)
  BY <1>1, <1>2 DEF SubmitReversalRequest, Insert, compute_request_id
<1>4. /\ found # {}
      /\ \A k \in found : ~ UtxoSet[k].is_coinbase /\ k \notin FrozenUtxos
      /\ UNCHANGED <<ExecutedReversals, UtxoSet, FrozenUtxos>>
  BY <1>1, <1>2 DEF SubmitReversalRequest, utxoVars
<1>5. Reversible(txid) = found /\ Reversible(txid)' = found /\ id[1] = txid
  BY <1>2, <1>4 DEF Reversible, OutputsOf
<1>6. ExecutedOn(txid) = {}
  <2>1. SUFFICES ASSUME NEW i \in DOMAIN ExecutedReversals, i[1] = txid PROVE FALSE
    BY DEF ExecutedOn
  <2>2. i \in DOMAIN ReversalRequests
    BY DEF RefundInv, RequestInv, RequestsAccounted
  <2>3. Covered(i) /\ i \in ExecutedOn(i[1])
    BY <2>2 DEF RefundInv, RequestsCover, ExecutedOn
  <2>4. QED
    BY <1>4, <1>5, <2>1, <2>3 DEF Covered
<1>7. AmountOf(UtxoSet, found) \in Nat
  <2>1. found \subseteq DOMAIN UtxoSet
    BY <1>2 DEF OutputsOf
  <2>2. Countable(UtxoSet)
    BY LedgerCountable DEF RefundInv, RequestInv, CoinInv
  <2>3. QED
    BY <2>1, <2>2, AmountInNat
<1>8. Covered(id)'
  <2>1. ExecutedOn(txid)' = {}
    BY <1>4, <1>6 DEF ExecutedOn
  <2>2. AmountOf(UtxoSet, Reversible(txid))' = AmountOf(UtxoSet, found)
    BY <1>4, <1>5
  <2>3. AmountOf(UtxoSet, Reversible(id[1]))' <= ReversalRequests'[id].amount
    BY <1>3, <1>5, <1>7, <2>2
  <2>4. QED
    BY <1>5, <2>1, <2>3 DEF Covered
<1>9. QED
  BY <1>3, <1>4, <1>8, RefundFrame

\* Executing a request.
LEMMA RefundExecuted ==
    ASSUME RefundInv, RequestInv', OutputsShrink,
           NEW id, IsPending(id), VoteAndExecute(id)
    PROVE  RefundInv'
<1>1. PICK txid : txid = id[1]
  OBVIOUS
<1>2. PICK taken : taken = Reversible(txid)
  OBVIOUS
<1>3. PICK total : total = Saturate(AmountOf(UtxoSet, taken))
  OBVIOUS
<1>4. /\ id \in DOMAIN ReversalRequests
      /\ ReversalRequests[id].target_txid = txid
      /\ ReversalRequests[id].amount \in Nat
      /\ KnownTxid(txid)
      /\ id \notin DOMAIN ExecutedReversals
      /\ IsRequest(ReversalRequests[id])
  <2>1. id \in DOMAIN ReversalRequests /\ ReversalRequests[id].status = "Pending"
    BY DEF IsPending
  <2>2. id \notin DOMAIN ExecutedReversals
    BY <2>1 DEF RefundInv, RequestInv, RequestsAccounted
  <2>3. /\ id = <<ReversalRequests[id].target_txid, id[2]>>
        /\ ReversalRequests[id].amount \in Nat
        /\ KnownTxid(id[1])
    BY <2>1 DEF RefundInv, RequestInv, RequestsDated
  <2>4. QED
    BY <1>1, <2>1, <2>2, <2>3 DEF RefundInv, RequestInv, CoinInv, TypeOK, ReversibilityTypeOK
<1>5. /\ DOMAIN ReversalRequests' = DOMAIN ReversalRequests
      /\ \A i \in DOMAIN ReversalRequests :
             ReversalRequests'[i].amount = ReversalRequests[i].amount
  <2>1. ReversalRequests' = Insert(ReversalRequests, id,
            [ReversalRequests[id] EXCEPT !.approval_count = @ + 1, !.status = "Executed"])
    BY DEF VoteAndExecute
  <2>2. /\ DOMAIN ReversalRequests' = DOMAIN ReversalRequests
        /\ \A i \in DOMAIN ReversalRequests :
               i # id => ReversalRequests'[i] = ReversalRequests[i]
        /\ ReversalRequests'[id].amount = ReversalRequests[id].amount
    BY <2>1, VoteStored DEF RefundInv
  <2>3. QED
    BY <2>2
<1>6. /\ FrozenUtxos' = FrozenUtxos \cup taken
      /\ DOMAIN ExecutedReversals' = DOMAIN ExecutedReversals \cup {id}
      /\ ExecutedReversals'[id].amount = total
      /\ \A i \in DOMAIN ExecutedReversals : ExecutedReversals'[i] = ExecutedReversals[i]
  <2>1. PICK r : r = [ReversalRequests[id] EXCEPT !.approval_count = @ + 1, !.status = "Executed"]
    OBVIOUS
  <2>2. r.target_txid = txid
    BY <1>4, <2>1 DEF IsRequest
  <2>3. ReturnFunds(id, r)
    BY <2>1 DEF VoteAndExecute
  <2>4. /\ FrozenUtxos' = FrozenUtxos \cup taken
        /\ ExecutedReversals' = Insert(ExecutedReversals, id,
               [amount |-> total, original_txid |-> txid,
                execution_block_height |-> CurrentHeight])
    BY <1>2, <1>3, <2>2, <2>3 DEF ReturnFunds, total_reversed
  <2>5. QED
    BY <1>4, <2>4 DEF Insert
<1>7. total \in Nat /\ AmountOf(UtxoSet, taken) \in Nat /\ total <= AmountOf(UtxoSet, taken)
  <2>1. Countable(UtxoSet) /\ taken \subseteq DOMAIN UtxoSet
    BY <1>2, LedgerCountable DEF RefundInv, RequestInv, CoinInv, Reversible, OutputsOf
  <2>2. AmountOf(UtxoSet, taken) \in Nat
    BY <2>1, AmountInNat
  <2>3. QED
    BY <1>3, <2>2, MaxBalanceAssumption DEF Saturate, QbcBalance
<1>8. Reversible(txid)' = {}
  <2>1. Reversible(txid)' \subseteq taken
    BY <1>2, <1>4, ReversibleShrinks DEF RefundInv, RequestInv
  <2>2. QED
    BY <1>6, <2>1 DEF Reversible
<1>9. /\ ExecutedOn(txid)' = ExecutedOn(txid) \cup {id}
      /\ \A t : t # txid => ExecutedOn(t)' = ExecutedOn(t)
  BY <1>1, <1>6 DEF ExecutedOn
<1>10. RequestsCover'
  <2>1. SUFFICES ASSUME NEW i \in DOMAIN ReversalRequests PROVE Covered(i)'
    BY <1>5 DEF RequestsCover
  <2>2. CASE i[1] = txid
    BY <1>8, <1>9, <2>2 DEF Covered
  <2>3. CASE i[1] # txid
    <3>1. ExecutedOn(i[1])' = ExecutedOn(i[1])
      BY <1>9, <2>3
    <3>2. KnownTxid(i[1]) /\ ReversalRequests[i].amount \in Nat
      BY <2>1 DEF RefundInv, RequestInv, RequestsDated
    <3>3. /\ Reversible(i[1])' \subseteq Reversible(i[1])
          /\ AmountOf(UtxoSet, Reversible(i[1])) \in Nat
          /\ AmountOf(UtxoSet, Reversible(i[1]))' \in Nat
          /\ AmountOf(UtxoSet, Reversible(i[1]))' <= AmountOf(UtxoSet, Reversible(i[1]))
      BY <3>2, ReversibleShrinks DEF RefundInv, RequestInv
    <3>4. Covered(i)
      BY <2>1 DEF RefundInv, RequestsCover
    <3>5. CASE ExecutedOn(i[1]) = {}
      <4>1. AmountOf(UtxoSet, Reversible(i[1])) <= ReversalRequests[i].amount
        BY <3>4, <3>5 DEF Covered
      <4>2. AmountOf(UtxoSet, Reversible(i[1]))' <= ReversalRequests'[i].amount
        BY <1>5, <3>2, <3>3, <4>1
      <4>3. QED
        BY <3>1, <3>5, <4>2 DEF Covered
    <3>6. CASE ExecutedOn(i[1]) # {}
      BY <3>1, <3>3, <3>4, <3>6 DEF Covered
    <3>7. QED
      BY <3>5, <3>6
  <2>4. QED
    BY <2>2, <2>3
<1>11. \A i \in DOMAIN ExecutedReversals' : ExecutedReversals'[i].amount \in Nat
  BY <1>6, <1>7 DEF RefundInv
<1>12. /\ Countable(ExecutedReversals')
       /\ DOMAIN ExecutedReversals \subseteq DOMAIN ReversalRequests
  <2>1. DOMAIN ExecutedReversals' \subseteq DOMAIN ReversalRequests'
    BY DEF RequestInv, RequestsAccounted
  <2>2. IsFiniteSet(DOMAIN ReversalRequests')
    BY DEF RequestInv
  <2>3. IsFiniteSet(DOMAIN ExecutedReversals')
    BY <2>1, <2>2, FS_Subset
  <2>4. QED
    BY <1>5, <1>6, <1>11, <2>1, <2>3 DEF Countable
<1>13. RefundsBounded'
  <2>1. PICK after : after = ExecutedReversals'
    OBVIOUS
  <2>2. \A t : AmountOf(after, ExecutedOn(t)) = AmountOf(ExecutedReversals, ExecutedOn(t))
    BY <1>6, <2>1, AmountSame DEF ExecutedOn
  <2>3. \E i \in ExecutedOn(txid)' : ReturnedWithin(txid, i)'
    <3>1. PICK on : on = ExecutedOn(txid)
      OBVIOUS
    <3>2. /\ AmountOf(after, on \cup {id}) = AmountOf(after, on) + AmountOf(after, {id})
          /\ AmountOf(after, on) \in Nat
      <4>1. on \cup {id} \subseteq DOMAIN after /\ id \notin on
        BY <1>4, <1>6, <2>1, <3>1 DEF ExecutedOn
      <4>2. (on \cup {id}) \ on = {id}
        BY <4>1
      <4>3. PICK both : both = on \cup {id}
        OBVIOUS
      <4>4. Countable(after) /\ both \subseteq DOMAIN after /\ on \subseteq both
        BY <1>12, <2>1, <4>1, <4>3
      <4>5. AmountOf(after, both) = AmountOf(after, on) + AmountOf(after, both \ on)
        BY <4>4, AmountSplit
      <4>6. QED
        BY <4>1, <4>2, <4>3, <4>4, <4>5, AmountInNat
    <3>3. AmountOf(after, {id}) = total
      BY <1>6, <1>12, <2>1, OneAmount
    <3>4. Covered(id)
      BY <1>4 DEF RefundInv, RequestsCover
    <3>5. CASE on = {}
      <4>1. AmountOf(after, on) = 0
        BY <3>5, AmountEmpty
      <4>2. total <= ReversalRequests[id].amount
        BY <1>1, <1>2, <1>4, <1>7, <3>1, <3>4, <3>5 DEF Covered
      <4>3. AmountOf(after, on \cup {id}) <= ReversalRequests'[id].amount
        BY <1>4, <1>5, <1>7, <3>2, <3>3, <4>1, <4>2
      <4>4. QED
        BY <1>9, <2>1, <3>1, <4>3 DEF ReturnedWithin
    <3>6. CASE on # {}
      <4>1. taken = {}
        BY <1>1, <1>2, <3>1, <3>4, <3>6 DEF Covered
      <4>2. total = 0
        BY <1>7, <4>1, AmountEmpty
      <4>3. PICK j \in ExecutedOn(txid) : ReturnedWithin(txid, j)
        BY <3>1, <3>6 DEF RefundInv, RefundsBounded, ExecutedOn
      <4>4. AmountOf(after, on) <= ReversalRequests[j].amount
        BY <2>2, <3>1, <4>3 DEF ReturnedWithin
      <4>5. j \in DOMAIN ReversalRequests
        BY <1>12, <4>3 DEF ExecutedOn
      <4>6. AmountOf(after, on \cup {id}) = AmountOf(after, on)
        BY <3>2, <3>3, <4>2
      <4>7. AmountOf(after, on \cup {id}) <= ReversalRequests'[j].amount
        BY <1>5, <4>4, <4>5, <4>6
      <4>8. QED
        BY <1>9, <2>1, <3>1, <4>3, <4>7 DEF ReturnedWithin
    <3>7. QED
      BY <3>5, <3>6
  <2>4. ASSUME NEW i \in DOMAIN ExecutedReversals', i[1] # txid
        PROVE  \E j \in ExecutedOn(i[1])' : ReturnedWithin(i[1], j)'
    <3>1. i \in DOMAIN ExecutedReversals /\ ExecutedOn(i[1])' = ExecutedOn(i[1])
      BY <1>1, <1>6, <1>9, <2>4
    <3>2. PICK j \in ExecutedOn(i[1]) : ReturnedWithin(i[1], j)
      BY <3>1 DEF RefundInv, RefundsBounded
    <3>3. j \in DOMAIN ReversalRequests
      BY <1>12, <3>2 DEF ExecutedOn
    <3>4. AmountOf(after, ExecutedOn(i[1])) <= ReversalRequests'[j].amount
      BY <1>5, <2>2, <3>2, <3>3 DEF ReturnedWithin
    <3>5. QED
      BY <2>1, <3>1, <3>2, <3>4 DEF ReturnedWithin
  <2>5. QED
    BY <2>3, <2>4 DEF RefundsBounded
<1>14. QED
  BY <1>10, <1>11, <1>13 DEF RefundInv

\* Every step preserves RefundInv.
LEMMA RefundStep == RefundInv /\ [Next]_vars => RefundInv'
<1> SUFFICES ASSUME RefundInv, [Next]_vars PROVE RefundInv'
  OBVIOUS
<1>1. RequestInv' /\ OutputsShrink
  BY RequestStep, ShrinkStep DEF RefundInv, RequestInv
<1>2. ASSUME UNCHANGED <<ReversalRequests, ExecutedReversals>> PROVE RefundInv'
  BY <1>1, <1>2, RefundFrame
<1>3. CASE StartBlock
  BY <1>2, <1>3 DEF StartBlock, NewBlock, reversibilityVars
<1>4. CASE CallRegisterKey \/ CallSudoRegisterKey \/ CallRevokeKey
  BY <1>2, <1>4 DEF CallRegisterKey, CallSudoRegisterKey, CallRevokeKey, KeyCall,
                    reversibilityVars
<1>5. CASE CallTransaction \/ CallMiningProof
  BY <1>2, <1>5 DEF CallTransaction, CallMiningProof, reversibilityVars
<1>6. CASE CallReversalRequest
  BY <1>1, <1>6, RefundSubmitted
<1>7. ASSUME NEW id, MoveToExpired(id), UNCHANGED ExecutedReversals PROVE RefundInv'
  <2>1. /\ DOMAIN ReversalRequests' \subseteq DOMAIN ReversalRequests
        /\ \A i \in DOMAIN ReversalRequests' : ReversalRequests'[i] = ReversalRequests[i]
    BY <1>7 DEF MoveToExpired, Remove, Restrict
  <2>2. QED
    BY <1>1, <1>7, <2>1, RefundFrame
<1>8. CASE CallApprove
  <2>1. PICK governor, id : ApproveReversal(governor, id)
    BY <1>8 DEF CallApprove
  <2>2. IsPending(id)
    BY <2>1 DEF ApproveReversal
  <2>3. CASE ApproveTooLate(id)
    BY <1>7, <2>3 DEF ApproveTooLate
  <2>4. CASE RecordVote(governor, id)
    <3>1. UNCHANGED ExecutedReversals
      BY <2>4 DEF RecordVote
    <3>2. PICK r : r = ReversalRequests[id] /\ IsRequest(r)
      BY <2>2 DEF IsPending, RefundInv, RequestInv, CoinInv, TypeOK, ReversibilityTypeOK
    <3>3. ReversalRequests' = Insert(ReversalRequests, id, [r EXCEPT !.approval_count = @ + 1])
      BY <2>4, <3>2 DEF RecordVote
    <3>4. [r EXCEPT !.approval_count = @ + 1].amount = r.amount
      BY <3>2 DEF IsRequest
    <3>5. /\ DOMAIN ReversalRequests' = DOMAIN ReversalRequests
          /\ \A i \in DOMAIN ReversalRequests :
                 ReversalRequests'[i].amount = ReversalRequests[i].amount
      BY <2>2, <3>2, <3>3, <3>4 DEF Insert, IsPending
    <3>6. QED
      BY <1>1, <3>1, <3>5, RefundFrame
  <2>5. CASE VoteAndExecute(id)
    BY <1>1, <2>2, <2>5, RefundExecuted
  <2>6. QED
    BY <2>1, <2>3, <2>4, <2>5 DEF ApproveReversal, ApproveInTime
<1>9. CASE CallExpire
  BY <1>7, <1>9 DEF CallExpire, ExpireRequest
<1>10. CASE CallAddGovernor \/ CallRemoveGovernor \/ CallSetWindow \/ CallSetThreshold
               \/ CallPrune
  BY <1>2, <1>10 DEF CallAddGovernor, CallRemoveGovernor, CallSetWindow,
                     CallSetThreshold, CallPrune, AddGovernor, RemoveGovernor,
                     SetReversalWindow, SetApprovalThreshold, governanceUnchanged,
                     PruneExpiredReversals
<1>11. CASE UNCHANGED vars
  BY <1>2, <1>11 DEF vars, reversibilityVars
<1>12. QED
  BY <1>3, <1>4, <1>5, <1>6, <1>8, <1>9, <1>10, <1>11 DEF Next

\* execute_reversal never pays for the same coins again, in every instance: all
\* reversals of a transaction together return no more than the amount one of
\* their requests was approved for.
THEOREM ReversedOnce == Spec => []NeverReversedTwice
<1>1. RefundInv => NeverReversedTwice
  BY RefundsBoundedIs DEF RefundInv
<1>2. QED
  BY <1>1, RefundInit, RefundStep, PTL DEF Spec
=============================================================================
