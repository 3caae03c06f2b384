---------------------------- MODULE Reversibility ----------------------------
(***************************************************************************)
(* pallet qbc-reversibility: governors can, within a window, take back the *)
(* unspent outputs of a transaction and return their value to its sender.  *)
(* A request id is the hash of the target txid and the height of the       *)
(* request, a reversal txid the hash of the request id and the height of   *)
(* its execution.  Reason and requester of a request are not read by any   *)
(* operation and are left out.                                             *)
(***************************************************************************)
EXTENDS Utxo

CONSTANTS
    MAX_GOVERNORS,              \* bound of the governor, vote and index vectors
    DEFAULT_REVERSAL_WINDOW,
    DEFAULT_APPROVAL_THRESHOLD,
    MIN_SCAN,                   \* least number of heights a prune call scans
    GenesisGovernors, GenesisWindow, GenesisThreshold   \* genesis configuration

ASSUME ReversibilityAssumption ==
    /\ MAX_GOVERNORS \in Nat \ {0}
    /\ DEFAULT_REVERSAL_WINDOW \in Nat
    /\ DEFAULT_APPROVAL_THRESHOLD \in Nat \ {0}
    /\ MIN_SCAN \in Nat
    /\ GenesisGovernors \subseteq Address
    /\ Cardinality(GenesisGovernors) <= MAX_GOVERNORS
    /\ GenesisWindow \in Nat /\ GenesisThreshold \in Nat

VARIABLES
    ReversalWindow, ApprovalThreshold,
    Governors,              \* addresses that may vote
    ReversalRequests,       \* request id -> request
    ReversalVotes,          \* request id -> addresses that approved
    ExecutedReversals,      \* request id -> execution
    ExpiredReversals,       \* request id -> request
    TotalRequests, TotalExecuted, TotalExpired,
    ExpiryIndex             \* expiry height -> sequence of request ids

reversibilityVars == <<ReversalWindow, ApprovalThreshold, Governors,
                       ReversalRequests, ReversalVotes, ExecutedReversals,
                       ExpiredReversals, TotalRequests, TotalExecuted,
                       TotalExpired, ExpiryIndex>>

\* Approved is written and overwritten within approve_reversal, and no call
\* rejects a request: a stored request is in one of these states.
ReversalStatus == {"Pending", "Executed", "Expired"}

IsRequest(r) ==
    /\ r = [target_txid |-> r.target_txid, original_sender |-> r.original_sender,
            amount |-> r.amount, target_block_height |-> r.target_block_height,
            request_block_height |-> r.request_block_height,
            expiry_block_height |-> r.expiry_block_height,
            approval_count |-> r.approval_count, status |-> r.status]
    /\ r.original_sender \in Address
    /\ r.expiry_block_height \in Nat
    /\ r.approval_count \in Nat
    /\ r.status \in ReversalStatus

ReversibilityTypeOK ==
    /\ ReversalWindow \in Nat
    /\ ApprovalThreshold \in Nat \ {0}
    /\ Governors \subseteq Address
    /\ Cardinality(Governors) <= MAX_GOVERNORS
    /\ \A id \in DOMAIN ReversalRequests : IsRequest(ReversalRequests[id])
    /\ TotalRequests \in Nat
    /\ TotalExecuted \in Nat
    /\ TotalExpired \in Nat

ReversibilityInit ==
    /\ ReversalWindow = IF GenesisWindow > 0 THEN GenesisWindow
                        ELSE DEFAULT_REVERSAL_WINDOW
    /\ ApprovalThreshold = IF GenesisThreshold > 0 THEN GenesisThreshold
                           ELSE DEFAULT_APPROVAL_THRESHOLD
    /\ Governors = GenesisGovernors
    /\ ReversalRequests = NoEntries /\ ReversalVotes = NoEntries
    /\ ExecutedReversals = NoEntries /\ ExpiredReversals = NoEntries
    /\ ExpiryIndex = NoEntries
    /\ TotalRequests = 0 /\ TotalExecuted = 0 /\ TotalExpired = 0

-----------------------------------------------------------------------------
compute_request_id(target_txid, height) == <<target_txid, height>>
compute_reversal_txid(request_id, height) == <<"reversal", request_id, height>>

\* The outputs of a transaction that are still in the UTXO set (vouts 0..255).
OutputsOf(txid) == {k \in DOMAIN UtxoSet : k[1] = txid /\ k[2] < MaxOutputs}

\* ReversalVotes and ExpiryIndex are ValueQuery maps: absent means empty.
VotesOn(id) == IF id \in DOMAIN ReversalVotes THEN ReversalVotes[id] ELSE {}
IndexAt(height) == IF height \in DOMAIN ExpiryIndex THEN ExpiryIndex[height] ELSE <<>>

\* submit_reversal_request: the height kept is that of the last output found.
SubmitReversalRequest(target_txid, original_sender) ==
    LET found   == OutputsOf(target_txid)
        last    == CHOOSE k \in found : \A l \in found : l[2] <= k[2]
        target_block_height == UtxoSet[last].block_height
        id      == compute_request_id(target_txid, CurrentHeight)
        expiry  == CurrentHeight + ReversalWindow
        request == [target_txid |-> target_txid, original_sender |-> original_sender,
                    amount |-> AmountOf(UtxoSet, found),
                    target_block_height |-> target_block_height,
                    request_block_height |-> CurrentHeight,
                    expiry_block_height |-> expiry,
                    approval_count |-> 0, status |-> "Pending"]
    IN  /\ Governors # {}                                   \* NoGovernors
        /\ found # {}                                       \* TransactionNotFound
        /\ \A k \in found : ~ UtxoSet[k].is_coinbase        \* CoinbaseNotReversible
        /\ \A k \in found : k \notin FrozenUtxos            \* UtxoAlreadyFrozen
        /\ NoOverflow(request.amount)
        /\ SatSub(CurrentHeight, target_block_height) <= ReversalWindow
        /\ id \notin DOMAIN ReversalRequests                \* DuplicateRequest
        /\ ReversalRequests' = Insert(ReversalRequests, id, request)
        /\ TotalRequests' = TotalRequests + 1
        /\ ExpiryIndex' = IF Len(IndexAt(expiry)) < MAX_GOVERNORS
                          THEN Insert(ExpiryIndex, expiry, Append(IndexAt(expiry), id))
                          ELSE ExpiryIndex      \* try_push fails: not indexed
        /\ UNCHANGED <<ReversalWindow, ApprovalThreshold, Governors, ReversalVotes,
                       ExecutedReversals, ExpiredReversals, TotalExecuted,
                       TotalExpired>>
        /\ UNCHANGED utxoVars

-----------------------------------------------------------------------------
\* Fault: the request stays pending.
CopyToExpired(id) ==
    /\ ExpiredReversals' = Insert(ExpiredReversals, id,
                                  [ReversalRequests[id] EXCEPT !.status = "Expired"])
    /\ TotalExpired' = TotalExpired + 1
    /\ UNCHANGED ReversalRequests

\* Move a request to the expired archive.
MoveToExpired(id) ==
    /\ ExpiredReversals' = Insert(ExpiredReversals, id,
                                  [ReversalRequests[id] EXCEPT !.status = "Expired"])
    /\ ReversalRequests' = Remove(ReversalRequests, {id})
    /\ TotalExpired' = TotalExpired + 1

IsPending(id) ==
    id \in DOMAIN ReversalRequests /\ ReversalRequests[id].status = "Pending"

\* The outputs a reversal takes: neither frozen nor coinbase.
Reversible(txid) ==
    {k \in OutputsOf(txid) : k \notin FrozenUtxos /\ ~ UtxoSet[k].is_coinbase}

\* What a reversal returns: the value of the outputs it takes.
\* Fault: the value the request recorded.
requested(request) == request.amount
total_reversed(request) ==
    Saturate(AmountOf(UtxoSet, Reversible(request.target_txid)))

\* execute_reversal on the ledger: the target's coins are frozen and leave the
\* UTXO set, and one coin of their total value goes to the original sender.
ReturnFunds(id, request) ==
    LET taken  == Reversible(request.target_txid)
        total  == total_reversed(request)
        refund == [k \in {<<compute_reversal_txid(id, CurrentHeight), 0>>} |->
                      [address |-> request.original_sender, amount |-> total,
                       block_height |-> CurrentHeight, is_coinbase |-> FALSE]]
        new    == IF total > 0 THEN refund ELSE NoEntries
    IN  /\ FrozenUtxos' = FrozenUtxos \cup taken
        /\ consumed' = consumed \cup taken
        /\ UtxoSet' = CoinsAfter(taken, new)
        /\ Balances' = RefreshedBalances(taken, new)
        /\ UtxoCount' = SatSub(UtxoCount, Cardinality(taken)) + Cardinality(DOMAIN new)
        /\ TxCount' = TxCount + Cardinality(DOMAIN new)
        /\ ExecutedReversals' =
               Insert(ExecutedReversals, id,
                      [amount |-> total, original_txid |-> request.target_txid,
                       execution_block_height |-> CurrentHeight])
        /\ UNCHANGED <<CurrentHeight, AccumulatedFees, TotalFeesBurned, SpentUtxos,
                       HeightMigrationDone>>

\* approve_reversal by a governor whose vote comes too late: the request
\* expires instead.  Its votes stay behind.
ApproveTooLate(id) ==
    /\ CurrentHeight > ReversalRequests[id].expiry_block_height
    /\ MoveToExpired(id)
    /\ UNCHANGED <<ReversalVotes, ExecutedReversals, TotalExecuted>>
    /\ UNCHANGED utxoVars

\* Fault: the request is stored as it was read.
RecordVoteOnly(governor, id) ==
    /\ ReversalRequests[id].approval_count + 1 < ApprovalThreshold
    /\ ReversalVotes' = Insert(ReversalVotes, id, VotesOn(id) \cup {governor})
    /\ UNCHANGED <<ReversalRequests, ExecutedReversals, TotalExecuted>>
    /\ UNCHANGED utxoVars

\* approve_reversal below the threshold: the vote is recorded.
RecordVote(governor, id) ==
    LET request == [ReversalRequests[id] EXCEPT !.approval_count = @ + 1]
    IN  /\ request.approval_count < ApprovalThreshold
        /\ ReversalVotes' = Insert(ReversalVotes, id, VotesOn(id) \cup {governor})
        /\ ReversalRequests' = Insert(ReversalRequests, id, request)
        /\ UNCHANGED <<ExecutedReversals, TotalExecuted>>
        /\ UNCHANGED utxoVars

\* Fault: the request is not marked as executed.
ExecuteUnmarked(id) ==
    LET request == [ReversalRequests[id] EXCEPT !.approval_count = @ + 1]
    IN  /\ request.approval_count >= ApprovalThreshold
        /\ ReturnFunds(id, request)
        /\ ReversalRequests' = Insert(ReversalRequests, id, request)
        /\ ReversalVotes' = Remove(ReversalVotes, {id})
        /\ TotalExecuted' = TotalExecuted + 1

\* approve_reversal at the threshold: the vote executes the reversal, in the
\* same call, and the votes are cleared.
VoteAndExecute(id) ==
    LET request == [ReversalRequests[id] EXCEPT !.approval_count = @ + 1,
                                                !.status = "Executed"]
    IN  /\ request.approval_count >= ApprovalThreshold
        /\ ReturnFunds(id, request)
        /\ ReversalRequests' = Insert(ReversalRequests, id, request)
        /\ ReversalVotes' = Remove(ReversalVotes, {id})
        /\ TotalExecuted' = TotalExecuted + 1

\* A vote within the window: once per governor, in a vector of bounded size.
ApproveInTime(governor, id) ==
    /\ CurrentHeight <= ReversalRequests[id].expiry_block_height
    /\ governor \notin VotesOn(id)                          \* AlreadyVoted
    /\ Cardinality(VotesOn(id)) < MAX_GOVERNORS             \* GovernorListFull
    /\ RecordVote(governor, id) \/ VoteAndExecute(id)
    /\ UNCHANGED <<ExpiredReversals, TotalExpired>>

\* approve_reversal.
ApproveReversal(governor, id) ==
    /\ governor \in Governors                               \* NotGovernor
    /\ IsPending(id)                                        \* RequestNotPending
    /\ ApproveTooLate(id) \/ ApproveInTime(governor, id)
    /\ UNCHANGED <<ReversalWindow, ApprovalThreshold, Governors, TotalRequests,
                   ExpiryIndex>>

\* expire_request, by anyone: unlike a late vote it clears the votes.
ExpireRequest(id) ==
    /\ IsPending(id)
    /\ CurrentHeight > ReversalRequests[id].expiry_block_height
    /\ MoveToExpired(id)
    /\ ReversalVotes' = Remove(ReversalVotes, {id})
    /\ UNCHANGED <<ReversalWindow, ApprovalThreshold, Governors, ExecutedReversals,
                   TotalRequests, TotalExecuted, ExpiryIndex>>
    /\ UNCHANGED utxoVars

-----------------------------------------------------------------------------
\* Governance by root.
governanceUnchanged ==
    /\ UNCHANGED <<ReversalRequests, ReversalVotes, ExecutedReversals,
                   ExpiredReversals, TotalRequests, TotalExecuted, TotalExpired,
                   ExpiryIndex>>
    /\ UNCHANGED utxoVars

AddGovernor(address) ==
    /\ address \notin Governors
    /\ Cardinality(Governors) < MAX_GOVERNORS               \* GovernorListFull
    /\ Governors' = Governors \cup {address}
    /\ UNCHANGED <<ReversalWindow, ApprovalThreshold>>
    /\ governanceUnchanged

\* The threshold follows the number of governors down, but not to zero.
RemoveGovernor(address) ==
    /\ address \in Governors                                \* GovernorNotFound
    /\ Governors' = Governors \ {address}
    /\ ApprovalThreshold' =
           IF Governors' # {} /\ ApprovalThreshold > Cardinality(Governors')
           THEN Cardinality(Governors') ELSE ApprovalThreshold
    /\ UNCHANGED ReversalWindow
    /\ governanceUnchanged

SetReversalWindow(window) ==
    /\ ReversalWindow' = window
    /\ UNCHANGED <<ApprovalThreshold, Governors>>
    /\ governanceUnchanged

SetApprovalThreshold(threshold) ==
    /\ threshold >= 1                                       \* ThresholdTooLow
    /\ threshold <= Cardinality(Governors)                  \* ThresholdExceedsGovernors
    /\ ApprovalThreshold' = threshold
    /\ UNCHANGED <<ReversalWindow, Governors>>
    /\ governanceUnchanged

\* prune_expired_reversals, by root: walk the index from scan_start up to the
\* cutoff, drop the first max_entries requests met from the archive, and drop
\* every index entry visited, the one cut short by max_entries included.
PruneExpiredReversals(max_age_blocks, max_entries) ==
    LET cutoff     == SatSub(CurrentHeight, max_age_blocks)
        scan_limit == IF max_entries * 4 > MIN_SCAN THEN max_entries * 4 ELSE MIN_SCAN
        scanned    == SatSub(cutoff, scan_limit) .. cutoff
        before(h)  == SumFunction([g \in {s \in scanned : s < h} |-> Len(IndexAt(g))])
        visited    == {h \in scanned \cap DOMAIN ExpiryIndex : before(h) < max_entries}
        pruned     == UNION {{IndexAt(h)[i] : i \in {j \in DOMAIN IndexAt(h) :
                                                      before(h) + j <= max_entries}}
                             : h \in visited}
    IN  /\ ExpiredReversals' = Remove(ExpiredReversals, pruned)
        /\ ExpiryIndex' = Remove(ExpiryIndex, visited)
        /\ UNCHANGED <<ReversalWindow, ApprovalThreshold, Governors,
                       ReversalRequests, ReversalVotes, ExecutedReversals,
                       TotalRequests, TotalExecuted, TotalExpired>>
        /\ UNCHANGED utxoVars

=============================================================================
