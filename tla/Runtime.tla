------------------------------- MODULE Runtime -------------------------------
(***************************************************************************)
(* The runtime of the Qubitcoin Substrate node: the pallets over one       *)
(* shared state.  A block starts with the hooks and the timestamp inherent *)
(* and then applies any number of extrinsics, in any order, several mining *)
(* proofs included; the state is that of one chain.                        *)
(***************************************************************************)
EXTENDS Consensus, Reversibility

CONSTANTS           \* arguments of the calls that the model enumerates
    OutputAmount,   \* amounts a transaction's output may ask for
    TimeStep,       \* milliseconds between two blocks
    SudoKeyArg,     \* addresses root may register a key for
    UpgradeArg,     \* whether a block may start with a runtime upgrade
    SenderArg,      \* original_sender of submit_reversal_request
    GovernorArg,    \* of add_governor and remove_governor
    WindowArg,      \* of set_reversal_window
    ThresholdArg,   \* of set_approval_threshold
    MaxAgeArg, MaxEntriesArg    \* of prune_expired_reversals

ASSUME RuntimeAssumption ==
    /\ OutputAmount \subseteq QbcBalance
    /\ TimeStep \subseteq Nat
    /\ SudoKeyArg \subseteq Address
    /\ UpgradeArg \subseteq BOOLEAN
    /\ SenderArg \subseteq Address
    /\ GovernorArg \subseteq Address
    /\ WindowArg \subseteq Nat
    /\ ThresholdArg \subseteq Nat
    /\ MaxAgeArg \subseteq Nat
    /\ MaxEntriesArg \subseteq Nat

\* The coins of the genesis were all emitted: build_genesis adds up its two
\* coins.  The fork takes the coins and the supply of the old chain from
\* fork_state.json, where the supply is larger than the coins add up to.
ASSUME GenesisAssumption ==
    AmountOf(GenesisUtxos, DOMAIN GenesisUtxos) <= InitialEmitted

\* Units the old chain emitted that are in no coin of the genesis.
GenesisGap == InitialEmitted - AmountOf(GenesisUtxos, DOMAIN GenesisUtxos)

VARIABLE number     \* frame_system block number; 0 is the genesis

vars == <<number, parent, now, dilithiumVars, utxoVars, economicsVars,
          difficultyVars, consensusVars, reversibilityVars>>

TypeOK ==
    /\ number \in Nat
    /\ DilithiumTypeOK
    /\ UtxoTypeOK
    /\ EconomicsTypeOK
    /\ DifficultyTypeOK
    /\ ConsensusTypeOK
    /\ ReversibilityTypeOK

Init ==
    /\ number = 0 /\ parent = 0 /\ now = 0
    /\ DilithiumInit
    /\ UtxoInit
    /\ EconomicsInit
    /\ DifficultyInit
    /\ ConsensusInit
    /\ ReversibilityInit

-----------------------------------------------------------------------------
\* initialize_block and the timestamp inherent: after a runtime upgrade the
\* on_runtime_upgrade hooks run first, then the on_initialize hooks.
NewBlock(step, upgraded) ==
    /\ number' = number + 1
    /\ parent' = number
    /\ now' = now + step
    /\ UtxoOnInitialize
    /\ IF upgraded THEN EconomicsOnRuntimeUpgrade ELSE UNCHANGED economicsVars
    /\ UNCHANGED <<dilithiumVars, difficultyVars, consensusVars, reversibilityVars>>

\* Extrinsics are applied within a block.
InBlock == number > 0 /\ UNCHANGED <<number, parent, now>>

\* Calls to qbc-dilithium leave the other pallets alone.
KeyCall ==
    /\ InBlock
    /\ UNCHANGED <<utxoVars, economicsVars, difficultyVars, consensusVars,
                   reversibilityVars>>

CallRegisterKey == KeyCall /\ \E key \in PublicKey : RegisterKey(key)
CallSudoRegisterKey ==
    KeyCall /\ \E address \in SudoKeyArg, key \in PublicKey :
                   SudoRegisterKeyForAddress(address, key)
CallRevokeKey == KeyCall /\ \E address \in Address : RevokeKey(address)

\* Every outpoint that exists or existed.
KnownOutpoint == DOMAIN UtxoSet \cup consumed
SequencesUpTo(n, S) == UNION {[1 .. len -> S] : len \in 1 .. n}

CallTransaction ==
    /\ InBlock
    /\ \E inputs \in SequencesUpTo(MaxInputs, KnownOutpoint) :
       \E outputs \in SequencesUpTo(MaxOutputs,
                                    [address : Address, amount : OutputAmount]) :
           SubmitTransaction(inputs, outputs)
    /\ UNCHANGED <<dilithiumVars, economicsVars, difficultyVars, consensusVars,
                   reversibilityVars>>

\* A miner may hold a solution for any block and height seen so far.
CallMiningProof ==
    /\ InBlock
    /\ \E miner \in Miner :
       \E seed \in (0 .. parent) \X (0 .. CurrentHeight + 1) :
       \E energy, computed \in Energy :
           SubmitMiningProof(miner, [seed |-> seed, energy |-> energy,
                                     computed |-> computed])
    /\ UNCHANGED <<dilithiumVars, reversibilityVars>>

\* Calls to qbc-reversibility leave keys and mining alone.
ReversalCall ==
    InBlock /\ UNCHANGED <<dilithiumVars, economicsVars, difficultyVars, consensusVars>>

CallReversalRequest ==
    ReversalCall /\ \E k \in KnownOutpoint, sender \in SenderArg :
                        SubmitReversalRequest(k[1], sender)
CallApprove ==
    ReversalCall /\ \E governor \in Address, id \in DOMAIN ReversalRequests :
                        ApproveReversal(governor, id)
CallExpire ==
    ReversalCall /\ \E id \in DOMAIN ReversalRequests : ExpireRequest(id)
CallAddGovernor ==
    ReversalCall /\ \E address \in GovernorArg : AddGovernor(address)
CallRemoveGovernor ==
    ReversalCall /\ \E address \in GovernorArg : RemoveGovernor(address)
CallSetWindow ==
    ReversalCall /\ \E window \in WindowArg : SetReversalWindow(window)
CallSetThreshold ==
    ReversalCall /\ \E threshold \in ThresholdArg : SetApprovalThreshold(threshold)
CallPrune ==
    ReversalCall /\ \E age \in MaxAgeArg, entries \in MaxEntriesArg :
                        PruneExpiredReversals(age, entries)

StartBlock == \E step \in TimeStep, upgraded \in UpgradeArg : NewBlock(step, upgraded)

Next ==
    \/ StartBlock
    \/ CallRegisterKey \/ CallSudoRegisterKey \/ CallRevokeKey
    \/ CallTransaction
    \/ CallMiningProof
    \/ CallReversalRequest \/ CallApprove \/ CallExpire
    \/ CallAddGovernor \/ CallRemoveGovernor
    \/ CallSetWindow \/ CallSetThreshold \/ CallPrune

Spec == Init /\ [][Next]_vars

-----------------------------------------------------------------------------
(* The ledger *)

\* A coin that was spent or reversed never comes back: no transaction,
\* coinbase or reversal, in this or a later block, recreates its outpoint
\* (UtxoSet::insert overwrites blindly, so a clash would go unnoticed).
NoResurrection == DOMAIN UtxoSet \cap consumed = {}

\* Why NoResurrection holds: the txid of every coin, live or gone, names
\* something that happens only once.  A transaction's inputs are consumed, a
\* coinbase's height is past and a refund's request has been executed.
Provenance ==
    /\ \A k \in KnownOutpoint :
           /\ k[1][1] = "tx" => Range(k[1][2]) \subseteq consumed
           /\ k[1][1] = "coinbase" => k[1][2] \in 1 .. CurrentHeight
           /\ k[1][1] = "reversal" => k[1][2] \in DOMAIN ExecutedReversals
    /\ \A id \in DOMAIN ExecutedReversals :
           /\ id \in DOMAIN ReversalRequests
           /\ ReversalRequests[id].status = "Executed"

\* The caches that wallets and RPC read, updated incrementally by three
\* pallets, agree with the coins they are derived from.
CachesAgree ==
    /\ \A a \in Address : Balances[a] = AmountOwned(UtxoSet, DOMAIN UtxoSet, a)
    /\ UtxoCount = Cardinality(DOMAIN UtxoSet)

\* Every unit of value this chain holds or has burned.
Issued == AmountOf(UtxoSet, DOMAIN UtxoSet) + AccumulatedFees + TotalFeesBurned
Migrated == IF SupplyMigrationDone THEN ADDITIONAL_EMITTED ELSE 0

\* No call creates or destroys value: the emission counter says what is in
\* coins, pending fees and burned fees, plus the units that never had a coin
\* on this chain (the gap of the genesis, the same for ever, and those of the
\* migration), and what was emitted in earnest is never above MAX_SUPPLY.  The
\* counter may only be lower when the uncapped migration pushed it over the
\* cap and the next block cut it back.
SupplyAccounted ==
    /\ Issued + GenesisGap <= MAX_SUPPLY
    /\ \/ TotalEmitted = Issued + GenesisGap + Migrated
       \/ TotalEmitted = MAX_SUPPLY /\ Issued + GenesisGap + Migrated > MAX_SUPPLY

\* After revoke_key the coins of an address can only leave the set through
\* a reversal: no later registration, by anyone or by root, unlocks them.
RevocationIsFinal ==
    [][\A k \in DOMAIN UtxoSet \ DOMAIN UtxoSet' :
           UtxoSet[k].address \in RevokedKeys => k \in FrozenUtxos']_vars

\* The registry counts its keys right, and no address is both registered and
\* revoked.
KeysConsistent ==
    /\ TotalKeys = Cardinality(DOMAIN PublicKeys)
    /\ DOMAIN PublicKeys \cap RevokedKeys = {}

-----------------------------------------------------------------------------
(* Mining *)

\* A solution is rewarded once: no two accepted proofs solve the same
\* Hamiltonian, although one block may carry several proofs on one parent.
WorkRewardedOnce ==
    \A g, h \in DOMAIN SusySolutions :
        SusySolutions[g].seed = SusySolutions[h].seed => g = h

\* Each height is paid for once, by one coinbase, whatever block it is in.
OneCoinbasePerHeight ==
    \A k, l \in KnownOutpoint :
        (k[1][1] = "coinbase" /\ l[1][1] = "coinbase" /\ k[1][2] = l[1][2]) => k = l

\* The two other replay defences of submit_mining_proof never bind: every
\* recorded proof hash and every miner's last height is at or below the
\* current height, so DuplicateProof and MinerRateLimited cannot be raised.
ReplayGuardsSubsumed ==
    /\ \A e \in RecentProofHashes : e[1] <= CurrentHeight
    /\ \A m \in Miner : LastMinerBlock[m] <= CurrentHeight

\* The difficulty follows the block times in the right direction (higher is
\* easier): a window slower than the target never makes mining harder and a
\* faster one never easier, one-time resets aside.
DifficultyFollowsBlockTimes ==
    [][(/\ BlockTimestamps' # BlockTimestamps
        /\ CurrentHeight' \notin DifficultyResetHeights
        /\ Len(BlockTimestamps') >= DIFFICULTY_WINDOW)
       => LET len    == Len(BlockTimestamps')
              actual == BlockTimestamps'[len]
                          - BlockTimestamps'[len - DIFFICULTY_WINDOW + 1]
              target == (DIFFICULTY_WINDOW - 1) * TARGET_BLOCK_TIME_MS
          IN  /\ actual >= target => CurrentDifficulty' >= CurrentDifficulty
              /\ actual <= target => CurrentDifficulty' <= CurrentDifficulty]_vars

\* RecentProofHashes stores "up to MAX_RECENT_PROOF_HASHES recent proof
\* hashes", as its documentation in qbc-consensus says.
ProofHashesBounded == Cardinality(RecentProofHashes) <= MAX_RECENT_PROOF_HASHES

\* The database of solutions stays within its retention window.
SolutionsBounded ==
    \A h \in DOMAIN SusySolutions :
        CurrentHeight - SUSY_RETENTION_WINDOW < h /\ h <= CurrentHeight

-----------------------------------------------------------------------------
(* Reversals *)

\* A frozen outpoint has left the UTXO set for good and is no coinbase.
FrozenIsGone ==
    \A k \in FrozenUtxos : k \notin DOMAIN UtxoSet /\ k[1][1] # "coinbase"

\* The approval count of a pending request is the number of distinct
\* governors that voted for it, through lists that root edits in between.
VotesCounted ==
    \A id \in DOMAIN ReversalRequests :
        IsPending(id) =>
            ReversalRequests[id].approval_count = Cardinality(VotesOn(id))

\* Every request is pending, executed or expired, and the counters say so.
RequestsAccounted ==
    LET executed == {id \in DOMAIN ReversalRequests :
                        ReversalRequests[id].status = "Executed"}
    IN  /\ DOMAIN ExecutedReversals = executed
        /\ TotalExecuted = Cardinality(executed)
        /\ TotalRequests = Cardinality(DOMAIN ReversalRequests) + TotalExpired
        /\ DOMAIN ReversalRequests \cap DOMAIN ExpiredReversals = {}

\* What all executed reversals of one transaction returned together is at
\* most what one request for it asked for: overlapping requests do not
\* return the same money twice, nor money the receiver spent meanwhile.
NeverReversedTwice ==
    \A id \in DOMAIN ExecutedReversals :
        LET same == {i \in DOMAIN ExecutedReversals : i[1] = id[1]}
        IN  \E i \in same : SumFunction([j \in same |-> ExecutedReversals[j].amount])
                                <= ReversalRequests[i].amount

\* "A reversal request for this txid already exists" (DuplicateRequest in
\* qbc-reversibility): no two pending requests aim at one transaction.
OneRequestPerTransaction ==
    \A i, j \in DOMAIN ReversalRequests :
        (/\ IsPending(i) /\ IsPending(j)
         /\ ReversalRequests[i].target_txid = ReversalRequests[j].target_txid) => i = j

\* The reversal window is "how long after a tx it can be reversed", as the
\* documentation of ReversalWindow in qbc-reversibility says.
ReversedWithinWindow ==
    \A id \in DOMAIN ExecutedReversals :
        ExecutedReversals[id].execution_block_height
            <= ReversalRequests[id].target_block_height + ReversalWindow

=============================================================================
