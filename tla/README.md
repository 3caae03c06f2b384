# TLA+ models of the Qubitcoin node

This directory holds TLA+ models of the core of the Qubitcoin Aether repository:
the runtime of its Substrate node, which decides who owns which coin; the parts
of the node that run concurrently around it (mining threads, block author, fork
choice, encrypted transport); and the exchange service. The models are
translated from the Rust sources and checked with TLC on small instances; every
safety property that the runs check is also proved with TLAPS, for every instance.
`PROJECT.json` maps each definition to the lines it models and lists the runs,
the theorems and the hazards they are aimed at.

## 1. The system

### Components

The repository is a blockchain node with services around it. The part that must
be right is `substrate-node/`; the other directories read from it or are
experiments of their own.

| Component | State it keeps | Operations | Interacts with |
|---|---|---|---|
| `pallets/qbc-dilithium` | keys by address, revoked addresses, key count | `register_key`, `sudo_register_key_for_address`, `revoke_key` | asked by qbc-utxo for the key that verifies an input |
| `pallets/qbc-utxo` | coins, balance cache, coin and transaction counters, height, fees, coins spent since the last mined height | `submit_transaction`; for other pallets `create_coinbase`, `finalize_fees_with_burn`, `set_block_height`; a height migration in `on_initialize` | asks dilithium for keys and reversibility for frozen coins; its storage is written by consensus and reversibility |
| `pallets/qbc-economics` | era, amount emitted, migration flag | `calculate_reward`, `on_block_authored`; a supply migration in `on_runtime_upgrade` | called by consensus |
| `pallets/qbc-consensus` | difficulty, timestamps of recent blocks, accepted proofs, recent proof hashes, last height of each miner, network phase | the unsigned `submit_mining_proof`, `validate_unsigned`, `adjust_difficulty` | calls economics and utxo; reads the parent hash and the timestamp |
| `pallets/qbc-reversibility` | governors, threshold, window, requests, votes, executed and expired requests, frozen coins, index of expiries | request, approve (and execute), expire, add and remove governor, set window and threshold, prune | edits the coins, balances and counters of qbc-utxo directly |
| `pallets/qbc-aether-anchor`, `pallets/qbc-qvm-anchor` | anchored thoughts and state roots per height | anchoring calls | fed by the Aether bridge |
| `runtime` | composition, order of hooks, transactional dispatch | block initialisation, extrinsics | all pallets |
| `mining`, `node/block_author.rs` | mining threads, shared head, channel of proofs | mine, submit, wait, build and import a block | pool, client, runtime |
| `node/weighted_chain.rs` | cumulative weight per block | best chain, finality target | client |
| `node/aether_bridge.rs` | last submitted height | poll, sign, submit | anchor pallet, pool |
| `crypto/kyber-transport` | keys and nonces of a session | handshake, encrypt, decrypt, rekey | P2P |
| `vqe-verifier`, `bimetric-physics`, `primitives/poseidon2.rs` | none | pure numerical functions | consensus |
| `rust-p2p`, `p2p-bridge`, `stratum-server`, `qbc-exchange`, `aikgs-sidecar`, `security-core`, `indexer`, `api-gateway` | connections, pool work, orders, rewards, database rows | services beside the node | node RPC, database |
| `aether-core`, `aether-evolve`, `aether-graph-shard`, `aether-service`, `aether-cli`, Python node, miner, SDK, Solana tokens, contracts, frontend | AI state, clients, predecessors | outside the consensus path | RPC |

### What is hard about it

The runtime is sequential, but the order of extrinsics is chosen by block
authors, and what the pallets do to shared storage depends on it:

* the storage of qbc-utxo is written by three pallets, each of which must keep
  the coins and the caches derived from them in step;
* `UtxoSet::insert` overwrites blindly, so safety rests on txids that never
  recur, across transactions, coinbases and refunds;
* one block can carry several mining proofs, all on the same parent, and each of
  them moves the height and empties the per-block set of spent coins in the
  middle of the block;
* a reversal reads amounts when it is requested and takes coins when the last
  vote arrives, heights later, while receivers spend, other requests execute,
  root edits the governor list and the window closes;
* migrations run once, at block starts, and move counters other pallets rely on;
* counters next to maps (proof hashes, requests, keys) are maintained by hand.

Around the runtime the hard behaviour is concurrent:

* mining threads read the head twice, without a lock, and share one mark of the
  height proved last; the author takes notifications from a bounded channel that
  drops when full, and imports a block on a parent it fixed earlier, while
  submissions, proposals and imports fail and peers' blocks arrive;
* callers of the fork choice fill one unlocked cache of weights while blocks are
  imported, finalized and pruned;
* the two ends of a Kyber session keep counters that must agree although
  messages are lost, repeated and reordered and either end may close, rekey or
  connect again at any time;
* the exchange keeps every order in two copies, of which a partial fill updates
  the status of only one, and every asset in two ledgers, updated by different
  calls;
* the Aether bridge guesses nonces (listed as a hazard, not modelled).

### What makes each component correct

* Keys: an address is never both registered and revoked; revocation is final.
* Coins: a spent coin never returns; value is neither made nor lost; caches
  agree with the coins; the supply cap holds.
* Mining: a height and a Hamiltonian are rewarded once; retained data is
  bounded; the difficulty follows the block times.
* Reversals: money is returned at most once and only if it is still there;
  votes and requests are accounted for.
* Mining engine and author: a proof that is found gets into a block; a node that
  can advance its chain does so; blocks carry the work of their parent.
* Fork choice: cached weights add up; the selected chain is the heaviest one,
  whoever else is selecting; a vote extends its base.
* Kyber: no pair of key and nonce is used twice; what is accepted is a prefix of
  what was sent; what was sent arrives.
* Exchange: the book is not crossed and matched by price and time; the copies
  of an order differ at most by a status that lags; assets and collateral are accounted for.

## 2. Modules

| Module | Models | State and actions |
|---|---|---|
| `StorageMap` | the Substrate storage operations the pallets use, saturating arithmetic | no state |
| `Dilithium` | qbc-dilithium | `PublicKeys`, `RevokedKeys`, `TotalKeys`; `RegisterKey`, `SudoRegisterKeyForAddress`, `RevokeKey` |
| `Utxo` | qbc-utxo | coins, caches, fees, height; `SubmitTransaction`, `MintCoinbase`, `UtxoOnInitialize` |
| `Economics` | qbc-economics | emission; `OnBlockAuthored`, `EconomicsOnRuntimeUpgrade`, the reward schedule |
| `Difficulty` | the retargeting of qbc-consensus | `CurrentDifficulty`, `BlockTimestamps`; `adjust_difficulty` |
| `Consensus` | the rest of qbc-consensus | proofs, hashes, miners; `SubmitMiningProof` with all it calls |
| `Reversibility` | qbc-reversibility | requests, votes, governors; one action per call, `ReturnFunds` for the execution |
| `Runtime` | composition in `runtime/src/lib.rs` | block starts with their hooks, then extrinsics in any order; the properties |
| `MCRuntime` | the instances of `Runtime` | genesis states and bounds |
| `MiningNode` | `mining/engine.rs`, `node/block_author.rs` and the wiring of `node/service.rs` | client, pool, channel, mark, a program counter per thread, the author's step; one action per step between two points where others can act: reading hash and number, giving up, finding, submitting, storing the mark, notifying; receiving, proposing, importing; failures of each; blocks of peers, revalidation of the pool |
| `MCMiningNode` | the nodes it is checked for | threads, peers, faults |
| `ForkChoice` | `node/weighted_chain.rs` | block tree, cache, one call per caller; `Begin`, `Lookup`, `ReadDifficulty`, `ReadParent`, `Store` interleaved with `Import`, `Finalize`, `Prune` |
| `MCForkChoice` | the nodes it is checked for | callers, pruning, blocks |
| `SecureChannel` | abstract: what an encrypted session promises | `sent`, `accepted`; `Send`, `Accept` |
| `KyberSession` | `crypto/kyber-transport`: `handshake.rs`, `session.rs`, `transport.rs` | both ends; handshake, `Encrypt`, `Decrypt`, `Rekey`, `Close`, `NewTransport`; implements `SecureChannel` |
| `OrderBook` | `qbc-exchange/src/orderbook.rs` | bids, asks, trades, all orders; adding an order with its matching, cancelling |
| `Exchange` | `service.rs` and `synthetic.rs` over `OrderBook` | balances, positions, totals; one action per handler |
| `SumProofs` | lemmas on sums over finite sets, for the proofs about money (section 4) | |
| `PalletProofs`, `CoinProofs`, `ReversalProofs` | theorems about `Runtime` | |
| `NodeProofs`, `ForkProofs`, `KyberProofs`, `ExchangeProofs` | theorems about `MiningNode`, `ForkChoice`, `KyberSession`, `Exchange` | |

Variables keep the names of the storage items and fields, operators those of
functions and errors. Three variables of `Runtime` are not storage of these pallets: `number`, `parent`
and `now` stand for the block number, the parent hash and the timestamp of the
frame pallets. `consumed` is a history variable: every outpoint that ever left
`UtxoSet`.

A dispatch that returns an error leaves no trace, because calls are executed in
a storage transaction, so an action is enabled exactly when its call succeeds;
the comments name the error each guard stands for.

What is abstracted in the runtime:

* A hash (txid, request id, proof hash, seed) is the tuple of the hashed values,
  tagged by its kind: hashes are taken to be injective, on the concatenations
  the code feeds them and across kinds. A parent hash is the number of the
  parent block, since the state is that of one chain.
* A signature check is whether a key is registered for the owner to sign with.
  A mining proof is submitted by the miner who signed it.
* A VQE proof is its seed, the claimed energy and the energy the verifier
  computes. The checks on the number and range of parameters restrict proofs
  without reading the state.
* Amounts are bounded by `MAX_BALANCE`, the greatest `u128`; additions saturate
  or fail there as the code's do. Heights and counters of type `u64` are
  unbounded naturals; they grow by one per block or call (or by a constant in
  the migration).
* `NetworkAlpha`, `LastMiner`, reason and requester of a request, events and logs
  are left out: no check reads them. `burn_fees` and `reset_accumulated_fees`
  have no caller.

And around it:

* `MiningNode`: a block is its path from genesis, the sequence of what each block
  carries, so the state a block leads to is a function of it; that state is
  reduced to the height of qbc-utxo, which an accepted proof advances and the
  migration in `on_initialize` of block 1 moves by `HEIGHT_OFFSET`. A proof is for
  the height in the state of its parent, so the one in block 1 comes too late: it
  is included and refused (`MinedOn`, `Accepts`), whichever miner it is from. The
  optimiser finds a solution or does not. The client imports by the longest-chain
  rule, as the author asks it to, and the pool keeps one proof per tag; both are
  external and modelled from the calls made. Notifications carry nothing the
  author uses except to log it. Slots and seals are left out. A node does not
  restart: nothing of the modelled state is persisted but the chain, so a restart
  is the initial state on another chain. A proof retracted from a lost fork is not
  resubmitted to the pool.
* `ForkChoice`: hashes are numbers, with 0 for genesis, and their order is the
  order of the tie-break. Weights do not reach the width of `u128`, at which the
  code saturates. Headers are never lost, and a write to the auxiliary database
  succeeds: `write_weight` may fail and its result is dropped (`let _ =`), which
  would leave a weight to be computed again. `on_block_imported` has no caller.
* `KyberSession`: cryptography is ideal: a frame opens under the key it was sealed
  with and no other, and a wrong ciphertext yields a secret nobody else has. The
  wire keeps every message ever sent and may deliver any of them at any time to
  either end, which covers loss, delay, repetition, reordering and reflection.
  `reset_after_rekey` takes any key: that the caller passes one that is new, and
  that both ends agree on, is assumed (`Rekey` numbers them), and the crate does
  not enforce it. `NoncesAreUnique` and the refinement hold given such a caller.
* `OrderBook`: the vectors of bids and asks are sorted whenever an order is pushed,
  and removals keep them sorted, so each is a set here, with the position in the
  vector as the order `Ahead`: price, then time, then arrival, because the sort is
  stable. The loop of `match_limit` and `match_market` takes makers in this order
  until the taker is filled or a price does not cross, so a maker gives what the
  taker still needs after all that is ahead of it (`Fills`).
* `Exchange`: amounts are integers instead of `f64`, in a unit in which the
  divisions are exact on the inputs of the run, and the tolerance of comparisons
  is then zero; the rounding of floating-point numbers is not modelled. A handler holds the write lock from start
  to end and is one step. `check_liquidations` has no caller.

Operators introduced by "Fault:" in a comment are deliberate bugs. No
specification uses them; putting one in place of the definition after it makes
the property that `PROJECT.json` names fail, which shows that the property can
fail.

## 3. Runs

The runs of the runtime use `MCRuntime`, which adds bounds to the guards: blocks
(`MaxNumber`), transactions and refunds (`MaxTx`), mined heights (`MaxMined`),
their sum (`MaxSteps`), key calls (`MaxKeyCalls`) and requests (`MaxRequests`).
The other modules name their bounds as constants. At the bounds a model stops,
which the system does not, so these configurations do not check for deadlock;
those of `ForkChoice` do, since a caller can always begin again.

| Run | Checks | Instance and why it is enough |
|---|---|---|
| `Ledger` | `TypeOK`, `NoResurrection`, `CachesAgree`, `SupplyAccounted`, `KeysConsistent`, `RevocationIsFinal` | Two addresses, one key; an ordinary coin and a coinbase, and one unit that the genesis counts as emitted without a coin; up to two inputs and outputs, of an amount that fits and one at the width of the integer; rewards that reach the supply cap, before and after the migration. Outputs are chained over two transactions with coinbases between them, in the same block or not. |
| `Mining` | `WorkRewardedOnce`, `OneCoinbasePerHeight`, `SolutionsBounded`, `ReplayGuardsSubsumed`, `DifficultyFollowsBlockTimes` | Two miners, four heights over three blocks that are slow or fast, so that blocks hold several proofs and a full difficulty window moves; floor, ceiling and a reset are met; proofs may be stale, and their claimed and computed energies lie on both sides of the threshold. |
| `Reversal` | `NoResurrection`, `Provenance`, `CachesAgree`, `FrozenIsGone`, `VotesCounted`, `RequestsAccounted`, `NeverReversedTwice` | Two requests for outputs of a transaction that is spent meanwhile, a second governor who comes and goes, thresholds one and two, a window of one height and two mined heights so that requests expire, and pruning. |
| `ProofHashes` | `ProofHashesBounded` (violated) | The instance of `Mining` with room for two hashes. |
| `DuplicateRequest` | `OneRequestPerTransaction` (violated) | The instance of `Reversal`. |
| `ReversalWindow` | `ReversedWithinWindow` (violated) | The instance of `Reversal`. |
| `MiningNode` | `TypeOK`, `MarkIsRemembered`, `PoolProofServed`, `SoloBlocksAdvance`, and the liveness `PoolEmpties`, `MiningResumes`, `SoloMines` | Nodes with one and two threads on their own and with one thread among peers, each with and without failing submissions, proposals and imports; a channel of two; block 1, which moves the height by two, and then two more heights for one thread and one more for two; two blocks of peers. Two threads suffice for a race between their reads and stores and for a duplicate notification, two notifications for a full channel, two blocks for a mark that is behind the head and one that is ahead. |
| `MiningStuck` | `HeightAdvances` (violated) | Two threads on their own, without faults, and room in the channel. |
| `Kyber` | `TypeOK`, `NoncesAreUnique`, `KeyUsesBounded`, the refinement `ImplementsChannel`, the liveness `FramesArrive` | A threshold of two frames, two key pairs and two encapsulations, so that an old ciphertext meets a new connection, one rekeying and three messages, so that one direction reaches the threshold while the other is used. |
| `Exchange` | `TypeOK`, `BookNotCrossed`, `CopiesAgree`, `FillsAreTrades`, `Accounted`, the action property `PriceTimePriority` | Two prices, sizes and times, so that orders tie, fill each other partly and are left over; three orders, or fewer mixed with deposits, withdrawals, mints and burns (a budget shared by them); an oracle that has no price or changes it; an amount that a mint and a burn divide exactly, fee included. |
| `ForkChoice` | `TypeOK`, `WeightsAddUp`, `SelectionExact`, `TargetsExtendBase` | Two concurrent callers over two imported blocks on a node that keeps every state, and one caller over three blocks on a node that prunes; two difficulties, so that a shorter chain can be the heavier one and chains can tie. Finality may displace a leaf in the middle of a call. |
| `PruneRace` | `WeightsAddUp` (violated) | Two concurrent callers on a node that prunes. |

Five runs record where documentation and code disagree:

1. `RecentProofHashes` is documented to hold up to `MAX_RECENT_PROOF_HASHES`
   entries. Pruning starts at block 0, below every entry of a chain that
   resumes at a later height, and stops at the first block without entries.
   Since `ReplayGuardsSubsumed` holds, this costs storage but not safety.
2. `DuplicateRequest` is documented as "A reversal request for this txid already
   exists", but the id that is looked up contains the current height.
   `NeverReversedTwice` shows that money is nevertheless returned once.
3. The window is documented as "how long after a tx it can be reversed", but
   the last vote may come a full window after the request.

4. A comment in the mining engine says that a thread which skips a proved height
   need not remember the block, since the height advances once the proof is
   included. With two threads a duplicate notification leads to an empty block; a
   proof for the old head, submitted after that, marks the height and fails in
   its block, and from then on every thread skips the height. `MiningResumes` and
   `SoloMines` say where this cannot happen: once the height reaches the mark, and
   on a node with one thread.
5. The header of `weighted_chain.rs` defines a weight as the parent's weight plus
   the block's own. A missing state counts with the initial difficulty, and the
   cache has no lock, so two selections around a pruning can leave weights of
   both kinds next to each other. On a node that keeps its states this cannot
   happen, nor on a pruning node with one caller (both proved, section 4), and
   `SelectionExact` shows that such a node is right about the forks finality has
   not displaced.

### Fairness

* `MiningNode`: weak fairness of the steps of each thread and of the author, which
  run as tasks of their own and retry after a sleep; strong fairness of `Find`,
  because each attempt starts the optimiser from fresh random parameters, so that
  a thread that tries again and again finds a solution in the end. Nothing is
  assumed of peers, of the pool's revalidation or of faults.
* `KyberSession`: weak fairness of decrypting the next frame, because the session
  runs over a transport that retransmits; nothing of handshakes, rekeying,
  closing or of any end continuing to send. `FramesArrive` therefore allows an end
  to leave the session.
* `Runtime`, `ForkChoice` and `Exchange` assume none: nothing obliges miners,
  governors, traders or callers to act, and there is no pending work.

### Refinement

`KyberSession` implements `SecureChannel` with the frames sealed as what was sent.
The abstract channel knows no handshakes, sessions, keys or counters: it says that
the frames of a stream are numbered without gaps or repetitions and that a prefix
of them is accepted, once and in order. That the detailed specification keeps this
across reconnections with messages of earlier connections still on the wire is
checked (`ImplementsChannel`) and proved.

## 4. Proofs

Each invariant, action property and refinement that a passing run checks is stated
by a theorem, for every value of the constants that the assumptions below allow;
two of the fork choice for the kind of nodes its run considers. TLC agreed with
each of them on the run's instance before it was proved.

### Sums

`CachesAgree`, `SupplyAccounted`, `NeverReversedTwice`, `FillsAreTrades` and
`Accounted` speak of sums over finite sets. The installed provers cannot use the
library's induction theorems, which take a predicate as a parameter. `SumProofs`
takes a set in its place, and a minimal element outside it (`WFMin`) as the
counterexample. From this it shows that the fold behind `SumFunction` does not
depend on the order in which elements are chosen (`SumRecursion`), and then what
the other proofs use: a sum splits over a partition, does not depend on the names
of the indices, and grows with its terms.

### The runtime

`PalletProofs` proves `TypeCorrect`: `Spec => []TypeOK`. One lemma per call shows
that the call keeps the part of the type invariant it touches. Since coins are a
function with a growing domain, the lemmas on `Insert`, `InsertAll` and `Remove`
come first. `TypeOK` is inductive.

It then proves `RegistryConsistent` from `KeyInv`, the type invariant and the
property itself, with the library's facts on cardinalities, and the action
property `RevokedStaysLocked`: a coin leaves the set in a step only by a
transaction whose inputs have registered keys or by a reversal that freezes it,
and an address that is revoked is not registered.

`WorkPaidOnce`, `SolutionsStayBounded` and `ReplayGuardsIdle` follow from `MiningInv`,
which adds to the two bounds that a kept solution solves the Hamiltonian of its
own height, that this height is not 0 (the code drops a height only once the new
one exceeds the window, so a solution at height 0 would stay one height too long),
that proof hashes are filed under heights, and that the height migration, which
would push every solution out of its window, runs before anything is mined.

`DifficultyFollows` is an action property that needs only the types: the division,
the limits of a step, the hold above the meaningful maximum and the clamping to
the bounds each keep to the side of 100 percent on which the window is. The clamp
does so because the current difficulty is itself within the bounds. Timestamps need
not be ordered.

`CoinProofs` proves the life of a coin, from one inductive invariant:

    CoinInv == TypeOK /\ NoResurrection /\ Provenance /\ CoinbaseMarked
               /\ FrozenIsGone /\ OneCoinbasePerHeight

`NoResurrection` alone is not inductive: nothing in it keeps the txid of a new
transaction from being one that was seen before. `Provenance` says why it is
new: a transaction's txid contains inputs, which are consumed from then on, so
if a coin with this txid existed before, its inputs would be consumed and could
not be spent now. A coinbase's txid contains a height, which grows; a refund's
contains the request, which is executed once. `CoinbaseMarked` ties the flag
that reversals check to the txid, which makes `FrozenIsGone` inductive.
The theorems are `CoinsNeverReturn`, `CoinsHaveProvenance`, `HeightsPaidOnce` and
`FrozenCoinsGone`.

The money is proved in the same module: `CachesFollowCoins` and `ValueConserved`, from

    LedgerInv == CoinInv /\ CachesAgree /\ SupplyAccounted

Every call that changes coins removes some and inserts others. Because the new
outpoints are new (`CoinInv`), no insertion overwrites a coin, so the amount of the
set, the amount of each owner and the number of coins change by what was removed
and inserted (`LedgerChange`), and this is what the call adds to the caches, fees
and counters. The caches are updated with saturating arithmetic, and agree only
because no balance ever saturates: this is where `SupplyAccounted`, and the room
between the supply cap and the greatest `u128`, are needed for `CachesAgree`.
`GenesisGap` and the units of the migration are the only part of the emission
counter that never had a coin on this chain.

`ReversalProofs` proves `VotesAreCounted`, `RequestsStayAccounted` and `ReversedOnce`.
`RequestInv` adds to the first two the heights that are part of the ids. A vote that
comes too late archives the request and leaves its votes behind, so `VotesCounted`
would fail if a request could get the same id again. It cannot, because votes
without a request, and archived ids, are of heights that are past, while a new id
has the current height. `RefundInv` adds that every request asks for at least what
is left of its target's outputs, and that nothing is left once one reversal of the
target was executed. The reason is that outputs only disappear (`OutputsShrink`): no
step adds a coin to a transaction that exists. Hence of all reversals of a
transaction only the first returns anything, and no more than it asked for.

### The node

`NodeProofs` proves `NodeTypes`, `MarkRemembered`, `PoolServed` and `SoloAdvances` for
any number of threads, channel capacity and bounds. `MiningInv` adds to the types
that paths are sequences and `ParentIsBest`: on a node on its own the parent the
author fixed is still the best block when it imports, so its block becomes the
best one and the proofs it carries leave the pool. `SoloAdvances` needs the whole
cycle of a node with one thread, as the invariant `Phase`: working, submitted,
marked, notified, waiting for the slot, importing; in each phase it is known what the
pool, the channel and the thread's memory hold, and in all of them the pool has
at most one proof and it is for the best block. Every block then carries a proof
mined on its parent, and every block but the first advances the height by it.
`MarkIsRemembered` is inductive as it stands because it does not count what a thread
between the store of the mark and its notification remembered before.

`ForkProofs` proves `ForkTypes` and `TargetsAreSound` for every node, and
`SteadyWeightsAddUp` and `SteadySelectionExact` for a *steady* one, which keeps every
state or has a single caller of the fork choice, for any tree and difficulties.
The premise is needed: `PruneRace` is the counterexample on a pruning node with two
callers.

`Path` and `TrueWeight` are recursive functions over the block tree, about which
nothing is known before the recursion is shown to have a solution. Instead of an
induction over the tree, the invariant `TreeInv` says that each equation has exactly
one solution. Genesis alone has one, and importing a block extends it; the paths and
weights of older blocks stay (`ImportTree`). What is true of paths (they are linear,
a parent is one lower, finality moves up) is carried along in the same way.

The inductive invariant `ForkInv` says of a call in progress what it has collected
(a path down from its leaf, with the difficulties of the blocks), when it is about
to store that the parent of its first block is cached and that it holds exactly
this parent's weight, and that the best leaf so far is the best by the weights
cached now. Two callers that store the same block then store the same number, so a
cached weight never changes, the equation holds at every moment, not only when
nobody writes, and comparisons stay valid while others write. On a pruning node with one
caller, a weight may have been computed with a difficulty that was gone. The
invariant `Relative` says that above the finalized block all cached weights differ
from the true ones by the same amount, so leaves above it compare as they should.

`KyberProofs` proves `TypeCorrect`, `NonceUniqueness`, `KeyUseBound` and the refinement
`ChannelRefinement`, for every threshold and bound. Uniqueness of nonces is not
inductive: it rests on every session starting with a key nobody has used in the
same direction. `IInv` says why: each end has a number of its own in every secret
(the initiator's key pair, the responder's encapsulation), a secret waiting to be
used carries a number under which this end has neither sent nor accepted anything,
later generations of the current key are unused, and the frames of the current
streams are exactly those below the counters. The refinement follows from the
last of these. The fairness of `Spec` is not used.

### The exchange

`ExchangeProofs` proves the six properties of the exchange. Funds and book are
separate state with an invariant each.

`FundInv` is `Accounted` with amounts that are naturals (`FundsAccounted`). A burn
releases a share of the collateral that is rounded down; that no collateral stays
behind an empty position, and that a position which still owes keeps some, holds
because the share of the whole is the whole, and that of less is less
(`ReleasedShare`).

`BookInv` gives `BookStaysUncrossed`, `CopiesDifferInStatusOnly`, `FillsComeFromTrades` and, with
`FundInv`, `ExchangeTypes`. It says that orders are stored under their ids, that each
side holds unfilled limit orders of that side, that a resting copy agrees with the
stored one but for the status, where it may still say Open (`Mirrored`), and rests exactly if the stored status says so (`AllRest`),
that the sides do not cross, and that the fill of an order is the sum of its trades.
All of it is needed for any part: the loop stops at the first maker that does not
cross, which is right because the side is sorted; that no crossing maker is left
when an order rests needs that the fills of the makers ahead add up to what the
taker took (`TakenInOrder`), and this needs that the copies matched have the
fills that are stored. The book is treated once for both sides, since `BookState` is symmetric.
`MatchedInPriority` is an action property: a maker that gives something has only
emptied makers ahead of it (`AheadEmptied`).

### Assumptions

They are named in the modules that declare the constants and evaluated by TLC in
every run. Most give types. Those that say more:

* `EconomicsAssumption`: `MAX_SUPPLY + ADDITIONAL_EMITTED <= MAX_BALANCE`. The code's
  constants are some twenty orders of magnitude below the greatest `u128`.
* `GenesisAssumption`: the coins of the genesis are at most what it counts as
  emitted. `build_genesis` of `chain_spec.rs` adds up its coins; the fork takes both
  numbers from `fork_state.json`, where 36,186,558.87 QBC are emitted and
  34,163,192.33 QBC are in coins. `SupplyAccounted` therefore speaks of the difference,
  `GenesisGap`, which no call changes. With more coins than emission a balance could
  saturate.
* `UtxoAssumption`: the coins of the genesis have txids of their own.
* `ForkChoiceAssumption`: hashes are numbers, for the tie-break.
* `ExchangeAssumption`: finitely many addresses; amounts that are positive and a
  positive smallest order, as the handlers require; a price may be any integer.

Injectivity of hashes and ideal cryptography are part of the models (section 2).

### Only checked by TLC

Liveness (`PoolEmpties`, `MiningResumes`, `SoloMines`, `FramesArrive`), which is out of
the prover's reach, as is `ENABLED`. The runs that expect a violation show a
counterexample and need no proof.

## 5. Plan

Done: the five pallets and their composition; the mining node; the fork choice;
the Kyber transport and its refinement; the exchange; theorems for every safety
property of the runs.

Left, in order of importance:

1. Abstract specifications of the life of a coin (unborn, live, gone) and of a
   request (pending, executed, expired), with `Runtime` proved to implement them.
2. `AetherAnchor`, `QvmAnchor` and the Aether bridge: anchoring, outlier rejection
   under transactional dispatch, nonces of the bridge.
3. Services with a protocol of their own: the stratum pool, the rewards of the
   AIKGS sidecar, the resumption of the indexer.

## 6. Not modelled

Pure numerical code (VQE simulation, physics, Poseidon2), I/O services, clients,
AI code and configuration are left out; `PROJECT.json` gives the reason for each.
Of the runtime, the frame pallets (`pallet_sudo`, balances, timestamp) appear only
through what the modelled pallets read from them. Reorganisations of the runtime's
state are not modelled: a state of `Runtime` is that of one chain, and forks appear
in `MiningNode` and `ForkChoice`, whose blocks carry only what these components
read. The anchor pallets and the Aether bridge are left for later: no other
component reads what they store. Also left out are the gRPC layer, the read-only
queries and the price feed of the exchange (a price of the oracle is an input),
and the consensus messages (GRANDPA, Aura) that decide when `Finalize` and the
author's slots happen.
