------------------------------ MODULE Consensus ------------------------------
(***************************************************************************)
(* pallet qbc-consensus: Proof-of-SUSY-Alignment.  An unsigned extrinsic   *)
(* submits a VQE proof; an accepted proof mints the coinbase of the next   *)
(* height.  A proof is abstracted to                                       *)
(*    seed      the Hamiltonian seed it solves,                            *)
(*    energy    the energy its miner claims,                               *)
(*    computed  the energy vqe_verifier computes from its parameters, which*)
(*              stands for the parameters themselves.                      *)
(* The Ed25519 signature binds proof and miner, so a proof is submitted by *)
(* its miner.  NetworkAlpha and LastMiner, which no check reads, are left  *)
(* out.                                                                    *)
(***************************************************************************)
EXTENDS Utxo, Economics, Difficulty

CONSTANTS
    Miner,                          \* addresses of the miners' Ed25519 keys
    Energy,                         \* energies (claimed or computed)
    ENERGY_SCALE,                   \* factor from difficulty to energy
    ENERGY_VALIDATION_TOLERANCE,    \* slack of the claimed energy
    POOL_MARGIN,                    \* slack of the pool's check
    THETA_ADVANCE_PER_BLOCK, TWO_PI_SCALED,
    SUSY_RETENTION_WINDOW,
    MAX_RECENT_PROOF_HASHES

ASSUME ConsensusAssumption ==
    /\ Miner \subseteq Address
    /\ Energy \subseteq Int
    /\ ENERGY_SCALE \in Nat \ {0}
    /\ ENERGY_VALIDATION_TOLERANCE \in Nat /\ POOL_MARGIN \in Nat
    /\ THETA_ADVANCE_PER_BLOCK \in Nat /\ TWO_PI_SCALED \in Nat \ {0}
    /\ SUSY_RETENTION_WINDOW \in Nat
    /\ MAX_RECENT_PROOF_HASHES \in Nat

VARIABLES
    parent,                 \* frame_system::parent_hash: number of the parent block
    now,                    \* pallet_timestamp::now
    NetworkTheta,
    SusySolutions,          \* height -> accepted proof
    RecentProofHashes,      \* set of <<height, proof hash>>
    RecentProofHashCount,
    ProofHashOldestBlock,
    LastMinerBlock,         \* miner -> height of its last proof
    BlocksMined

consensusVars == <<NetworkTheta, SusySolutions, RecentProofHashes,
                   RecentProofHashCount, ProofHashOldestBlock, LastMinerBlock,
                   BlocksMined>>

ConsensusTypeOK ==
    /\ parent \in Nat
    /\ now \in Nat
    /\ NetworkTheta \in 0 .. TWO_PI_SCALED - 1
    /\ DOMAIN SusySolutions \subseteq Nat
    /\ IsFiniteSet(RecentProofHashes)
    /\ RecentProofHashCount \in Nat
    /\ ProofHashOldestBlock \in Nat
    /\ LastMinerBlock \in [Miner -> Nat]
    /\ BlocksMined \in Nat

ConsensusInit ==
    /\ NetworkTheta = 0
    /\ SusySolutions = NoEntries
    /\ RecentProofHashes = {} /\ RecentProofHashCount = 0 /\ ProofHashOldestBlock = 0
    /\ LastMinerBlock = [m \in Miner |-> 0]
    /\ BlocksMined = 0

-----------------------------------------------------------------------------
\* Fault: the seed does not depend on the height.
SeedOfParent(height) == <<parent, 0>>

\* Hash of the parent block and the height being mined.
derive_hamiltonian_seed(height) == <<parent, height>>

coinbase_txid(height) == <<"coinbase", height, parent>>

compute_proof_hash(proof, miner, height) == <<proof, miner, height>>

Threshold == CurrentDifficulty * ENERGY_SCALE

\* validate_unsigned, which the executor also runs before the dispatch.
ValidateUnsigned(miner, proof) ==
    /\ proof.energy < Threshold + POOL_MARGIN
    /\ CurrentHeight + 1 > LastMinerBlock[miner]

\* The checks of the dispatch that read the state.
ProofAccepted(miner, proof, height) ==
    /\ proof.seed = derive_hamiltonian_seed(height)             \* InvalidHamiltonianSeed
    /\ <<height, compute_proof_hash(proof, miner, height)>>
           \notin RecentProofHashes                             \* DuplicateProof
    /\ height > LastMinerBlock[miner]                           \* MinerRateLimited
    /\ proof.energy < Threshold + ENERGY_VALIDATION_TOLERANCE * ENERGY_SCALE
    /\ proof.computed < Threshold                               \* EnergyAboveDifficulty

\* The phase advances by a fixed angle, modulo a full turn.
\* Fault: without the modulo.
UnreducedTheta == NetworkTheta + THETA_ADVANCE_PER_BLOCK
NextTheta == (NetworkTheta + THETA_ADVANCE_PER_BLOCK) % TWO_PI_SCALED

\* The loop that prunes proof hashes, after n of its passes: pass i clears
\* the entries of the i-th oldest height.  clear_prefix reports the entries
\* that were stored before this block (their seed has another parent), as
\* unique keys and again as loops, and the counter loses both; a pass that
\* reports none ends the loop.
PrunedAfter(hashes, n) ==
    {e \in hashes : e[1] \in ProofHashOldestBlock .. ProofHashOldestBlock + n - 1}
ReportedAfter(hashes, n) == {e \in PrunedAfter(hashes, n) : e[2][1].seed[1] # parent}
CountAfter(hashes, count, n) == SatSub(count, 2 * Cardinality(ReportedAfter(hashes, n)))
LastPassEmpty(hashes, n) ==
    n > 0 /\ ReportedAfter(hashes, n) = ReportedAfter(hashes, n - 1)
LoopEnds(hashes, count, n) ==
    \/ CountAfter(hashes, count, n) <= MAX_RECENT_PROOF_HASHES
    \/ LastPassEmpty(hashes, n)

RecordProofHash(entry) ==
    LET hashes == RecentProofHashes \cup {entry}
        count  == RecentProofHashCount + 1
    IN  \E n \in 0 .. count :
            /\ LoopEnds(hashes, count, n)
            /\ \A m \in 0 .. n - 1 : ~ LoopEnds(hashes, count, m)
            /\ RecentProofHashes' = hashes \ PrunedAfter(hashes, n)
            /\ RecentProofHashCount' = CountAfter(hashes, count, n)
            /\ ProofHashOldestBlock' = ProofHashOldestBlock + n

\* Fault: the window is one height too long.
RecordSolutionLongWindow(proof, height) ==
    SusySolutions' =
        Remove(Insert(SusySolutions, height,
                      [seed |-> proof.seed, energy |-> proof.computed]),
               IF height > SUSY_RETENTION_WINDOW
               THEN {height - SUSY_RETENTION_WINDOW - 1} ELSE {})

\* SusySolutions keeps the verified energy and drops one old height.
RecordSolution(proof, height) ==
    SusySolutions' =
        Remove(Insert(SusySolutions, height,
                      [seed |-> proof.seed, energy |-> proof.computed]),
               IF height > SUSY_RETENTION_WINDOW
               THEN {height - SUSY_RETENTION_WINDOW} ELSE {})

\* submit_mining_proof.
SubmitMiningProof(miner, proof) ==
    LET height == CurrentHeight + 1
    IN  /\ ValidateUnsigned(miner, proof)
        /\ ProofAccepted(miner, proof, height)
        /\ NetworkTheta' = NextTheta
        /\ OnBlockAuthored(height)
        /\ MintCoinbase(coinbase_txid(height), miner, calculate_reward(height), height)
        /\ adjust_difficulty(now, height)
        /\ RecordSolution(proof, height)
        /\ RecordProofHash(<<height, compute_proof_hash(proof, miner, height)>>)
        /\ LastMinerBlock' = [LastMinerBlock EXCEPT ![miner] = height]
        /\ BlocksMined' = BlocksMined + 1

=============================================================================
