----------------------------- MODULE MCRuntime -----------------------------
(***************************************************************************)
(* The runtime for TLC: genesis states, and bounds on the counters that    *)
(* would otherwise grow forever, added to the guard of every action.       *)
(***************************************************************************)
EXTENDS Runtime, TLC

CONSTANTS
    alice, bob, ka,
    MaxNumber,          \* blocks
    MaxTx,              \* transactions and refunds
    MaxMined,           \* mined heights
    MaxSteps,           \* transactions and mined heights together
    MaxKeyCalls,        \* registrations and (twice) revocations
    MaxRequests         \* reversal requests

TwoAddresses == {alice, bob}
AliceKey == (ka :> alice)
NoKey == NoEntries

\* alice owns an ordinary coin and a coinbase.
LedgerGenesis ==
    (<<<<"genesis", 1>>, 0>> :> [address |-> alice, amount |-> 3, block_height |-> 1,
                                 is_coinbase |-> FALSE])
    @@ (<<<<"genesis", 2>>, 0>> :> [address |-> alice, amount |-> 2, block_height |-> 1,
                                    is_coinbase |-> TRUE])

\* alice owns one ordinary coin.
ReversalGenesis ==
    (<<<<"genesis", 1>>, 0>> :> [address |-> alice, amount |-> 3, block_height |-> 1,
                                 is_coinbase |-> FALSE])

MiningGenesis == NoEntries

Bounded ==
    /\ number <= MaxNumber
    /\ TxCount <= MaxTx
    /\ BlocksMined <= MaxMined
    /\ TxCount + BlocksMined <= MaxSteps
    /\ TotalKeys + 2 * Cardinality(RevokedKeys) <= MaxKeyCalls
    /\ TotalRequests <= MaxRequests

MCNext ==
    \/ StartBlock /\ Bounded'
    \/ CallRegisterKey /\ Bounded'
    \/ CallSudoRegisterKey /\ Bounded'
    \/ CallRevokeKey /\ Bounded'
    \/ CallTransaction /\ Bounded'
    \/ CallMiningProof /\ Bounded'
    \/ CallReversalRequest /\ Bounded'
    \/ CallApprove /\ Bounded'
    \/ CallExpire /\ Bounded'
    \/ CallAddGovernor /\ Bounded'
    \/ CallRemoveGovernor /\ Bounded'
    \/ CallSetWindow /\ Bounded'
    \/ CallSetThreshold /\ Bounded'
    \/ CallPrune /\ Bounded'

MCSpec == Init /\ [][MCNext]_vars
=============================================================================
