------------------------------ MODULE Economics ------------------------------
(***************************************************************************)
(* pallet qbc-economics: the phi-halving block reward and the emission     *)
(* counter that caps the supply.                                           *)
(***************************************************************************)
EXTENDS StorageMap

CONSTANTS
    INITIAL_REWARD, HALVING_INTERVAL,
    PHI_SCALED, PHI_DENOM,      \* the golden ratio as a fraction
    MAX_ERA,                    \* cap of the halving loop
    TAIL_EMISSION_REWARD,       \* floor of the reward
    MAX_SUPPLY,
    ADDITIONAL_EMITTED,         \* the one-shot supply migration
    InitialEmitted              \* initial_emitted of the genesis

ASSUME EconomicsAssumption ==
    /\ INITIAL_REWARD \in Nat /\ TAIL_EMISSION_REWARD \in Nat
    /\ HALVING_INTERVAL \in Nat \ {0}
    /\ PHI_DENOM \in Nat \ {0} /\ PHI_SCALED \in Nat /\ PHI_SCALED > PHI_DENOM
    /\ MAX_ERA \in Nat
    /\ MAX_SUPPLY \in QbcBalance
    /\ ADDITIONAL_EMITTED \in QbcBalance
    /\ InitialEmitted \in 0 .. MAX_SUPPLY
    /\ MAX_SUPPLY + ADDITIONAL_EMITTED <= MAX_BALANCE   \* far below u128::MAX

VARIABLES
    TotalEmitted,           \* units emitted so far, genesis included
    CurrentEra, EraStartBlock,
    SupplyMigrationDone

economicsVars == <<TotalEmitted, CurrentEra, EraStartBlock, SupplyMigrationDone>>

EconomicsTypeOK ==
    /\ TotalEmitted \in QbcBalance
    /\ CurrentEra \in Nat
    /\ EraStartBlock \in Nat
    /\ SupplyMigrationDone \in BOOLEAN

EconomicsInit ==
    /\ TotalEmitted = InitialEmitted
    /\ CurrentEra = 0
    /\ EraStartBlock = 0
    /\ SupplyMigrationDone = FALSE

\* on_runtime_upgrade: once, count the blocks mined before the fork.  There
\* is no cap here, unlike in on_block_authored.
EconomicsOnRuntimeUpgrade ==
    /\ TotalEmitted' = IF SupplyMigrationDone THEN TotalEmitted
                       ELSE Saturate(TotalEmitted + ADDITIONAL_EMITTED)
    /\ SupplyMigrationDone' = TRUE
    /\ UNCHANGED <<CurrentEra, EraStartBlock>>

-----------------------------------------------------------------------------
Era(height) == height \div HALVING_INTERVAL

\* One division by phi, split so that no intermediate product overflows, with
\* the short circuit below one unit (its break is a fixed point of this step).
DivideByPhi(reward) ==
    LET next == (reward \div PHI_SCALED) * PHI_DENOM
                  + ((reward % PHI_SCALED) * PHI_DENOM) \div PHI_SCALED
    IN  IF next < PHI_DENOM THEN PHI_DENOM ELSE next

\* The scaled reward after n divisions.
ScaledReward[n \in 0 .. MAX_ERA] ==
    IF n = 0 THEN INITIAL_REWARD * PHI_DENOM ELSE DivideByPhi(ScaledReward[n - 1])

\* The reward of an era before the tail emission and the supply cap.
PhiReward(era) ==
    IF era = 0 THEN INITIAL_REWARD
    ELSE LET whole == ScaledReward[IF era < MAX_ERA THEN era ELSE MAX_ERA] \div PHI_DENOM
         IN  IF whole < 1 THEN 1 ELSE whole

\* calculate_reward: at least the tail emission, at most what is left.
calculate_reward(height) ==
    LET phi       == PhiReward(Era(height))
        base      == IF phi < TAIL_EMISSION_REWARD THEN TAIL_EMISSION_REWARD ELSE phi
        remaining == SatSub(MAX_SUPPLY, TotalEmitted)
    IN  IF base \in 0 .. remaining THEN base ELSE remaining

\* on_block_authored: count the reward, start a new era when it is due.
OnBlockAuthored(height) ==
    LET total == TotalEmitted + calculate_reward(height)
    IN  /\ TotalEmitted' = IF total <= MAX_SUPPLY THEN total ELSE MAX_SUPPLY
        /\ CurrentEra' = IF Era(height) > CurrentEra THEN Era(height) ELSE CurrentEra
        /\ EraStartBlock' = IF Era(height) > CurrentEra THEN height ELSE EraStartBlock
        /\ UNCHANGED SupplyMigrationDone

=============================================================================
