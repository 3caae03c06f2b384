SPECIFICATION MCSpec
CONSTANTS
    alice = alice
    bob = bob
    ka = ka
    Address <- TwoAddresses
    PublicKey = {}
    derive_address <- NoKey
    MAX_BALANCE = 100
    MaxInputs = 2
    MaxOutputs = 2
    COINBASE_MATURITY = 2
    HEIGHT_OFFSET = 1
    GenesisUtxos <- MiningGenesis
    GenesisHeight = 0
    OutputAmount = {2, 15}
    INITIAL_REWARD = 4
    HALVING_INTERVAL = 3
    PHI_SCALED = 1618
    PHI_DENOM = 1000
    MAX_ERA = 2
    TAIL_EMISSION_REWARD = 1
    MAX_SUPPLY = 20
    ADDITIONAL_EMITTED = 3
    InitialEmitted = 0
    INITIAL_DIFFICULTY = 100
    GenesisDifficulty = 100
    DIFFICULTY_FLOOR = 88
    DIFFICULTY_CEILING = 115
    DIFFICULTY_MEANINGFUL_MAX = 105
    DIFFICULTY_WINDOW = 3
    TARGET_BLOCK_TIME_MS = 10
    MIN_ADJUSTMENT_FACTOR = 90
    MAX_ADJUSTMENT_FACTOR = 110
    DifficultyResetHeights = {3}
    Miner = {alice, bob}
    Energy = {85, 105}
    ENERGY_SCALE = 1
    ENERGY_VALIDATION_TOLERANCE = 20
    POOL_MARGIN = 40
    THETA_ADVANCE_PER_BLOCK = 3
    TWO_PI_SCALED = 7
    SUSY_RETENTION_WINDOW = 2
    MAX_RECENT_PROOF_HASHES = 2
    MAX_GOVERNORS = 2
    DEFAULT_REVERSAL_WINDOW = 1
    DEFAULT_APPROVAL_THRESHOLD = 1
    MIN_SCAN = 2
    GenesisGovernors = {}
    GenesisWindow = 0
    GenesisThreshold = 0
    TimeStep = {5, 15}
    SudoKeyArg = {}
    UpgradeArg = {TRUE, FALSE}
    SenderArg = {}
    GovernorArg = {}
    WindowArg = {}
    ThresholdArg = {}
    MaxAgeArg = {}
    MaxEntriesArg = {}
    MaxNumber = 3
    MaxTx = 0
    MaxMined = 4
    MaxSteps = 4
    MaxKeyCalls = 0
    MaxRequests = 0
INVARIANTS
    WorkRewardedOnce
    OneCoinbasePerHeight
    SolutionsBounded
    ReplayGuardsSubsumed
PROPERTIES
    DifficultyFollowsBlockTimes
CHECK_DEADLOCK FALSE
