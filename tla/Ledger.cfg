SPECIFICATION MCSpec
CONSTANTS
    alice = alice
    bob = bob
    ka = ka
    Address <- TwoAddresses
    PublicKey = {ka}
    derive_address <- AliceKey
    MAX_BALANCE = 15
    MaxInputs = 2
    MaxOutputs = 2
    COINBASE_MATURITY = 1
    HEIGHT_OFFSET = 1
    GenesisUtxos <- LedgerGenesis
    GenesisHeight = 1
    OutputAmount = {2, 15}
    INITIAL_REWARD = 4
    HALVING_INTERVAL = 3
    PHI_SCALED = 1618
    PHI_DENOM = 1000
    MAX_ERA = 2
    TAIL_EMISSION_REWARD = 1
    MAX_SUPPLY = 12
    ADDITIONAL_EMITTED = 3
    InitialEmitted = 6
    INITIAL_DIFFICULTY = 100
    GenesisDifficulty = 100
    DIFFICULTY_FLOOR = 50
    DIFFICULTY_CEILING = 1000
    DIFFICULTY_MEANINGFUL_MAX = 200
    DIFFICULTY_WINDOW = 2
    TARGET_BLOCK_TIME_MS = 10
    MIN_ADJUSTMENT_FACTOR = 90
    MAX_ADJUSTMENT_FACTOR = 110
    DifficultyResetHeights = {}
    Miner = {alice}
    Energy = {1}
    ENERGY_SCALE = 1
    ENERGY_VALIDATION_TOLERANCE = 1
    POOL_MARGIN = 10
    THETA_ADVANCE_PER_BLOCK = 4
    TWO_PI_SCALED = 7
    SUSY_RETENTION_WINDOW = 2
    MAX_RECENT_PROOF_HASHES = 2
    MAX_GOVERNORS = 2
    DEFAULT_REVERSAL_WINDOW = 1
    DEFAULT_APPROVAL_THRESHOLD = 1
    MIN_SCAN = 2
    GenesisGovernors = {}
    GenesisWindow = 0
    GenesisThreshold = 0
    TimeStep = {10}
    SudoKeyArg = {alice, bob}
    UpgradeArg = {TRUE, FALSE}
    SenderArg = {}
    GovernorArg = {}
    WindowArg = {0}
    ThresholdArg = {}
    MaxAgeArg = {}
    MaxEntriesArg = {}
    MaxNumber = 2
    MaxTx = 2
    MaxMined = 2
    MaxSteps = 3
    MaxKeyCalls = 3
    MaxRequests = 0
INVARIANTS
    TypeOK
    NoResurrection
    CachesAgree
    SupplyAccounted
    KeysConsistent
PROPERTIES
    RevocationIsFinal
CHECK_DEADLOCK FALSE
