CONSTANTS
    MaxThreads = 2
    Configs <- SmallNodes
    CHANNEL_CAPACITY = 2
    GENESIS_HEIGHT = 1
    HEIGHT_OFFSET = 2
    MaxHeights <- SmallHeights
    MaxPeerBlocks = 2
SPECIFICATION Spec
CHECK_DEADLOCK FALSE
INVARIANTS TypeOK MarkIsRemembered PoolProofServed SoloBlocksAdvance
PROPERTIES PoolEmpties MiningResumes SoloMines
