CONSTANTS
    MaxThreads = 2
    Configs <- TwoThreads
    CHANNEL_CAPACITY = 4
    GENESIS_HEIGHT = 1
    HEIGHT_OFFSET = 2
    MaxHeights <- SmallHeights
    MaxPeerBlocks = 0
SPECIFICATION Spec
CHECK_DEADLOCK FALSE
PROPERTIES HeightAdvances
