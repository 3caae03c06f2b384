CONSTANTS
    NONCE_OVERFLOW_THRESHOLD = 2
    MaxConnections = 2
    MaxEncapsulations = 2
    MaxRekeys = 1
    MaxMessages = 3
SPECIFICATION Spec
CHECK_DEADLOCK FALSE
INVARIANTS TypeOK NoncesAreUnique KeyUsesBounded
PROPERTIES ImplementsChannel FramesArrive
