SPECIFICATION Spec
CONSTANTS
    Areas = 2
    ByteLen <- MCByteLen
    BlocksPerATB = 2
    MaxBlocks = 3
    LockDepths = 2
INVARIANTS
    ObjectsIntact
    FailsOnlyWhenFull
    HintsSound
    FailsAfterCollecting
PROPERTIES
    CollectionReclaims
