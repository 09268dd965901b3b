SPECIFICATION Spec
CONSTANTS
    Count = 6
    StackSize = 1
    Heaps <- MCHeaps
    RootLists <- MCRootLists
INVARIANTS
    NothingInUseFreed
    NoGarbageKept
PROPERTIES
    CollectionEnds
CHECK_DEADLOCK FALSE
