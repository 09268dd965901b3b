SPECIFICATION Spec
CONSTANT QueueSize = 2
INVARIANTS
    ModifiersCount
    IconFollows
