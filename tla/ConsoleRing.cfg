SPECIFICATION Spec
CONSTANTS
    Letters = {"a", "b"}
    MaxLine = 3
    Prealloc = 1
    Grow = 1
    Capacity = 3
    Backlog = 4
    Outputs <- RingOutputs
    Prompts <- RingPrompts
    Keys = {}
    Widths = {1, 2}
    Height = 2
    MaxAbsolute = 5
    MaxScroll = 0
INVARIANTS
    TypeOK
    RingOwnership
    RowAccounting
    LayoutFresh
    BacklogBound
PROPERTIES
    RefinesScrollback
    CallsReturn
