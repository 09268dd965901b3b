SPECIFICATION Spec
CONSTANTS
    Letters = {"a", "b"}
    MaxLine = 3
    Prealloc = 1
    Grow = 1
    Capacity = 5
    Backlog = 20
    Outputs <- SplitOutputs
    Prompts = {}
    Keys = {}
    Widths = {2}
    Height = 2
    MaxAbsolute = 3
    MaxScroll = 0
INVARIANTS
    WrittenInOrder
