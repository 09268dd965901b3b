SPECIFICATION Spec
CONSTANTS
    Letters = {"a", "b"}
    MaxLine = 4
    Prealloc = 1
    Grow = 2
    Capacity = 2
    Backlog = 4
    Outputs <- EditOutputs
    Prompts <- EditPrompts
    Keys = {"b"}
    Widths = {2}
    Height = 1
    MaxAbsolute = 2
    MaxScroll = 1
INVARIANTS
    CursorInEditable
    BlockLargeEnough
PROPERTIES
    PromptKept
